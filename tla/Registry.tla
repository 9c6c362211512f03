------------------------------ MODULE Registry ------------------------------
(***************************************************************************)
(* InMemoryRegistry (packages/core-memory/src/in-memory-registry.ts): the  *)
(* consumers of both surfaces, who is subscribed to what, and the demand   *)
(* changes that drive the upstream.                                        *)
(*                                                                         *)
(* The three Maps are kept as the code keeps them: consumerSubs and        *)
(* topicConsumers are functions whose DOMAIN is the set of keys of the     *)
(* Map.  Demand handlers run synchronously inside the call that changes    *)
(* the demand, so an action of this module leaves what it emitted in       *)
(* demandChanges, and a module that composes the registry with a handler   *)
(* conjoins the handler's effect on demandChanges' to the same step.  The  *)
(* order in which unsubscribeAll walks one consumer's topics is            *)
(* abstracted: its changes are about different topics.                     *)
(***************************************************************************)
EXTENDS Integers, FiniteSets

CONSTANTS Consumers,   \* consumer ids (randomUUID() in the callers)
          Topics       \* resource URIs

VARIABLES consumers,       \* keys of this.consumers
          consumerSubs,    \* id -> set of topics
          topicConsumers,  \* topic -> non-empty set of ids
          demandChanges    \* what the last call passed to emitDemand

registryVars == <<consumers, consumerSubs, topicConsumers, demandChanges>>

\* The two changes emitDemand is ever called with.
FirstConsumer(t) == [topic |-> t, count |-> 1, delta |-> 1]
LastConsumerLeft(t) == [topic |-> t, count |-> 0, delta |-> -1]

DemandChange == {FirstConsumer(t) : t \in Topics} \cup {LastConsumerLeft(t) : t \in Topics}

RegistryTypeOK ==
  /\ consumers \subseteq Consumers
  /\ consumerSubs \in [consumers -> SUBSET Topics]
  /\ DOMAIN topicConsumers \subseteq Topics
  /\ topicConsumers \in [DOMAIN topicConsumers -> SUBSET Consumers]
  /\ demandChanges \subseteq DemandChange

RegistryInit ==
  /\ consumers = {}
  /\ consumerSubs = [c \in {} |-> {}]
  /\ topicConsumers = [t \in {} |-> {}]
  /\ demandChanges = {}

-----------------------------------------------------------------------------
(* Reads *)

SubscribersOf(t) == IF t \in DOMAIN topicConsumers THEN topicConsumers[t] ELSE {}

\* demandFor(uri)
DemandFor(t) == Cardinality(SubscribersOf(t))

ActiveTopics == DOMAIN topicConsumers

\* consumersFor(uri): an id with no registered handle is passed over.
ConsumersFor(t) == SubscribersOf(t) \cap consumers

\* status(), for consumers of one surface; the order of byTopic is left out.
Status ==
  [consumersBySurface |-> Cardinality(consumers),
   totalSubscriptions |-> Cardinality({ct \in Consumers \X ActiveTopics : ct[1] \in topicConsumers[ct[2]]}),
   byTopic |-> [t \in ActiveTopics |-> Cardinality(topicConsumers[t])]]

-----------------------------------------------------------------------------
(* Writes *)

\* A second registration of an id throws and changes nothing.
RegisterConsumer(c) ==
  /\ c \notin consumers
  /\ consumers' = consumers \cup {c}
  /\ consumerSubs' = [d \in consumers \cup {c} |-> IF d = c THEN {} ELSE consumerSubs[d]]
  /\ demandChanges' = {}
  /\ UNCHANGED topicConsumers

\* An unknown consumer throws; a repeated subscription returns early.
Subscribe(c, t) ==
  /\ c \in DOMAIN consumerSubs
  /\ t \notin consumerSubs[c]
  /\ consumerSubs' = [consumerSubs EXCEPT ![c] = @ \cup {t}]
  /\ topicConsumers' = [u \in DOMAIN topicConsumers \cup {t} |->
                          IF u = t THEN SubscribersOf(t) \cup {c} ELSE topicConsumers[u]]
  /\ demandChanges' = IF SubscribersOf(t) = {} THEN {FirstConsumer(t)} ELSE {}
  /\ UNCHANGED consumers

\* The size is looked at before the consumer is taken out.
LeftEmpty_SizeReadFirst(c, ts) == {t \in ts \cap DOMAIN topicConsumers : topicConsumers[t] = {}}

\* The topics of ts whose set becomes empty when c is taken out of it; their
\* entry is deleted and the change emitted.
LeftEmpty(c, ts) == {t \in ts \cap DOMAIN topicConsumers : topicConsumers[t] \ {c} = {}}

\* topicConsumers once c has left the topics ts.
WithoutConsumer(c, ts) ==
  [t \in DOMAIN topicConsumers \ LeftEmpty(c, ts) |->
     IF t \in ts THEN topicConsumers[t] \ {c} ELSE topicConsumers[t]]

\* unsubscribe of each topic of ts in turn
LeaveTopics(c, ts) ==
  /\ topicConsumers' = WithoutConsumer(c, ts)
  /\ demandChanges' = {LastConsumerLeft(t) : t \in LeftEmpty(c, ts)}

\* A topic the consumer does not hold, or an unknown consumer, returns early.
Unsubscribe(c, t) ==
  /\ c \in DOMAIN consumerSubs
  /\ t \in consumerSubs[c]
  /\ consumerSubs' = [consumerSubs EXCEPT ![c] = @ \ {t}]
  /\ LeaveTopics(c, {t})
  /\ UNCHANGED consumers

\* The indices of a removed consumer are deleted but its topics are not left.
RemoveConsumer_NoUnsubscribeAll(c) ==
  /\ c \in consumers
  /\ consumers' = consumers \ {c}
  /\ consumerSubs' = [d \in consumers \ {c} |-> consumerSubs[d]]
  /\ demandChanges' = {}
  /\ UNCHANGED topicConsumers

\* The consumer's entry of consumerSubs is emptied but not deleted.
RemoveConsumer_KeepsEntry(c) ==
  /\ c \in consumers
  /\ consumers' = consumers \ {c}
  /\ consumerSubs' = [consumerSubs EXCEPT ![c] = {}]
  /\ LeaveTopics(c, consumerSubs[c])

\* unsubscribeAll and then the deletion from both Maps; an unknown id returns
\* early.
RemoveConsumer(c) ==
  /\ c \in consumers
  /\ consumers' = consumers \ {c}
  /\ consumerSubs' = [d \in DOMAIN consumerSubs \ {c} |-> consumerSubs[d]]
  /\ LeaveTopics(c, consumerSubs[c])

-----------------------------------------------------------------------------
(* The two indices tell the same story (the class comment calls it         *)
(* lockstep): a registered consumer holds a topic exactly when the topic   *)
(* lists the consumer, no topic lists a consumer that is gone, and no      *)
(* topic is kept with nobody in it.  removeConsumer, unsubscribe and       *)
(* subscribe each write both Maps in separate statements.                  *)
IndicesAgree ==
  /\ DOMAIN consumerSubs = consumers
  /\ \A c \in consumers, t \in Topics : t \in consumerSubs[c] <=> c \in SubscribersOf(t)
  /\ \A t \in ActiveTopics : topicConsumers[t] # {} /\ ConsumersFor(t) = topicConsumers[t]
=============================================================================
