---------------------------- MODULE DemandDriven ----------------------------
(***************************************************************************)
(* The demand path of DEC-027: the registry, called by any mix of gateway  *)
(* and MCP consumers, composed with IngestionService in demand_driven mode *)
(* and the channel set of the CoinbaseAdapter                              *)
(* (packages/ingestion/src/ingestion.service.ts).  The demand callback     *)
(* runs inside the registry call, so each action is one registry call and  *)
(* its callbacks.  What subscribeChannels does to the socket is the        *)
(* subject of module Upstream; here it is its effect on the channel set.   *)
(***************************************************************************)
EXTENDS Registry

CONSTANT Configured    \* the book topics of runtime.symbols

ASSUME ConfiguredAssumption == Configured \subseteq Topics

VARIABLES attached,           \* demandUnsubscribe # null
          subscribedChannels  \* the adapter's channels, as topics

vars == <<consumers, consumerSubs, topicConsumers, demandChanges,
          attached, subscribedChannels>>

TypeOK ==
  /\ RegistryTypeOK
  /\ attached \in BOOLEAN
  /\ subscribedChannels \subseteq Configured

\* After bootstrapDemandDriven: the callback is attached before the servers
\* of either surface can hand a consumer to the registry.
Init ==
  /\ RegistryInit
  /\ attached = TRUE
  /\ subscribedChannels = {}

\* Without the test on runtime.symbols.
Acted_AnySymbol(changes, delta, count) ==
  {d.topic : d \in {e \in changes : e.delta = delta /\ e.count = count}}

\* The topics of the changes the callback acts on with a given delta.
Acted(changes, delta, count) ==
  {d.topic : d \in {e \in changes : e.delta = delta /\ e.count = count /\ e.topic \in Configured}}

\* The callback without its second branch.
OnDemandChange_OpensOnly ==
  subscribedChannels' = IF attached THEN subscribedChannels \cup Acted(demandChanges', 1, 1)
                        ELSE subscribedChannels

\* The demand callback, over the changes of one call: the first consumer of a
\* configured topic opens its channel, the last to leave closes it, a topic
\* that is not configured is ignored.
OnDemandChange ==
  subscribedChannels' =
    IF attached
    THEN (subscribedChannels \cup Acted(demandChanges', 1, 1)) \ Acted(demandChanges', -1, 0)
    ELSE subscribedChannels

Register(c) == RegisterConsumer(c) /\ OnDemandChange /\ UNCHANGED attached

ConsumerSubscribes(c, t) == Subscribe(c, t) /\ OnDemandChange /\ UNCHANGED attached

\* The 1 -> 0 edge read before the consumer is taken out of the topic.
ConsumerUnsubscribes_EdgeTooEarly(c, t) ==
  /\ c \in DOMAIN consumerSubs
  /\ t \in consumerSubs[c]
  /\ consumerSubs' = [consumerSubs EXCEPT ![c] = @ \ {t}]
  /\ topicConsumers' = WithoutConsumer(c, {t})
  /\ demandChanges' = IF DemandFor(t) <= 2 THEN {LastConsumerLeft(t)} ELSE {}
  /\ OnDemandChange
  /\ UNCHANGED <<consumers, attached>>

ConsumerUnsubscribes(c, t) == Unsubscribe(c, t) /\ OnDemandChange /\ UNCHANGED attached

Remove(c) == RemoveConsumer(c) /\ OnDemandChange /\ UNCHANGED attached

\* IngestionService.onModuleDestroy: the callback goes first, then the adapter
\* stops and forgets its channels.  The consumers are still there.
IngestionStops ==
  /\ attached
  /\ attached' = FALSE
  /\ subscribedChannels' = {}
  /\ demandChanges' = {}
  /\ UNCHANGED <<consumers, consumerSubs, topicConsumers>>

Next ==
  \/ \E c \in Consumers : Register(c) \/ Remove(c)
  \/ \E c \in Consumers, t \in Topics : ConsumerSubscribes(c, t) \/ ConsumerUnsubscribes(c, t)
  \/ IngestionStops

Spec == Init /\ [][Next]_vars

-----------------------------------------------------------------------------
(* The upstream carries exactly the configured topics somebody holds, at   *)
(* every moment until ingestion stops: no demand is lost and no channel    *)
(* outlives its last consumer.  The adapter learns of demand only through  *)
(* edges, so one edge lost, doubled or emitted too early breaks this for   *)
(* as long as the topic lives.                                             *)
ChannelsFollowDemand ==
  attached => subscribedChannels = Configured \cap ActiveTopics

\* A call emits a change for a topic exactly when the topic changes between no
\* consumer and some, and the change carries the count that holds afterwards
\* (RegistryDemandChange in packages/core/src/registry.ts).
EdgeTriggered ==
  [][\A t \in Topics :
       /\ (SubscribersOf(t) = {}) # (SubscribersOf(t)' = {})
            <=> \E d \in demandChanges' : d.topic = t
       /\ \A d \in demandChanges' : d.topic = t =>
            /\ d.count = DemandFor(t)'
            /\ d.count - d.delta = DemandFor(t)]_vars

-----------------------------------------------------------------------------
Interest == {i \in Consumers \X Topics : i[1] \in consumers /\ i[2] \in consumerSubs[i[1]]}

Abstract == INSTANCE UpstreamDemand WITH
  interest <- Interest, serving <- attached, channels <- subscribedChannels

\* The registry's edges and the callback together implement the promise of
\* DEC-027: every step of the code is one step of UpstreamDemand.
ImplementsUpstreamDemand == Abstract!Spec
=============================================================================
