------------------------- MODULE DemandDrivenProofs -------------------------
(***************************************************************************)
(* What DemandDriven guarantees for any set of consumers, topics and       *)
(* configured topics.                                                      *)
(***************************************************************************)
EXTENDS DemandDriven, FiniteSetTheorems, TLAPS

USE ConfiguredAssumption

-----------------------------------------------------------------------------
(* The registry                                                            *)

(* A topic is listed exactly when it has a subscriber.                     *)
LEMMA ActiveIffSubscribed ==
  ASSUME IndicesAgree, NEW t
  PROVE  t \in ActiveTopics <=> SubscribersOf(t) # {}
  BY DEF IndicesAgree, ActiveTopics, SubscribersOf

(* Each of the four writing calls of the registry keeps the types of its   *)
(* Maps.                                                                   *)
LEMMA RegistryStepKeepsTypes ==
  ASSUME RegistryTypeOK, IndicesAgree, NEW c \in Consumers
  PROVE  /\ RegisterConsumer(c) => RegistryTypeOK'
         /\ RemoveConsumer(c) => RegistryTypeOK'
         /\ \A t \in Topics : Subscribe(c, t) \/ Unsubscribe(c, t) => RegistryTypeOK'
  <1>1. RegisterConsumer(c) => RegistryTypeOK'
    BY DEF RegisterConsumer, RegistryTypeOK, IndicesAgree
  <1>2. RemoveConsumer(c) => RegistryTypeOK'
    BY DEF RemoveConsumer, LeaveTopics, WithoutConsumer, LeftEmpty, RegistryTypeOK, IndicesAgree,
           DemandChange
  <1>3. ASSUME NEW t \in Topics
        PROVE  Subscribe(c, t) => RegistryTypeOK'
    BY DEF Subscribe, SubscribersOf, RegistryTypeOK, IndicesAgree, DemandChange
  <1>4. ASSUME NEW t \in Topics
        PROVE  Unsubscribe(c, t) => RegistryTypeOK'
    BY DEF Unsubscribe, LeaveTopics, WithoutConsumer, LeftEmpty, RegistryTypeOK, IndicesAgree,
           DemandChange
  <1>5. QED
    BY <1>1, <1>2, <1>3, <1>4

(* Each of them keeps the two indices in lockstep.                         *)
LEMMA RegistryStepKeepsIndices ==
  ASSUME RegistryTypeOK, IndicesAgree, NEW c \in Consumers
  PROVE  /\ RegisterConsumer(c) => IndicesAgree'
         /\ RemoveConsumer(c) => IndicesAgree'
         /\ \A t \in Topics : Subscribe(c, t) \/ Unsubscribe(c, t) => IndicesAgree'
  <1>1. RegisterConsumer(c) => IndicesAgree'
    BY DEF RegisterConsumer, RegistryTypeOK, IndicesAgree, SubscribersOf, ActiveTopics, ConsumersFor
  <1>2. RemoveConsumer(c) => IndicesAgree'
    BY DEF RemoveConsumer, LeaveTopics, WithoutConsumer, LeftEmpty, RegistryTypeOK, IndicesAgree,
           SubscribersOf, ActiveTopics, ConsumersFor
  <1>3. ASSUME NEW t \in Topics
        PROVE  Subscribe(c, t) => IndicesAgree'
    BY DEF Subscribe, RegistryTypeOK, IndicesAgree, SubscribersOf, ActiveTopics, ConsumersFor
  <1>4. ASSUME NEW t \in Topics
        PROVE  Unsubscribe(c, t) => IndicesAgree'
    BY DEF Unsubscribe, LeaveTopics, WithoutConsumer, LeftEmpty, RegistryTypeOK, IndicesAgree,
           SubscribersOf, ActiveTopics, ConsumersFor
  <1>5. QED
    BY <1>1, <1>2, <1>3, <1>4

(* Each registry call emits a change for exactly the topics that cross     *)
(* between no consumer and some.                                           *)
LEMMA EdgesOfACall ==
  ASSUME RegistryTypeOK, IndicesAgree, NEW c \in Consumers,
         \/ RegisterConsumer(c)
         \/ RemoveConsumer(c)
         \/ \E t \in Topics : Subscribe(c, t) \/ Unsubscribe(c, t)
  PROVE  /\ demandChanges' \subseteq DemandChange
         /\ \A t \in Topics :
              /\ FirstConsumer(t) \in demandChanges' <=> t \notin ActiveTopics /\ t \in ActiveTopics'
              /\ LastConsumerLeft(t) \in demandChanges' <=> t \in ActiveTopics /\ t \notin ActiveTopics'
  <1>2. CASE RegisterConsumer(c)
    BY <1>2 DEF RegisterConsumer, ActiveTopics
  <1>3. ASSUME NEW ts, ts \subseteq Topics, LeaveTopics(c, ts)
        PROVE  /\ demandChanges' \subseteq DemandChange
               /\ \A u \in Topics :
                    /\ FirstConsumer(u) \in demandChanges' <=> u \notin ActiveTopics /\ u \in ActiveTopics'
                    /\ LastConsumerLeft(u) \in demandChanges' <=> u \in ActiveTopics /\ u \notin ActiveTopics'
    <2>1. /\ LeftEmpty(c, ts) \subseteq Topics \cap ActiveTopics
          /\ ActiveTopics' = ActiveTopics \ LeftEmpty(c, ts)
      BY <1>3 DEF LeaveTopics, WithoutConsumer, LeftEmpty, ActiveTopics
    <2>2. demandChanges' = {LastConsumerLeft(t) : t \in LeftEmpty(c, ts)}
      BY <1>3 DEF LeaveTopics
    <2>3. \A u \in Topics : LastConsumerLeft(u) \in demandChanges' <=> u \in LeftEmpty(c, ts)
      BY <2>1, <2>2 DEF FirstConsumer, LastConsumerLeft
    <2>4. \A u \in Topics : FirstConsumer(u) \notin demandChanges'
      <3>1. \A d \in demandChanges' : d.count = 0
        BY <2>2 DEF LastConsumerLeft
      <3>2. \A u \in Topics : FirstConsumer(u).count = 1
        BY DEF FirstConsumer
      <3> QED
        BY <3>1, <3>2
    <2>5. demandChanges' \subseteq DemandChange
      BY <2>1, <2>2 DEF DemandChange
    <2> QED
      BY <2>1, <2>3, <2>4, <2>5
  <1>4. CASE RemoveConsumer(c)
    BY <1>4, <1>3 DEF RemoveConsumer, RegistryTypeOK
  <1>5. ASSUME NEW t \in Topics, Unsubscribe(c, t)
        PROVE  /\ demandChanges' \subseteq DemandChange
               /\ \A u \in Topics :
                    /\ FirstConsumer(u) \in demandChanges' <=> u \notin ActiveTopics /\ u \in ActiveTopics'
                    /\ LastConsumerLeft(u) \in demandChanges' <=> u \in ActiveTopics /\ u \notin ActiveTopics'
    <2>1. {t} \subseteq Topics /\ LeaveTopics(c, {t})
      BY <1>5 DEF Unsubscribe
    <2> QED
      BY <2>1, <1>3
  <1>6. ASSUME NEW t \in Topics, Subscribe(c, t)
        PROVE  /\ demandChanges' \subseteq DemandChange
               /\ \A u \in Topics :
                    /\ FirstConsumer(u) \in demandChanges' <=> u \notin ActiveTopics /\ u \in ActiveTopics'
                    /\ LastConsumerLeft(u) \in demandChanges' <=> u \in ActiveTopics /\ u \notin ActiveTopics'
    <2>1. ActiveTopics' = ActiveTopics \cup {t}
      BY <1>6 DEF Subscribe, ActiveTopics
    <2>2. demandChanges' = IF t \in ActiveTopics THEN {} ELSE {FirstConsumer(t)}
      BY <1>6, ActiveIffSubscribed DEF Subscribe
    <2>3. demandChanges' \subseteq DemandChange
      BY <2>2 DEF DemandChange
    <2>4. \A u \in Topics : LastConsumerLeft(u) \notin demandChanges'
      BY <2>2 DEF FirstConsumer, LastConsumerLeft
    <2>5. \A u \in Topics : FirstConsumer(u) \in demandChanges' <=> u = t /\ t \notin ActiveTopics
      BY <2>2 DEF FirstConsumer, LastConsumerLeft
    <2> QED
      BY <2>1, <2>3, <2>4, <2>5
  <1> QED
    BY <1>2, <1>4, <1>5, <1>6

(* The same edges read as counts: a topic whose change is emitted had the  *)
(* count the change leads from and has the count it leads to.              *)
LEMMA EdgeCounts ==
  ASSUME RegistryTypeOK, IndicesAgree, NEW c \in Consumers, NEW t \in Topics,
         \/ RegisterConsumer(c)
         \/ RemoveConsumer(c)
         \/ \E u \in Topics : Subscribe(c, u) \/ Unsubscribe(c, u)
  PROVE  /\ FirstConsumer(t) \in demandChanges' => DemandFor(t) = 0 /\ DemandFor(t)' = 1
         /\ LastConsumerLeft(t) \in demandChanges' => DemandFor(t) = 1 /\ DemandFor(t)' = 0
  <1>1. /\ FirstConsumer(t) \in demandChanges' <=> t \notin ActiveTopics /\ t \in ActiveTopics'
        /\ LastConsumerLeft(t) \in demandChanges' <=> t \in ActiveTopics /\ t \notin ActiveTopics'
    BY EdgesOfACall
  <1>2. /\ t \notin ActiveTopics => SubscribersOf(t) = {}
        /\ t \notin ActiveTopics' => SubscribersOf(t)' = {}
    BY DEF SubscribersOf, ActiveTopics
  <1>3. ASSUME t \notin ActiveTopics, t \in ActiveTopics'
        PROVE  SubscribersOf(t)' = {c}
    <2>1. CASE \E u \in Topics : Subscribe(c, u)
      BY <1>3, <2>1 DEF Subscribe, SubscribersOf, ActiveTopics
    <2>2. CASE RegisterConsumer(c)
      BY <1>3, <2>2 DEF RegisterConsumer, ActiveTopics
    <2>3. CASE RemoveConsumer(c) \/ \E u \in Topics : Unsubscribe(c, u)
      BY <1>3, <2>3 DEF RemoveConsumer, Unsubscribe, LeaveTopics, WithoutConsumer, ActiveTopics
    <2> QED
      BY <2>1, <2>2, <2>3
  <1>4. ASSUME t \in ActiveTopics, t \notin ActiveTopics'
        PROVE  SubscribersOf(t) = {c}
    <2>1. topicConsumers[t] # {}
      BY <1>4 DEF IndicesAgree
    <2>2. CASE (\E u \in Topics : Subscribe(c, u)) \/ RegisterConsumer(c)
      BY <1>4, <2>2 DEF Subscribe, RegisterConsumer, ActiveTopics
    <2>3. CASE RemoveConsumer(c)
      BY <1>4, <2>1, <2>3 DEF RemoveConsumer, LeaveTopics, WithoutConsumer, LeftEmpty,
                              ActiveTopics, SubscribersOf
    <2>4. CASE \E u \in Topics : Unsubscribe(c, u)
      BY <1>4, <2>1, <2>4 DEF Unsubscribe, LeaveTopics, WithoutConsumer, LeftEmpty,
                              ActiveTopics, SubscribersOf
    <2> QED
      BY <2>2, <2>3, <2>4
  <1>5. Cardinality({}) = 0 /\ Cardinality({c}) = 1
    BY FS_EmptySet, FS_Singleton
  <1> QED
    BY <1>1, <1>2, <1>3, <1>4, <1>5 DEF DemandFor

-----------------------------------------------------------------------------
(* The demand path                                                         *)

(* TypeOK and IndicesAgree are not separable: that the index of a topic    *)
(* holds only registered consumers needs the other index, and the demand   *)
(* edges are right only when the indices agree.                            *)
DemandInv == TypeOK /\ IndicesAgree /\ ChannelsFollowDemand

-----------------------------------------------------------------------------
(* What the callback leaves when the changes are those of a registry step  *)
(* that moves the topics of Opened from no consumer to some and those of   *)
(* Closed from some to none.                                               *)
LEMMA CallbackFollowsEdges ==
  ASSUME TypeOK, IndicesAgree, IndicesAgree', ChannelsFollowDemand,
         OnDemandChange, UNCHANGED attached,
         demandChanges' \subseteq DemandChange,
         \A t \in Topics :
           /\ FirstConsumer(t) \in demandChanges' <=> t \notin ActiveTopics /\ t \in ActiveTopics'
           /\ LastConsumerLeft(t) \in demandChanges' <=> t \in ActiveTopics /\ t \notin ActiveTopics'
  PROVE  ChannelsFollowDemand'
  <1> SUFFICES ASSUME attached
               PROVE  subscribedChannels' = Configured \cap ActiveTopics'
    BY DEF ChannelsFollowDemand
  <1>1. Acted(demandChanges', 1, 1) = {t \in Configured : FirstConsumer(t) \in demandChanges'}
    BY DEF Acted, DemandChange, FirstConsumer, LastConsumerLeft
  <1>2. Acted(demandChanges', -1, 0) = {t \in Configured : LastConsumerLeft(t) \in demandChanges'}
    BY DEF Acted, DemandChange, FirstConsumer, LastConsumerLeft
  <1>3. subscribedChannels = Configured \cap ActiveTopics
    BY DEF ChannelsFollowDemand
  <1> QED
    BY <1>1, <1>2, <1>3 DEF OnDemandChange

(* DemandInv is inductive.                                                 *)
LEMMA DemandInvInit == Init => DemandInv
  BY DEF Init, RegistryInit, DemandInv, TypeOK, RegistryTypeOK, IndicesAgree,
         ChannelsFollowDemand, SubscribersOf, ActiveTopics, ConsumersFor

(* Every step of Next keeps DemandInv, one case per registry call and one  *)
(* for the stop of ingestion.                                              *)
LEMMA DemandInvStep == DemandInv /\ [Next]_vars => DemandInv'
  <1> SUFFICES ASSUME DemandInv, [Next]_vars
               PROVE  DemandInv'
    OBVIOUS
  <1> USE DEF DemandInv
  <1>1. ASSUME NEW c \in Consumers,
               OnDemandChange, UNCHANGED attached,
               \/ RegisterConsumer(c)
               \/ RemoveConsumer(c)
               \/ \E t \in Topics : Subscribe(c, t) \/ Unsubscribe(c, t)
        PROVE  DemandInv'
    <2>1. RegistryTypeOK'
      BY <1>1, RegistryStepKeepsTypes DEF TypeOK
    <2>2. IndicesAgree'
      BY <1>1, RegistryStepKeepsIndices DEF TypeOK
    <2>3. subscribedChannels' \subseteq Configured
      BY <1>1 DEF TypeOK, OnDemandChange, Acted
    <2>4. ChannelsFollowDemand'
      BY <1>1, <2>2, EdgesOfACall, CallbackFollowsEdges DEF TypeOK
    <2> QED
      BY <1>1, <2>1, <2>2, <2>3, <2>4 DEF TypeOK
  <1>2. ASSUME NEW c \in Consumers, Register(c) \/ Remove(c)
        PROVE  DemandInv'
    BY <1>1, <1>2 DEF Register, Remove
  <1>3. ASSUME NEW c \in Consumers, NEW t \in Topics,
               ConsumerSubscribes(c, t) \/ ConsumerUnsubscribes(c, t)
        PROVE  DemandInv'
    BY <1>1, <1>3 DEF ConsumerSubscribes, ConsumerUnsubscribes
  <1>4. CASE IngestionStops
    BY <1>4 DEF IngestionStops, TypeOK, RegistryTypeOK, IndicesAgree, ChannelsFollowDemand,
                SubscribersOf, ActiveTopics, ConsumersFor
  <1>5. CASE UNCHANGED vars
    BY <1>5 DEF vars, TypeOK, RegistryTypeOK, IndicesAgree, ChannelsFollowDemand,
                SubscribersOf, ActiveTopics, ConsumersFor
  <1> QED
    BY <1>2, <1>3, <1>4, <1>5 DEF Next

(* The invariant the next theorems read off.                               *)
THEOREM DemandInvariant == Spec => []DemandInv
  BY DemandInvInit, DemandInvStep, PTL DEF Spec

(* In every reachable state of the registry and the callback, for any      *)
(* consumers and topics, the Maps have the types the code gives them.      *)
THEOREM TypeCorrect == Spec => []TypeOK
  BY DemandInvariant, PTL DEF DemandInv

(* The lockstep of the registry's two indices never breaks.                *)
THEOREM IndicesAlwaysAgree == Spec => []IndicesAgree
  BY DemandInvariant, PTL DEF DemandInv

(* Until ingestion stops, the adapter's channels are the configured topics *)
(* that have a consumer.                                                   *)
THEOREM ChannelsAlwaysFollowDemand == Spec => []ChannelsFollowDemand
  BY DemandInvariant, PTL DEF DemandInv

-----------------------------------------------------------------------------
(* A step from DemandInv emits a change for exactly the topics that cross  *)
(* between no consumer and some, with the right count.                     *)
LEMMA EdgeStep ==
  ASSUME DemandInv, [Next]_vars
  PROVE  [\A t \in Topics :
            /\ (SubscribersOf(t) = {}) # (SubscribersOf(t)' = {})
                 <=> \E d \in demandChanges' : d.topic = t
            /\ \A d \in demandChanges' : d.topic = t =>
                 /\ d.count = DemandFor(t)'
                 /\ d.count - d.delta = DemandFor(t)]_vars
  <1> USE DEF DemandInv
  <1> SUFFICES ASSUME ~ UNCHANGED vars, NEW t \in Topics
               PROVE  /\ (SubscribersOf(t) = {}) # (SubscribersOf(t)' = {})
                           <=> \E d \in demandChanges' : d.topic = t
                      /\ \A d \in demandChanges' : d.topic = t =>
                           /\ d.count = DemandFor(t)'
                           /\ d.count - d.delta = DemandFor(t)
    OBVIOUS
  <1>1. CASE IngestionStops
    BY <1>1 DEF IngestionStops, SubscribersOf
  <1>2. ASSUME NEW c \in Consumers,
               \/ RegisterConsumer(c)
               \/ RemoveConsumer(c)
               \/ \E u \in Topics : Subscribe(c, u) \/ Unsubscribe(c, u)
        PROVE  /\ (SubscribersOf(t) = {}) # (SubscribersOf(t)' = {})
                    <=> \E d \in demandChanges' : d.topic = t
               /\ \A d \in demandChanges' : d.topic = t =>
                    /\ d.count = DemandFor(t)'
                    /\ d.count - d.delta = DemandFor(t)
    <2>1. IndicesAgree'
      BY <1>2, RegistryStepKeepsIndices DEF TypeOK
    <2>2. (t \in ActiveTopics <=> SubscribersOf(t) # {})
          /\ (t \in ActiveTopics' <=> SubscribersOf(t)' # {})
      BY <2>1 DEF IndicesAgree, SubscribersOf, ActiveTopics
    <2>3. /\ demandChanges' \subseteq DemandChange
          /\ FirstConsumer(t) \in demandChanges' <=> t \notin ActiveTopics /\ t \in ActiveTopics'
          /\ LastConsumerLeft(t) \in demandChanges' <=> t \in ActiveTopics /\ t \notin ActiveTopics'
      BY <1>2, EdgesOfACall DEF TypeOK
    <2>4. \A d \in demandChanges' : d.topic = t => d = FirstConsumer(t) \/ d = LastConsumerLeft(t)
      BY <2>3 DEF DemandChange, FirstConsumer, LastConsumerLeft
    <2>5. /\ FirstConsumer(t).topic = t /\ LastConsumerLeft(t).topic = t
          /\ FirstConsumer(t).count = 1 /\ FirstConsumer(t).delta = 1
          /\ LastConsumerLeft(t).count = 0 /\ LastConsumerLeft(t).delta = -1
      BY DEF FirstConsumer, LastConsumerLeft
    <2>6. /\ FirstConsumer(t) \in demandChanges' => DemandFor(t) = 0 /\ DemandFor(t)' = 1
          /\ LastConsumerLeft(t) \in demandChanges' => DemandFor(t) = 1 /\ DemandFor(t)' = 0
      BY <1>2, EdgeCounts DEF TypeOK
    <2>7. (SubscribersOf(t) = {}) # (SubscribersOf(t)' = {})
            <=> \E d \in demandChanges' : d.topic = t
      BY <2>2, <2>3, <2>4, <2>5
    <2>8. ASSUME NEW d \in demandChanges', d.topic = t
          PROVE  d.count = DemandFor(t)' /\ d.count - d.delta = DemandFor(t)
      <3>1. CASE d = FirstConsumer(t)
        BY <2>5, <2>6, <2>8, <3>1
      <3>2. CASE d = LastConsumerLeft(t)
        BY <2>5, <2>6, <2>8, <3>2
      <3> QED
        BY <2>4, <2>8, <3>1, <3>2
    <2> QED
      BY <2>7, <2>8
  <1> QED
    BY <1>1, <1>2 DEF Next, Register, Remove, ConsumerSubscribes, ConsumerUnsubscribes

(* Every change the registry emits is a real edge, and every edge is       *)
(* emitted.                                                                *)
THEOREM DemandIsEdgeTriggered == Spec => EdgeTriggered
  BY DemandInvariant, EdgeStep, PTL DEF Spec, EdgeTriggered

-----------------------------------------------------------------------------
(* What UpstreamDemand calls wanted is what the registry calls active,     *)
(* among the configured topics.                                            *)
LEMMA WantedIsActive ==
  ASSUME RegistryTypeOK, IndicesAgree
  PROVE  Abstract!WantedBy(Interest) = Configured \cap ActiveTopics
  <1>1. ASSUME NEW t \in Configured
        PROVE  (\E c \in Consumers : <<c, t>> \in Interest) <=> t \in ActiveTopics
    <2>1. t \in ActiveTopics <=> SubscribersOf(t) # {}
      BY ActiveIffSubscribed
    <2>2. SubscribersOf(t) \subseteq consumers
      BY DEF IndicesAgree, ConsumersFor, SubscribersOf, ActiveTopics
    <2>3. \A c \in Consumers : <<c, t>> \in Interest <=> c \in consumers /\ t \in consumerSubs[c]
      BY DEF Interest
    <2> QED
      BY <2>1, <2>2, <2>3 DEF IndicesAgree, RegistryTypeOK
  <1> QED
    BY <1>1 DEF Abstract!WantedBy

(* The initial states map to initial states of UpstreamDemand.             *)
LEMMA InitImplements == Init => Abstract!Init
  BY DEF Init, RegistryInit, Abstract!Init, Interest

(* A step from DemandInv maps to a step of UpstreamDemand or to a stutter. *)
LEMMA StepImplements ==
  ASSUME DemandInv, DemandInv', [Next]_vars
  PROVE  [Abstract!Next]_(Abstract!vars)
  <1> USE DEF DemandInv
  <1>1. Abstract!WantedBy(Interest') = Configured \cap ActiveTopics'
    <2>1. RegistryTypeOK' /\ IndicesAgree' => (Abstract!WantedBy(Interest) = Configured \cap ActiveTopics)'
      BY WantedIsActive, PTL
    <2> QED
      BY <2>1 DEF TypeOK, Abstract!WantedBy
  <1>2. ASSUME OnDemandChange, UNCHANGED attached
        PROVE  Abstract!Follow
    BY <1>1, <1>2 DEF ChannelsFollowDemand, OnDemandChange, Abstract!Follow
  <1>3. ASSUME NEW c \in Consumers, Register(c)
        PROVE  UNCHANGED Abstract!vars
    <2>1. Interest' = Interest
      BY <1>3 DEF Register, RegisterConsumer, Interest, TypeOK, RegistryTypeOK
    <2>2. subscribedChannels' = subscribedChannels
      BY <1>3 DEF Register, RegisterConsumer, OnDemandChange, Acted
    <2> QED
      BY <1>3, <2>1, <2>2 DEF Register, Abstract!vars
  <1>4. ASSUME NEW c \in Consumers, Remove(c)
        PROVE  Abstract!Leave(c)
    <2>1. Interest' = {i \in Interest : i[1] # c}
      BY <1>4 DEF Remove, RemoveConsumer, Interest, TypeOK, RegistryTypeOK
    <2> QED
      BY <1>2, <1>4, <2>1 DEF Remove, Abstract!Leave
  <1>5. ASSUME NEW c \in Consumers, NEW t \in Topics, ConsumerSubscribes(c, t)
        PROVE  Abstract!Want(c, t)
    <2>1. consumers' = consumers /\ c \in consumers
          /\ \A d \in consumers : consumerSubs'[d] = IF d = c THEN consumerSubs[d] \cup {t}
                                                     ELSE consumerSubs[d]
      BY <1>5 DEF ConsumerSubscribes, Subscribe, TypeOK, RegistryTypeOK
    <2>2. Interest' = Interest \cup {<<c, t>>}
      BY <2>1 DEF Interest, TypeOK, RegistryTypeOK
    <2> QED
      BY <1>2, <1>5, <2>2 DEF ConsumerSubscribes, Abstract!Want
  <1>6. ASSUME NEW c \in Consumers, NEW t \in Topics, ConsumerUnsubscribes(c, t)
        PROVE  Abstract!Unwant(c, t)
    <2>1. consumers' = consumers /\ c \in consumers
          /\ \A d \in consumers : consumerSubs'[d] = IF d = c THEN consumerSubs[d] \ {t}
                                                     ELSE consumerSubs[d]
      BY <1>6 DEF ConsumerUnsubscribes, Unsubscribe, TypeOK, RegistryTypeOK
    <2>2. Interest' = Interest \ {<<c, t>>}
      BY <2>1 DEF Interest, TypeOK, RegistryTypeOK
    <2> QED
      BY <1>2, <1>6, <2>2 DEF ConsumerUnsubscribes, Abstract!Unwant
  <1>7. ASSUME IngestionStops
        PROVE  Abstract!Close
    BY <1>7 DEF IngestionStops, Interest, Abstract!Close
  <1>8. CASE UNCHANGED vars
    BY <1>8 DEF vars, Interest, Abstract!vars
  <1> QED
    BY <1>3, <1>4, <1>5, <1>6, <1>7, <1>8 DEF Next, Abstract!Next

(* The registry, its edges and the callback implement UpstreamDemand:      *)
(* every call is one of its steps or changes nothing it can see.           *)
THEOREM DemandRefinement == Spec => ImplementsUpstreamDemand
  BY DemandInvariant, InitImplements, StepImplements, PTL
     DEF Spec, Abstract!Spec, ImplementsUpstreamDemand
=============================================================================
