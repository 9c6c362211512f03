-------------------------- MODULE WsGatewayProofs --------------------------
(***************************************************************************)
(* What WsGateway guarantees for any set of connections and topics.        *)
(***************************************************************************)
EXTENDS WsGateway, TLAPS

(* Whom the registry knows can be read off the handles; a handle ends with *)
(* its socket, and no socket ends with its handle still open.              *)
HandlesFollowSockets ==
  /\ consumers = {c \in Consumers : handle[c] \in {"open", "disconnected"}}
  /\ \A c \in Consumers :
       /\ socket[c] = "none" => handle[c] = "none"
       /\ handle[c] = "closed" => socket[c] = "closed"
       /\ socket[c] = "closed" => handle[c] # "open"

(* SubscriptionsAgree without the counts, and of who is gone as well: a    *)
(* Map of off-functions that outlives its consumer would make the next     *)
(* removal take off nothing.                                               *)
SubscriptionSetsAgree ==
  /\ gwConsumers = consumers
  /\ \A c \in Consumers : busSubs[c] = IF c \in consumers THEN consumerSubs[c] ELSE {}
  /\ \A t \in Topics : busHandlers[t] = SubscribersOf(t)

(* During a drain everybody who could still be force-closed has been told. *)
OpenOnesWereTold ==
  phase = "draining" => {c \in Consumers : socket[c] = "open" /\ handle[c] = "open"} \subseteq told

GatewayInv ==
  TypeOK /\ IndicesAgree /\ HandlesFollowSockets /\ SubscriptionSetsAgree /\ OpenOnesWereTold

-----------------------------------------------------------------------------
(* GatewayInv holds before the first connection.                           *)
LEMMA GatewayInvInit == Init => GatewayInv
  BY DEF Init, RegistryInit, GatewayInv, TypeOK, RegistryTypeOK, IndicesAgree, HandlesFollowSockets,
         SubscriptionSetsAgree, OpenOnesWereTold, SubscribersOf, ActiveTopics, ConsumersFor, Phases

(* A new connection starts with nothing.                                   *)
LEMMA AcceptKeepsInv ==
  ASSUME GatewayInv, NEW c \in Consumers, AcceptConnection(c)
  PROVE  GatewayInv'
  <1> USE DEF GatewayInv
  <1>1. RegistryTypeOK' /\ IndicesAgree'
    BY DEF AcceptConnection, TypeOK, RegisterConsumer, RegistryTypeOK, IndicesAgree, SubscribersOf,
           ActiveTopics, ConsumersFor
  <1>2. TypeOK'
    BY <1>1 DEF AcceptConnection, TypeOK, shutdownVars
  <1>3. consumers' = consumers \cup {c} /\ c \notin consumers
        /\ consumerSubs' = [d \in consumers \cup {c} |-> IF d = c THEN {} ELSE consumerSubs[d]]
    BY DEF AcceptConnection, RegisterConsumer
  <1>4. HandlesFollowSockets'
    BY <1>3 DEF AcceptConnection, HandlesFollowSockets, TypeOK
  <1>5. \A t \in Topics : SubscribersOf(t)' = SubscribersOf(t)
    BY DEF AcceptConnection, RegisterConsumer, SubscribersOf
  <1>6. SubscriptionSetsAgree'
    BY <1>3, <1>5 DEF AcceptConnection, SubscriptionSetsAgree
  <1>7. OpenOnesWereTold'
    BY DEF AcceptConnection, Accepting, OpenOnesWereTold, shutdownVars
  <1> QED
    BY <1>1, <1>2, <1>4, <1>6, <1>7

(* A subscription is taken up, or given up, in all three places.           *)
LEMMA ClientMessageKeepsInv ==
  ASSUME GatewayInv, NEW c \in Consumers, HandleClientMessage(c)
  PROVE  GatewayInv'
  <1> USE DEF GatewayInv
  <1>1. ASSUME NEW t \in Topics, HandleSubscribe(c, t)
        PROVE  GatewayInv'
    <2>1. RegistryTypeOK' /\ IndicesAgree'
      <3>1. Subscribe(c, t) /\ RegistryTypeOK
        BY <1>1 DEF HandleSubscribe, TypeOK
      <3>2. RegistryTypeOK'
        BY <3>1 DEF Subscribe, SubscribersOf, RegistryTypeOK, IndicesAgree, DemandChange
      <3>3. IndicesAgree'
        BY <3>1 DEF Subscribe, RegistryTypeOK, IndicesAgree, SubscribersOf, ActiveTopics, ConsumersFor
      <3> QED
        BY <3>2, <3>3
    <2>2. TypeOK'
      BY <1>1, <2>1 DEF HandleSubscribe, Subscribed, TypeOK, shutdownVars
    <2>3. /\ consumers' = consumers /\ c \in consumers
          /\ consumerSubs' = [consumerSubs EXCEPT ![c] = @ \cup {t}]
      BY <1>1 DEF HandleSubscribe, Subscribe, IndicesAgree
    <2>4. \A u \in Topics :
            SubscribersOf(u)' = IF u = t THEN SubscribersOf(u) \cup {c} ELSE SubscribersOf(u)
      BY <1>1 DEF HandleSubscribe, Subscribe, SubscribersOf
    <2>5. SubscriptionSetsAgree'
      BY <1>1, <2>3, <2>4 DEF HandleSubscribe, Subscribed, SubscriptionSetsAgree, TypeOK,
                              RegistryTypeOK
    <2>6. HandlesFollowSockets' /\ OpenOnesWereTold'
      BY <1>1, <2>3 DEF HandleSubscribe, HandlesFollowSockets, OpenOnesWereTold, shutdownVars
    <2> QED
      BY <2>1, <2>2, <2>5, <2>6
  <1>2. ASSUME NEW t \in Topics, HandleUnsubscribe(c, t)
        PROVE  GatewayInv'
    <2>1. RegistryTypeOK' /\ IndicesAgree'
      <3>1. Unsubscribe(c, t) /\ RegistryTypeOK
        BY <1>2 DEF HandleUnsubscribe, TypeOK
      <3>2. RegistryTypeOK'
        BY <3>1 DEF Unsubscribe, LeaveTopics, WithoutConsumer, LeftEmpty, RegistryTypeOK, IndicesAgree,
                    DemandChange
      <3>3. IndicesAgree'
        BY <3>1 DEF Unsubscribe, LeaveTopics, WithoutConsumer, LeftEmpty, RegistryTypeOK, IndicesAgree,
                    SubscribersOf, ActiveTopics, ConsumersFor
      <3> QED
        BY <3>2, <3>3
    <2>2. TypeOK'
      BY <1>2, <2>1 DEF HandleUnsubscribe, Unsubscribed, TypeOK, shutdownVars
    <2>3. /\ consumers' = consumers /\ c \in consumers
          /\ consumerSubs' = [consumerSubs EXCEPT ![c] = @ \ {t}]
      BY <1>2 DEF HandleUnsubscribe, Unsubscribe, IndicesAgree
    <2>4. \A u \in Topics :
            SubscribersOf(u)' = IF u = t THEN SubscribersOf(u) \ {c} ELSE SubscribersOf(u)
      BY <1>2 DEF HandleUnsubscribe, Unsubscribe, LeaveTopics, WithoutConsumer, LeftEmpty, SubscribersOf
    <2>5. SubscriptionSetsAgree'
      BY <1>2, <2>3, <2>4 DEF HandleUnsubscribe, Unsubscribed, SubscriptionSetsAgree, TypeOK,
                              RegistryTypeOK
    <2>6. HandlesFollowSockets' /\ OpenOnesWereTold'
      BY <1>2, <2>3 DEF HandleUnsubscribe, HandlesFollowSockets, OpenOnesWereTold, shutdownVars
    <2> QED
      BY <2>1, <2>2, <2>5, <2>6
  <1> QED
    BY <1>1, <1>2 DEF HandleClientMessage

(* Whoever is forgotten is forgotten everywhere.                           *)
LEMMA SocketClosedKeepsInv ==
  ASSUME GatewayInv, NEW c \in Consumers, SocketClosed(c)
  PROVE  GatewayInv'
  <1> USE DEF GatewayInv
  <1>1. CASE handle[c] = "open"
    <2>1. ForgetConsumer(c) /\ handle' = [handle EXCEPT ![c] = "closed"]
          /\ socket' = [socket EXCEPT ![c] = "closed"] /\ UNCHANGED shutdownVars
      BY <1>1 DEF SocketClosed
    <2>2. RegistryTypeOK' /\ IndicesAgree'
      <3>1. RemoveConsumer(c) /\ RegistryTypeOK
        BY <2>1 DEF ForgetConsumer, TypeOK
      <3>2. RegistryTypeOK'
        BY <3>1 DEF RemoveConsumer, LeaveTopics, WithoutConsumer, LeftEmpty, RegistryTypeOK,
                    IndicesAgree, DemandChange
      <3>3. IndicesAgree'
        BY <3>1 DEF RemoveConsumer, LeaveTopics, WithoutConsumer, LeftEmpty, RegistryTypeOK,
                    IndicesAgree, SubscribersOf, ActiveTopics, ConsumersFor
      <3> QED
        BY <3>2, <3>3
    <2>3. TypeOK'
      BY <2>1, <2>2 DEF ForgetConsumer, Released, TypeOK, shutdownVars
    <2>4. /\ consumers' = consumers \ {c}
          /\ consumerSubs' = [d \in consumers \ {c} |-> consumerSubs[d]]
      BY <2>1 DEF ForgetConsumer, RemoveConsumer, IndicesAgree
    <2>5. \A u \in Topics : SubscribersOf(u)' = SubscribersOf(u) \ {c}
      BY <2>1 DEF ForgetConsumer, RemoveConsumer, LeaveTopics, WithoutConsumer, LeftEmpty,
                  SubscribersOf, IndicesAgree
    <2>6. \A u \in Topics : busHandlers'[u] = busHandlers[u] \ {c}
      <3>1. c \in consumers
        BY <1>1 DEF HandlesFollowSockets
      <3>2. \A u \in Topics : u \notin busSubs[c] => c \notin busHandlers[u]
        BY <3>1 DEF SubscriptionSetsAgree, IndicesAgree
      <3> QED
        BY <2>1, <3>2 DEF ForgetConsumer, Released, TypeOK
    <2>7. SubscriptionSetsAgree'
      BY <2>1, <2>4, <2>5, <2>6 DEF ForgetConsumer, SubscriptionSetsAgree, TypeOK
    <2>8. HandlesFollowSockets' /\ OpenOnesWereTold'
      BY <2>1, <2>4 DEF HandlesFollowSockets, OpenOnesWereTold, shutdownVars, TypeOK
    <2> QED
      BY <2>2, <2>3, <2>7, <2>8
  <1>2. CASE handle[c] # "open"
    <2>1. /\ demandChanges' = {}
          /\ UNCHANGED <<consumers, consumerSubs, topicConsumers>>
          /\ UNCHANGED <<handle, busHandlers, busSubs, gwConsumers, shutdownVars>>
          /\ socket' = [socket EXCEPT ![c] = "closed"]
      BY <1>2 DEF SocketClosed
    <2>2. RegistryTypeOK' /\ IndicesAgree' /\ \A t : SubscribersOf(t)' = SubscribersOf(t)
      BY <2>1 DEF TypeOK, RegistryTypeOK, IndicesAgree, SubscribersOf, ActiveTopics, ConsumersFor
    <2>3. TypeOK' /\ SubscriptionSetsAgree'
      BY <2>1, <2>2 DEF TypeOK, SubscriptionSetsAgree, shutdownVars
    <2>4. HandlesFollowSockets' /\ OpenOnesWereTold'
      BY <1>2, <2>1 DEF HandlesFollowSockets, OpenOnesWereTold, shutdownVars, TypeOK
    <2> QED
      BY <2>2, <2>3, <2>4
  <1> QED
    BY <1>1, <1>2

(* The steps that touch neither the registry nor the bus: the peer's, the  *)
(* overflow timer's and those of a shutdown.                               *)
LEMMA OtherStepsKeepInv ==
  ASSUME GatewayInv,
         \/ \E c \in Consumers : RejectConnection(c) \/ PeerEnds(c) \/ ConsumerLagged(c)
         \/ DestroyBegins \/ DestroyEnds \/ DrainBegins \/ DrainEnds \/ ServerClosed
  PROVE  GatewayInv'
  <1> USE DEF GatewayInv
  <1>1. /\ demandChanges' = {}
        /\ UNCHANGED <<consumers, consumerSubs, topicConsumers, gwConsumers, busSubs, busHandlers>>
    BY DEF RejectConnection, PeerEnds, ConsumerLagged, DestroyBegins, DestroyEnds, DrainBegins,
           DrainEnds, ServerClosed, KeepSubscriptions
  <1>2. RegistryTypeOK' /\ IndicesAgree' /\ \A t : SubscribersOf(t)' = SubscribersOf(t)
    BY <1>1 DEF TypeOK, RegistryTypeOK, IndicesAgree, SubscribersOf, ActiveTopics, ConsumersFor
  <1>3. SubscriptionSetsAgree'
    BY <1>1, <1>2 DEF SubscriptionSetsAgree
  <1>4. ASSUME NEW c \in Consumers, RejectConnection(c) \/ PeerEnds(c)
        PROVE  TypeOK' /\ HandlesFollowSockets' /\ OpenOnesWereTold'
    BY <1>1, <1>2, <1>4 DEF RejectConnection, PeerEnds, TypeOK, HandlesFollowSockets,
                            OpenOnesWereTold, shutdownVars
  <1>5. ASSUME NEW cs, Disconnect(cs), phase' # "draining" \/ UNCHANGED phase,
               UNCHANGED told, listening' \in BOOLEAN, phase' \in Phases
        PROVE  TypeOK' /\ HandlesFollowSockets' /\ OpenOnesWereTold'
    BY <1>1, <1>2, <1>5 DEF Disconnect, TypeOK, HandlesFollowSockets, OpenOnesWereTold
  <1>6. ASSUME NEW c \in Consumers, ConsumerLagged(c)
        PROVE  TypeOK' /\ HandlesFollowSockets' /\ OpenOnesWereTold'
    BY <1>5, <1>6 DEF ConsumerLagged, shutdownVars, TypeOK
  <1>7. ASSUME DrainEnds
        PROVE  TypeOK' /\ HandlesFollowSockets' /\ OpenOnesWereTold'
    BY <1>5, <1>7 DEF DrainEnds, Phases
  <1>8. ASSUME DestroyBegins \/ DestroyEnds \/ DrainBegins \/ ServerClosed
        PROVE  TypeOK' /\ HandlesFollowSockets' /\ OpenOnesWereTold'
    BY <1>1, <1>2, <1>8 DEF DestroyBegins, DestroyEnds, DrainBegins, ServerClosed, TypeOK, Phases,
                            HandlesFollowSockets, OpenOnesWereTold, SubscriptionSetsAgree
  <1> QED
    BY <1>2, <1>3, <1>4, <1>6, <1>7, <1>8

(* GatewayInv is inductive.                                                *)
LEMMA GatewayInvStep == GatewayInv /\ [Next]_vars => GatewayInv'
  <1> SUFFICES ASSUME GatewayInv, [Next]_vars
               PROVE  GatewayInv'
    OBVIOUS
  <1>1. CASE UNCHANGED vars
    BY <1>1 DEF vars, registryVars, gatewayVars, shutdownVars, GatewayInv, TypeOK, RegistryTypeOK,
                IndicesAgree, HandlesFollowSockets, SubscriptionSetsAgree, OpenOnesWereTold,
                SubscribersOf, ActiveTopics, ConsumersFor
  <1> QED
    BY <1>1, AcceptKeepsInv, ClientMessageKeepsInv, SocketClosedKeepsInv, OtherStepsKeepInv DEF Next

(* The invariant the next theorems read off.                               *)
THEOREM GatewayInvariant == Spec => []GatewayInv
  BY GatewayInvInit, GatewayInvStep, PTL DEF Spec

-----------------------------------------------------------------------------
(* Equal sets have equal counts: what the gateway reports of itself is     *)
(* what /status reads from the registry.                                   *)
LEMMA CountsAgree ==
  ASSUME GatewayInv
  PROVE  /\ GatewayStatus.consumers = Status.consumersBySurface
         /\ GatewayStatus.subscriptions = Status.totalSubscriptions
  <1> USE DEF GatewayInv
  <1>1. {ct \in gwConsumers \X Topics : ct[2] \in busSubs[ct[1]]}
          = {ct \in Consumers \X ActiveTopics : ct[1] \in topicConsumers[ct[2]]}
    <2>1. ASSUME NEW c, NEW t
          PROVE  (c \in gwConsumers /\ t \in Topics /\ t \in busSubs[c])
                   <=> (c \in Consumers /\ t \in ActiveTopics /\ c \in topicConsumers[t])
      BY DEF SubscriptionSetsAgree, IndicesAgree, SubscribersOf, ActiveTopics, ConsumersFor, TypeOK,
             RegistryTypeOK
    <2>2. \A ct : ct \in {p \in gwConsumers \X Topics : p[2] \in busSubs[p[1]]}
                    <=> \E c, t : ct = <<c, t>> /\ c \in gwConsumers /\ t \in Topics /\ t \in busSubs[c]
      OBVIOUS
    <2>3. \A ct : ct \in {p \in Consumers \X ActiveTopics : p[1] \in topicConsumers[p[2]]}
                    <=> \E c, t : ct = <<c, t>> /\ c \in Consumers /\ t \in ActiveTopics
                                  /\ c \in topicConsumers[t]
      OBVIOUS
    <2> QED
      BY <2>1, <2>2, <2>3
  <1> QED
    BY <1>1 DEF GatewayStatus, TotalSubscriptions, Status, SubscriptionSetsAgree

(* Whatever the clients send and however their connections end, the        *)
(* gateway, the registry and the bus agree on who holds what.              *)
THEOREM SubscriptionsAlwaysAgree == Spec => []SubscriptionsAgree
  <1>1. GatewayInv => SubscriptionsAgree
    BY CountsAgree DEF GatewayInv, SubscriptionSetsAgree, SubscriptionsAgree, TypeOK, RegistryTypeOK
  <1> QED
    BY <1>1, GatewayInvariant, PTL

(* The Maps, handles and sockets have the types the code gives them, for   *)
(* any number of connections.                                              *)
THEOREM GatewayTypeCorrect == Spec => []TypeOK
  BY GatewayInvariant, PTL DEF GatewayInv

(* No connection that ended by its peer leaves anything behind.            *)
THEOREM DepartedAreAlwaysForgotten == Spec => []DepartedAreForgotten
  <1>1. GatewayInv => DepartedAreForgotten
    <2> SUFFICES ASSUME GatewayInv, NEW c \in Consumers, socket[c] = "closed",
                        handle[c] # "disconnected"
                 PROVE  /\ c \notin gwConsumers \cup consumers
                        /\ \A t \in Topics : c \notin busHandlers[t] \cup SubscribersOf(t)
      BY DEF DepartedAreForgotten
    <2> USE DEF GatewayInv
    <2>1. c \notin consumers
      BY DEF HandlesFollowSockets
    <2>2. \A t \in Topics : SubscribersOf(t) \subseteq consumers
      BY DEF IndicesAgree, SubscribersOf, ActiveTopics, ConsumersFor
    <2> QED
      BY <2>1, <2>2 DEF SubscriptionSetsAgree
  <1> QED
    BY <1>1, GatewayInvariant, PTL

(* registry.subscribe never throws inside the 'message' listener for want  *)
(* of the consumer.                                                        *)
THEOREM ReadersAreAlwaysRegistered == Spec => []ReadersAreRegistered
  <1>1. GatewayInv => ReadersAreRegistered
    BY DEF GatewayInv, HandlesFollowSockets, ReadersAreRegistered, MayRead, TypeOK
  <1> QED
    BY <1>1, GatewayInvariant, PTL

(* Nobody is force-closed without having been told.                        *)
THEOREM ForceClosedWereAlwaysTold == Spec => ForceClosedWereTold
  <1>1. ASSUME GatewayInv, [Next]_vars
        PROVE  [phase = "draining" /\ phase' # "draining" =>
                  \A c \in Consumers : socket[c] = "open" /\ socket'[c] = "closing" => c \in told]_vars
    <2> SUFFICES ASSUME ~UNCHANGED vars, phase = "draining", phase' # "draining",
                        NEW c \in Consumers, socket[c] = "open", socket'[c] = "closing"
                 PROVE  c \in told
      OBVIOUS
    <2>1. DrainEnds
      BY <1>1 DEF Next, AcceptConnection, RejectConnection, PeerEnds, ConsumerLagged, SocketClosed,
                  HandleClientMessage, HandleSubscribe, HandleUnsubscribe, DestroyBegins, DestroyEnds,
                  DrainBegins, ServerClosed, shutdownVars
    <2>2. handle[c] = "open"
      BY <2>1 DEF DrainEnds, Disconnect
    <2> QED
      BY <1>1, <2>2 DEF GatewayInv, OpenOnesWereTold
  <1> QED
    BY <1>1, GatewayInvariant, PTL DEF Spec, ForceClosedWereTold
=============================================================================
