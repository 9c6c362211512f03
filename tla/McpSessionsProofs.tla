------------------------- MODULE McpSessionsProofs -------------------------
(***************************************************************************)
(* What McpSessions guarantees for any set of session ids and topics and   *)
(* any number of requests suspended at a time.                             *)
(***************************************************************************)
EXTENDS McpSessions, FiniteSetTheorems, TLAPS

USE MaxRequestsAssumption

(* A session is made by a request that has not been answered yet, and no   *)
(* transport is open but that of such a session or of one in the map.      *)
SessionsUnderway ==
  \A c \in Consumers :
    /\ session[c] = "initializing" => [op |-> "initialize", id |-> c] \in requests
    /\ transport[c] = "open" => session[c] \in {"initializing", "live"}

(* The HTTP server has answered everything when it is closed, streams      *)
(* included, and takes nothing any more: during a drain no session is      *)
(* being made and none has a stream.                                       *)
AnsweredBeforeDrain ==
  phase \in {"http closed", "draining", "drained"} => requests = {} /\ streams = {}

(* So the rebalance notification of a drain is sent to nobody.             *)
NobodyIsTold == told = {}

SessionsInv ==
  /\ TypeOK /\ IsFiniteSet(requests) /\ IndicesAgree
  /\ SessionsAgree /\ SessionsUnderway /\ AnsweredBeforeDrain /\ NobodyIsTold
  /\ DrainLeavesNothingOpen

-----------------------------------------------------------------------------
(* Requests that begin and are done with                                   *)

(* A request that begins is one of at most MaxRequests.                    *)
LEMMA BeginStaysBounded ==
  ASSUME IsFiniteSet(requests), NEW r, Begin(r)
  PROVE  IsFiniteSet(requests') /\ Cardinality(requests') <= MaxRequests
  <1>1. /\ IsFiniteSet(requests') /\ Cardinality(requests) \in Nat
        /\ Cardinality(requests') = IF r \in requests THEN Cardinality(requests) ELSE Cardinality(requests) + 1
    BY FS_AddElement, FS_CardinalityType DEF Begin
  <1> QED
    BY <1>1 DEF Begin

(* One that is done leaves no more than there were.                        *)
LEMMA DoneStaysBounded ==
  ASSUME IsFiniteSet(requests), Cardinality(requests) <= MaxRequests, NEW r, Done(r)
  PROVE  IsFiniteSet(requests') /\ Cardinality(requests') <= MaxRequests
  <1>1. /\ IsFiniteSet(requests') /\ Cardinality(requests) \in Nat
        /\ Cardinality(requests') = Cardinality(requests) - 1
    BY FS_RemoveElement, FS_CardinalityType DEF Done
  <1> QED
    BY <1>1

-----------------------------------------------------------------------------
(* The end of sessions *)

(* dropSession leaves no trace of whom it drops, in the map, the registry, *)
(* the session servers and the bus, and changes nothing of the others.     *)
LEMMA DropSessionsAgree ==
  ASSUME TypeOK, IndicesAgree, SessionsAgree, NEW cs, cs \subseteq Live, DropSessions(cs)
  PROVE  /\ RegistryTypeOK' /\ IndicesAgree' /\ SessionsAgree'
         /\ busOff' \in [Consumers -> SUBSET Topics]
         /\ busHandlers' \in [Topics -> SUBSET Consumers]
         /\ Live' = Live \ cs
  <1>1. cs \subseteq consumers /\ consumers \subseteq Consumers /\ DOMAIN consumerSubs = consumers
    BY DEF SessionsAgree, IndicesAgree, TypeOK, RegistryTypeOK
  <1>2. /\ consumers' = consumers \ cs
        /\ consumerSubs' = [c \in consumers \ cs |-> consumerSubs[c]]
    BY <1>1 DEF DropSessions
  <1>3. ActiveTopics' = {u \in ActiveTopics : ~topicConsumers[u] \subseteq cs}
    BY DEF DropSessions, ActiveTopics
  <1>4. ASSUME NEW t \in Topics
        PROVE  SubscribersOf(t)' = SubscribersOf(t) \ cs
    BY DEF DropSessions, SubscribersOf, ActiveTopics
  <1>5. RegistryTypeOK'
    <2>1. demandChanges' \subseteq DemandChange
      BY DEF DropSessions, DemandChange, ActiveTopics, TypeOK, RegistryTypeOK
    <2> QED
      BY <1>1, <1>2, <2>1 DEF DropSessions, ActiveTopics, TypeOK, RegistryTypeOK
  <1>6. IndicesAgree'
    <2>1. \A c \in consumers', t \in Topics : t \in consumerSubs'[c] <=> c \in SubscribersOf(t)'
      BY <1>1, <1>2, <1>4 DEF IndicesAgree
    <2>2. ASSUME NEW t \in ActiveTopics'
          PROVE  topicConsumers'[t] # {} /\ ConsumersFor(t)' = topicConsumers'[t]
      BY <1>2, <1>3, <2>2 DEF DropSessions, IndicesAgree, ConsumersFor, SubscribersOf, ActiveTopics
    <2> QED
      BY <1>2, <2>1, <2>2 DEF IndicesAgree
  <1>7. Live' = Live \ cs
    BY DEF DropSessions, Live
  <1>8. /\ busOff' \in [Consumers -> SUBSET Topics]
        /\ busHandlers' \in [Topics -> SUBSET Consumers]
    BY DEF DropSessions, Released, TypeOK
  <1>9. SessionsAgree'
    <2>1. \A c \in Consumers : busOff'[c] = IF c \in consumers' THEN consumerSubs'[c] ELSE {}
      BY <1>1, <1>2 DEF DropSessions, SessionsAgree, TypeOK
    <2>2. ASSUME NEW t \in Topics
          PROVE  busHandlers'[t] = SubscribersOf(t)'
      <3>1. \A c \in cs : c \in busHandlers[t] => t \in busOff[c]
        BY <1>1 DEF SessionsAgree, IndicesAgree
      <3>2. busHandlers'[t] = busHandlers[t] \ cs
        BY <3>1 DEF DropSessions, Released, TypeOK
      <3> QED
        BY <1>4, <3>2 DEF SessionsAgree
    <2> QED
      BY <1>2, <1>7, <2>1, <2>2 DEF SessionsAgree
  <1> QED
    BY <1>5, <1>6, <1>7, <1>8, <1>9

(* So a step that drops sessions, and at most ends a request besides,      *)
(* keeps the invariant.                                                    *)
LEMMA DropSessionsKeepInv ==
  ASSUME SessionsInv, NEW cs, cs \subseteq Live, DropSessions(cs),
         requests' \subseteq requests, IsFiniteSet(requests'), Cardinality(requests') <= MaxRequests,
         \A c \in Consumers : [op |-> "initialize", id |-> c] \in requests \ requests' =>
                                session[c] # "initializing",
         UNCHANGED <<idle, departed, told>>,
         \/ UNCHANGED phase
         \/ phase = "serving" /\ phase' = "destroyed"
  PROVE  SessionsInv'
  <1> USE DEF SessionsInv
  <1>1. /\ RegistryTypeOK' /\ IndicesAgree' /\ SessionsAgree'
        /\ busOff' \in [Consumers -> SUBSET Topics]
        /\ busHandlers' \in [Topics -> SUBSET Consumers]
        /\ Live' = Live \ cs
    BY DropSessionsAgree
  <1>2. /\ session' = [c \in Consumers |-> IF c \in cs THEN "gone" ELSE session[c]]
        /\ transport' = [c \in Consumers |-> IF c \in cs THEN "closed" ELSE transport[c]]
        /\ streams' = streams \ cs
    BY DEF DropSessions
  <1>3. TypeOK'
    BY <1>1, <1>2 DEF TypeOK
  <1>4. SessionsUnderway'
    BY <1>2 DEF SessionsUnderway, TypeOK
  <1>5. AnsweredBeforeDrain' /\ NobodyIsTold'
    BY <1>2 DEF AnsweredBeforeDrain, NobodyIsTold
  <1>6. DrainLeavesNothingOpen'
    BY <1>2 DEF DrainLeavesNothingOpen, TypeOK
  <1> QED
    BY <1>1, <1>3, <1>4, <1>5, <1>6

-----------------------------------------------------------------------------
(* The other steps *)

(* Steps that leave the registry and the bus alone keep them in agreement  *)
(* with a session map that lists whom it listed.                           *)
LEMMA KeepRegistryAgrees ==
  ASSUME TypeOK, IndicesAgree, SessionsAgree, KeepRegistry, UNCHANGED busVars, Live' = Live
  PROVE  RegistryTypeOK' /\ IndicesAgree' /\ SessionsAgree'
  <1>1. RegistryTypeOK' /\ IndicesAgree' /\ \A t : SubscribersOf(t)' = SubscribersOf(t)
    BY DEF KeepRegistry, TypeOK, RegistryTypeOK, IndicesAgree, SubscribersOf, ActiveTopics, ConsumersFor
  <1> QED
    BY <1>1 DEF KeepRegistry, busVars, SessionsAgree

(* A session that is being made is listed nowhere.                         *)
LEMMA InitializeArrivesKeepsInv ==
  ASSUME SessionsInv, NEW c \in Consumers, InitializeArrives(c)
  PROVE  SessionsInv'
  <1> USE DEF SessionsInv
  <1> DEFINE r == [op |-> "initialize", id |-> c]
  <1>1. /\ session[c] = "none" /\ Begin(r) /\ Accepting
        /\ session' = [session EXCEPT ![c] = "initializing"]
        /\ transport' = [transport EXCEPT ![c] = "open"]
        /\ busOff' = [busOff EXCEPT ![c] = {}]
        /\ KeepRegistry
        /\ UNCHANGED <<streams, idle, departed, busHandlers, phase, told>>
    BY DEF InitializeArrives, CreateSessionServer, shutdownVars
  <1>2. Live' = Live /\ c \notin Live
    BY <1>1 DEF Live, TypeOK
  <1>3. busOff' = busOff
    BY <1>1, <1>2 DEF SessionsAgree, TypeOK
  <1>4. RegistryTypeOK' /\ IndicesAgree' /\ SessionsAgree'
    BY <1>1, <1>2, <1>3, KeepRegistryAgrees DEF busVars
  <1>5. IsFiniteSet(requests') /\ Cardinality(requests') <= MaxRequests
    BY <1>1, BeginStaysBounded
  <1>6. r \in Request /\ requests' = requests \cup {r}
    BY <1>1 DEF Request, Begin
  <1>7. TypeOK'
    BY <1>1, <1>3, <1>4, <1>5, <1>6 DEF TypeOK
  <1>8. SessionsUnderway'
    BY <1>1, <1>6 DEF SessionsUnderway, TypeOK
  <1>9. AnsweredBeforeDrain' /\ NobodyIsTold' /\ DrainLeavesNothingOpen'
    BY <1>1 DEF Accepting, AnsweredBeforeDrain, NobodyIsTold, DrainLeavesNothingOpen
  <1> QED
    BY <1>4, <1>5, <1>7, <1>8, <1>9

(* onsessioninitialized lists it in the map and the registry, with no topic *)
(* anywhere.                                                               *)
LEMMA SessionInitializedKeepsInv ==
  ASSUME SessionsInv, NEW c \in Consumers, SessionInitialized(c)
  PROVE  SessionsInv'
  <1> USE DEF SessionsInv
  <1>1. /\ session[c] = "initializing"
        /\ session' = [session EXCEPT ![c] = "live"]
        /\ RegisterConsumer(c)
        /\ UNCHANGED <<transport, requests, streams, idle, departed, busOff, busHandlers, phase, told>>
    BY DEF SessionInitialized, clientVars, busVars, shutdownVars
  <1>2. Live' = Live \cup {c} /\ c \notin Live
    BY <1>1 DEF Live, TypeOK
  <1>3. RegistryTypeOK' /\ IndicesAgree' /\ \A t \in Topics : SubscribersOf(t)' = SubscribersOf(t)
    <2>1. RegisterConsumer(c) /\ RegistryTypeOK
      BY <1>1 DEF TypeOK
    <2>2. RegistryTypeOK'
      BY <2>1 DEF RegisterConsumer, RegistryTypeOK, IndicesAgree
    <2>3. IndicesAgree'
      BY <2>1 DEF RegisterConsumer, RegistryTypeOK, IndicesAgree, SubscribersOf, ActiveTopics,
                  ConsumersFor
    <2>4. \A t \in Topics : SubscribersOf(t)' = SubscribersOf(t)
      BY <2>1 DEF RegisterConsumer, SubscribersOf
    <2> QED
      BY <2>2, <2>3, <2>4
  <1>4. SessionsAgree'
    BY <1>1, <1>2, <1>3 DEF RegisterConsumer, SessionsAgree
  <1>5. TypeOK'
    BY <1>1, <1>3 DEF TypeOK
  <1>6. SessionsUnderway'
    BY <1>1 DEF SessionsUnderway, TypeOK
  <1>7. AnsweredBeforeDrain' /\ NobodyIsTold'
    BY <1>1 DEF AnsweredBeforeDrain, NobodyIsTold
  <1>8. DrainLeavesNothingOpen'
    BY <1>1 DEF DrainLeavesNothingOpen
  <1> QED
    BY <1>1, <1>3, <1>4, <1>5, <1>6, <1>7, <1>8

(* Requests begin, streams open, time passes, clients leave: the map and   *)
(* what hangs on it stay.                                                  *)
LEMMA ClientStepsKeepInv ==
  ASSUME SessionsInv,
         \/ \E r \in Request : RequestArrives(r)
         \/ \E c \in Consumers : StreamOpens(c) \/ IdlePasses(c) \/ ClientDeparts(c)
  PROVE  SessionsInv'
  <1> USE DEF SessionsInv
  <1>1. KeepRegistry /\ UNCHANGED <<session, transport, busVars, shutdownVars>> /\ Live' = Live
    BY DEF RequestArrives, StreamOpens, IdlePasses, ClientDeparts, Live
  <1>2. RegistryTypeOK' /\ IndicesAgree' /\ SessionsAgree'
    BY <1>1, KeepRegistryAgrees
  <1>3. /\ requests \subseteq requests' /\ requests' \subseteq Request
        /\ IsFiniteSet(requests') /\ Cardinality(requests') <= MaxRequests
        /\ ~Accepting => requests' = requests /\ streams' \subseteq streams
    <2>1. CASE \E r \in Request : RequestArrives(r)
      BY <2>1, BeginStaysBounded DEF RequestArrives, Begin, TypeOK
    <2>2. CASE \E c \in Consumers : StreamOpens(c) \/ IdlePasses(c) \/ ClientDeparts(c)
      BY <2>2 DEF StreamOpens, IdlePasses, ClientDeparts, TypeOK
    <2> QED
      BY <2>1, <2>2
  <1>4. streams' \subseteq Consumers /\ idle' \subseteq Consumers /\ departed' \subseteq Consumers
    BY DEF RequestArrives, StreamOpens, IdlePasses, ClientDeparts, TypeOK
  <1>5. TypeOK'
    BY <1>1, <1>2, <1>3, <1>4 DEF TypeOK, busVars, shutdownVars
  <1>6. SessionsUnderway'
    BY <1>1, <1>3 DEF SessionsUnderway
  <1>7. AnsweredBeforeDrain' /\ NobodyIsTold' /\ DrainLeavesNothingOpen'
    BY <1>1, <1>3 DEF AnsweredBeforeDrain, NobodyIsTold, DrainLeavesNothingOpen, Accepting, shutdownVars
  <1> QED
    BY <1>2, <1>3, <1>5, <1>6, <1>7

(* transport.close() of some sessions, by the reaper or by the drain, and  *)
(* the phases of a shutdown.                                               *)
LEMMA ShutdownStepsKeepInv ==
  ASSUME SessionsInv,
         \/ \E c \in Consumers : Reap(c)
         \/ HttpStopsListening \/ HttpCloses \/ DrainBegins \/ DrainEnds
  PROVE  SessionsInv'
  <1> USE DEF SessionsInv
  <1>1. KeepRegistry /\ UNCHANGED <<session, requests, streams, idle, departed, busVars>> /\ Live' = Live
    BY DEF Reap, HttpStopsListening, HttpCloses, DrainBegins, DrainEnds, KeepSessions, clientVars, Live
  <1>2. RegistryTypeOK' /\ IndicesAgree' /\ SessionsAgree'
    BY <1>1, KeepRegistryAgrees
  <1>3. ASSUME NEW cs, Disconnect(cs)
        PROVE  /\ transport' \in [Consumers -> {"none", "open", "closing", "closed"}]
               /\ SessionsUnderway'
               /\ \A c \in cs \cap Consumers : transport'[c] # "open"
    BY <1>1, <1>3 DEF Disconnect, SessionsUnderway, TypeOK
  <1>4. ASSUME NEW c \in Consumers, Reap(c)
        PROVE  SessionsInv'
    <2>1. Disconnect({c}) /\ UNCHANGED <<phase, told>> /\ phase = "serving"
      BY <1>4 DEF Reap, Reaping, shutdownVars
    <2>2. TypeOK' /\ SessionsUnderway'
      BY <1>1, <1>2, <1>3, <2>1 DEF TypeOK, busVars
    <2> QED
      BY <1>1, <1>2, <2>1, <2>2 DEF AnsweredBeforeDrain, NobodyIsTold, DrainLeavesNothingOpen
  <1>5. ASSUME DrainEnds
        PROVE  SessionsInv'
    <2>1. phase = "draining" /\ phase' = "drained" /\ Disconnect(Live) /\ told' = told
      BY <1>5 DEF DrainEnds
    <2>2. TypeOK' /\ SessionsUnderway'
      BY <1>1, <1>2, <1>3, <2>1 DEF TypeOK, busVars
    <2>3. ASSUME NEW c \in Consumers
          PROVE  transport'[c] # "open"
      <3>1. session[c] # "initializing"
        BY <2>1 DEF AnsweredBeforeDrain, SessionsUnderway
      <3>2. CASE c \in Live
        BY <1>3, <2>1, <3>2
      <3>3. CASE c \notin Live
        BY <2>1, <3>1, <3>3 DEF Disconnect, SessionsUnderway, Live, TypeOK
      <3> QED
        BY <3>2, <3>3
    <2> QED
      BY <1>1, <1>2, <2>1, <2>2, <2>3 DEF AnsweredBeforeDrain, NobodyIsTold, DrainLeavesNothingOpen
  <1>6. ASSUME HttpStopsListening \/ HttpCloses \/ DrainBegins
        PROVE  SessionsInv'
    <2>1. transport' = transport
      BY <1>6 DEF HttpStopsListening, HttpCloses, DrainBegins
    <2>2. TypeOK' /\ SessionsUnderway'
      BY <1>1, <1>2, <1>6, <2>1 DEF HttpStopsListening, HttpCloses, DrainBegins, OnApplicationShutdown,
                                    SendRebalance, TypeOK, SessionsUnderway, busVars, Live
    <2>3. AnsweredBeforeDrain' /\ NobodyIsTold' /\ DrainLeavesNothingOpen'
      BY <1>1, <1>6 DEF HttpStopsListening, HttpCloses, DrainBegins, OnApplicationShutdown,
                        SendRebalance, AnsweredBeforeDrain, NobodyIsTold, DrainLeavesNothingOpen
    <2> QED
      BY <1>1, <1>2, <2>2, <2>3
  <1> QED
    BY <1>4, <1>5, <1>6

(* The handlers of requests: what a suspended request does when its        *)
(* session is over is no more than to be answered.                         *)
LEMMA SubscribeKeepsInv ==
  ASSUME SessionsInv, NEW c \in Consumers, NEW t \in Topics,
         HandleSubscribe(c, t) \/ HandleUnsubscribe(c, t)
  PROVE  SessionsInv'
  <1> USE DEF SessionsInv
  <1>1. /\ \E op \in {"subscribe", "unsubscribe"} : Done([op |-> op, id |-> c, uri |-> t])
        /\ UNCHANGED <<session, transport, streams, idle, departed, phase, told>> /\ Live' = Live
    BY DEF HandleSubscribe, HandleUnsubscribe, shutdownVars, Live
  <1>2. IsFiniteSet(requests') /\ Cardinality(requests') <= MaxRequests
    BY <1>1, DoneStaysBounded DEF TypeOK
  <1>3. /\ requests' \subseteq requests
        /\ \A d \in Consumers : [op |-> "initialize", id |-> d] \in requests =>
                                  [op |-> "initialize", id |-> d] \in requests'
    <2>1. PICK op \in {"subscribe", "unsubscribe"} : requests' = requests \ {[op |-> op, id |-> c, uri |-> t]}
      BY <1>1 DEF Done
    <2>2. \A d : [op |-> "initialize", id |-> d].op # [op |-> op, id |-> c, uri |-> t].op
      BY <2>1
    <2>3. \A d : [op |-> "initialize", id |-> d] # [op |-> op, id |-> c, uri |-> t]
      BY <2>2
    <2> QED
      BY <2>1, <2>3
  <1>4. SessionsUnderway' /\ AnsweredBeforeDrain' /\ NobodyIsTold' /\ DrainLeavesNothingOpen'
    BY <1>1, <1>3 DEF SessionsUnderway, AnsweredBeforeDrain, NobodyIsTold, DrainLeavesNothingOpen
  <1>5. /\ RegistryTypeOK' /\ IndicesAgree' /\ SessionsAgree'
        /\ busOff' \in [Consumers -> SUBSET Topics] /\ busHandlers' \in [Topics -> SUBSET Consumers]
    <2>1. CASE KeepRegistry /\ UNCHANGED busVars
      BY <1>1, <2>1, KeepRegistryAgrees DEF TypeOK, busVars
    <2>2. CASE /\ Subscribe(c, t) /\ c \in consumers
               /\ busHandlers' = Subscribed(busHandlers, c, t)
               /\ busOff' = [busOff EXCEPT ![c] = @ \cup {t}]
      <3>1. RegistryTypeOK' /\ IndicesAgree'
        <4>1. Subscribe(c, t) /\ RegistryTypeOK
          BY <2>2 DEF TypeOK
        <4>2. RegistryTypeOK'
          BY <4>1 DEF Subscribe, SubscribersOf, RegistryTypeOK, IndicesAgree, DemandChange
        <4>3. \A d \in consumers', u \in Topics : u \in consumerSubs'[d] <=> d \in SubscribersOf(u)'
          BY <4>1 DEF Subscribe, RegistryTypeOK, IndicesAgree, SubscribersOf
        <4>4. \A u \in ActiveTopics' : topicConsumers'[u] # {} /\ ConsumersFor(u)' = topicConsumers'[u]
          BY <4>1 DEF Subscribe, RegistryTypeOK, IndicesAgree, SubscribersOf, ActiveTopics, ConsumersFor
        <4> QED
          BY <4>1, <4>2, <4>3, <4>4 DEF Subscribe, IndicesAgree
      <3>2. \A u \in Topics :
              SubscribersOf(u)' = IF u = t THEN SubscribersOf(u) \cup {c} ELSE SubscribersOf(u)
        BY <2>2 DEF Subscribe, SubscribersOf
      <3>3. consumers' = consumers /\ consumerSubs' = [consumerSubs EXCEPT ![c] = @ \cup {t}]
        BY <2>2 DEF Subscribe
      <3>4. /\ busOff' \in [Consumers -> SUBSET Topics] /\ busHandlers' \in [Topics -> SUBSET Consumers]
            /\ \A u \in Topics :
                 busHandlers'[u] = IF u = t THEN busHandlers[u] \cup {c} ELSE busHandlers[u]
            /\ \A d \in Consumers : busOff'[d] = IF d = c THEN busOff[d] \cup {t} ELSE busOff[d]
        BY <2>2 DEF Subscribed, TypeOK
      <3>5. \A d \in consumers :
              consumerSubs'[d] = IF d = c THEN consumerSubs[d] \cup {t} ELSE consumerSubs[d]
        BY <3>3 DEF TypeOK, RegistryTypeOK
      <3>6. SessionsAgree
        OBVIOUS
      <3>7. Live' = consumers'
        BY <1>1, <3>3, <3>6 DEF SessionsAgree
      <3>8. \A d \in Consumers : busOff'[d] = IF d \in consumers' THEN consumerSubs'[d] ELSE {}
        BY <2>2, <3>3, <3>4, <3>5, <3>6 DEF SessionsAgree
      <3>9. \A u \in Topics : busHandlers'[u] = SubscribersOf(u)'
        BY <3>2, <3>4, <3>6 DEF SessionsAgree
      <3> QED
        BY <3>1, <3>4, <3>7, <3>8, <3>9 DEF SessionsAgree
    <2>3. CASE /\ Unsubscribe(c, t) /\ t \in busOff[c]
               /\ busHandlers' = Unsubscribed(busHandlers, c, t)
               /\ busOff' = [busOff EXCEPT ![c] = @ \ {t}]
      <3>1. RegistryTypeOK' /\ IndicesAgree' /\ c \in consumers
        <4>1. Unsubscribe(c, t) /\ RegistryTypeOK
          BY <2>3 DEF TypeOK
        <4>2. RegistryTypeOK'
          BY <4>1 DEF Unsubscribe, LeaveTopics, WithoutConsumer, LeftEmpty, RegistryTypeOK,
                      IndicesAgree, DemandChange
        <4>3. IndicesAgree'
          BY <4>1 DEF Unsubscribe, LeaveTopics, WithoutConsumer, LeftEmpty, RegistryTypeOK,
                      IndicesAgree, SubscribersOf, ActiveTopics, ConsumersFor
        <4>4. c \in consumers
          BY <4>1 DEF Unsubscribe, IndicesAgree
        <4> QED
          BY <4>2, <4>3, <4>4
      <3>2. \A u \in Topics :
              SubscribersOf(u)' = IF u = t THEN SubscribersOf(u) \ {c} ELSE SubscribersOf(u)
        BY <2>3 DEF Unsubscribe, LeaveTopics, WithoutConsumer, LeftEmpty, SubscribersOf
      <3>3. consumers' = consumers /\ consumerSubs' = [consumerSubs EXCEPT ![c] = @ \ {t}]
        BY <2>3 DEF Unsubscribe
      <3> QED
        BY <1>1, <2>3, <3>1, <3>2, <3>3 DEF Unsubscribed, SessionsAgree, TypeOK, RegistryTypeOK
    <2> QED
      BY <2>1, <2>2, <2>3 DEF HandleSubscribe, HandleUnsubscribe
  <1>6. TypeOK'
    BY <1>1, <1>2, <1>3, <1>5 DEF TypeOK
  <1> QED
    BY <1>2, <1>4, <1>5, <1>6

(* The answers to initialize, failed or not.                               *)
LEMMA InitializeEndsKeepsInv ==
  ASSUME SessionsInv, NEW c \in Consumers, InitializeReturns(c) \/ InitializeThrows(c)
  PROVE  SessionsInv'
  <1> USE DEF SessionsInv
  <1> DEFINE r == [op |-> "initialize", id |-> c]
  <1>1. Done(r) /\ UNCHANGED <<idle, departed, phase, told>>
    BY DEF InitializeReturns, InitializeThrows, shutdownVars
  <1>2. IsFiniteSet(requests') /\ Cardinality(requests') <= MaxRequests
    BY <1>1, DoneStaysBounded DEF TypeOK
  <1>3. /\ requests' = requests \ {r}
        /\ \A d \in Consumers \ {c} : [op |-> "initialize", id |-> d] # r
    <2>1. \A d \in Consumers \ {c} : [op |-> "initialize", id |-> d].id # r.id
      OBVIOUS
    <2> QED
      BY <1>1, <2>1 DEF Done
  <1>4. CASE InitializeThrows(c) /\ c \in Live
    <2>1. DropSessions({c}) /\ {c} \subseteq Live /\ session[c] # "initializing"
      BY <1>4 DEF InitializeThrows, Live
    <2> QED
      BY <1>1, <1>2, <1>3, <2>1, DropSessionsKeepInv
  <1>5. CASE InitializeReturns(c) \/ (InitializeThrows(c) /\ c \notin Live)
    <2>1. /\ KeepRegistry /\ UNCHANGED <<streams, busVars>>
          /\ \/ session[c] # "initializing" /\ UNCHANGED <<session, transport>>
             \/ /\ c \notin Live
                /\ session' = [session EXCEPT ![c] = "gone"]
                /\ transport' = [transport EXCEPT ![c] = "closed"]
      BY <1>5 DEF InitializeReturns, InitializeThrows
    <2>2. Live' = Live
      BY <2>1 DEF Live, TypeOK
    <2>3. RegistryTypeOK' /\ IndicesAgree' /\ SessionsAgree'
      BY <2>1, <2>2, KeepRegistryAgrees
    <2>4. TypeOK'
      BY <1>1, <1>2, <1>3, <2>1, <2>3 DEF TypeOK, busVars
    <2>5. SessionsUnderway'
      <3>1. SessionsUnderway /\ c \in Consumers /\ DOMAIN session = Consumers /\ DOMAIN transport = Consumers
        BY DEF TypeOK
      <3>2. ASSUME NEW d \in Consumers \ {c}
            PROVE  session'[d] = session[d] /\ transport'[d] = transport[d]
        BY <2>1, <3>1
      <3>3. session'[c] # "initializing"
        BY <2>1, <3>1
      <3>4. transport'[c] = "open" => session'[c] = session[c] /\ transport'[c] = transport[c]
        BY <2>1, <3>1
      <3> QED
        BY <1>3, <3>1, <3>2, <3>3, <3>4 DEF SessionsUnderway
    <2>6. AnsweredBeforeDrain' /\ NobodyIsTold' /\ DrainLeavesNothingOpen'
      <3>1. \A d \in Consumers : transport'[d] = "open" => transport[d] = "open"
        BY <2>1 DEF TypeOK
      <3> QED
        BY <1>1, <1>3, <2>1, <3>1 DEF AnsweredBeforeDrain, NobodyIsTold, DrainLeavesNothingOpen
    <2> QED
      BY <1>2, <2>3, <2>4, <2>5, <2>6
  <1> QED
    BY <1>4, <1>5

(* The ends of one session and of all: DELETE, onclose, onModuleDestroy.   *)
LEMMA SessionEndsKeepInv ==
  ASSUME SessionsInv,
         \/ \E c \in Consumers : HandleDelete(c) \/ TransportCloses(c)
         \/ ControllerDestroyed
  PROVE  SessionsInv'
  <1> USE DEF SessionsInv
  <1>1. ASSUME NEW c \in Consumers, TransportCloses(c)
        PROVE  SessionsInv'
    BY <1>1, DropSessionsKeepInv DEF TransportCloses, shutdownVars, TypeOK
  <1>2. CASE ControllerDestroyed
    BY <1>2, DropSessionsKeepInv DEF ControllerDestroyed, TypeOK
  <1>3. ASSUME NEW c \in Consumers, HandleDelete(c)
        PROVE  SessionsInv'
    <2> DEFINE r == [op |-> "delete", id |-> c]
    <2>1. Done(r) /\ DropSessions({c} \cap Live) /\ UNCHANGED <<idle, departed, phase, told>>
      BY <1>3 DEF HandleDelete, shutdownVars
    <2>2. IsFiniteSet(requests') /\ Cardinality(requests') <= MaxRequests
      BY <2>1, DoneStaysBounded DEF TypeOK
    <2>3. \A d \in Consumers : [op |-> "initialize", id |-> d] # r
      <3>1. \A d \in Consumers : [op |-> "initialize", id |-> d].op # r.op
        OBVIOUS
      <3> QED
        BY <3>1
    <2> QED
      BY <2>1, <2>2, <2>3, DropSessionsKeepInv DEF Done
  <1> QED
    BY <1>1, <1>2, <1>3

-----------------------------------------------------------------------------
(* The invariant *)

(* It holds before the first session.                                      *)
LEMMA SessionsInvInit == Init => SessionsInv
  <1> SUFFICES ASSUME Init PROVE SessionsInv
    OBVIOUS
  <1>1. Cardinality({}) = 0 /\ IsFiniteSet({})
    BY FS_EmptySet
  <1>2. TypeOK /\ IsFiniteSet(requests)
    BY <1>1 DEF Init, RegistryInit, TypeOK, RegistryTypeOK
  <1>3. IndicesAgree /\ SessionsAgree
    BY DEF Init, RegistryInit, IndicesAgree, SessionsAgree, Live, SubscribersOf, ActiveTopics, ConsumersFor
  <1>4. SessionsUnderway /\ AnsweredBeforeDrain /\ NobodyIsTold /\ DrainLeavesNothingOpen
    BY DEF Init, SessionsUnderway, AnsweredBeforeDrain, NobodyIsTold, DrainLeavesNothingOpen
  <1> QED
    BY <1>2, <1>3, <1>4 DEF SessionsInv

(* It is inductive.                                                        *)
LEMMA SessionsInvStep == SessionsInv /\ [Next]_vars => SessionsInv'
  <1> SUFFICES ASSUME SessionsInv, [Next]_vars
               PROVE  SessionsInv'
    OBVIOUS
  <1>1. CASE UNCHANGED vars
    BY <1>1 DEF vars, registryVars, clientVars, busVars, shutdownVars, SessionsInv, TypeOK,
                RegistryTypeOK, IndicesAgree, SessionsAgree, SessionsUnderway, AnsweredBeforeDrain,
                NobodyIsTold, DrainLeavesNothingOpen, Live, SubscribersOf, ActiveTopics, ConsumersFor
  <1>2. CASE Next
    BY <1>2, InitializeArrivesKeepsInv, SessionInitializedKeepsInv, ClientStepsKeepInv,
       ShutdownStepsKeepInv, SubscribeKeepsInv, InitializeEndsKeepsInv, SessionEndsKeepInv
       DEF Next, RequestHandled
  <1> QED
    BY <1>1, <1>2

-----------------------------------------------------------------------------
(* The theorems *)

(* The invariant of sessions, controller and shutdown.                     *)
THEOREM SessionsInvariant == Spec => []SessionsInv
  BY SessionsInvInit, SessionsInvStep, PTL DEF Spec

(* The state of controller, session servers, registry and bus is of its    *)
(* type, and no more than MaxRequests are suspended.                       *)
THEOREM SessionsTypeCorrect == Spec => []TypeOK
  BY SessionsInvariant, PTL DEF SessionsInv

(* mcp.controller.ts, the session servers of mcp-server.service.ts, the    *)
(* registry and the bus agree on who is there and who holds what, whatever *)
(* requests were suspended when sessions ended.                            *)
THEOREM SessionsAlwaysAgree == Spec => []SessionsAgree
  BY SessionsInvariant, PTL DEF SessionsInv

(* When the drain of mcp-server.service.ts has ended, no transport of      *)
(* mcp.controller.ts is open, whichever sessions were being made when the  *)
(* shutdown began.                                                         *)
THEOREM DrainAlwaysLeavesNothingOpen == Spec => []DrainLeavesNothingOpen
  BY SessionsInvariant, PTL DEF SessionsInv

(* The rebalance notification of mcp-consumer-handle.ts is sent to nobody, *)
(* ever: the controller's onModuleDestroy has dropped the sessions that    *)
(* were there, and a session made after it has no stream when the drain    *)
(* comes.                                                                  *)
THEOREM RebalanceReachesNobody == Spec => []NobodyIsTold
  BY SessionsInvariant, PTL DEF SessionsInv
=============================================================================
