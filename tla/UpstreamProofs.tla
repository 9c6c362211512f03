--------------------------- MODULE UpstreamProofs ---------------------------
(***************************************************************************)
(* What the adapter guarantees for any symbols and however many sockets    *)
(* are alive, closing or closed at the same time: its handlers, timers and *)
(* the calls of IngestionService in every order.                           *)
(***************************************************************************)
EXTENDS Upstream, TLAPS

(* CurrentSocketCoversDemand speaks of the time outside a resync.  During  *)
(* one, what the current socket was not asked for is what will be asked    *)
(* for when the wait ends.                                                 *)
ResyncWillCoverDemand ==
  /\ IsOpen(ws) => subscribedChannels \subseteq asked[ws] \cup resyncSymbols
  /\ ~resubscribePending => resyncSymbols = {}

(* What stop() leaves behind: no channel that a late 'close' would open a  *)
(* connection for, no timer that would, no poll that would report ready,   *)
(* and no connection that the idle timer, which stop() leaves, could find. *)
NothingSurvivesStop ==
  stopRequested => subscribedChannels = {} /\ ~reconnectTimer /\ ~readinessTimer /\ ws = NoSocket

UpstreamInv ==
  TypeOK /\ ResyncWillCoverDemand /\ NothingSurvivesStop /\ DemandIsPursued /\ ReadinessIsEarned

-----------------------------------------------------------------------------
(* connect() refers this.ws to a socket of its own, which is not open yet. *)
LEMMA ConnectOpensLater ==
  ASSUME TypeOK, Connect
  PROVE  /\ ws' \in Sockets /\ readyState'[ws'] = "CONNECTING" /\ ~IsOpen(ws)'
         /\ readyState' \in [Sockets -> {"CONNECTING", "OPEN", "CLOSING", "CLOSED"}]
         /\ status' \in {"connected", "connecting", "disconnected", "reconnecting", "idle"}
         /\ asked' = asked
  BY DEF TypeOK, Connect, IsOpen

(* What is sent goes to the open current socket, or nowhere.               *)
LEMMA SentToCurrent ==
  ASSUME TypeOK, NEW symbols \in SUBSET Symbols,
         \/ SendSubscribe(symbols)
         \/ SendUnsubscribe(symbols)
  PROVE  /\ asked' \in [Sockets -> SUBSET Symbols]
         /\ IsOpen(ws) /\ SendSubscribe(symbols) => asked'[ws] = asked[ws] \cup symbols
         /\ IsOpen(ws) /\ SendUnsubscribe(symbols) => asked[ws] \subseteq asked'[ws] \cup symbols
  <1>1. ws \in Sockets \cup {NoSocket} /\ asked \in [Sockets -> SUBSET Symbols]
    BY DEF TypeOK
  <1>2. IsOpen(ws) => ws \in Sockets
    BY <1>1 DEF IsOpen
  <1>3. CASE SendSubscribe(symbols)
    BY <1>1, <1>2, <1>3 DEF SendSubscribe, SendUnsubscribe
  <1>4. CASE SendUnsubscribe(symbols)
    BY <1>1, <1>2, <1>4 DEF SendSubscribe, SendUnsubscribe
  <1> QED
    BY <1>3, <1>4

(* A socket that ends is not open any more and still owes its 'close'; the *)
(* others are left alone.                                                  *)
LEMMA ClosingLeavesOthers ==
  ASSUME TypeOK, NEW s \in Sockets \cup {NoSocket}, Closing(s)
  PROVE  /\ readyState' \in [Sockets -> {"CONNECTING", "OPEN", "CLOSING", "CLOSED"}]
         /\ asked' \in [Sockets -> SUBSET Symbols]
         /\ \A r \in Sockets :
              /\ readyState'[r] = "OPEN" => readyState[r] = "OPEN" /\ asked'[r] = asked[r]
              /\ readyState'[r] = "CLOSED" <=> readyState[r] = "CLOSED"
  BY DEF TypeOK, Closing, Alive

(* The invariant in the steps that only close, open or read: the current   *)
(* socket keeps what it was asked for, and nothing is subscribed or armed. *)
LEMMA QuietStepKeepsInv ==
  ASSUME UpstreamInv,
         ws' = ws, readyState' \in [Sockets -> {"CONNECTING", "OPEN", "CLOSING", "CLOSED"}],
         asked' \in [Sockets -> SUBSET Symbols],
         \A r \in Sockets :
           /\ readyState'[r] = "OPEN" => readyState[r] = "OPEN" /\ asked'[r] = asked[r]
           /\ readyState'[r] = "CLOSED" <=> readyState[r] = "CLOSED",
         heartbeatTimer' \in BOOLEAN, idleTimer' \in BOOLEAN,
         UNCHANGED <<ingestion, status, subscribedChannels, retrying, reconnectTimer, stopRequested,
                     resubscribePending, resyncSymbols>>
  PROVE  UpstreamInv'
  <1> USE DEF UpstreamInv
  <1>1. UNCHANGED <<lifecycle, known, readinessTimer, ready>>
    BY DEF ingestion
  <1>2. TypeOK'
    BY <1>1 DEF TypeOK
  <1>3. IsOpen(ws)' => IsOpen(ws) /\ asked'[ws] = asked[ws]
    BY DEF IsOpen, TypeOK
  <1>4. ResyncWillCoverDemand'
    BY <1>3 DEF ResyncWillCoverDemand
  <1>5. NothingSurvivesStop' /\ ReadinessIsEarned'
    BY <1>1 DEF NothingSurvivesStop, ReadinessIsEarned
  <1>6. DemandIsPursued'
    BY DEF DemandIsPursued, TypeOK
  <1> QED
    BY <1>2, <1>4, <1>5, <1>6

-----------------------------------------------------------------------------
(* Demand that comes is sent at once, or by the 'open' of the socket that  *)
(* is connecting, whether it was already there or not.                     *)
LEMMA SubscribeKeepsInv ==
  ASSUME UpstreamInv, NEW c \in Symbols, SubscribeChannels({c})
  PROVE  UpstreamInv'
  <1> USE DEF UpstreamInv
  <1> DEFINE fresh == {c} \ subscribedChannels
  <1>1. /\ ~stopRequested /\ subscribedChannels' = subscribedChannels \cup fresh /\ idleTimer' = FALSE
        /\ UNCHANGED <<lifecycle, known, readinessTimer, ready, retrying, heartbeatTimer, reconnectTimer,
                       stopRequested, resubscribePending, resyncSymbols>>
    BY DEF SubscribeChannels, TakesDemand, ingestion
  <1>2. fresh \in SUBSET Symbols
    OBVIOUS
  <1>3. NothingSurvivesStop' /\ ReadinessIsEarned'
    BY <1>1 DEF NothingSurvivesStop, ReadinessIsEarned
  <1>4. CASE ws \in Alive
    <2>1. SendSubscribe(fresh) /\ UNCHANGED <<ws, readyState, status>>
      BY <1>4 DEF SubscribeChannels
    <2> HIDE DEF fresh
    <2>2. /\ asked' \in [Sockets -> SUBSET Symbols]
          /\ IsOpen(ws) => asked'[ws] = asked[ws] \cup fresh
      BY <1>2, <2>1, SentToCurrent
    <2>3. TypeOK'
      BY <1>1, <1>2, <2>1, <2>2 DEF TypeOK
    <2>4. ResyncWillCoverDemand'
      <3>1. IsOpen(ws)' => IsOpen(ws)
        BY <2>1 DEF IsOpen
      <3> QED
        BY <1>1, <2>1, <2>2, <3>1 DEF ResyncWillCoverDemand
    <2>5. DemandIsPursued'
      <3>1. ws # NoSocket /\ readyState[ws] # "CLOSED"
        BY <1>4, NoSocketAssumption DEF Alive
      <3> QED
        BY <2>1, <3>1 DEF DemandIsPursued
    <2> QED
      BY <1>3, <2>3, <2>4, <2>5
  <1>5. CASE ws \notin Alive
    <2>1. Connect
      BY <1>5 DEF SubscribeChannels
    <2> HIDE DEF fresh
    <2>2. /\ ws' \in Sockets /\ readyState'[ws'] = "CONNECTING" /\ ~IsOpen(ws)'
          /\ readyState' \in [Sockets -> {"CONNECTING", "OPEN", "CLOSING", "CLOSED"}]
          /\ status' \in {"connected", "connecting", "disconnected", "reconnecting", "idle"}
          /\ asked' = asked
      BY <2>1, ConnectOpensLater
    <2>3. TypeOK'
      BY <1>1, <1>2, <2>2 DEF TypeOK
    <2>4. ResyncWillCoverDemand'
      BY <1>1, <2>2 DEF ResyncWillCoverDemand
    <2>5. DemandIsPursued'
      BY <2>2, NoSocketAssumption DEF DemandIsPursued
    <2> QED
      BY <1>3, <2>3, <2>4, <2>5
  <1> QED
    BY <1>4, <1>5

(* Demand that goes is given up upstream, or was never asked for.          *)
LEMMA UnsubscribeKeepsInv ==
  ASSUME UpstreamInv, NEW c \in Symbols, UnsubscribeChannels({c})
  PROVE  UpstreamInv'
  <1> USE DEF UpstreamInv
  <1> DEFINE present == {c} \cap subscribedChannels
  <1>0. idleTimer' \in BOOLEAN
    <2>1. (SocketIdleMs > 0) \in BOOLEAN
      BY SocketIdleMsAssumption
    <2>2. CASE subscribedChannels' = {}
      <3>1. idleTimer' = (SocketIdleMs > 0)
        BY <2>2 DEF UnsubscribeChannels
      <3> QED
        BY <2>1, <3>1
    <2>3. CASE subscribedChannels' # {}
      BY <2>3 DEF UnsubscribeChannels, TypeOK
    <2> QED
      BY <2>2, <2>3
  <1>1. /\ subscribedChannels' = subscribedChannels \ present
        /\ SendUnsubscribe(present)
        /\ UNCHANGED <<lifecycle, known, readinessTimer, ready, ws, readyState, status, retrying,
                       heartbeatTimer, reconnectTimer, stopRequested, resubscribePending, resyncSymbols>>
    BY DEF UnsubscribeChannels, ingestion
  <1>2. present \in SUBSET Symbols
    OBVIOUS
  <1> HIDE DEF present
  <1>3. /\ asked' \in [Sockets -> SUBSET Symbols]
        /\ IsOpen(ws) => asked[ws] \subseteq asked'[ws] \cup present
    BY <1>1, <1>2, SentToCurrent
  <1>4. TypeOK'
    BY <1>0, <1>1, <1>3 DEF TypeOK
  <1>5. ResyncWillCoverDemand'
    <2>1. IsOpen(ws)' => IsOpen(ws)
      BY <1>1 DEF IsOpen
    <2> QED
      BY <1>1, <1>3, <2>1 DEF ResyncWillCoverDemand
  <1>6. NothingSurvivesStop' /\ ReadinessIsEarned' /\ DemandIsPursued'
    BY <1>1 DEF NothingSurvivesStop, ReadinessIsEarned, DemandIsPursued
  <1> QED
    BY <1>4, <1>5, <1>6

(* stop() clears what could open a connection later, but the suspended     *)
(* resync, which finds no socket to write to.                              *)
LEMMA StopKeepsInv ==
  ASSUME UpstreamInv, Stop
  PROVE  UpstreamInv'
  <1> USE DEF UpstreamInv
  <1>1. /\ stopRequested' = TRUE /\ subscribedChannels' = {} /\ ws' = NoSocket
        /\ heartbeatTimer' = FALSE /\ reconnectTimer' = FALSE /\ readinessTimer' = FALSE
        /\ ready' = FALSE /\ status' = "disconnected"
        /\ UNCHANGED <<lifecycle, known, retrying, idleTimer, resubscribePending, resyncSymbols>>
    BY DEF Stop, Unready, StopReadinessPoll
  <1>2. /\ readyState' \in [Sockets -> {"CONNECTING", "OPEN", "CLOSING", "CLOSED"}]
        /\ asked' \in [Sockets -> SUBSET Symbols]
    <2>1. ws \in Sockets \cup {NoSocket} /\ Closing(ws)
      BY DEF Stop, TypeOK
    <2> QED
      BY <2>1, ClosingLeavesOthers
  <1>3. TypeOK'
    BY <1>1, <1>2 DEF TypeOK
  <1>4. ResyncWillCoverDemand'
    BY <1>1 DEF ResyncWillCoverDemand
  <1>5. NothingSurvivesStop' /\ ReadinessIsEarned' /\ DemandIsPursued'
    BY <1>1 DEF NothingSurvivesStop, ReadinessIsEarned, DemandIsPursued
  <1> QED
    BY <1>3, <1>4, <1>5

(* 'open' asks for every channel on the current socket if it is open, also *)
(* when the socket that opened is not the current one.                     *)
LEMMA OpenKeepsInv ==
  ASSUME UpstreamInv, NEW s \in Sockets, SocketOpens(s)
  PROVE  UpstreamInv'
  <1> USE DEF UpstreamInv
  <1>1. /\ readyState[s] = "CONNECTING" /\ readyState' = [readyState EXCEPT ![s] = "OPEN"]
        /\ asked' = IF ws # NoSocket /\ readyState'[ws] = "OPEN"
                    THEN [asked EXCEPT ![ws] = @ \cup subscribedChannels]
                    ELSE asked
        /\ status' = "connected" /\ retrying' = FALSE /\ heartbeatTimer' = TRUE
        /\ UNCHANGED <<lifecycle, known, readinessTimer, ready, ws, subscribedChannels, reconnectTimer,
                       idleTimer, stopRequested, resubscribePending, resyncSymbols>>
    BY DEF SocketOpens, ingestion
  <1>2. /\ ws \in Sockets \cup {NoSocket} /\ asked \in [Sockets -> SUBSET Symbols]
        /\ readyState \in [Sockets -> {"CONNECTING", "OPEN", "CLOSING", "CLOSED"}]
        /\ subscribedChannels \subseteq Symbols
    BY DEF TypeOK
  <1>3. asked' \in [Sockets -> SUBSET Symbols] /\ (IsOpen(ws)' => subscribedChannels \subseteq asked'[ws])
    BY <1>1, <1>2 DEF IsOpen
  <1>4. TypeOK'
    BY <1>1, <1>3 DEF TypeOK
  <1>5. ResyncWillCoverDemand'
    BY <1>1, <1>3 DEF ResyncWillCoverDemand
  <1>6. NothingSurvivesStop' /\ ReadinessIsEarned'
    BY <1>1 DEF NothingSurvivesStop, ReadinessIsEarned
  <1>7. DemandIsPursued'
    <2>1. ws # NoSocket /\ readyState'[ws] = "CLOSED" => readyState[ws] = "CLOSED"
      BY <1>1, <1>2
    <2> QED
      BY <1>1, <2>1 DEF DemandIsPursued
  <1> QED
    BY <1>4, <1>5, <1>6, <1>7

(* A gap gives all channels up and remembers them for the end of the wait. *)
LEMMA GapKeepsInv ==
  ASSUME UpstreamInv, NEW s \in Sockets, SequenceGap(s)
  PROVE  UpstreamInv'
  <1> USE DEF UpstreamInv
  <1>1. /\ SendUnsubscribe(subscribedChannels)
        /\ heartbeatTimer' = TRUE /\ resubscribePending' = TRUE /\ resyncSymbols' = subscribedChannels
        /\ UNCHANGED <<lifecycle, known, readinessTimer, ready, ws, readyState, status,
                       subscribedChannels, retrying, reconnectTimer, idleTimer, stopRequested>>
    BY DEF SequenceGap, ingestion
  <1>2. asked' \in [Sockets -> SUBSET Symbols]
    <2>1. subscribedChannels \in SUBSET Symbols
      BY DEF TypeOK
    <2> QED
      BY <1>1, <2>1, SentToCurrent
  <1>3. TypeOK'
    BY <1>1, <1>2 DEF TypeOK
  <1>4. ResyncWillCoverDemand'
    BY <1>1 DEF ResyncWillCoverDemand
  <1>5. NothingSurvivesStop' /\ ReadinessIsEarned' /\ DemandIsPursued'
    BY <1>1 DEF NothingSurvivesStop, ReadinessIsEarned, DemandIsPursued
  <1> QED
    BY <1>3, <1>4, <1>5

(* The end of the wait asks for what the gap remembered, on whatever       *)
(* socket is the current one by now.                                       *)
LEMMA WaitKeepsInv ==
  ASSUME UpstreamInv, ResyncWaitEnds
  PROVE  UpstreamInv'
  <1> USE DEF UpstreamInv
  <1>1. /\ SendSubscribe(resyncSymbols) /\ resubscribePending' = FALSE /\ resyncSymbols' = {}
        /\ UNCHANGED <<lifecycle, known, readinessTimer, ready, ws, readyState, status,
                       subscribedChannels, retrying, heartbeatTimer, reconnectTimer, idleTimer,
                       stopRequested>>
    BY DEF ResyncWaitEnds, ingestion, timers
  <1>2. /\ asked' \in [Sockets -> SUBSET Symbols]
        /\ IsOpen(ws) => asked'[ws] = asked[ws] \cup resyncSymbols
    <2>1. resyncSymbols \in SUBSET Symbols
      BY DEF TypeOK
    <2> QED
      BY <1>1, <2>1, SentToCurrent
  <1>3. TypeOK'
    BY <1>1, <1>2 DEF TypeOK
  <1>4. ResyncWillCoverDemand'
    <2>1. IsOpen(ws)' => IsOpen(ws)
      BY <1>1 DEF IsOpen
    <2> QED
      BY <1>1, <1>2, <2>1 DEF ResyncWillCoverDemand
  <1>5. NothingSurvivesStop' /\ ReadinessIsEarned' /\ DemandIsPursued'
    BY <1>1 DEF NothingSurvivesStop, ReadinessIsEarned, DemandIsPursued
  <1> QED
    BY <1>3, <1>4, <1>5

(* A 'close', of whichever socket, schedules a reconnect while there is    *)
(* demand, and none once stopped: then there is no demand either.          *)
LEMMA CloseKeepsInv ==
  ASSUME UpstreamInv, NEW s \in Sockets, SocketClosed(s)
  PROVE  UpstreamInv'
  <1> USE DEF UpstreamInv
  <1>1. /\ readyState[s] = "CLOSING" /\ readyState' = [readyState EXCEPT ![s] = "CLOSED"]
        /\ heartbeatTimer' = FALSE
        /\ UNCHANGED <<lifecycle, known, readinessTimer, ready, ws, asked, subscribedChannels, idleTimer,
                       stopRequested, resubscribePending, resyncSymbols>>
    BY DEF SocketClosed, ingestion
  <1>2. /\ reconnectTimer' \in BOOLEAN /\ retrying' \in BOOLEAN /\ status' \in {"disconnected", "idle"}
        /\ stopRequested => ~reconnectTimer'
        /\ subscribedChannels # {} /\ ~stopRequested => reconnectTimer'
    <2>1. stopRequested \in BOOLEAN /\ retrying \in BOOLEAN
      BY DEF TypeOK
    <2>2. CASE subscribedChannels # {}
      <3>1. /\ status' = "disconnected" /\ reconnectTimer' = ~stopRequested
            /\ retrying' = (retrying \/ ~stopRequested)
        BY <2>2 DEF SocketClosed
      <3> QED
        BY <2>1, <3>1, Zenon
    <2>3. CASE subscribedChannels = {}
      BY <2>1, <2>3 DEF SocketClosed
    <2> QED
      BY <2>2, <2>3
  <1>3. /\ ws \in Sockets \cup {NoSocket}
        /\ readyState' \in [Sockets -> {"CONNECTING", "OPEN", "CLOSING", "CLOSED"}]
    BY <1>1 DEF TypeOK
  <1>4. TypeOK'
    BY <1>1, <1>2, <1>3 DEF TypeOK
  <1>5. ResyncWillCoverDemand'
    <2>1. IsOpen(ws)' => IsOpen(ws)
      BY <1>1, <1>3 DEF IsOpen, TypeOK
    <2> QED
      BY <1>1, <2>1 DEF ResyncWillCoverDemand
  <1>6. NothingSurvivesStop' /\ ReadinessIsEarned'
    BY <1>1, <1>2 DEF NothingSurvivesStop, ReadinessIsEarned
  <1>7. DemandIsPursued'
    BY <1>1, <1>2 DEF DemandIsPursued, NothingSurvivesStop
  <1> QED
    BY <1>4, <1>5, <1>6, <1>7

(* The reconnect timer is not armed once stopped.                          *)
LEMMA ReconnectKeepsInv ==
  ASSUME UpstreamInv, ReconnectFires
  PROVE  UpstreamInv'
  <1> USE DEF UpstreamInv
  <1>1. /\ Connect /\ reconnectTimer' = FALSE /\ ~stopRequested
        /\ UNCHANGED <<lifecycle, known, readinessTimer, ready, subscribedChannels, retrying,
                       heartbeatTimer, idleTimer, stopRequested, resubscribePending, resyncSymbols>>
    BY DEF ReconnectFires, ingestion, NothingSurvivesStop
  <1>2. /\ ws' \in Sockets /\ readyState'[ws'] = "CONNECTING" /\ ~IsOpen(ws)'
        /\ readyState' \in [Sockets -> {"CONNECTING", "OPEN", "CLOSING", "CLOSED"}]
        /\ status' \in {"connected", "connecting", "disconnected", "reconnecting", "idle"}
        /\ asked' = asked
    BY <1>1, ConnectOpensLater
  <1>3. TypeOK'
    BY <1>1, <1>2 DEF TypeOK
  <1>4. ResyncWillCoverDemand' /\ NothingSurvivesStop' /\ ReadinessIsEarned'
    BY <1>1, <1>2 DEF ResyncWillCoverDemand, NothingSurvivesStop, ReadinessIsEarned
  <1>5. DemandIsPursued'
    BY <1>2, NoSocketAssumption DEF DemandIsPursued
  <1> QED
    BY <1>3, <1>4, <1>5

(* A message and the poll for readiness: a book once known stays known,    *)
(* and the poll runs only until the stop.                                  *)
LEMMA ReadinessKeepsInv ==
  ASSUME UpstreamInv,
         \/ \E s \in Sockets : SocketMessage(s)
         \/ ReadinessPollFires
  PROVE  UpstreamInv'
  <1> USE DEF UpstreamInv
  <1>1. /\ UNCHANGED <<lifecycle, ws, readyState, asked, status, subscribedChannels, retrying,
                       reconnectTimer, idleTimer, stopRequested, resubscribePending, resyncSymbols>>
        /\ heartbeatTimer' \in BOOLEAN
        /\ readinessTimer' \in BOOLEAN /\ (readinessTimer' => readinessTimer)
    <2>1. readinessTimer \in BOOLEAN /\ heartbeatTimer \in BOOLEAN
      BY DEF TypeOK
    <2>2. CASE \E s \in Sockets : SocketMessage(s)
      BY <2>1, <2>2 DEF SocketMessage
    <2>3. CASE ReadinessPollFires
      BY <2>1, <2>3 DEF ReadinessPollFires, StopReadinessPoll, timers
    <2> QED
      BY <2>2, <2>3
  <1>2. known' \in BOOLEAN /\ ready' \in BOOLEAN /\ ReadinessIsEarned'
    <2>1. ASSUME NEW s \in Sockets, SocketMessage(s)
          PROVE  known' \in BOOLEAN /\ ready' \in BOOLEAN /\ ReadinessIsEarned'
      <3>1. /\ known' = known \/ known' = (lifecycle = "eager")
            /\ UNCHANGED <<lifecycle, ready, stopRequested>> /\ known \in BOOLEAN /\ ready \in BOOLEAN
        BY <2>1 DEF SocketMessage, TypeOK
      <3>2. known' \in BOOLEAN /\ (lifecycle = "eager" /\ known => known')
        <4>1. CASE known' = known
          BY <3>1, <4>1
        <4>2. CASE known' = (lifecycle = "eager") /\ lifecycle = "eager"
          <5>1. known'
            BY <4>2
          <5>2. known' \in BOOLEAN
            BY <4>2
          <5> QED
            BY <5>1, <5>2
        <4>3. CASE known' = (lifecycle = "eager") /\ lifecycle # "eager"
          BY <4>3
        <4> QED
          BY <3>1, <4>1, <4>2, <4>3
      <3> QED
        BY <3>1, <3>2 DEF ReadinessIsEarned
    <2>2. CASE ReadinessPollFires
      BY <2>2 DEF ReadinessPollFires, ReadinessIsEarned, NothingSurvivesStop, TypeOK
    <2> QED
      BY <2>1, <2>2
  <1>3. TypeOK'
    BY <1>1, <1>2 DEF TypeOK
  <1>4. ResyncWillCoverDemand' /\ NothingSurvivesStop' /\ DemandIsPursued'
    BY <1>1 DEF ResyncWillCoverDemand, NothingSurvivesStop, DemandIsPursued, IsOpen
  <1> QED
    BY <1>2, <1>3, <1>4

-----------------------------------------------------------------------------
(* In either lifecycle, ingestion has just been started.                   *)
LEMMA InitUpstreamInv == Init => UpstreamInv
  <1> SUFFICES ASSUME Init
               PROVE  UpstreamInv
    OBVIOUS
  <1> USE NoSocketAssumption DEF Init
  <1>1. CASE BootstrapEager
    BY <1>1 DEF BootstrapEager, UpstreamInv, TypeOK, ResyncWillCoverDemand, NothingSurvivesStop,
                DemandIsPursued, ReadinessIsEarned, IsOpen
  <1>2. CASE BootstrapDemandDriven
    BY <1>2 DEF BootstrapDemandDriven, UpstreamInv, TypeOK, ResyncWillCoverDemand,
                NothingSurvivesStop, DemandIsPursued, ReadinessIsEarned, IsOpen
  <1> QED
    BY <1>1, <1>2

(* Every handler, timer callback and call keeps it.                        *)
LEMMA NextUpstreamInv == UpstreamInv /\ [Next]_vars => UpstreamInv'
  <1> SUFFICES ASSUME UpstreamInv, [Next]_vars
               PROVE  UpstreamInv'
    OBVIOUS
  <1>1. CASE \E c \in Symbols : SubscribeChannels({c})
    BY <1>1, SubscribeKeepsInv
  <1>2. CASE \E c \in Symbols : UnsubscribeChannels({c})
    BY <1>2, UnsubscribeKeepsInv
  <1>3. CASE Stop
    BY <1>3, StopKeepsInv
  <1>4. CASE \E s \in Sockets : SocketOpens(s)
    BY <1>4, OpenKeepsInv
  <1>5. CASE (\E s \in Sockets : SocketMessage(s)) \/ ReadinessPollFires
    BY <1>5, ReadinessKeepsInv
  <1>6. CASE \E s \in Sockets : SequenceGap(s)
    BY <1>6, GapKeepsInv
  <1>7. CASE \E s \in Sockets : SocketFails(s)
    <2>1. PICK s \in Sockets : SocketFails(s)
      BY <1>7
    <2>2. TypeOK /\ Closing(s)
      BY <2>1 DEF UpstreamInv, SocketFails
    <2>3. /\ UNCHANGED <<ingestion, ws, status, subscribedChannels, retrying, reconnectTimer,
                         stopRequested, resubscribePending, resyncSymbols>>
          /\ heartbeatTimer' \in BOOLEAN /\ idleTimer' \in BOOLEAN
      BY <2>1 DEF SocketFails, timers, UpstreamInv, TypeOK
    <2> QED
      BY <2>2, <2>3, ClosingLeavesOthers, QuietStepKeepsInv
  <1>8. CASE \E s \in Sockets : SocketClosed(s)
    BY <1>8, CloseKeepsInv
  <1>9. CASE ResyncWaitEnds
    BY <1>9, WaitKeepsInv
  <1>10. CASE HeartbeatFires
    <2>1. TypeOK /\ Closing(ws) /\ ws \in Sockets \cup {NoSocket}
      BY <1>10 DEF UpstreamInv, TypeOK, HeartbeatFires
    <2>2. /\ UNCHANGED <<ingestion, ws, status, subscribedChannels, retrying, reconnectTimer,
                         stopRequested, resubscribePending, resyncSymbols>>
          /\ heartbeatTimer' \in BOOLEAN /\ idleTimer' \in BOOLEAN
      BY <1>10 DEF HeartbeatFires, UpstreamInv, TypeOK
    <2> QED
      BY <2>1, <2>2, ClosingLeavesOthers, QuietStepKeepsInv
  <1>11. CASE ReconnectFires
    BY <1>11, ReconnectKeepsInv
  <1>12. CASE IdleFires
    <2>1. TypeOK /\ ws \in Sockets \cup {NoSocket} /\ (Closing(ws) \/ UNCHANGED <<readyState, asked>>)
      BY <1>12 DEF UpstreamInv, TypeOK, IdleFires
    <2>2. /\ UNCHANGED <<ingestion, ws, status, subscribedChannels, retrying, reconnectTimer,
                         stopRequested, resubscribePending, resyncSymbols>>
          /\ heartbeatTimer' \in BOOLEAN /\ idleTimer' \in BOOLEAN
      BY <1>12 DEF IdleFires, UpstreamInv, TypeOK
    <2>3. CASE Closing(ws)
      BY <2>1, <2>2, <2>3, ClosingLeavesOthers, QuietStepKeepsInv
    <2>4. CASE UNCHANGED <<readyState, asked>>
      <3>1. /\ readyState' \in [Sockets -> {"CONNECTING", "OPEN", "CLOSING", "CLOSED"}]
            /\ asked' \in [Sockets -> SUBSET Symbols]
            /\ UNCHANGED <<readyState, asked>>
        BY <2>1, <2>4 DEF TypeOK
      <3> QED
        BY <2>2, <3>1, QuietStepKeepsInv
    <2> QED
      BY <2>1, <2>3, <2>4
  <1>13. CASE UNCHANGED vars
    BY <1>13 DEF vars, ingestion, timers, UpstreamInv, TypeOK, ResyncWillCoverDemand,
                 NothingSurvivesStop, DemandIsPursued, ReadinessIsEarned, IsOpen
  <1> QED
    BY <1>1, <1>2, <1>3, <1>4, <1>5, <1>6, <1>7, <1>8, <1>9, <1>10, <1>11, <1>12, <1>13 DEF Next

(* The inductive invariant, in every behaviour of the adapter.             *)
THEOREM UpstreamInvariant == Spec => []UpstreamInv
  BY InitUpstreamInv, NextUpstreamInv, PTL DEF Spec

(* this.ws, the sockets, the channels and the flags keep their types.      *)
THEOREM UpstreamTypeCorrect == Spec => []TypeOK
  <1>1. UpstreamInv => TypeOK
    BY DEF UpstreamInv
  <1> QED
    BY <1>1, UpstreamInvariant, PTL

(* However demand, opening, closing, gaps, resyncs and reconnects of any   *)
(* number of sockets interleave, no subscribed channel falls through       *)
(* between "sent now" and "sent by 'open'".                                *)
THEOREM CurrentSocketAlwaysCoversDemand == Spec => []CurrentSocketCoversDemand
  <1>1. UpstreamInv => CurrentSocketCoversDemand
    BY DEF UpstreamInv, ResyncWillCoverDemand, CurrentSocketCoversDemand
  <1> QED
    BY <1>1, UpstreamInvariant, PTL

(* While there is demand, a socket is there that is connecting, open or    *)
(* about to close, or a reconnect is scheduled.                            *)
THEOREM DemandIsAlwaysPursued == Spec => []DemandIsPursued
  <1>1. UpstreamInv => DemandIsPursued
    BY DEF UpstreamInv
  <1> QED
    BY <1>1, UpstreamInvariant, PTL

(* /readyz never says ready before an eager hub has a book, nor after the  *)
(* shutdown began.                                                         *)
THEOREM ReadinessIsAlwaysEarned == Spec => []ReadinessIsEarned
  <1>1. UpstreamInv => ReadinessIsEarned
    BY DEF UpstreamInv
  <1> QED
    BY <1>1, UpstreamInvariant, PTL

(* After stop() no timer, close event or suspended resync opens another    *)
(* connection.                                                             *)
THEOREM StopIsAlwaysFinal == Spec => StopIsFinal
  <1>1. UpstreamInv /\ [Next]_vars
          => (stopRequested => \A s \in Sockets : readyState[s] = "CLOSED" => readyState'[s] = "CLOSED")
    <2> SUFFICES ASSUME UpstreamInv, [Next]_vars, stopRequested,
                        NEW s \in Sockets, readyState[s] = "CLOSED"
                 PROVE  readyState'[s] = "CLOSED"
      OBVIOUS
    <2>1. /\ TypeOK /\ ~reconnectTimer /\ ws \in Sockets \cup {NoSocket}
          /\ readyState \in [Sockets -> {"CONNECTING", "OPEN", "CLOSING", "CLOSED"}]
      BY DEF UpstreamInv, NothingSurvivesStop, TypeOK
    <2>2. CASE \E r \in Sockets \cup {NoSocket} : Closing(r)
      BY <2>1, <2>2, ClosingLeavesOthers
    <2>3. CASE \E r \in Sockets : SocketOpens(r) \/ SocketClosed(r)
      BY <2>1, <2>3 DEF SocketOpens, SocketClosed
    <2>4. CASE readyState' = readyState
      BY <2>4
    <2>5. /\ ~\E c \in Symbols : SubscribeChannels({c})
          /\ ~ReconnectFires
      BY <2>1 DEF SubscribeChannels, TakesDemand, ReconnectFires
    <2> QED
      BY <2>1, <2>2, <2>3, <2>4, <2>5
      DEF Next, vars, UnsubscribeChannels, Stop, SocketMessage, SequenceGap, SocketFails, ResyncWaitEnds,
          HeartbeatFires, IdleFires, ReadinessPollFires
  <1> QED
    BY <1>1, UpstreamInvariant, PTL DEF Spec, StopIsFinal

=============================================================================
