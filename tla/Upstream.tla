------------------------------ MODULE Upstream ------------------------------
(***************************************************************************)
(* CoinbaseAdapter (packages/ingestion/src/coinbase/coinbase.adapter.ts):  *)
(* the sockets it opens towards Coinbase, the channels it wants and has    *)
(* asked for, and its timers, as IngestionService starts, drives and stops *)
(* it in either lifecycle, and the readiness it reports.                   *)
(*                                                                         *)
(* The adapter keeps one reference, this.ws, but the handlers of a socket  *)
(* it no longer refers to still run, so the model keeps every socket that  *)
(* is not CLOSED.  A socket id stands for a WebSocket object and is used   *)
(* again once its 'close' event has run: nothing can refer to it then.     *)
(* The node event loop runs one handler at a time, so an action is one     *)
(* handler, timer callback or call from IngestionService; the only await   *)
(* inside one is the 100 ms wait of handleSequenceGap, which splits it in  *)
(* two.  Time is abstracted: an armed timer may fire in any later step.    *)
(* reconnectAttempts is kept as whether it is positive, which is all that  *)
(* anything but the length of the backoff reads of it.                     *)
(***************************************************************************)
EXTENDS Integers, FiniteSets

CONSTANTS Symbols,       \* config.symbols
          SocketIdleMs,  \* config.socketIdleMs; 0: no idle timer
          Sockets,       \* bound: sockets that are alive at the same time
          NoSocket       \* this.ws = null

ASSUME SocketIdleMsAssumption == SocketIdleMs \in Nat
ASSUME NoSocketAssumption == NoSocket \notin Sockets

VARIABLES lifecycle,           \* INGESTION_LIFECYCLE of the process
          known,               \* eager: the store has a book; nothing else reads it here
          readinessTimer,      \* eager: the poll that waits for one
          ready,               \* what IngestionService reports
          ws,                  \* this.ws
          readyState,          \* of every socket
          asked,               \* what upstream was last asked to feed on it
          status,
          subscribedChannels,
          retrying,            \* reconnectAttempts > 0
          heartbeatTimer, reconnectTimer, idleTimer,   \* armed or not
          stopRequested,
          resubscribePending,
          resyncSymbols        \* local `symbols` of the suspended handleSequenceGap

ingestion == <<lifecycle, known, readinessTimer, ready>>
timers == <<heartbeatTimer, reconnectTimer, idleTimer>>
vars == <<ingestion, ws, readyState, asked, status, subscribedChannels, retrying, timers,
          stopRequested, resubscribePending, resyncSymbols>>

TypeOK ==
  /\ lifecycle \in {"eager", "demand_driven"}
  /\ ws \in Sockets \cup {NoSocket}
  /\ readyState \in [Sockets -> {"CONNECTING", "OPEN", "CLOSING", "CLOSED"}]
  /\ asked \in [Sockets -> SUBSET Symbols]
  /\ status \in {"connected", "connecting", "disconnected", "reconnecting", "idle"}
  /\ subscribedChannels \subseteq Symbols
  /\ {known, readinessTimer, ready, retrying, heartbeatTimer, reconnectTimer, idleTimer,
      stopRequested, resubscribePending} \subseteq BOOLEAN
  /\ resyncSymbols \subseteq Symbols

\* start({preSubscribe}): everything is subscribed, on a socket that opens.
BootstrapEager ==
  /\ lifecycle = "eager"
  /\ readinessTimer = TRUE /\ ready = FALSE
  /\ ws \in Sockets
  /\ readyState = [s \in Sockets |-> IF s = ws THEN "CONNECTING" ELSE "CLOSED"]
  /\ status = "connecting"
  /\ subscribedChannels = Symbols

\* start() without preSubscribe: nothing until there is demand.
BootstrapDemandDriven ==
  /\ lifecycle = "demand_driven"
  /\ readinessTimer = FALSE /\ ready = TRUE
  /\ ws = NoSocket
  /\ readyState = [s \in Sockets |-> "CLOSED"]
  /\ status = "idle"
  /\ subscribedChannels = {}

Init ==
  /\ BootstrapEager \/ BootstrapDemandDriven
  /\ known = FALSE
  /\ asked = [s \in Sockets |-> {}]
  /\ retrying = FALSE
  /\ heartbeatTimer = FALSE /\ reconnectTimer = FALSE /\ idleTimer = FALSE
  /\ stopRequested = FALSE
  /\ resubscribePending = FALSE
  /\ resyncSymbols = {}

-----------------------------------------------------------------------------
(* The socket this.ws *)

Alive == {s \in Sockets : readyState[s] \in {"CONNECTING", "OPEN"}}

IsOpen(s) == s # NoSocket /\ readyState[s] = "OPEN"

\* sendSubscribe and sendUnsubscribe write to this.ws, and only when it is
\* OPEN; level2 and heartbeats go together.
SendSubscribe(symbols) ==
  asked' = IF IsOpen(ws) THEN [asked EXCEPT ![ws] = @ \cup symbols] ELSE asked

SendUnsubscribe(symbols) ==
  asked' = IF IsOpen(ws) THEN [asked EXCEPT ![ws] = @ \ symbols] ELSE asked

\* close() or terminate(): the socket is CLOSING, and its 'close' event comes
\* later.  What was asked on it is void.
Closing(s) ==
  IF s \in Alive
  THEN /\ readyState' = [readyState EXCEPT ![s] = "CLOSING"]
       /\ asked' = [asked EXCEPT ![s] = {}]
  ELSE UNCHANGED <<readyState, asked>>

\* connect(): nothing here looks at the socket this.ws refers to so far.
Connect ==
  \E s \in Sockets :
    /\ readyState[s] = "CLOSED"
    /\ ws' = s
    /\ readyState' = [readyState EXCEPT ![s] = "CONNECTING"]
    /\ status' = IF retrying THEN "reconnecting" ELSE "connecting"
    /\ UNCHANGED asked

-----------------------------------------------------------------------------
(* Calls from IngestionService                                             *)

\* The demand callback is there when demand-driven, and is detached before stop
\* is called.  It passes one symbol at a time.
TakesDemand == lifecycle = "demand_driven" /\ ~stopRequested

\* Symbols that are all subscribed already return early.
SubscribeChannels(symbols) ==
  LET fresh == symbols \ subscribedChannels IN
  /\ TakesDemand
  /\ fresh # {}
  /\ subscribedChannels' = subscribedChannels \cup fresh
  /\ idleTimer' = FALSE
  /\ IF ws \in Alive
     THEN SendSubscribe(fresh) /\ UNCHANGED <<ws, readyState, status>>
     ELSE Connect
  /\ UNCHANGED <<ingestion, retrying, heartbeatTimer, reconnectTimer, stopRequested,
                 resubscribePending, resyncSymbols>>

\* The last channel arms the idle timer, whatever the socket is doing, unless
\* idle close is disabled; a timer that is armed already is cancelled first.
UnsubscribeChannels(symbols) ==
  LET present == symbols \cap subscribedChannels IN
  /\ TakesDemand
  /\ present # {}
  /\ subscribedChannels' = subscribedChannels \ present
  /\ SendUnsubscribe(present)
  /\ idleTimer' = IF subscribedChannels' = {} THEN SocketIdleMs > 0 ELSE idleTimer
  /\ UNCHANGED <<ingestion, ws, readyState, status, retrying, heartbeatTimer, reconnectTimer,
                 stopRequested, resubscribePending, resyncSymbols>>

StopReadinessPoll == readinessTimer' = FALSE

\* No poll, and not ready any more
Unready == StopReadinessPoll /\ ready' = FALSE /\ UNCHANGED <<lifecycle, known>>

\* The reconnect timer survives the stop.
Stop_KeepsReconnectTimer ==
  /\ ~stopRequested
  /\ Unready
  /\ stopRequested' = TRUE
  /\ heartbeatTimer' = FALSE
  /\ Closing(ws)
  /\ ws' = NoSocket
  /\ subscribedChannels' = {}
  /\ status' = "disconnected"
  /\ UNCHANGED <<retrying, reconnectTimer, idleTimer, resubscribePending, resyncSymbols>>

\* The readiness poll goes on.
Stop_KeepsReadinessPoll ==
  /\ ~stopRequested
  /\ ready' = FALSE
  /\ stopRequested' = TRUE
  /\ heartbeatTimer' = FALSE /\ reconnectTimer' = FALSE
  /\ Closing(ws)
  /\ ws' = NoSocket
  /\ subscribedChannels' = {}
  /\ status' = "disconnected"
  /\ UNCHANGED <<lifecycle, known, readinessTimer, retrying, idleTimer, resubscribePending,
                 resyncSymbols>>

\* IngestionService.onModuleDestroy, which calls stop(): clearTimers leaves the
\* idle timer, and only this.ws is closed.
Stop ==
  /\ ~stopRequested
  /\ Unready
  /\ stopRequested' = TRUE
  /\ heartbeatTimer' = FALSE /\ reconnectTimer' = FALSE
  /\ Closing(ws)
  /\ ws' = NoSocket
  /\ subscribedChannels' = {}
  /\ status' = "disconnected"
  /\ UNCHANGED <<retrying, idleTimer, resubscribePending, resyncSymbols>>

-----------------------------------------------------------------------------
(* Socket events *)

\* Only the socket is marked open; nothing is asked for again.
SocketOpens_NoResubscribe(s) ==
  /\ readyState[s] = "CONNECTING"
  /\ readyState' = [readyState EXCEPT ![s] = "OPEN"]
  /\ status' = "connected"
  /\ retrying' = FALSE
  /\ heartbeatTimer' = TRUE
  /\ UNCHANGED <<ingestion, ws, asked, subscribedChannels, reconnectTimer, idleTimer, stopRequested,
                 resubscribePending, resyncSymbols>>

\* 'open' on s subscribes every tracked channel, on this.ws if that is OPEN by
\* now, which it is when s is this.ws.
SocketOpens(s) ==
  /\ readyState[s] = "CONNECTING"
  /\ readyState' = [readyState EXCEPT ![s] = "OPEN"]
  /\ asked' = IF ws # NoSocket /\ readyState'[ws] = "OPEN"
              THEN [asked EXCEPT ![ws] = @ \cup subscribedChannels]
              ELSE asked
  /\ status' = "connected"
  /\ retrying' = FALSE
  /\ heartbeatTimer' = TRUE
  /\ UNCHANGED <<ingestion, ws, subscribedChannels, reconnectTimer, idleTimer, stopRequested,
                 resubscribePending, resyncSymbols>>

\* Upstream sends on a socket it was asked to feed.  What it had sent before,
\* and acks, also come on one where nothing is asked for any more, and are
\* still read from one that is CLOSING.
MayReceive(s) == readyState[s] \in {"OPEN", "CLOSING"}

\* 'message' on s pets the watchdog; it may hold a snapshot.
SocketMessage(s) ==
  /\ MayReceive(s)
  /\ heartbeatTimer' = TRUE
  /\ known' \in {known, lifecycle = "eager"}
  /\ UNCHANGED <<lifecycle, readinessTimer, ready, ws, readyState, asked, status,
                 subscribedChannels, retrying, reconnectTimer, idleTimer, stopRequested,
                 resubscribePending, resyncSymbols>>

\* A message whose sequence number is not the next one: the first half of
\* handleSequenceGap, up to its await.  A second gap during the wait, or no
\* channels, returns early and is a SocketMessage.
SequenceGap(s) ==
  /\ MayReceive(s)
  /\ heartbeatTimer' = TRUE
  /\ ~resubscribePending
  /\ subscribedChannels # {}
  /\ resubscribePending' = TRUE
  /\ resyncSymbols' = subscribedChannels
  /\ SendUnsubscribe(subscribedChannels)
  /\ UNCHANGED <<ingestion, ws, readyState, status, subscribedChannels, retrying, reconnectTimer,
                 idleTimer, stopRequested>>

\* The wait is over but the channels are not asked for again.
ResyncWaitEnds_NoSubscribe ==
  /\ resubscribePending
  /\ resubscribePending' = FALSE
  /\ resyncSymbols' = {}
  /\ UNCHANGED <<ingestion, ws, readyState, asked, status, subscribedChannels, retrying, timers,
                 stopRequested>>

\* The second half, 100 ms later: the symbols read before the wait are asked
\* for again on the socket this.ws refers to now.
ResyncWaitEnds ==
  /\ resubscribePending
  /\ SendSubscribe(resyncSymbols)
  /\ resubscribePending' = FALSE
  /\ resyncSymbols' = {}
  /\ UNCHANGED <<ingestion, ws, readyState, status, subscribedChannels, retrying, timers,
                 stopRequested>>

\* The failure is reported under the name of the socket's state.
SocketFails_StatusFromSocket(s) ==
  /\ s \in Alive
  /\ Closing(s)
  /\ status' = "closing"
  /\ UNCHANGED <<ingestion, ws, subscribedChannels, retrying, timers, stopRequested,
                 resubscribePending, resyncSymbols>>

\* The network, the upstream or a refused handshake ends s.
SocketFails(s) ==
  /\ s \in Alive
  /\ Closing(s)
  /\ UNCHANGED <<ingestion, ws, status, subscribedChannels, retrying, timers, stopRequested,
                 resubscribePending, resyncSymbols>>

\* The 'close' of a socket that still has channels parks like an idle one.
SocketClosed_AlwaysIdle(s) ==
  /\ readyState[s] = "CLOSING"
  /\ readyState' = [readyState EXCEPT ![s] = "CLOSED"]
  /\ heartbeatTimer' = FALSE /\ reconnectTimer' = FALSE
  /\ status' = "idle"
  /\ UNCHANGED <<ingestion, ws, asked, subscribedChannels, retrying, idleTimer, stopRequested,
                 resubscribePending, resyncSymbols>>

\* 'close' on s, whichever socket this.ws refers to: the timers are cleared
\* and, with channels subscribed, a reconnect is scheduled.
SocketClosed(s) ==
  /\ readyState[s] = "CLOSING"
  /\ readyState' = [readyState EXCEPT ![s] = "CLOSED"]
  /\ heartbeatTimer' = FALSE
  /\ IF subscribedChannels # {}
     THEN /\ status' = "disconnected"
          /\ reconnectTimer' = ~stopRequested
          /\ retrying' = (retrying \/ ~stopRequested)
     ELSE /\ status' = "idle"
          /\ reconnectTimer' = FALSE
          /\ UNCHANGED retrying
  /\ UNCHANGED <<ingestion, ws, asked, subscribedChannels, idleTimer, stopRequested,
                 resubscribePending, resyncSymbols>>

-----------------------------------------------------------------------------
(* Timers *)

\* The watchdog only logs.
HeartbeatFires_NoTerminate ==
  /\ heartbeatTimer
  /\ heartbeatTimer' = FALSE
  /\ UNCHANGED <<ingestion, ws, readyState, asked, status, subscribedChannels, retrying,
                 reconnectTimer, idleTimer, stopRequested, resubscribePending, resyncSymbols>>

\* The watchdog terminates this.ws, whichever socket armed it.
HeartbeatFires ==
  /\ heartbeatTimer
  /\ heartbeatTimer' = FALSE
  /\ Closing(ws)
  /\ UNCHANGED <<ingestion, ws, status, subscribedChannels, retrying, reconnectTimer, idleTimer,
                 stopRequested, resubscribePending, resyncSymbols>>

ReconnectFires ==
  /\ reconnectTimer
  /\ reconnectTimer' = FALSE
  /\ Connect
  /\ UNCHANGED <<ingestion, subscribedChannels, retrying, heartbeatTimer, idleTimer, stopRequested,
                 resubscribePending, resyncSymbols>>

\* The socket is closed only when it is OPEN and still has no channels.
IdleFires ==
  /\ idleTimer
  /\ idleTimer' = FALSE
  /\ IF subscribedChannels = {} /\ IsOpen(ws) THEN Closing(ws) ELSE UNCHANGED <<readyState, asked>>
  /\ UNCHANGED <<ingestion, ws, status, subscribedChannels, retrying, heartbeatTimer,
                 reconnectTimer, stopRequested, resubscribePending, resyncSymbols>>

\* The readiness poll finds a book.
ReadinessPollFires ==
  /\ readinessTimer /\ known
  /\ StopReadinessPoll
  /\ ready' = TRUE
  /\ UNCHANGED <<lifecycle, known, ws, readyState, asked, status, subscribedChannels, retrying,
                 timers, stopRequested, resubscribePending, resyncSymbols>>

Next ==
  \/ \E s \in Symbols : SubscribeChannels({s}) \/ UnsubscribeChannels({s})
  \/ Stop
  \/ \E s \in Sockets :
       \/ SocketOpens(s)
       \/ SocketMessage(s)
       \/ SequenceGap(s)
       \/ SocketFails(s)
       \/ SocketClosed(s)
  \/ ResyncWaitEnds
  \/ HeartbeatFires
  \/ ReconnectFires
  \/ IdleFires
  \/ ReadinessPollFires

\* Nothing is asked for and nothing is closing: what is still on its way is
\* soon read, and every watchdog runs out after it.
Silent == \A s \in Sockets : asked[s] = {} /\ readyState[s] # "CLOSING"

\* Timers run out; a closing socket closes (ws destroys it after 30 s at the
\* latest); a watchdog runs out when upstream has nothing to send.  Of upstream
\* it is assumed that it does not refuse for ever the connections this.ws
\* refers to.
Fairness ==
  /\ WF_vars(ResyncWaitEnds)
  /\ WF_vars(ReconnectFires)
  /\ WF_vars(IdleFires)
  /\ WF_vars(Silent /\ HeartbeatFires)
  /\ SF_vars(\E s \in Sockets : s = ws /\ SocketOpens(s))
  /\ \A s \in Sockets : WF_vars(SocketClosed(s))

Spec == Init /\ [][Next]_vars
FairSpec == Spec /\ Fairness

-----------------------------------------------------------------------------
(* Outside the wait of a resync, upstream has been asked on the current    *)
(* socket for every channel that is subscribed: whatever order demand,     *)
(* opening, closing, resync and reconnect came in, no channel falls        *)
(* through between "sent now" and "sent by 'open'".                        *)
CurrentSocketCoversDemand ==
  IsOpen(ws) /\ ~resubscribePending => subscribedChannels \subseteq asked[ws]

(* While there is demand, a socket is up or on its way, or a reconnect is  *)
(* scheduled: the adapter never waits for something that will not come.    *)
DemandIsPursued ==
  subscribedChannels # {} =>
    /\ ws # NoSocket
    /\ readyState[ws] = "CLOSED" => reconnectTimer

(* Ingestion is ready from its first book on (eager) or from the start,    *)
(* until it is destroyed, and never again: no poll, late message or event  *)
(* of a socket makes /readyz say otherwise while the process drains.       *)
ReadinessIsEarned ==
  /\ ready => ~stopRequested
  /\ lifecycle = "eager" /\ ready => known

(* Once stopped, the adapter opens no connection, whatever timer, close    *)
(* event or suspended resync comes after.                                  *)
StopIsFinal ==
  [][stopRequested => \A s \in Sockets : readyState[s] = "CLOSED" => readyState'[s] = "CLOSED"]_vars

(* A channel that is demanded is asked for on an open current socket, or   *)
(* the demand goes away first.                                             *)
DemandIsServed ==
  \A c \in Symbols :
    c \in subscribedChannels ~> \/ c \notin subscribedChannels
                                \/ IsOpen(ws) /\ c \in asked[ws]

(* With no demand left, the current socket is closed in the end: by the    *)
(* idle timer or, when there is none, or it ran out while the socket was   *)
(* still connecting, by the watchdog on a feed that stays silent.          *)
(* It takes that no two sockets were alive or closing together (a late     *)
(* 'close' disarms the watchdog of its successor) and that no resync asked *)
(* for a channel that had been given up meanwhile.                         *)
IdleSocketIsReleased ==
  /\ [](Cardinality({s \in Sockets : readyState[s] # "CLOSED"}) <= 1)
  /\ [](IsOpen(ws) => asked[ws] \subseteq subscribedChannels)
  /\ <>[](subscribedChannels = {})
  => <>[](~IsOpen(ws))

(* A process holds one upstream connection (docs/06-failure-modes.md:      *)
(* "The hub uses a single connection per process").                        *)
SingleConnection == Cardinality(Alive) <= 1
=============================================================================
