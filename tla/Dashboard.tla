----------------------------- MODULE Dashboard -----------------------------
(***************************************************************************)
(* The data plane of one dashboard window: TickerTabs, the effect of       *)
(* useBookSubscription in each tab, the subscription mux and the socket of *)
(* GatewayConnectionProvider, and what the gateway does with its requests. *)
(*                                                                         *)
(* A click is a discrete event of React: what it changes is rendered and   *)
(* the effects of the render have run when it ends.  A change of the       *)
(* connection state comes from the socket: it is rendered later, the       *)
(* effects run later still, and messages may come in between.  The context *)
(* value is a new object after every such change, so the effect of every   *)
(* tab runs again.  The text of the state and of notices is left out.      *)
(*                                                                         *)
(* A view is shown or not.  Data of a topic on its way to the window is    *)
(* counted once, and may overtake data of another topic.                   *)
(***************************************************************************)
EXTENDS Integers, Sequences, FiniteSets, SequencesExt

CONSTANTS Tabs,     \* ids; one whose tab was closed may be used for another
          Topics,
          None,
          MaxOps    \* bound: requests on their way before the user waits

ASSUME NoneAssumption == None \notin Tabs \cup Topics
ASSUME MaxOpsAssumption == MaxOps \in Nat \ {0}

VARIABLES tabs,        \* in the order they are shown
          uri,         \* the topic of a tab, None for an unused id
          activeId,
          view,        \* tabs with a book to show
          listeners,   \* of the mux: topic -> tabs
          pendingOps,
          socket,      \* wsRef.current: "connecting", "open" or "closed" for good
          strict,      \* a development build: React.StrictMode mounts everything twice
          ghost,       \* strict: events due of the socket of the first mount, error and close
          render,      \* of a connection state: "done", "due", or its "effects due"
          toHub, hubSubs,
          toTab        \* topics with data on its way

tabVars == <<tabs, uri, activeId>>
socketVars == <<socket, strict, ghost>>
vars == <<tabVars, view, listeners, pendingOps, socketVars, render, toHub, hubSubs, toTab>>

Op == [op : {"subscribe", "unsubscribe"}, uri : Topics]
OpenTabs == ToSet(tabs)

TypeOK ==
  /\ tabs \in Seq(Tabs) /\ IsInjective(tabs)
  /\ uri \in [Tabs -> Topics \cup {None}]
  /\ \A t \in Tabs : t \in OpenTabs <=> uri[t] # None
  /\ activeId \in OpenTabs \cup {None}
  /\ activeId = None <=> tabs = <<>>
  /\ view \subseteq OpenTabs
  /\ listeners \in [Topics -> SUBSET Tabs]
  /\ pendingOps \in Seq(Op) /\ toHub \in Seq(Op)
  /\ socket \in {"connecting", "open", "closed"} /\ strict \in BOOLEAN
  /\ ghost \in IF strict THEN 0..2 ELSE {0}
  /\ render \in {"done", "due", "effects due"}
  /\ hubSubs \subseteq Topics /\ toTab \subseteq Topics

Init ==
  /\ tabs = <<>>
  /\ uri = [t \in Tabs |-> None]
  /\ activeId = None
  /\ view = {}
  /\ listeners = [u \in Topics |-> {}]
  /\ pendingOps = <<>>
  /\ socket = "connecting"
  /\ strict \in BOOLEAN
  /\ ghost = IF strict THEN 2 ELSE 0
  /\ render = "done"
  /\ toHub = <<>> /\ hubSubs = {} /\ toTab = {}

-----------------------------------------------------------------------------
(* createSubscriptionMux: listeners, and the requests a change of them sends *)

Mux == [listeners |-> listeners, ops |-> <<>>]

\* Every listener asks for its topic.
AddListener_AlwaysSends(mux, t, u) ==
  [listeners |-> [mux.listeners EXCEPT ![u] = @ \cup {t}],
   ops |-> Append(mux.ops, [op |-> "subscribe", uri |-> u])]

\* The first listener of a topic asks for it.
AddListener(mux, t, u) ==
  [listeners |-> [mux.listeners EXCEPT ![u] = @ \cup {t}],
   ops |-> IF mux.listeners[u] = {} THEN Append(mux.ops, [op |-> "subscribe", uri |-> u]) ELSE mux.ops]

\* The last one gives it up.
RemoveListener(mux, t, u) ==
  [listeners |-> [mux.listeners EXCEPT ![u] = @ \ {t}],
   ops |-> IF mux.listeners[u] = {t} THEN Append(mux.ops, [op |-> "unsubscribe", uri |-> u]) ELSE mux.ops]

\* The cleanups of the effects of the first n tabs, one after the other
CleanedUp(mux) ==
  LET after[n \in 0..Len(tabs)] ==
        IF n = 0 THEN mux ELSE RemoveListener(after[n - 1], tabs[n], uri[tabs[n]])
  IN after

\* The effects of the first n tabs
SetUp(mux) ==
  LET after[n \in 0..Len(tabs)] ==
        IF n = 0 THEN mux ELSE AddListener(after[n - 1], tabs[n], uri[tabs[n]])
  IN after

\* The effects of a render: all cleanups, then all effects, in the order of the tabs.
EffectsRunAgain(mux) == SetUp(CleanedUp(mux)[Len(tabs)])[Len(tabs)]

\* The effect of a new tab; in a development build it is run, cleaned up and
\* run again.
Mounted(mux, t, u) ==
  IF strict THEN AddListener(RemoveListener(AddListener(mux, t, u), t, u), t, u)
  ELSE AddListener(mux, t, u)

\* Requests go to the socket when it is open and are kept for it otherwise.
\* Nothing reads what is kept once the socket has closed.
Become(mux) ==
  \E m \in {mux} :
    /\ listeners' = m.listeners
    /\ toHub' = IF socket = "open" THEN toHub \o m.ops ELSE toHub
    /\ pendingOps' = IF socket = "connecting" THEN pendingOps \o m.ops ELSE pendingOps

-----------------------------------------------------------------------------
(* Clicks; effects that are due run before what a click changes is rendered *)

OpenTab(t, u) ==
  /\ render # "effects due"
  /\ t \notin OpenTabs
  /\ Len(pendingOps) + Len(toHub) < MaxOps
  /\ tabs' = Append(tabs, t)
  /\ uri' = [uri EXCEPT ![t] = u]
  /\ activeId' = t
  /\ Become(Mounted(Mux, t, u))
  /\ UNCHANGED <<view, socketVars, render, hubSubs, toTab>>

SelectTab(t) ==
  /\ render # "effects due"
  /\ t \in OpenTabs
  /\ activeId' = t
  /\ UNCHANGED <<tabs, uri, view, listeners, pendingOps, socketVars, render, toHub, hubSubs, toTab>>

\* The active tab is left as it is.
CloseTab_KeepsActive(t) ==
  /\ render # "effects due"
  /\ t \in OpenTabs
  /\ Len(pendingOps) + Len(toHub) < MaxOps
  /\ tabs' = RemoveFirst(tabs, t)
  /\ uri' = [uri EXCEPT ![t] = None]
  /\ view' = view \ {t}
  /\ Become(RemoveListener(Mux, t, uri[t]))
  /\ UNCHANGED <<activeId, socketVars, render, hubSubs, toTab>>

CloseTab(t) ==
  /\ render # "effects due"
  /\ t \in OpenTabs
  /\ Len(pendingOps) + Len(toHub) < MaxOps
  /\ tabs' = RemoveFirst(tabs, t)
  /\ uri' = [uri EXCEPT ![t] = None]
  /\ activeId' = IF activeId # t THEN activeId ELSE IF tabs' = <<>> THEN None ELSE Last(tabs')
  /\ view' = view \ {t}
  /\ Become(RemoveListener(Mux, t, uri[t]))
  /\ UNCHANGED <<socketVars, render, hubSubs, toTab>>

-----------------------------------------------------------------------------
(* React, on its own time *)

Render ==
  /\ render = "due"
  /\ render' = "effects due"
  /\ UNCHANGED <<tabVars, view, listeners, pendingOps, socketVars, toHub, hubSubs, toTab>>

\* Every tab gives up its book, leaves the mux and comes back.
RunEffects ==
  /\ render = "effects due"
  /\ render' = "done"
  /\ view' = {}
  /\ Become(EffectsRunAgain(Mux))
  /\ UNCHANGED <<tabVars, socketVars, hubSubs, toTab>>

\* setState: effects that are due are run first when this is rendered, which
\* is as if they ran now.
StateChanges == render # "effects due" /\ render' = "due"

-----------------------------------------------------------------------------
(* The socket *)

\* What waits for the socket is not sent.
SocketOpens_KeepsPending ==
  /\ socket = "connecting"
  /\ socket' = "open"
  /\ StateChanges
  /\ UNCHANGED <<tabVars, view, listeners, strict, ghost, pendingOps, toHub, hubSubs, toTab>>

SocketOpens ==
  /\ socket = "connecting"
  /\ socket' = "open"
  /\ StateChanges
  /\ toHub' = toHub \o pendingOps
  /\ pendingOps' = <<>>
  /\ UNCHANGED <<tabVars, view, listeners, strict, ghost, hubSubs, toTab>>

\* Nothing connects again; the gateway forgets the consumer.  An error event
\* before it sets the state too; effects that run between the two reach nobody.
SocketCloses ==
  /\ socket # "closed"
  /\ socket' = "closed"
  /\ StateChanges
  /\ toHub' = <<>> /\ hubSubs' = {} /\ toTab' = {}
  /\ UNCHANGED <<tabVars, view, listeners, pendingOps, strict, ghost>>

\* The handlers of a socket that wsRef no longer refers to still set the state.
GhostEvent ==
  /\ ghost > 0
  /\ ghost' = ghost - 1
  /\ StateChanges
  /\ UNCHANGED <<tabVars, view, listeners, pendingOps, socket, strict, toHub, hubSubs, toTab>>

\* A message that names a topic goes to the listeners of that topic.
Dispatch(u) == view' = view \cup listeners[u]

\* Only the tab that is shown listens.
MessageArrives_ActiveOnly(u) ==
  /\ u \in toTab
  /\ toTab' = toTab \ {u}
  /\ view' = view \cup (listeners[u] \cap {activeId})
  /\ UNCHANGED <<tabVars, listeners, pendingOps, socketVars, render, toHub, hubSubs>>

\* A snapshot or an update
MessageArrives(u) ==
  /\ u \in toTab
  /\ toTab' = toTab \ {u}
  /\ Dispatch(u)
  /\ UNCHANGED <<tabVars, listeners, pendingOps, socketVars, render, toHub, hubSubs>>

-----------------------------------------------------------------------------
(* The gateway *)

After(op, subs) == IF op.op = "subscribe" THEN subs \cup {op.uri} ELSE subs \ {op.uri}

\* A subscription gets a snapshot if there is a book; one that is already
\* there is acknowledged only.
HubHandles ==
  /\ toHub # <<>>
  /\ toHub' = Tail(toHub)
  /\ hubSubs' = After(Head(toHub), hubSubs)
  /\ \E snapshots \in SUBSET (hubSubs' \ hubSubs) : toTab' = toTab \cup snapshots
  /\ UNCHANGED <<tabVars, view, listeners, pendingOps, socketVars, render>>

BookMoves(u) ==
  /\ u \in hubSubs
  /\ toTab' = toTab \cup {u}
  /\ UNCHANGED <<tabVars, view, listeners, pendingOps, socketVars, render, toHub, hubSubs>>

-----------------------------------------------------------------------------
Next ==
  \/ \E t \in Tabs, u \in Topics : OpenTab(t, u)
  \/ \E t \in Tabs : SelectTab(t) \/ CloseTab(t)
  \/ Render \/ RunEffects
  \/ SocketOpens \/ SocketCloses \/ GhostEvent
  \/ \E u \in Topics : MessageArrives(u) \/ BookMoves(u)
  \/ HubHandles

Spec == Init /\ [][Next]_vars

(* React renders and runs effects in the end, requests and messages of an  *)
(* open connection arrive, and the market moves.                           *)
Fairness ==
  /\ WF_vars(Render) /\ WF_vars(RunEffects) /\ WF_vars(HubHandles)
  /\ \A u \in Topics : WF_vars(MessageArrives(u)) /\ WF_vars(BookMoves(u))

FairSpec == Spec /\ Fairness

-----------------------------------------------------------------------------
Waiting == toHub \o pendingOps

\* The topics a gateway that serves subs serves after the first n requests of ops:
\* the last request for a topic counts.
Served(subs, ops, n) ==
  {u \in Topics :
     \/ u \in subs /\ \A i \in 1..n : ops[i].uri # u
     \/ \E i \in 1..n :
          /\ ops[i] = [op |-> "subscribe", uri |-> u]
          /\ \A j \in (i + 1)..n : ops[j].uri # u}

\* No request asks for what is served by then, or gives up what is not.
Transitions(subs, ops) ==
  \A i \in DOMAIN ops : ops[i].op = "subscribe" <=> ops[i].uri \notin Served(subs, ops, i - 1)

(* gateway-connection.tsx, "Closing one tab keeps the subscription alive   *)
(* for the others": when the gateway has handled what is on its way and    *)
(* what waits for the socket, it serves the topics of the open tabs and no *)
(* others, whenever tabs come and go and effects run again.                *)
TabsAreSubscribed ==
  socket # "closed" => Served(hubSubs, Waiting, Len(Waiting)) = {uri[t] : t \in OpenTabs}

(* "the dashboard sends a single subscribe op": no request asks for what   *)
(* the gateway serves by then, or gives up what it does not.               *)
RequestsAreTransitions == Transitions(hubSubs, Waiting)

(* A tab that stays open shows a book in the end, shown or hidden, however *)
(* often its effect runs again and whatever the other tabs do.             *)
TabsAreFed ==
  \A t \in Tabs, u \in Topics :
    (uri[t] = u /\ socket = "open") ~> (t \in view \/ uri[t] # u \/ socket = "closed")
=============================================================================
