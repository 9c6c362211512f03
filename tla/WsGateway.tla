----------------------------- MODULE WsGateway -----------------------------
(***************************************************************************)
(* WsGatewayService (packages/gateway-ws/src/ws-gateway.service.ts): its   *)
(* connections, their subscriptions in the registry and on the bus, the    *)
(* two ways a connection ends, and the shutdown.                           *)
(*                                                                         *)
(* A consumer id stands for one connection: it is a randomUUID() and never *)
(* comes back.  A socket is                                                *)
(*   open      both sides may send                                         *)
(*   closing   the hub has sent a close frame and still reads messages     *)
(*   ended     the peer's close frame was read, or the connection lost; no *)
(*             message is read any more                                    *)
(*   closed    its 'close' event has run.                                  *)
(* The queue and the backpressure of a connection are module               *)
(* WsConsumerHandle; here it may be disconnected as lagged at any time.    *)
(*                                                                         *)
(* A shutdown starts either with onModuleDestroy, which NestJS awaits      *)
(* before ShutdownService.onApplicationShutdown calls drain, or with drain *)
(* itself, the way ws-gateway.test.ts calls it.                            *)
(***************************************************************************)
EXTENDS Registry, InMemoryBus

VARIABLES socket,       \* of every connection
          handle,       \* its WsConsumerHandle: none, open, or how closed became true
          gwConsumers,  \* keys of the gateway's consumers Map
          busSubs,      \* entry.busSubs of every connection
          busHandlers,  \* InMemoryBus.subs: whose handlers a topic has
          listening,    \* this.wss # null
          phase,        \* of the shutdown; accepting is true while it is serving or destroying
          told          \* who was sent the rebalance event

gatewayVars == <<socket, handle, gwConsumers, busSubs, busHandlers>>
shutdownVars == <<listening, phase, told>>
vars == <<registryVars, gatewayVars, shutdownVars>>

Phases == {"serving", "destroying", "destroyed", "draining", "closing server", "done"}

TypeOK ==
  /\ RegistryTypeOK
  /\ socket \in [Consumers -> {"none", "open", "closing", "ended", "closed"}]
  /\ handle \in [Consumers -> {"none", "open", "disconnected", "closed"}]
  /\ gwConsumers \subseteq Consumers
  /\ busSubs \in [Consumers -> SUBSET Topics]
  /\ busHandlers \in [Topics -> SUBSET Consumers]
  /\ listening \in BOOLEAN
  /\ phase \in Phases
  /\ told \subseteq Consumers

Init ==
  /\ RegistryInit
  /\ socket = [c \in Consumers |-> "none"]
  /\ handle = [c \in Consumers |-> "none"]
  /\ gwConsumers = {}
  /\ busSubs = [c \in Consumers |-> {}]
  /\ busHandlers = [t \in Topics |-> {}]
  /\ listening = TRUE
  /\ phase = "serving"
  /\ told = {}

-----------------------------------------------------------------------------
(* Connections and client messages *)

Accepting == phase \in {"serving", "destroying", "destroyed"}

\* The accepting flag is not looked at.
AcceptConnection_WhileListening(c) ==
  /\ listening
  /\ socket[c] = "none"
  /\ socket' = [socket EXCEPT ![c] = "open"]
  /\ handle' = [handle EXCEPT ![c] = "open"]
  /\ gwConsumers' = gwConsumers \cup {c}
  /\ RegisterConsumer(c)
  /\ UNCHANGED <<busSubs, busHandlers, shutdownVars>>

AcceptConnection(c) ==
  /\ listening
  /\ Accepting
  /\ socket[c] = "none"
  /\ socket' = [socket EXCEPT ![c] = "open"]
  /\ handle' = [handle EXCEPT ![c] = "open"]
  /\ gwConsumers' = gwConsumers \cup {c}
  /\ RegisterConsumer(c)
  /\ UNCHANGED <<busSubs, busHandlers, shutdownVars>>

\* During a drain: closed with 1013, no handle and no handlers.
RejectConnection(c) ==
  /\ listening
  /\ ~Accepting
  /\ socket[c] = "none"
  /\ socket' = [socket EXCEPT ![c] = "closing"]
  /\ demandChanges' = {}
  /\ UNCHANGED <<consumers, consumerSubs, topicConsumers, handle, gwConsumers, busSubs, busHandlers,
                 shutdownVars>>

\* The 'message' handler of c may run.  It does not ask whether the handle was
\* disconnected.
MayRead(c) == handle[c] # "none" /\ socket[c] \in {"open", "closing"}

\* A topic already in busSubs is only acked.
HandleSubscribe(c, t) ==
  /\ MayRead(c)
  /\ t \notin busSubs[c]
  /\ Subscribe(c, t)
  /\ busHandlers' = Subscribed(busHandlers, c, t)
  /\ busSubs' = [busSubs EXCEPT ![c] = @ \cup {t}]
  /\ UNCHANGED <<socket, handle, gwConsumers, shutdownVars>>

\* The bus handler is taken off but the registry is not told.
HandleUnsubscribe_BusOnly(c, t) ==
  /\ MayRead(c)
  /\ t \in busSubs[c]
  /\ busHandlers' = Unsubscribed(busHandlers, c, t)
  /\ busSubs' = [busSubs EXCEPT ![c] = @ \ {t}]
  /\ demandChanges' = {}
  /\ UNCHANGED <<consumers, consumerSubs, topicConsumers, socket, handle, gwConsumers, shutdownVars>>

\* A topic that is not in busSubs is only acked.
HandleUnsubscribe(c, t) ==
  /\ MayRead(c)
  /\ t \in busSubs[c]
  /\ busHandlers' = Unsubscribed(busHandlers, c, t)
  /\ busSubs' = [busSubs EXCEPT ![c] = @ \ {t}]
  /\ Unsubscribe(c, t)
  /\ UNCHANGED <<socket, handle, gwConsumers, shutdownVars>>

\* A ping and what is not a client operation are answered and change nothing.
HandleClientMessage(c) == \E t \in Topics : HandleSubscribe(c, t) \/ HandleUnsubscribe(c, t)

-----------------------------------------------------------------------------
(* The end of a connection *)

\* The peer closes, answers a close frame, or is lost; of a peer that does not
\* answer ws itself makes an end after 30 s.
PeerEnds(c) ==
  /\ socket[c] \in {"open", "closing"}
  /\ socket' = [socket EXCEPT ![c] = "ended"]
  /\ demandChanges' = {}
  /\ UNCHANGED <<consumers, consumerSubs, topicConsumers, handle, gwConsumers, busSubs, busHandlers,
                 shutdownVars>>

\* handle.disconnect: the handles cs that are not closed yet, and their sockets.
Disconnect(cs) ==
  LET live == {c \in cs : handle[c] = "open"} IN
  /\ handle' = [c \in Consumers |-> IF c \in live THEN "disconnected" ELSE handle[c]]
  /\ socket' = [c \in Consumers |-> IF c \in live /\ socket[c] = "open" THEN "closing" ELSE socket[c]]

\* The gateway's removeConsumer: every bus handler, then the registry.
ForgetConsumer(c) ==
  /\ busHandlers' = Released(busHandlers, {c}, busSubs)
  /\ busSubs' = [busSubs EXCEPT ![c] = {}]
  /\ RemoveConsumer(c)
  /\ gwConsumers' = gwConsumers \ {c}

\* The consumer is removed as soon as it is disconnected.
ConsumerLagged_ForgetsAtOnce(c) ==
  /\ handle[c] = "open"
  /\ Disconnect({c})
  /\ ForgetConsumer(c)
  /\ UNCHANGED shutdownVars

\* The overflow timer of c: only an open socket can have armed it, and a
\* 'close' clears it.
ConsumerLagged(c) ==
  /\ handle[c] = "open"
  /\ Disconnect({c})
  /\ demandChanges' = {}
  /\ UNCHANGED <<consumers, consumerSubs, topicConsumers, gwConsumers, busSubs, busHandlers, shutdownVars>>

\* The close handler forgets whom the hub has not disconnected only while the
\* gateway accepts.
SocketClosed_OnlyWhileServing(c) ==
  /\ socket[c] = "ended"
  /\ socket' = [socket EXCEPT ![c] = "closed"]
  /\ IF handle[c] = "open" /\ Accepting
     THEN handle' = [handle EXCEPT ![c] = "closed"] /\ ForgetConsumer(c)
     ELSE /\ demandChanges' = {}
          /\ UNCHANGED <<handle, busHandlers, busSubs, gwConsumers, consumers, consumerSubs,
                         topicConsumers>>
  /\ UNCHANGED shutdownVars

\* The 'close' event.  The handle's listener returns at once when disconnect
\* was called before: then nobody removes the consumer.
SocketClosed(c) ==
  /\ socket[c] = "ended"
  /\ socket' = [socket EXCEPT ![c] = "closed"]
  /\ IF handle[c] = "open"
     THEN handle' = [handle EXCEPT ![c] = "closed"] /\ ForgetConsumer(c)
     ELSE /\ demandChanges' = {}
          /\ UNCHANGED <<handle, busHandlers, busSubs, gwConsumers, consumers, consumerSubs,
                         topicConsumers>>
  /\ UNCHANGED shutdownVars

-----------------------------------------------------------------------------
(* Shutdown *)

\* What the steps of the shutdown leave alone.
KeepSubscriptions ==
  /\ demandChanges' = {}
  /\ UNCHANGED <<consumers, consumerSubs, topicConsumers, gwConsumers, busSubs, busHandlers>>

NoConnections == \A c \in Consumers : socket[c] \in {"none", "closed"}

\* onModuleDestroy: shutdownServer takes wss away and awaits wss.close, which
\* waits for every connection and ends none.
DestroyBegins ==
  /\ phase = "serving"
  /\ phase' = "destroying"
  /\ listening' = FALSE
  /\ KeepSubscriptions
  /\ UNCHANGED <<socket, handle, told>>

DestroyEnds ==
  /\ phase = "destroying"
  /\ NoConnections
  /\ phase' = "destroyed"
  /\ KeepSubscriptions
  /\ UNCHANGED <<socket, handle, listening, told>>

\* drain up to its wait: the hint goes to every socket that is open.
DrainBegins ==
  /\ phase \in {"serving", "destroyed"}
  /\ phase' = "draining"
  /\ told' = {c \in gwConsumers : handle[c] = "open" /\ socket[c] = "open"}
  /\ KeepSubscriptions
  /\ UNCHANGED <<socket, handle, listening>>

\* The deadline passes and the server is closed with the stragglers left.
DrainEnds_NoForceClose ==
  /\ phase = "draining"
  /\ phase' = "closing server"
  /\ listening' = FALSE
  /\ KeepSubscriptions
  /\ UNCHANGED <<socket, handle, told>>

\* Nobody is left, or the deadline has passed and the stragglers are closed.
DrainEnds ==
  /\ phase = "draining"
  /\ Disconnect(gwConsumers)
  /\ phase' = "closing server"
  /\ listening' = FALSE
  /\ KeepSubscriptions
  /\ UNCHANGED told

\* wss.close of the shutdownServer that drain ends with calls back; without a
\* wss there is nothing to wait for, and no connection either.
ServerClosed ==
  /\ phase = "closing server"
  /\ NoConnections
  /\ phase' = "done"
  /\ KeepSubscriptions
  /\ UNCHANGED <<socket, handle, listening, told>>

Next ==
  \/ \E c \in Consumers :
       \/ AcceptConnection(c)
       \/ RejectConnection(c)
       \/ PeerEnds(c)
       \/ ConsumerLagged(c)
       \/ SocketClosed(c)
       \/ HandleClientMessage(c)
  \/ DestroyBegins
  \/ DestroyEnds
  \/ DrainBegins
  \/ DrainEnds
  \/ ServerClosed

\* Timers and awaits come to their end, a socket that the hub closes ends (the
\* peer's answer, or 30 s) and its 'close' runs.  No client has to leave, and
\* the process need not be shut down.
Fairness ==
  /\ \A c \in Consumers :
       WF_vars(socket[c] = "closing" /\ PeerEnds(c)) /\ WF_vars(SocketClosed(c))
  /\ WF_vars(DestroyEnds)
  /\ WF_vars(phase = "destroyed" /\ DrainBegins)
  /\ WF_vars(DrainEnds)
  /\ WF_vars(ServerClosed)

Spec == Init /\ [][Next]_vars
FairSpec == Spec /\ Fairness

-----------------------------------------------------------------------------
\* The sizes of busSubs, added up
TotalSubscriptions == Cardinality({ct \in gwConsumers \X Topics : ct[2] \in busSubs[ct[1]]})

\* status()
GatewayStatus ==
  [consumers |-> Cardinality(gwConsumers), subscriptions |-> TotalSubscriptions, accepting |-> Accepting]

(* The gateway's Map, the registry and the bus say the same of who holds   *)
(* what, and the counts the gateway and /status show are the same.  The    *)
(* demand of upstream comes from the registry and the delivery from the    *)
(* bus: a topic in one only is fed to nobody, or awaited in vain.          *)
SubscriptionsAgree ==
  /\ gwConsumers = consumers
  /\ \A c \in consumers : busSubs[c] = consumerSubs[c]
  /\ \A t \in Topics : busHandlers[t] = SubscribersOf(t)
  /\ GatewayStatus.consumers = Status.consumersBySurface
  /\ GatewayStatus.subscriptions = Status.totalSubscriptions

(* A connection that is over and that the hub did not itself disconnect    *)
(* has left nothing behind, in the gateway, the registry or on the bus.    *)
DepartedAreForgotten ==
  \A c \in Consumers : socket[c] = "closed" /\ handle[c] # "disconnected" =>
    /\ c \notin gwConsumers \cup consumers
    /\ \A t \in Topics : c \notin busHandlers[t] \cup SubscribersOf(t)

(* A message is never handled for a connection the registry has forgotten: *)
(* registry.subscribe would throw inside the 'message' listener, where     *)
(* nothing catches it.                                                     *)
ReadersAreRegistered == \A c \in Consumers : MayRead(c) => c \in consumers

(* Whom the end of a drain disconnects has been sent the rebalance event:  *)
(* nobody joins between the broadcast and the deadline.                    *)
ForceClosedWereTold ==
  [][phase = "draining" /\ phase' # "draining" =>
       \A c \in Consumers : socket[c] = "open" /\ socket'[c] = "closing" => c \in told]_vars

(* A drain comes to its end, whatever the clients do.                      *)
DrainTerminates == phase = "draining" ~> phase = "done"

-----------------------------------------------------------------------------
(* packages/core/src/registry.ts: "Single cleanup path:                    *)
(* removeConsumer/unsubscribeAll cover every disconnect."                  *)
NoConsumerOutlivesSocket == \A c \in Consumers : socket[c] = "closed" => c \notin consumers

(* shutdown.service.ts: after DRAIN_DEADLINE_MS "Force-close anything      *)
(* still attached and exit."                                               *)
ShutdownTerminates == phase = "destroying" ~> phase = "done"
=============================================================================
