---------------------------- MODULE McpSessions ----------------------------
(***************************************************************************)
(* MCP sessions over HTTP: McpController (apps/hub/src/http), the session  *)
(* servers of McpServerService and McpConsumerHandle (packages/mcp-server) *)
(* over the registry and the bus.                                          *)
(*                                                                         *)
(* A consumer is a session; its id is a randomUUID() and never comes back. *)
(* A request awaits between the controller's look into the session map and *)
(* the handler that acts on it, so it is kept in requests in between, and  *)
(* the session may be dropped meanwhile.  Reads (tools, resources) change  *)
(* lastActivity only and are left out, as is time: an idle window may pass *)
(* at any moment.                                                          *)
(*                                                                         *)
(* NestJS runs a shutdown in this order: onModuleDestroy of every module,  *)
(* the controller's among them; the close of the HTTP server, which        *)
(* answers what it has begun; onApplicationShutdown, which drains.         *)
(***************************************************************************)
EXTENDS Registry, InMemoryBus

CONSTANTS SessionIdleMs,  \* MCP_SESSION_IDLE_MS; 0: no reaper
          MaxRequests     \* bound: requests suspended at a time

ASSUME SessionIdleMsAssumption == SessionIdleMs \in Nat
ASSUME MaxRequestsAssumption == MaxRequests \in Nat \ {0}

VARIABLES session,      \* of every id; "live": in the controller's session map
          transport,    \* StreamableHTTPServerTransport; "closing": its onclose is due
          requests,     \* begun and not yet handled
          streams,      \* sessions with an open GET stream
          idle,         \* sessions whose lastActivity is older than sessionIdleMs
          departed,     \* clients that will send nothing any more
          busOff,       \* keys of server.__busOff
          busHandlers,  \* InMemoryBus.subs: whose handlers a topic has
          phase,        \* of the shutdown
          told          \* whom the rebalance notification was sent to, over a stream

clientVars == <<requests, streams, idle, departed>>
busVars == <<busOff, busHandlers>>
shutdownVars == <<phase, told>>
vars == <<registryVars, session, transport, clientVars, busVars, shutdownVars>>

Request ==
  [op : {"initialize", "delete"}, id : Consumers]
    \cup [op : {"subscribe", "unsubscribe"}, id : Consumers, uri : Topics]

TypeOK ==
  /\ RegistryTypeOK
  /\ session \in [Consumers -> {"none", "initializing", "live", "gone"}]
  /\ transport \in [Consumers -> {"none", "open", "closing", "closed"}]
  /\ requests \subseteq Request
  /\ Cardinality(requests) <= MaxRequests
  /\ streams \subseteq Consumers
  /\ idle \subseteq Consumers
  /\ departed \subseteq Consumers
  /\ busOff \in [Consumers -> SUBSET Topics]
  /\ busHandlers \in [Topics -> SUBSET Consumers]
  /\ phase \in {"serving", "destroyed", "http closing", "http closed", "draining", "drained"}
  /\ told \subseteq Consumers

Init ==
  /\ RegistryInit
  /\ session = [c \in Consumers |-> "none"]
  /\ transport = [c \in Consumers |-> "none"]
  /\ requests = {}
  /\ streams = {}
  /\ idle = {}
  /\ departed = {}
  /\ busOff = [c \in Consumers |-> {}]
  /\ busHandlers = [t \in Topics |-> {}]
  /\ phase = "serving"
  /\ told = {}

Live == {c \in Consumers : session[c] = "live"}

KeepRegistry == demandChanges' = {} /\ UNCHANGED <<consumers, consumerSubs, topicConsumers>>

-----------------------------------------------------------------------------
(* The end of sessions *)

\* The registry's entry of a session stays behind.
DropSessions_KeepsEntry(cs) ==
  /\ session' = [c \in Consumers |-> IF c \in cs THEN "gone" ELSE session[c]]
  /\ transport' = [c \in Consumers |-> IF c \in cs THEN "closed" ELSE transport[c]]
  /\ streams' = streams \ cs
  /\ busOff' = [c \in Consumers |-> IF c \in cs THEN {} ELSE busOff[c]]
  /\ busHandlers' = Released(busHandlers, cs, busOff)
  /\ consumers' = consumers \ cs
  /\ topicConsumers' = [t \in {u \in ActiveTopics : ~topicConsumers[u] \subseteq cs} |->
                          topicConsumers[t] \ cs]
  /\ demandChanges' = {LastConsumerLeft(t) : t \in {u \in ActiveTopics : topicConsumers[u] \subseteq cs}}
  /\ UNCHANGED consumerSubs

\* dropSession of each of cs, all in the map, within one step: the bus
\* handlers its server knows of, then removeConsumer, then the transport, whose
\* onclose finds nothing any more.
DropSessions(cs) ==
  /\ session' = [c \in Consumers |-> IF c \in cs THEN "gone" ELSE session[c]]
  /\ transport' = [c \in Consumers |-> IF c \in cs THEN "closed" ELSE transport[c]]
  /\ streams' = streams \ cs
  /\ busOff' = [c \in Consumers |-> IF c \in cs THEN {} ELSE busOff[c]]
  /\ busHandlers' = Released(busHandlers, cs, busOff)
  /\ consumers' = consumers \ cs
  /\ consumerSubs' = [c \in DOMAIN consumerSubs \ cs |-> consumerSubs[c]]
  /\ topicConsumers' = [t \in {u \in ActiveTopics : ~topicConsumers[u] \subseteq cs} |->
                          topicConsumers[t] \ cs]
  /\ demandChanges' = {LastConsumerLeft(t) : t \in {u \in ActiveTopics : topicConsumers[u] \subseteq cs}}

\* handle.disconnect of cs: transport.close(), whose onclose is due.
Disconnect(cs) ==
  transport' = [c \in Consumers |-> IF c \in cs /\ transport[c] = "open" THEN "closing" ELSE transport[c]]

\* transport.onclose: a session that is no longer in the map is left alone.
TransportCloses(c) ==
  /\ transport[c] = "closing"
  /\ DropSessions({c} \cap Live)
  /\ UNCHANGED <<requests, idle, departed, shutdownVars>>

\* The reaper's interval runs until the controller is destroyed.
Reaping == SessionIdleMs > 0 /\ phase = "serving"

\* Sessions with subscriptions are not reaped.
Reap_OnlyUnsubscribed(c) ==
  /\ Reaping
  /\ c \in Live \cap idle
  /\ busOff[c] = {}
  /\ Disconnect({c})
  /\ KeepRegistry
  /\ UNCHANGED <<session, clientVars, busVars, shutdownVars>>

\* reapIdleSessions, for one of them
Reap(c) ==
  /\ Reaping
  /\ c \in Live \cap idle
  /\ Disconnect({c})
  /\ KeepRegistry
  /\ UNCHANGED <<session, clientVars, busVars, shutdownVars>>

-----------------------------------------------------------------------------
(* Clients *)

\* The HTTP server takes requests.
Accepting == phase \in {"serving", "destroyed"}

Begin(r) ==
  /\ Cardinality(requests) < MaxRequests
  /\ requests' = requests \cup {r}

\* The server of a new session, with the handlers for resources/subscribe and
\* resources/unsubscribe and no bus subscription.
CreateSessionServer(c) == busOff' = [busOff EXCEPT ![c] = {}]

\* A request without a session id: transport, handle and server are made, and
\* nobody knows of them yet.
InitializeArrives(c) ==
  /\ Accepting
  /\ session[c] = "none"
  /\ Begin([op |-> "initialize", id |-> c])
  /\ session' = [session EXCEPT ![c] = "initializing"]
  /\ transport' = [transport EXCEPT ![c] = "open"]
  /\ CreateSessionServer(c)
  /\ KeepRegistry
  /\ UNCHANGED <<streams, idle, departed, busHandlers, shutdownVars>>

\* A request of a session in the map.  With a header the map does not know the
\* answer is 404 and nothing changes.
RequestArrives(r) ==
  /\ Accepting
  /\ r.op # "initialize"
  /\ r.id \in Live \ departed
  /\ r \notin requests
  /\ Begin(r)
  /\ idle' = idle \ {r.id}
  /\ KeepRegistry
  /\ UNCHANGED <<session, transport, streams, departed, busVars, shutdownVars>>

StreamOpens(c) ==
  /\ Accepting
  /\ c \in Live \ (departed \cup streams)
  /\ transport[c] = "open"
  /\ streams' = streams \cup {c}
  /\ idle' = idle \ {c}
  /\ KeepRegistry
  /\ UNCHANGED <<session, transport, requests, departed, busVars, shutdownVars>>

\* sessionIdleMs have gone by since the last request began; notifications on
\* the stream do not count.
IdlePasses(c) ==
  /\ c \in Live \ idle
  /\ idle' = idle \cup {c}
  /\ KeepRegistry
  /\ UNCHANGED <<session, transport, requests, streams, departed, busVars, shutdownVars>>

\* The client is gone and its stream with it; the transport stays.
ClientDeparts(c) ==
  /\ session[c] \in {"initializing", "live"}
  /\ c \notin departed
  /\ departed' = departed \cup {c}
  /\ streams' = streams \ {c}
  /\ KeepRegistry
  /\ UNCHANGED <<session, transport, requests, idle, busVars, shutdownVars>>

-----------------------------------------------------------------------------
(* Requests are handled *)

Done(r) == r \in requests /\ requests' = requests \ {r}

\* onsessioninitialized.  Nothing asks whether the controller was destroyed
\* meanwhile.
SessionInitialized(c) ==
  /\ session[c] = "initializing"
  /\ session' = [session EXCEPT ![c] = "live"]
  /\ RegisterConsumer(c)
  /\ UNCHANGED <<transport, clientVars, busVars, shutdownVars>>

InitializeReturns(c) ==
  /\ session[c] # "initializing"
  /\ Done([op |-> "initialize", id |-> c])
  /\ KeepRegistry
  /\ UNCHANGED <<session, transport, streams, idle, departed, busVars, shutdownVars>>

\* A session that got into the map is dropped, otherwise transport and server
\* are closed.
InitializeThrows(c) ==
  /\ Done([op |-> "initialize", id |-> c])
  /\ IF c \in Live
     THEN DropSessions({c})
     ELSE /\ session' = [session EXCEPT ![c] = "gone"]
          /\ transport' = [transport EXCEPT ![c] = "closed"]
          /\ KeepRegistry
          /\ UNCHANGED <<streams, busVars>>
  /\ UNCHANGED <<idle, departed, shutdownVars>>

\* bus.subscribe comes before registry.subscribe, which may throw.
HandleSubscribe_BusFirst(c, t) ==
  /\ Done([op |-> "subscribe", id |-> c, uri |-> t])
  /\ IF t \in busOff[c]
     THEN KeepRegistry /\ UNCHANGED busVars
     ELSE /\ busHandlers' = Subscribed(busHandlers, c, t)
          /\ IF c \in consumers
             THEN Subscribe(c, t) /\ busOff' = [busOff EXCEPT ![c] = @ \cup {t}]
             ELSE KeepRegistry /\ UNCHANGED busOff
  /\ UNCHANGED <<session, transport, streams, idle, departed, shutdownVars>>

\* A topic in busOff is answered at once; for a consumer the registry does not
\* know, registry.subscribe throws before anything is changed.
HandleSubscribe(c, t) ==
  /\ Done([op |-> "subscribe", id |-> c, uri |-> t])
  /\ IF t \in busOff[c] \/ c \notin consumers
     THEN KeepRegistry /\ UNCHANGED busVars
     ELSE /\ Subscribe(c, t)
          /\ busHandlers' = Subscribed(busHandlers, c, t)
          /\ busOff' = [busOff EXCEPT ![c] = @ \cup {t}]
  /\ UNCHANGED <<session, transport, streams, idle, departed, shutdownVars>>

HandleUnsubscribe(c, t) ==
  /\ Done([op |-> "unsubscribe", id |-> c, uri |-> t])
  /\ IF t \in busOff[c]
     THEN /\ Unsubscribe(c, t)
          /\ busHandlers' = Unsubscribed(busHandlers, c, t)
          /\ busOff' = [busOff EXCEPT ![c] = @ \ {t}]
     ELSE KeepRegistry /\ UNCHANGED busVars
  /\ UNCHANGED <<session, transport, streams, idle, departed, shutdownVars>>

\* DELETE: onsessionclosed, then transport.close().
HandleDelete(c) ==
  /\ Done([op |-> "delete", id |-> c])
  /\ DropSessions({c} \cap Live)
  /\ UNCHANGED <<idle, departed, shutdownVars>>

-----------------------------------------------------------------------------
(* Shutdown *)

\* The controller's onModuleDestroy: no reaper any more, and no session.
ControllerDestroyed ==
  /\ phase = "serving"
  /\ phase' = "destroyed"
  /\ DropSessions(Live)
  /\ UNCHANGED <<requests, idle, departed, told>>

\* What the steps below leave alone.
KeepSessions ==
  /\ KeepRegistry
  /\ UNCHANGED <<session, clientVars, busVars>>

\* Every module is destroyed; the server stops listening.
HttpStopsListening ==
  /\ phase = "destroyed"
  /\ phase' = "http closing"
  /\ KeepSessions
  /\ UNCHANGED <<transport, told>>

\* Every answer is out, streams included.
HttpCloses ==
  /\ phase = "http closing"
  /\ requests = {}
  /\ streams = {}
  /\ phase' = "http closed"
  /\ KeepSessions
  /\ UNCHANGED <<transport, told>>

\* ShutdownService calls drain of everything that registered for it, and waits
\* for all of them.
OnApplicationShutdown ==
  /\ phase = "http closed"
  /\ phase' = "draining"

\* sendEvent of cs: the rebalance notification.  It answers no request, so it
\* goes out on the session's GET stream, and without one the transport
\* discards it.
SendRebalance(cs) == told' = told \cup (cs \cap streams)

\* drain up to its wait
DrainBegins ==
  /\ OnApplicationShutdown
  /\ SendRebalance(Live)
  /\ KeepSessions
  /\ UNCHANGED transport

\* Only the sessions that are idle are closed.
DrainEnds_OnlyIdle ==
  /\ phase = "draining"
  /\ phase' = "drained"
  /\ Disconnect(Live \cap idle)
  /\ KeepSessions
  /\ UNCHANGED told

\* No session is left, or the deadline has passed and closeAll.
DrainEnds ==
  /\ phase = "draining"
  /\ phase' = "drained"
  /\ Disconnect(Live)
  /\ KeepSessions
  /\ UNCHANGED told

-----------------------------------------------------------------------------
\* Requests come on connections of their own: in any order.
RequestHandled(c) ==
  \/ InitializeReturns(c)
  \/ InitializeThrows(c)
  \/ HandleDelete(c)
  \/ \E t \in Topics : HandleSubscribe(c, t) \/ HandleUnsubscribe(c, t)

Next ==
  \/ \E c \in Consumers :
       \/ InitializeArrives(c)
       \/ StreamOpens(c)
       \/ IdlePasses(c)
       \/ ClientDeparts(c)
       \/ SessionInitialized(c)
       \/ TransportCloses(c)
       \/ Reap(c)
       \/ RequestHandled(c)
  \/ \E r \in Request : RequestArrives(r)
  \/ ControllerDestroyed
  \/ HttpStopsListening
  \/ HttpCloses
  \/ DrainBegins
  \/ DrainEnds

\* What is begun comes to its end, time passes, the reaper's interval fires.
\* No client has to leave or to send anything, and nobody has to shut down.
\* That the modules' destruction ends is an assumption: the gateway's waits
\* for its clients (WsGateway!ShutdownTerminates).
Fairness ==
  /\ \A c \in Consumers :
       /\ WF_vars(SessionInitialized(c))
       /\ WF_vars(IdlePasses(c))
       /\ WF_vars(Reap(c))
       /\ WF_vars(TransportCloses(c))
       /\ WF_vars(RequestHandled(c))
  /\ WF_vars(HttpStopsListening)
  /\ WF_vars(HttpCloses)
  /\ WF_vars(DrainBegins)
  /\ WF_vars(DrainEnds)

Spec == Init /\ [][Next]_vars
FairSpec == Spec /\ Fairness

-----------------------------------------------------------------------------
(* The session map, the registry, the session servers and the bus tell the *)
(* same story: a session that is over, whichever of its requests were      *)
(* suspended when it ended, holds no topic and no handler.                 *)
SessionsAgree ==
  /\ Live = consumers
  /\ \A c \in Consumers : busOff[c] = IF c \in consumers THEN consumerSubs[c] ELSE {}
  /\ \A t \in Topics : busHandlers[t] = SubscribersOf(t)

(* When the drain has ended no transport is open and none will be: neither *)
(* a session that is still listed, those initialised after the controller  *)
(* was destroyed included, nor one whose initialize was suspended.         *)
DrainLeavesNothingOpen ==
  phase = "drained" => \A c \in Consumers : transport[c] # "open"

(* "On hub shutdown the server emits a custom notification"                *)
(* (docs/03-mcp-resources.md:57): once a shutdown has begun, no stream ends *)
(* untold unless its client ends it.                                       *)
OpenStreamsAreTold ==
  [][phase' # "serving" =>
       \A c \in streams \ streams' :
         \/ c \in told \cup departed'
         \/ [op |-> "delete", id |-> c] \in requests]_vars

\* A stream of a client that stays keeps the HTTP server from closing; only a
\* session initialised after the controller was destroyed can have one then.
ShutdownIsHeld == phase = "http closing" /\ streams # {}

(* A session whose client is gone without a word ends: by the reaper, if   *)
(* one is configured, or, if the session came too late for it, by the      *)
(* drain, unless somebody's stream keeps the shutdown from getting there.  *)
SessionsEnd ==
  SessionIdleMs > 0 =>
    \A c \in Consumers : c \in Live \cap departed ~> c \notin Live \/ ShutdownIsHeld
=============================================================================
