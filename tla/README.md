# Verification of the silver8 market data hub

TLA+ modules of the hub that stands between the Coinbase WebSocket feed and its
consumers (WebSocket clients and MCP agents), the TLC configurations that check
them on small instances, and TLAPS proofs that most of what is checked holds for
any number of consumers, topics, sockets and messages. Paths are relative to `src/`.

## The system

| Component | Code | State | Operations | Talks to |
|---|---|---|---|---|
| Registry | `packages/core-memory/src/in-memory-registry.ts` | consumers, consumer -> topics, topic -> consumers, demand handlers | registerConsumer, removeConsumer, subscribe, unsubscribe | called by both surfaces; calls the demand callback inside the call |
| IngestionService | `packages/ingestion/src/ingestion.service.ts` | demand subscription, lifecycle, readiness poll | demand callback, bootstrap, onModuleDestroy | registry -> adapter |
| CoinbaseAdapter | `packages/ingestion/src/coinbase/coinbase.adapter.ts` | socket, status, channels, three timers, resync flag | subscribeChannels, unsubscribeChannels, stop, socket events, timers | Coinbase; hands messages to the handler |
| CoinbaseProtocolHandler, BookMaintainer | `.../coinbase.protocol-handler.ts`, `.../book/book-maintainer.ts` | last sequence number | handle, applySnapshot, applyUpdate, markAllStale | adapter (gap callback), store, bus |
| Order book store | `packages/core-memory/src/in-memory-order-book-store.ts` | book, sequence, staleness per topic | applySnapshot, applyUpdate, markStale, markFresh, reads | written by BookMaintainer only |
| Bus | `packages/core-memory/src/in-memory-bus.ts` | handlers per topic | publish (in a microtask), subscribe | BookMaintainer -> consumers |
| WsGatewayService | `packages/gateway-ws/src/ws-gateway.service.ts` | consumers, their bus subscriptions, accepting | connection, client messages, removal, drain, onModuleDestroy | registry, bus, store |
| WsConsumerHandle, BoundedQueue | `packages/gateway-ws/src/` | ring buffer, overflow timer, closed | deliver, flush, disconnect, close listener | bus -> client socket |
| McpServerService, McpController | `packages/mcp-server/src/`, `apps/hub/src/http/mcp.controller.ts` | sessions, consumers, bus subscriptions | initialize, requests, subscribe/unsubscribe, reap, drop, drain | registry, bus, store |
| MCP tools, status builder and controller | `packages/mcp-server/src/tools.ts`, `status-builder.ts`, `apps/hub/src/http/status.controller.ts` | none | reads | store, catalog, registry |
| ShutdownService, ReadinessService | `apps/hub/src/` | drainables, flags | onApplicationShutdown | gateway, MCP server |
| Dashboard connection and tabs | `apps/dashboard/src/api/gateway-connection.tsx`, `use-book.ts`, `components/TickerTabs.tsx` | browser socket, listeners, requests that wait for the socket, tabs | open, select and close a tab; effects, socket events, messages | WS gateway |

Everything runs on one Node event loop: a handler, timer callback or
continuation runs to its next `await` without interruption, and that is the
grain of an action in every module. What makes the system hard is between
those steps: demand that changes while a socket opens, closes or resyncs;
handlers of sockets that have been replaced; a 100 ms wait in the middle of a
resync; envelopes lost by upstream; messages of one read handled before the
microtasks of the one before; two ways for a connection to end; timers that
race what they guard; a shutdown whose steps wait for each other.

What makes each part correct:

* registry and demand: the indices agree; upstream channels are exactly the
  wanted configured topics; every edge is emitted once and is true;
* adapter: what is demanded gets asked for on a live socket, and again after
  every failure; nothing is opened after stop; an unused socket is released;
* books: not stale means equal to a state upstream was in, level by level;
  stale ends; everybody who reads a book sees the same one;
* readiness: ingestion is ready once it has a book, and not while it stops;
* gateway: gateway, registry and bus agree; whoever leaves leaves nothing
  behind; a drain tells whom it closes, and ends;
* handle: newest messages, in order, with every loss reported; no message
  waits without a clock;
* MCP sessions: a dropped session leaves no consumer; an in-flight request
  cannot bring one back; an abandoned session ends; a shutdown leaves no
  transport open;
* dashboard: the gateway serves the topics of the open tabs, each asked for
  once, and a tab that stays open shows a book.

## Modules

| Module | Models | Properties checked |
|---|---|---|
| `Registry` | InMemoryRegistry. Maps are functions whose DOMAIN is the key set; an action leaves what it emitted in `demandChanges` for the composing module to act on in the same step; `Status` is `status()` | `IndicesAgree` |
| `UpstreamDemand` | abstract: interest of consumers, and channels that follow it | |
| `DemandDriven` | Registry + demand callback + the adapter's channel set | `ChannelsFollowDemand`, `EdgeTriggered`, `ImplementsUpstreamDemand` |
| `Upstream` | CoinbaseAdapter: every socket that is not closed, whether or not `this.ws` refers to it; and the ingestion service that drives it: both lifecycles, the readiness poll, the stop | seven, below |
| `Resync` | protocol handler, maintainer, staleness of the store, resync, over a connection numbered the way `apps/coinbase-mock` does it | four, and one refuted |
| `OrderBook` | events of an envelope, levels, views; bus, gateway snapshot, MCP tools and resource, both status surfaces as readers | four, and one refuted |
| `InMemoryBus` | the handlers of a topic, as operators | |
| `WsGateway` | WsGatewayService over Registry and bus, with its status and shutdown | six, and two refuted |
| `BoundedQueue` | the ring buffer, as operators on a record | |
| `WsConsumerHandle` | queue, backpressure, overflow timer of one consumer | six |
| `McpSessions` | McpController, session servers and handles over Registry and bus, with idle reaping and shutdown | four, and one refuted |
| `Dashboard` | tabs, effects, the subscription mux and the socket of one browser window, and what the gateway does with its requests | four |
| `MC*` | constants for TLC | |
| `DemandDrivenProofs`, `UpstreamProofs`, `ResyncProofs`, `OrderBookProofs`, `WsGatewayProofs`, `WsConsumerHandleProofs`, `McpSessionsProofs`, `DashboardProofs` | proofs about the module of that name; the first also about one call of `Registry` | |

`DemandDriven`, `WsGateway` and `McpSessions` extend `Registry`, the last two
`InMemoryBus` as well; `WsConsumerHandle` extends `BoundedQueue`. `Upstream`
takes the calls `DemandDriven` makes (subscribe and unsubscribe of channels) as
its input, and `Resync` opens up the `SequenceGap`/`ResyncWaitEnds` pair of
`Upstream`. `OrderBook` takes from `Resync` that a gap discards an envelope,
marks the books stale and makes the venue send snapshots again, and adds what
`Resync` abstracts: levels, events, awaits, readers. `WsGateway` lets a consumer
be disconnected as lagged at any time, and `WsConsumerHandle` says when.
`Dashboard` stands at the other end of one connection of `WsGateway`.

How state corresponds to code, where it is not by name:

* `Upstream`: `readyState` and `asked` are functions over all sockets, `asked`
  being the channels upstream was asked for on one; a socket id may be used
  again once its socket is closed and nothing refers to it. `known` says that
  the store has a book, `ready` is ingestion's readiness flag.
* `WsGateway`, `McpSessions`: a consumer id is one connection or session and
  never comes back. The `Map` of off-functions is the set of its keys
  (`busSubs`, `busOff`).
* `McpSessions`: a request that has passed the controller's look-up and not yet
  reached its handler is an element of `requests`; whatever may happen in that
  await, happens.
* `OrderBook`: a side of a book is a function from prices to sizes, 0 for no
  entry; a suspended `handle()` is its number and the frames left. `expected`
  and `covered` are history variables, read by properties only.
* `Dashboard`: `render` says how far React is with a change of the connection
  state; a click is rendered with its effects within its action, as discrete
  events are.

A definition `X_Something` beside `X` is a plausible mistake in X, which the
property named for it in `PROJECT.json` must find; no specification uses it.

## Runs

| Run | Bounds | Result |
|---|---|---|
| `demand` | 3 consumers, 3 topics of which 2 are configured: consumers that share a topic, and demand for a topic that is not configured | holds, 4,136 states |
| `upstream` | 2 symbols, 3 sockets alive or closing at once (one current, one replaced, one more), both lifecycles, idle close enabled | holds, 109,317 states |
| `resync` | 2 topics, 5 sequence numbers per connection, 2 envelopes in flight, 1 loss per connection, 1 reconnect: enough for a loss, a gap, an envelope during the wait, a swallowed snapshot and another round | holds, 308,144 states |
| `resync_swallowed` | the same, no reconnect | refuted |
| `books` | 1 topic, 2 prices a side, 1 event per envelope, 3 envelopes per connection, 2 in flight, 1 reconnect: a snapshot, an update that adds or removes a level and a gap, then the same with numbers that start anew; several views of each depth | holds, 289,228 states |
| `books_reordered` | 2 topics, 2 events per envelope, no reconnect | refuted |
| `gateway` | 2 connections, 2 topics, both orders of shutdown | holds, 6,448 states |
| `gateway_orphans`, `gateway_shutdown` | the same | refuted |
| `handle` | capacity 3, watermark 1, 9 messages: the ring wraps three times, with and without evictions | holds, 3,895 states |
| `mcp` | 2 sessions, 1 topic, 2 requests suspended at a time: a session that ends while a request on it, or the initialize of the other, is suspended; the reaper enabled | holds, 62,785 states |
| `dashboard` | 2 tabs, 2 topics, 3 requests on their way: tabs that share a topic, and one closed while the effects of the other run again | holds, 52,020 states |

Deadlock is not checked where the system really stops: after a stop, when the
bounded numbering is used up, when every connection has come and gone.

### Fairness

* `Upstream`: timers run out; a closing socket closes (ws destroys it after
  30 s); the watchdog runs out when nothing can be received, and is not
  assumed to otherwise, since every message re-arms it (acks and what was in
  flight may come on a socket with nothing asked, but end); upstream does not
  refuse for ever the connections of the current socket (strong fairness).
* `Resync`: the hub handles what it receives; the mock answers requests and
  sends the snapshots it owes. It need not send updates or heartbeats.
* `WsGateway`: a socket the hub closes ends and its `close` event runs; the
  polls and the deadline of a drain come. No client has to leave.
* `WsConsumerHandle`: the overflow timer and the `close` event. The peer need
  not read, and no further message need come.
* `McpSessions`: an await ends, time passes, the reaper's interval fires while
  it is running, `transport.close()` calls `onclose`, and NestJS goes from one
  step of a shutdown to the next when what it waits for is there. No client
  has to leave or to send anything, and nobody has to shut down.
* `Dashboard`: React renders and runs effects, an open connection delivers,
  and the market moves (a topic that is subscribed has a next update). The
  user need do nothing, the socket need not open and may close.

### What the runs refute

Each is a statement of the repository that the code does not keep. The first
four are in `PROJECT.json`; the others have a configuration beside the runs.

1. **The resync's own snapshot is thrown away** (`resync_swallowed`,
   docs/06:13). `handle()` is suspended in the gap callback and then assigns
   `lastSeq`, undoing the reset; any envelope handled during the 100 ms wait makes
   the snapshot look like a gap. With finitely many numbers the topic recovers
   (`StaleTopicsRecover`); on a feed that always has an envelope in flight
   the model cannot exclude that the cycle repeats.
2. **A lagged consumer is never removed** (`gateway_orphans`,
   core/src/registry.ts:62): `disconnect` sets the flag that makes the `close`
   listener return. `ReadersAreRegistered` and its mutant show that removing the
   consumer inside `disconnect` would be wrong as well.
3. **A shutdown waits for its clients** (`gateway_shutdown`,
   shutdown.service.ts:14-17): module destruction awaits `wss.close` before the
   drain that would tell or close anybody.
4. **A book marked fresh lacks an update that came in order**
   (`books_reordered`, in-memory-order-book-store.ts:24-25). `handle()` awaits
   between the frames of an envelope, and the next envelope of the same read is
   handled in between: an update of the second frame's topic is dropped before
   that frame is applied. It takes an envelope with several events; with one
   each, `FreshBookIsVenueBook` holds.
5. **Two upstream connections** (`tlc -config MCUpstreamSingle.cfg MCUpstream`,
   docs/06:146). A symbol becomes wanted between the end of a socket and its
   `close` event; the adapter connects at once, the event schedules a
   reconnect, and that opens another.
6. **Consumers believe fresh what is stale** (`tlc -config MCResyncAnnounced.cfg
   MCResync`, book-maintainer.ts:18-20). A gap read in the same tick as the
   snapshot that ends a staleness is announced before that snapshot's
   `book.fresh`.
7. **A drained consumer is disconnected as lagged** (`tlc -config
   MCWsConsumerHandleLagged.cfg MCWsConsumerHandle`, docs/06:32): no flush
   follows the socket's drain.
8. **No MCP client is told of a shutdown** (`tlc -config
   MCMcpSessionsUntold.cfg MCMcpSessions`, property `OpenStreamsAreTold`;
   docs/03-mcp-resources.md:57 "On hub shutdown the server emits a custom
   notification", also docs/06:46, mcp.controller.ts:39-40 and
   opensprint/ADRs/DEC-035.md:38). The controller's `onModuleDestroy` drops
   every session, its stream with it, before the HTTP server is closed, and
   the drain that broadcasts comes after that. A session initialised in
   between is all a drain can find, and it has no stream then: the close of
   the server has waited for the streams. TLC shows a stream that ends
   untold; `RebalanceReachesNobody` proves that no session is ever told,
   for any number of sessions and requests.

## Proofs

A theorem says of every value of the constants what a run checks on one
instance. Proved are the refinement of `UpstreamDemand` and all invariants and
action properties of the passing runs. Each proof goes through an inductive
invariant, which TLC finds true on the bounds of the runs as well.

| Theorems about | Properties | Assumed of the constants |
|---|---|---|
| `DemandDriven` | `TypeOK`, `IndicesAgree`, `ChannelsFollowDemand`, `EdgeTriggered`, `ImplementsUpstreamDemand` | `Configured` is a set of topics |
| `Upstream` | `TypeOK`, `CurrentSocketCoversDemand`, `DemandIsPursued`, `ReadinessIsEarned`, `StopIsFinal` | `NoSocket` is not a socket, `SocketIdleMs` is a natural number, 0 included |
| `Resync` | `TypeOK`, `FreshBooksAreIntact`, `NoTopicAbandoned` | `NoTopic` is not a topic, the bounds are natural numbers |
| `OrderBook` | `TypeOK`, `ViewsAreBestFirst`, `SurfacesAgree`; `FreshBookIsVenueBook` if `MaxEvents = 1` | prices (some, finitely many) and sizes are natural numbers, 0 is a size, the bounds are natural numbers |
| `WsGateway` | `TypeOK`, `SubscriptionsAgree`, `DepartedAreForgotten`, `ReadersAreRegistered`, `ForceClosedWereTold` | none |
| `WsConsumerHandle` | `TypeOK`, `QueueHoldsNewest`, `NoSilentLoss`, `BacklogIsTimed`, `ClearedOnceDrained` | the capacity is positive, the buffer can pass the watermark |
| `McpSessions` | `TypeOK`, `SessionsAgree`, `DrainLeavesNothingOpen`; that nobody is told (refuted item 8) | `MaxRequests` is positive |
| `Dashboard` | `TypeOK`, `TabsAreSubscribed`, `RequestsAreTransitions` | `None` is no tab and no topic |

The bounds of the models (numbers, envelopes in flight, losses, reconnects,
messages, requests) are constants, so a theorem holds for all of them. Sets of
consumers, topics, symbols, sockets and tab ids are arbitrary; none has to be
finite.

**Registry.** `DemandDrivenProofs` begins with what each call does to types,
to the agreement of the two indices and to the topics that have a subscriber.
`WsGateway` and `McpSessions` make the same calls; their proofs take the facts
they need from the definitions.

**Demand** (`DemandInv`: types, agreeing indices, channels that follow demand).
The agreement is needed for the channels: that the last consumer left is read
off `topicConsumers`, while what a removed consumer held is read off
`consumerSubs`, and a topic kept with an empty set would hide the edge of its
next consumer. `EdgesOfACall` says which topics cross between no consumer and
some in each call, `CallbackFollowsEdges` turns that into what the callback
leaves, and the refinement reads the abstract step off the same facts.
`EdgeCounts` ties the edges to the counts the changes carry: a topic that
crosses has a singleton of subscribers on one side, so that no finiteness of
`Consumers` is needed.

**Adapter** (`UpstreamInv`). `CurrentSocketCoversDemand` is silent during a
resync, so it is not inductive: `ResyncWillCoverDemand` says that what the open
socket was not asked for is among the symbols the resync will ask for, and that
there are none without one. `StopIsFinal` needs `NothingSurvivesStop`: no
channel for which a late `close` would connect, no reconnect timer, no
readiness poll, and `this.ws` null, so that the idle timer, which `stop()`
leaves armed, finds nothing to close.
`DemandIsPursued` and `ReadinessIsEarned` are inductive together with these.
That two sockets may be alive at once (hazard at coinbase.adapter.ts:203) does
no harm to any of the five.

**Resync** (`ResyncInv`). That a book which is not marked stale is intact
depends on everything still on its way. `LossesAreNoticed` says that for every
update lost there is a gap ahead of whatever could hide it: its topic is marked
already with no snapshot before the place of the loss, or some envelope up to that
place jumps over a number. `UpdatesAreNewer` says that an
update in flight is newer than the book it comes to, so that the sequence check
of the store never drops it; `SequenceIsKept` is what `lastSeq` can be while a resync
undoes its reset: in step, of nothing handled yet, or left from the connection
before, and then all books are marked. `RequestsAlternate` is for
`NoTopicAbandoned`: the requests on their way leave upstream feeding the topics
exactly when no resync waits. The proof says why the swallowed snapshot (refuted item 1)
costs freshness but never correctness: the number
`ResyncWaitEnds` puts back can turn the next envelope into a gap, never a lost
update into the next one.

**Books** (`ReadersInv`, `FreshInv`). Sorting is a choice of a sorted sequence,
as `Array.sort` promises nothing else of distinct prices; that there is one is
proved through the rank of a level (how many are better), without
induction, and `TopNLevelsAreBest` says what its prefixes hold.
`SurfacesAgree` needs `SeenIsCurrent`: what a subscriber was last given is what
the store has, and a book has a reason to be stale exactly when it is.
`FreshBookIsVenueBook` needs the wire: every event of a topic follows the one
before it, the venue's book follows the last, numbers rise (`WireIsChained`),
and a fresh book of a covered topic equals what the venue had after the last
event that arrived, with the next one on the wire applicable to it and newer
(`BookIsCurrent`). The theorem is stated for envelopes of one event
(`MaxEvents = 1`), because with two it is false (`books_reordered`).
`SingleEvents` is what the hypothesis buys: no `handle()` has a frame left
after its first await. The other theorems hold for any number of events.

**Gateway** (`GatewayInv`). `HandlesFollowSockets` ties handle flag, socket and
Map entry of a connection; with `IndicesAgree` it makes `SubscriptionsAgree`,
`DepartedAreForgotten` and `ReadersAreRegistered` consequences, for a consumer
disconnected as lagged too, which stays in all three places (refuted item 2) but
agrees in them. `OpenOnesWereTold` is for `ForceClosedWereTold`: nobody is
accepted between broadcast and deadline.

**Handle** (`HandleInv`). The ring is reasoned about by slots: `WrapOnce` and
`RingArithmetic` are the only facts about `%`, and from them `Contents` of
`MakeRoom`, `Enqueue` and `DrainTo` are append and removal at the front. The
invariant is inductive with `Linked` (the tail is `size` slots behind the
head), which the code nowhere states.

**MCP sessions** (`SessionsInv`). `SessionsUnderway`: a session being made
has its `initialize` suspended, and a transport is open only for one of these
or one in the map; `AnsweredBeforeDrain`: when the HTTP server is closed
nothing is suspended and no stream is open. With these `SessionsAgree`
survives every request that returns after its session ended,
`DrainLeavesNothingOpen` holds because no session is being made during a drain
and those in the map are closed by it, and `RebalanceReachesNobody` follows
because a notification needs a stream. `SessionIdleMs` is any number, 0
included: nothing that is proved needs the reaper.

**Dashboard** (`DashboardInv`). The mux never looks at what the gateway serves:
it goes by its listeners, and the requests it sent may wait for the socket, for
the gateway, or be handled already. `Fits` is what makes that right: after all
that waits and all the mux has sent since, a topic is served exactly when it has
a listener, and every request so far changed something. `AddListener` and
`RemoveListener` each keep it (`AddListenerFits`, `RemoveListenerFits`), so a
render may run any number of them in any order; that all cleanups run before
all effects matters only for the listeners being the same ones afterwards.
`ListenersAreTabs` (the listeners of a topic are its open tabs) turns this into
`TabsAreSubscribed`, and `WaitingInOnePlace` (nothing is kept for an open
socket, nothing is on its way to the gateway over any other) keeps the order of the requests
when the socket opens. The prover has no induction that could be used over the
tabs or the requests. `StepByStep` takes its place, with a set for the
predicate and a least counterexample from the well-foundedness of `<`;
`StepsCanRun` gets from it that the recursive functions `CleanedUp` and `SetUp`
have the values their definitions say (`CleanedUpTabByTab`, `SetUpTabByTab`),
and `ServedAfterTheFirst` that a gateway which has handled the first request
is as far as one that has it before it. The proof showed that
`None \notin Topics` has to be assumed, which the run's constants hid.

### Only model-checked

* Liveness: `DemandIsServed`, `IdleSocketIsReleased`, `StaleTopicsRecover`,
  `DrainTerminates`, `BacklogEnds`, `SessionsEnd`, `TabsAreFed`. The prover has
  no rules for fairness that could be used here.
* That the refuted statements fail: TLC's counterexamples.

## Limits of the models

* Time: an armed timer may fire at any later step. Where the code depends on a
  duration this is said at the action (`Resync!Reconnects`: the backoff is longer
  than the wait of a resync).
* `Resync` keeps of a book's content whether it is intact, has one event in an
  envelope and loses no snapshots; `OrderBook` has levels and several events,
  and no losses other than the envelopes a gap discards. Its passing run has
  one event in an envelope, because the code breaks `FreshBookIsVenueBook`
  with two (refuted above).
* `FreshBookIsVenueBook` speaks of topics that had a snapshot since they became
  wanted: a book nobody subscribes stays in the store as fresh, and no gap
  marks it (hazard at coinbase.protocol-handler.ts:78).
* `IdleSocketIsReleased` assumes that no two sockets were alive together and no
  resync asked for a channel given up meanwhile; both happen (hazards at
  coinbase.adapter.ts:203 and :314).
* `SocketIdleMs` and `SessionIdleMs` may be 0 (no idle timer, no reaper). The
  safety theorems hold for every value; the runs have them enabled. With
  `SocketIdleMs = 0` the `upstream` run passes too: the watchdog ends the unused
  socket, as its heartbeats are unsubscribed with the channels. `SessionsEnd`
  says nothing of a hub without a reaper, where an abandoned session stays.
* `SurfacesAgree` compares the rows of topics, staleness and counts; the
  `upstream` block of `/status` and `get_hub_status` is left out.
* `ClearedOnceDrained` is about the end of one flush; a timer that stays because
  no flush comes is refuted item 7. `ViewsAreBestFirst` is about one read
  of whatever book there is.
* `SessionsEnd` excuses a shutdown that a stream opened after `onModuleDestroy`
  holds up, and `McpSessions` assumes that the modules' destruction ends, which
  the gateway's does not while a client stays.
* `Dashboard` does not tell two views of a topic apart, so what is checked is
  that a view comes, not that it is the newest; notices are left out. A
  `lagged` event has resource `*`, for which the mux has no listener: no tab
  shows it.

## Not modelled

* Decimal parsing, malformed frames, wire formats, error replies, logging and
  metrics: none is read by a decision that is modelled. `connectWaiters` and
  the timestamps of the adapter's status, and `dequeue()` of the queue, have no
  reader in the hub.
* Two flags at once: `/readyz` is the conjunction of what each module reports;
  ingestion's flag is in `Upstream`, the others are set at boot and cleared in
  `onModuleDestroy` and `drain`.
* The stdio transport of MCP: one client, no session, no registry entry.
* The dashboard's polling of `/status` and its rendering.
* Configuration, module wiring and the integration tests' helpers: read once at
  boot, or test equipment.

## Plan

1. Done: all modules above.
2. Done: proofs of all invariants and action properties of the passing runs, and
   of the refinement.
3. Extensions: topics, direct snapshots and the reports of a full queue in
   `WsConsumerHandle`; readiness and the shutdown of ingestion, gateway and MCP
   server composed.
