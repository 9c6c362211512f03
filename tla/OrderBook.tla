----------------------------- MODULE OrderBook -----------------------------
(***************************************************************************)
(* The price levels: from the events of an envelope (coinbase.parser.ts)   *)
(* through CoinbaseProtocolHandler.handle, BookMaintainer and              *)
(* InMemoryOrderBookStore to everything that reads a book: the bus, the    *)
(* snapshot of a gateway subscription, the MCP tools and resources, and    *)
(* the status of both surfaces.                                            *)
(*                                                                         *)
(* The venue keeps books of its own; an event carries, beside what the     *)
(* hub reads of it, the venue's book after it, for the properties only.    *)
(* An envelope has at most one event of a topic.  How a gap is found and   *)
(* answered is module Resync: here it discards an envelope, marks books    *)
(* stale and makes the venue owe snapshots.                                *)
(*                                                                         *)
(* handle() runs without a stop up to the await of its first frame; ws     *)
(* hands over all envelopes of one read before the continuations run.      *)
(* Consumers are given views in the order of publication; what they are    *)
(* told of staleness is module Resync.                                     *)
(***************************************************************************)
EXTENDS Integers, FiniteSets, Sequences, SequencesExt

CONSTANTS Topics,
          Prices,         \* numbers: parseFloat has been applied
          Sizes,
          MaxEvents,      \* events in an envelope, at most
          MaxSeq,         \* bound: envelopes of one connection
          MaxInFlight,    \* bound: envelopes on their way
          MaxReconnects   \* bound: connections after the first

ASSUME LevelsAssumption ==
  /\ Prices \subseteq Nat /\ Prices # {} /\ IsFiniteSet(Prices)
  /\ Sizes \subseteq Nat /\ 0 \in Sizes
ASSUME BoundsAssumption == {MaxEvents, MaxSeq, MaxInFlight, MaxReconnects} \subseteq Nat

VARIABLES venueBook,   \* topic -> side -> price -> size, 0 for no level
          nextSeq,     \* the number of the next envelope
          owed,        \* topics asked for whose snapshot is not sent yet
          wire,        \* envelopes on their way to the hub
          reconnects,
          suspended,   \* handle() calls in an await: number and frames left, in order
          reading,     \* no continuation has run since the last envelope
          books,       \* the store: the books it has
          wanted,      \* topics with a subscriber, as the registry and the adapter have them
          seen,        \* what a subscriber of a topic was last given
          expected,    \* history: the venue's book after the last event that reached the hub
          covered      \* history: topics with a snapshot since they became wanted

venueVars == <<venueBook, nextSeq, owed, wire, reconnects>>
handlerVars == <<suspended, reading>>
historyVars == <<expected, covered>>
vars == <<venueVars, handlerVars, books, wanted, seen, historyVars>>

Sides == {"bid", "offer"}
Level == [price : Prices, size : Sizes \ {0}]
VenueBook == [Sides -> [Prices -> Sizes]]
Change == [side : Sides, price : Prices, size : Sizes]
Empty == [s \in Sides |-> [p \in Prices |-> 0]]

\* BookState.  A side is a Map from price to size; 0 stands for no entry.
BookState == [levels : VenueBook, sequence : 1..MaxSeq, stale : BOOLEAN, staleReason : {"", "sequence_gap"}]

Known(t) == t \in DOMAIN books
KnownTopics == DOMAIN books

-----------------------------------------------------------------------------
(* Reads *)

\* 'desc' for bids, 'asc' for asks
Better(side, p, q) == IF side = "bid" THEN p > q ELSE p < q

LevelsOf(b, side) ==
  {[price |-> p, size |-> b.levels[side][p]] : p \in {q \in Prices : b.levels[side][q] # 0}}

\* bestPriceLevel, as a set of at most one level
BestPriceLevel(b, side) ==
  {l \in LevelsOf(b, side) : \A m \in LevelsOf(b, side) : ~Better(side, m.price, l.price)}

\* The levels, sorted
BestFirst(levels, side) ==
  LET positions == 1..Cardinality(levels)
  IN CHOOSE s \in [positions -> levels] :
       \A i, j \in positions : i < j => Better(side, s[i].price, s[j].price)

\* Both sides sorted the same way.
TopNLevels_Descending(b, side, depth) ==
  LET sorted == BestFirst(LevelsOf(b, side), "bid")
  IN SubSeq(sorted, 1, IF depth < Len(sorted) THEN depth ELSE Len(sorted))

TopNLevels(b, side, depth) ==
  LET sorted == BestFirst(LevelsOf(b, side), side)
  IN SubSeq(sorted, 1, IF depth < Len(sorted) THEN depth ELSE Len(sorted))

\* getView, without venue, symbol and timestamp
View(b, depth) ==
  [bids |-> TopNLevels(b, "bid", depth), asks |-> TopNLevels(b, "offer", depth),
   sequence |-> b.sequence, stale |-> b.stale, staleReason |-> b.staleReason]

\* getTopOfBook; mid and spread are computed from the two prices
TopOfBook(b) ==
  [bid |-> BestPriceLevel(b, "bid"), ask |-> BestPriceLevel(b, "offer"),
   sequence |-> b.sequence, stale |-> b.stale, staleReason |-> b.staleReason]

\* The depth of the bus, of gateway snapshots and of MCP resources is 50.
FullDepth == Cardinality(Prices)
FullView(t) == View(books[t], FullDepth)

\* listCatalog: the configured symbols, whether anybody subscribes to them or not
Catalog == Topics

\* What get_top_of_book and get_book_snapshot throw without a book.
NoBookStateYet == [error |-> "no book state yet"]

\* describe_topic: the freshness; the sequence is null (0) and stale is false
\* without a book.
DescribeTopic(t) ==
  IF Known(t) THEN [stale |-> TopOfBook(books[t]).stale, sequence |-> TopOfBook(books[t]).sequence]
  ELSE [stale |-> FALSE, sequence |-> 0]

GetTopOfBook(t) == IF Known(t) THEN TopOfBook(books[t]) ELSE NoBookStateYet

GetBookSnapshot(t, depth) == IF Known(t) THEN View(books[t], depth) ELSE NoBookStateYet

\* get_hub_status: what could be asked for, and what is warm.  A topic has one
\* consumer at most here.
BuildMcpStatus ==
  LET activeUris == wanted \cup KnownTopics
      row(t) == [consumerCount |-> Cardinality({t} \cap wanted),
                 stale |-> Known(t) /\ TopOfBook(books[t]).stale,
                 sequence |-> IF Known(t) THEN TopOfBook(books[t]).sequence ELSE 0]
  IN [catalog |-> Catalog, active |-> [t \in activeUris |-> row(t)],
      totalSubscriptions |-> Cardinality(wanted)]

\* GET /status builds its own rows and adds what ingestion knows.
BuildStatus ==
  LET row(t) == [consumerCount |-> IF t \in wanted THEN 1 ELSE 0,
                 stale |-> t \in {u \in KnownTopics : TopOfBook(books[u]).stale},
                 sequence |-> IF Known(t) THEN TopOfBook(books[t]).sequence ELSE 0]
  IN [catalog |-> Catalog, active |-> [t \in KnownTopics \cup wanted |-> row(t)],
      totalSubscriptions |-> Cardinality(wanted), booksKnown |-> Cardinality(KnownTopics)]

\* The tools of a session and their answers; the depth is checked by the schema.
Tools ==
  [list_topics |-> Catalog,
   describe_topic |-> [t \in Catalog |-> DescribeTopic(t)],
   get_top_of_book |-> [t \in Catalog |-> GetTopOfBook(t)],
   get_book_snapshot |-> [t \in Catalog |-> [depth \in 1..FullDepth |-> GetBookSnapshot(t, depth)]],
   get_hub_status |-> BuildMcpStatus]

\* resources/read
Resource(t) ==
  IF Known(t) THEN FullView(t)
  ELSE [bids |-> <<>>, asks |-> <<>>, sequence |-> 0, stale |-> TRUE,
        staleReason |-> "awaiting initial snapshot"]

-----------------------------------------------------------------------------
\* What a subscriber may have been given: the content of a view, or nothing yet.
Content(view) == [bids |-> view.bids, asks |-> view.asks, sequence |-> view.sequence]
Unseen == [bids |-> <<>>, asks |-> <<>>, sequence |-> 0]

Event ==
  [kind : {"snapshot"}, topic : Topics, after : VenueBook]
    \cup [kind : {"update"}, topic : Topics, change : Change, after : VenueBook]

TypeOK ==
  /\ venueBook \in [Topics -> VenueBook]
  /\ nextSeq \in 1..(MaxSeq + 1)
  /\ {owed, wanted, covered, KnownTopics} \subseteq SUBSET Topics
  /\ owed \subseteq wanted
  /\ Len(wire) <= MaxInFlight
  /\ \A i \in DOMAIN wire : wire[i].seq \in 1..MaxSeq /\ wire[i].events \in Seq(Event)
  /\ reconnects \in 0..MaxReconnects
  /\ \A i \in DOMAIN suspended : suspended[i].seq \in 1..MaxSeq /\ suspended[i].events \in Seq(Event)
  /\ reading \in BOOLEAN
  /\ \A t \in KnownTopics : books[t] \in BookState
  /\ seen \in [Topics -> [bids : Seq(Level), asks : Seq(Level), sequence : 0..MaxSeq]]
  /\ expected \in [Topics -> VenueBook]

Init ==
  /\ venueBook = [t \in Topics |-> Empty]
  /\ nextSeq = 1
  /\ owed = {}
  /\ wire = <<>>
  /\ reconnects = 0
  /\ suspended = <<>>
  /\ reading = FALSE
  /\ books = [t \in {} |-> Empty]
  /\ wanted = {}
  /\ seen = [t \in Topics |-> Unseen]
  /\ expected = [t \in Topics |-> Empty]
  /\ covered = {}

-----------------------------------------------------------------------------
(* The venue *)

Changed(levels, c) == [levels EXCEPT ![c.side][c.price] = c.size]

\* An envelope with an event of each topic of order: the snapshot of a topic
\* that is owed one, the change of a level otherwise.  While a topic is owed a
\* snapshot its book moves untold; the bound is one change.
VenueSends(order, change) ==
  LET after(t) == Changed(venueBook[t], change[t])
      event(t) == IF t \in owed THEN [kind |-> "snapshot", topic |-> t, after |-> after(t)]
                  ELSE [kind |-> "update", topic |-> t, change |-> change[t], after |-> after(t)]
  IN
  /\ nextSeq <= MaxSeq
  /\ Len(wire) < MaxInFlight
  /\ wire' = Append(wire, [seq |-> nextSeq, events |-> [i \in DOMAIN order |-> event(order[i])]])
  /\ nextSeq' = nextSeq + 1
  /\ venueBook' = [t \in Topics |-> IF t \in ToSet(order) THEN after(t) ELSE venueBook[t]]
  /\ owed' = owed \ ToSet(order)
  /\ UNCHANGED <<reconnects, handlerVars, books, wanted, seen, historyVars>>

-----------------------------------------------------------------------------
(* BookMaintainer and the store *)

\* The bus hands a subscriber the view of the moment.
Publish(t) == seen' = IF t \in wanted THEN [seen EXCEPT ![t] = Content(View(books'[t], FullDepth))] ELSE seen

\* A snapshot is laid over the levels the book has.
ApplySnapshot_Merges(e, seq) ==
  LET old == IF Known(e.topic) THEN books[e.topic].levels ELSE Empty IN
  /\ books' = [t \in KnownTopics \cup {e.topic} |->
       IF t = e.topic
       THEN [levels |-> [s \in Sides |-> [p \in Prices |->
                           IF e.after[s][p] = 0 THEN old[s][p] ELSE e.after[s][p]]],
             sequence |-> seq, stale |-> FALSE, staleReason |-> ""]
       ELSE books[t]]
  /\ Publish(e.topic)
  /\ covered' = covered \cup ({e.topic} \cap wanted)

\* The book is replaced, whatever its number was, and is fresh without reason.
ApplySnapshot(e, seq) ==
  /\ books' = [t \in KnownTopics \cup {e.topic} |->
       IF t = e.topic
       THEN [levels |-> e.after, sequence |-> seq, stale |-> FALSE, staleReason |-> ""]
       ELSE books[t]]
  /\ Publish(e.topic)
  /\ covered' = covered \cup ({e.topic} \cap wanted)

\* An update without a book, or not newer than the book, is dropped.
IsNews(e, seq) == Known(e.topic) /\ seq > books[e.topic].sequence

\* Only a move of the best levels is published.
ApplyUpdate_PublishesTopMoves(e, seq) ==
  /\ IF IsNews(e, seq)
     THEN /\ books' = [books EXCEPT ![e.topic].levels = Changed(@, e.change),
                                    ![e.topic].sequence = seq]
          /\ IF \E s \in Sides : BestPriceLevel(books'[e.topic], s) # BestPriceLevel(books[e.topic], s)
             THEN Publish(e.topic) ELSE UNCHANGED seen
     ELSE UNCHANGED <<books, seen>>
  /\ UNCHANGED covered

\* A stale book takes updates too, and stays stale.
ApplyUpdate(e, seq) ==
  /\ IF IsNews(e, seq)
     THEN /\ books' = [books EXCEPT ![e.topic].levels = Changed(@, e.change),
                                    ![e.topic].sequence = seq]
          /\ Publish(e.topic)
     ELSE UNCHANGED <<books, seen>>
  /\ UNCHANGED covered

\* markAllStale of the topics the adapter has channels for
MarkAllStale ==
  books' = [t \in KnownTopics |->
    IF t \in wanted THEN [books[t] EXCEPT !.stale = TRUE, !.staleReason = "sequence_gap"] ELSE books[t]]

-----------------------------------------------------------------------------
(* CoinbaseProtocolHandler.handle *)

ProcessFrame(e, seq) == IF e.kind = "snapshot" THEN ApplySnapshot(e, seq) ELSE ApplyUpdate(e, seq)

\* The next envelope, in the same read as the one before or when every
\* continuation has run: up to the await of its first frame.
HandleEnvelope ==
  LET e == Head(wire) IN
  /\ wire # <<>>
  /\ reading \/ suspended = <<>>
  /\ wire' = Tail(wire)
  /\ ProcessFrame(Head(e.events), e.seq)
  /\ suspended' = Append(suspended, [seq |-> e.seq, events |-> Tail(e.events)])
  /\ reading' = TRUE
  /\ expected' = [t \in Topics |->
       IF t \in wanted /\ \E i \in DOMAIN e.events : e.events[i].topic = t
       THEN (CHOOSE ev \in ToSet(e.events) : ev.topic = t).after ELSE expected[t]]
  /\ UNCHANGED <<venueBook, nextSeq, owed, reconnects, wanted>>

\* The handle() that has waited longest: its next frame, or nothing more.
HandleContinues ==
  LET h == Head(suspended) IN
  /\ suspended # <<>>
  /\ IF h.events = <<>>
     THEN suspended' = Tail(suspended) /\ UNCHANGED <<books, seen, covered>>
     ELSE /\ ProcessFrame(Head(h.events), h.seq)
          /\ suspended' = Append(Tail(suspended), [seq |-> h.seq, events |-> Tail(h.events)])
  /\ reading' = FALSE
  /\ UNCHANGED <<venueVars, wanted, expected>>

\* An envelope whose number is not the next: books are marked stale and the
\* channels asked for again.
HandleGap ==
  /\ wire # <<>>
  /\ reading \/ suspended = <<>>
  /\ wire' = Tail(wire)
  /\ MarkAllStale
  /\ owed' = wanted
  /\ UNCHANGED <<venueBook, nextSeq, reconnects, handlerVars, wanted, seen, historyVars>>

\* The connection is lost and another opened: numbers start anew, and the
\* books stay as they are.
Reconnect ==
  /\ suspended = <<>>
  /\ reconnects < MaxReconnects
  /\ reconnects' = reconnects + 1
  /\ wire' = <<>>
  /\ nextSeq' = 1
  /\ owed' = wanted
  /\ UNCHANGED <<venueBook, handlerVars, books, wanted, seen, historyVars>>

-----------------------------------------------------------------------------
(* Subscribers; a message of a client comes when every continuation has run *)

\* The first subscriber: the gateway sends the view there is, and the adapter
\* asks for the channel.
ConsumerJoins(t) ==
  /\ suspended = <<>>
  /\ t \notin wanted
  /\ wanted' = wanted \cup {t}
  /\ owed' = owed \cup {t}
  /\ seen' = [seen EXCEPT ![t] = IF Known(t) THEN Content(FullView(t)) ELSE Unseen]
  /\ UNCHANGED <<venueBook, nextSeq, wire, reconnects, handlerVars, books, historyVars>>

\* The venue is not told that the channel is closed.
ConsumerLeaves_KeepsOwed(t) ==
  /\ suspended = <<>>
  /\ t \in wanted
  /\ wanted' = wanted \ {t}
  /\ seen' = [seen EXCEPT ![t] = Unseen]
  /\ covered' = covered \ {t}
  /\ expected' = [expected EXCEPT ![t] = Empty]
  /\ UNCHANGED <<venueBook, nextSeq, owed, wire, reconnects, handlerVars, books>>

\* The last one leaves and the channel is closed; the book stays in the store.
ConsumerLeaves(t) ==
  /\ suspended = <<>>
  /\ t \in wanted
  /\ wanted' = wanted \ {t}
  /\ owed' = owed \ {t}
  /\ seen' = [seen EXCEPT ![t] = Unseen]
  /\ covered' = covered \ {t}
  /\ expected' = [expected EXCEPT ![t] = Empty]
  /\ UNCHANGED <<venueBook, nextSeq, wire, reconnects, handlerVars, books>>

Orders == {o \in UNION {[1..n -> wanted] : n \in 1..MaxEvents} : IsInjective(o)}

Next ==
  \/ \E order \in Orders :
       \E change \in [ToSet(order) -> Change] : VenueSends(order, change)
  \/ \E t \in Topics : ConsumerJoins(t) \/ ConsumerLeaves(t)
  \/ HandleEnvelope
  \/ HandleContinues
  \/ HandleGap
  \/ Reconnect

Spec == Init /\ [][Next]_vars

-----------------------------------------------------------------------------
(* A book of a subscribed topic that is not marked stale is, level for     *)
(* level, the venue's book after the last event that reached the hub: no   *)
(* level survives a snapshot, outlives its removal or is missed, through   *)
(* gaps, reconnects that start the numbers anew and resubscriptions.       *)
FreshBookIsVenueBook ==
  suspended = <<>> =>
    \A t \in covered : books[t].stale \/ books[t].levels = expected[t]

\* Reference definition of the n best levels: those with fewer than n better.
BestLevels(b, side, n) ==
  {l \in LevelsOf(b, side) :
     Cardinality({m \in LevelsOf(b, side) : Better(side, m.price, l.price)}) < n}

(* docs/04-topics.md, sorting guarantees: at every depth a view has the    *)
(* best levels of each side, all of them, best first, and the top of the   *)
(* book, which is searched for in another way, is where they start.        *)
ViewsAreBestFirst ==
  \A t \in KnownTopics, side \in Sides, depth \in 1..FullDepth :
    LET b == books[t]
        levels == TopNLevels(b, side, depth)
    IN /\ ToSet(levels) = BestLevels(b, side, depth)
       /\ \A i, j \in DOMAIN levels : i < j => Better(side, levels[i].price, levels[j].price)
       /\ BestPriceLevel(b, side) = {levels[i] : i \in DOMAIN levels \cap {1}}

(* Whoever reads a book sees the same one: what a subscriber was last      *)
(* given, on subscribing or over the bus, is what a reader of the MCP      *)
(* resource and of get_book_snapshot gets now, get_top_of_book starts it,  *)
(* describe_topic and both status pages show its number and staleness, and *)
(* a reason is given exactly for what is stale.  Tools refuse and status   *)
(* shows no number for a topic that has no book; a topic somebody waits    *)
(* for or that has a book is on the status page.                           *)
SurfacesAgree ==
  \A t \in Topics :
    LET read == Resource(t)
        top == Tools.get_top_of_book[t]
        warm == Known(t) \/ t \in wanted
    IN
    /\ read.stale <=> read.staleReason # ""
    /\ Tools.describe_topic[t].sequence = read.sequence
    /\ Known(t) =>
         /\ Tools.get_book_snapshot[t][FullDepth] = read
         /\ <<top.sequence, top.stale, top.staleReason>> = <<read.sequence, read.stale, read.staleReason>>
         /\ top.bid = {read.bids[i] : i \in DOMAIN read.bids \cap {1}}
         /\ top.ask = {read.asks[i] : i \in DOMAIN read.asks \cap {1}}
         /\ Tools.describe_topic[t].stale = read.stale
    /\ \A status \in {BuildStatus.active, Tools.get_hub_status.active} :
         /\ t \in DOMAIN status <=> warm
         /\ warm => [stale |-> status[t].stale, sequence |-> status[t].sequence] = Tools.describe_topic[t]
    /\ t \in wanted => seen[t] = IF Known(t) THEN Content(read) ELSE Unseen

(* in-memory-order-book-store.ts: "Implementations skip out-of-order       *)
(* updates (lower sequence than current) to preserve correctness", and the *)
(* parser: "one envelope can carry multiple per-product events": skipping  *)
(* loses nothing when envelopes come in order.                             *)
SkippingLosesNothing == FreshBookIsVenueBook
=============================================================================
