------------------------------- MODULE Resync -------------------------------
(***************************************************************************)
(* What keeps a book true to the upstream: CoinbaseProtocolHandler (the    *)
(* sequence check), BookMaintainer and the order book store (staleness),   *)
(* and the resync of CoinbaseAdapter.handleSequenceGap, over a connection  *)
(* with the ordering and the numbering of upstream, which are taken from   *)
(* apps/coinbase-mock.                                                     *)
(*                                                                         *)
(* Every configured topic is subscribed (eager mode).  An envelope carries *)
(* one event.  Prices are abstracted: what is kept of a book's content is  *)
(* whether it equals a state upstream was ever in (intact), which it stops *)
(* doing when an update is applied after an earlier one was not.  A        *)
(* connection delivers in order, but upstream may lose envelopes before    *)
(* they reach it, using up their sequence numbers.                         *)
(*                                                                         *)
(* An action is one handler.  ws emits all messages of one read in one     *)
(* tick, so the next envelope may be handled before the microtask that     *)
(* announces a topic fresh; timers and 'close' come only after it.  The    *)
(* other continuations of handle() are taken with its first part.          *)
(***************************************************************************)
EXTENDS Integers, Sequences

CONSTANTS Topics,
          NoTopic,        \* of an envelope about no topic
          MaxSeq,         \* bound: sequence numbers used on one connection
          MaxInFlight,    \* bound: envelopes between upstream and hub
          MaxLosses,      \* bound: envelopes lost on a connection
          MaxReconnects   \* bound: connections after the first

ASSUME BoundsAssumption ==
  /\ NoTopic \notin Topics
  /\ {MaxSeq, MaxInFlight, MaxLosses, MaxReconnects} \subseteq Nat

VARIABLES (* upstream, for the current connection *)
          nextSeq, fed, owed,   \* numbering, topics fed, snapshots still to send
          hole,                 \* topics with an update lost since their last envelope
          losses,
          (* the connection, and how many came before it *)
          connected, reconnects, toUpstream, toHub,
          (* the hub *)
          lastSeq,              \* NoSeq for null
          resubscribePending,
          gapSeq,               \* sequenceNum of the suspended handle()
          book,                 \* the store
          missed,               \* topics with an envelope not applied since their last snapshot
          freshDue,             \* book.fresh about to be published
          announced             \* topics whose last book.stale/book.fresh was stale

upstream == <<nextSeq, fed, owed, hole, losses>>
connection == <<connected, reconnects, toUpstream, toHub>>
books == <<book, missed, freshDue, announced>>
vars == <<upstream, connection, lastSeq, resubscribePending, gapSeq, books>>

NoSeq == -1
NoBook == [seq |-> NoSeq, stale |-> FALSE, intact |-> TRUE]

Envelope ==
  [seq : 0..MaxSeq, kind : {"subscriptions", "heartbeat", "snapshot", "update"},
   topic : Topics \cup {NoTopic}, hole : BOOLEAN]

TypeOK ==
  /\ nextSeq \in 1..(MaxSeq + 1)
  /\ {fed, owed, hole, missed, freshDue, announced} \subseteq SUBSET Topics
  /\ losses \in 0..MaxLosses
  /\ connected \in BOOLEAN
  /\ reconnects \in 0..MaxReconnects
  /\ toUpstream \in Seq({"subscribe", "unsubscribe"})
  /\ toHub \in Seq(Envelope)
  /\ lastSeq \in {NoSeq} \cup 1..MaxSeq
  /\ resubscribePending \in BOOLEAN
  /\ gapSeq \in 0..MaxSeq
  /\ book \in [Topics -> [seq : {NoSeq} \cup 1..MaxSeq, stale : BOOLEAN, intact : BOOLEAN]]

\* The first connection has just opened and its 'open' handler subscribed.
Init ==
  /\ nextSeq = 1 /\ fed = {} /\ owed = {} /\ hole = {} /\ losses = 0
  /\ connected = TRUE /\ reconnects = 0
  /\ toUpstream = <<"subscribe">> /\ toHub = <<>>
  /\ lastSeq = NoSeq
  /\ resubscribePending = FALSE
  /\ gapSeq = 0
  /\ book = [t \in Topics |-> NoBook]
  /\ missed = {} /\ freshDue = {} /\ announced = {}

-----------------------------------------------------------------------------
(* Upstream: apps/coinbase-mock *)

Numbered(kind, t, withHole) == [seq |-> nextSeq, kind |-> kind, topic |-> t, hole |-> withHole]

HasRoom == Len(toHub) < MaxInFlight

SendEnvelope(e) == HasRoom /\ toHub' = Append(toHub, e)

\* The emit timer fires.  A connection that was silenced takes no such step.
TickEmit(e) ==
  /\ nextSeq <= MaxSeq
  /\ SendEnvelope(e)
  /\ nextSeq' = nextSeq + 1

\* A connection has a replay of its own: numbers from 1, nothing subscribed.
AcceptWs == nextSeq' = 1 /\ fed' = {} /\ owed' = {} /\ hole' = {} /\ losses' = 0

\* A request is answered with an envelope numbered 0; a topic that was not
\* fed is owed its snapshot, and nothing is owed to one that is given up.
UpstreamHandlesRequest ==
  /\ toUpstream # <<>>
  /\ toUpstream' = Tail(toUpstream)
  /\ IF Head(toUpstream) = "subscribe"
     THEN fed' = Topics /\ owed' = owed \cup (Topics \ fed)
     ELSE fed' = {} /\ owed' = {}
  /\ SendEnvelope([seq |-> 0, kind |-> "subscriptions", topic |-> NoTopic, hole |-> FALSE])
  /\ UNCHANGED <<nextSeq, hole, losses, connected, reconnects, lastSeq, resubscribePending, gapSeq,
                 books>>

SendSnapshot(t) ==
  /\ t \in owed
  /\ owed' = owed \ {t}
  /\ hole' = hole \ {t}
  /\ TickEmit(Numbered("snapshot", t, FALSE))
  /\ UNCHANGED <<fed, losses, connected, reconnects, toUpstream, lastSeq, resubscribePending,
                 gapSeq, books>>

\* Updates of a topic follow its snapshot.
SendUpdate(t) ==
  /\ t \in fed \ owed
  /\ hole' = hole \ {t}
  /\ TickEmit(Numbered("update", t, t \in hole))
  /\ UNCHANGED <<fed, owed, losses, connected, reconnects, toUpstream, lastSeq,
                 resubscribePending, gapSeq, books>>

SendHeartbeat ==
  /\ fed # {}
  /\ TickEmit(Numbered("heartbeat", NoTopic, FALSE))
  /\ UNCHANGED <<fed, owed, hole, losses, connected, reconnects, toUpstream, lastSeq,
                 resubscribePending, gapSeq, books>>

\* An update of t never reaches the connection, as when the mock skips a number
\* (injectGap).  Snapshots are not lost.
LoseUpdate(t) ==
  /\ nextSeq <= MaxSeq
  /\ losses < MaxLosses
  /\ t \in fed \ owed
  /\ hole' = hole \cup {t}
  /\ losses' = losses + 1
  /\ nextSeq' = nextSeq + 1
  /\ UNCHANGED <<fed, owed, connection, lastSeq, resubscribePending, gapSeq, books>>

-----------------------------------------------------------------------------
(* BookMaintainer and the store *)

\* The content replaced and the topic fresh; the announcement is due when the
\* topic was stale.
ApplySnapshot(e) ==
  /\ book' = [book EXCEPT ![e.topic] = [seq |-> e.seq, stale |-> FALSE, intact |-> TRUE]]
  /\ missed' = missed \ {e.topic}
  /\ freshDue' = IF book[e.topic].stale THEN freshDue \cup {e.topic} ELSE freshDue
  /\ UNCHANGED announced

\* An update that is applied also ends the staleness.
ApplyUpdate_MarksFresh(e) ==
  LET b == book[e.topic] IN
  /\ book' = [book EXCEPT ![e.topic] = [seq |-> e.seq, stale |-> FALSE,
                                        intact |-> b.intact /\ ~e.hole /\ e.topic \notin missed]]
  /\ UNCHANGED <<missed, freshDue, announced>>

\* An update without a book, or not newer than the book, is dropped.
ApplyUpdate(e) ==
  LET b == book[e.topic] IN
  /\ IF b = NoBook \/ e.seq <= b.seq
     THEN missed' = missed \cup {e.topic} /\ UNCHANGED book
     ELSE /\ book' = [book EXCEPT
                        ![e.topic].seq = e.seq,
                        ![e.topic].intact = b.intact /\ ~e.hole /\ e.topic \notin missed]
          /\ UNCHANGED missed
  /\ UNCHANGED <<freshDue, announced>>

\* The consumers are told but the store is not.
MarkAllStale_PublishOnly ==
  /\ announced' = announced \cup {t \in Topics : book[t] # NoBook /\ ~book[t].stale}
  /\ UNCHANGED book

\* markAllStale: every topic that has a book and is not stale yet.
MarkAllStale ==
  LET turning == {t \in Topics : book[t] # NoBook /\ ~book[t].stale} IN
  /\ book' = [t \in Topics |-> IF t \in turning THEN [book[t] EXCEPT !.stale = TRUE] ELSE book[t]]
  /\ announced' = announced \cup turning

-----------------------------------------------------------------------------
(* CoinbaseProtocolHandler.handle *)

\* Number 0 is taken for a number like any other.
IsGap_CountsZero(e) == lastSeq # NoSeq /\ e.seq # lastSeq + 1

IsGap(e) == e.seq > 0 /\ lastSeq # NoSeq /\ e.seq # lastSeq + 1

Receive == connected /\ toHub # <<>> /\ toHub' = Tail(toHub)

\* The baseline follows every envelope, those numbered 0 too.
HandleInOrder_BaselineFromZero ==
  LET e == Head(toHub) IN
  /\ Receive
  /\ ~IsGap(e)
  /\ lastSeq' = e.seq
  /\ CASE e.kind = "snapshot" -> ApplySnapshot(e)
       [] e.kind = "update" -> ApplyUpdate(e)
       [] OTHER -> UNCHANGED books
  /\ UNCHANGED <<upstream, connected, reconnects, toUpstream, resubscribePending, gapSeq>>

\* The next number, or the first: the frame is processed.
HandleInOrder ==
  LET e == Head(toHub) IN
  /\ Receive
  /\ ~IsGap(e)
  /\ lastSeq' = IF e.seq > 0 THEN e.seq ELSE lastSeq
  /\ CASE e.kind = "snapshot" -> ApplySnapshot(e)
       [] e.kind = "update" -> ApplyUpdate(e)
       [] OTHER -> UNCHANGED books
  /\ UNCHANGED <<upstream, connected, reconnects, toUpstream, resubscribePending, gapSeq>>

\* The frame of an envelope after a gap is not processed, whatever it holds.
Discard(e) == missed' = IF e.kind \in {"snapshot", "update"} THEN missed \cup {e.topic} ELSE missed

ResetSequence == lastSeq' = NoSeq

\* The first gap: staleness first, then handleSequenceGap up to its await.
\* lastSeq is assigned only when that has returned.
HandleGap ==
  LET e == Head(toHub) IN
  /\ Receive
  /\ IsGap(e)
  /\ ~resubscribePending
  /\ MarkAllStale
  /\ Discard(e)
  /\ resubscribePending' = TRUE
  /\ gapSeq' = e.seq
  /\ toUpstream' = Append(toUpstream, "unsubscribe")
  /\ UNCHANGED <<upstream, connected, reconnects, lastSeq, freshDue>>

\* A gap during the resync of an earlier one: handleSequenceGap returns early.
HandleGapWhilePending ==
  LET e == Head(toHub) IN
  /\ Receive
  /\ IsGap(e)
  /\ resubscribePending
  /\ MarkAllStale
  /\ Discard(e)
  /\ lastSeq' = e.seq
  /\ UNCHANGED <<upstream, connected, reconnects, toUpstream, resubscribePending, gapSeq, freshDue>>

\* The topics are not asked for again after the wait.
ResyncWaitEnds_NoSubscribe ==
  /\ resubscribePending
  /\ freshDue = {}
  /\ resubscribePending' = FALSE
  /\ lastSeq' = gapSeq
  /\ gapSeq' = 0
  /\ UNCHANGED <<upstream, connection, books>>

\* After the 100 ms: resetSequence, sendSubscribe, and then the assignment
\* handle() was suspended before, which undoes the reset.
ResyncWaitEnds ==
  /\ resubscribePending
  /\ freshDue = {}
  /\ toUpstream' = IF connected THEN Append(toUpstream, "subscribe") ELSE toUpstream
  /\ resubscribePending' = FALSE
  /\ lastSeq' = gapSeq
  /\ gapSeq' = 0
  /\ UNCHANGED <<upstream, connected, reconnects, toHub, books>>

AnnounceFresh(t) ==
  /\ t \in freshDue
  /\ freshDue' = freshDue \ {t}
  /\ announced' = announced \ {t}
  /\ UNCHANGED <<upstream, connection, lastSeq, resubscribePending, gapSeq, book, missed>>

-----------------------------------------------------------------------------
(* The connection *)

\* Upstream's end, and what was on its way, are gone.
DropConnection == connected' = FALSE /\ toUpstream' = <<>> /\ toHub' = <<>>

\* 'close': what was on its way is lost, the sequence is reset, and nothing is
\* said about the books.  Upstream's side of the next connection is set up here.
ConnectionCloses ==
  /\ connected
  /\ freshDue = {}
  /\ reconnects < MaxReconnects
  /\ DropConnection
  /\ AcceptWs
  /\ ResetSequence
  /\ UNCHANGED <<reconnects, resubscribePending, gapSeq, books>>

\* A new connection, numbered from 1.  The backoff (1 s at least, as the hub is
\* configured by default) is longer than the wait of a resync.
Reconnects ==
  /\ ~connected
  /\ ~resubscribePending
  /\ connected' = TRUE
  /\ reconnects' = reconnects + 1
  /\ toUpstream' = <<"subscribe">>
  /\ UNCHANGED <<upstream, toHub, lastSeq, resubscribePending, gapSeq, books>>

Next ==
  \/ UpstreamHandlesRequest
  \/ \E t \in Topics : SendSnapshot(t) \/ SendUpdate(t) \/ LoseUpdate(t)
  \/ SendHeartbeat
  \/ HandleInOrder
  \/ HandleGap
  \/ HandleGapWhilePending
  \/ ResyncWaitEnds
  \/ \E t \in Topics : AnnounceFresh(t)
  \/ ConnectionCloses
  \/ Reconnects

\* The hub handles what it receives and its timers run out; upstream handles
\* requests and sends the snapshots it owes.  It need not send anything else.
Fairness ==
  /\ WF_vars(HandleInOrder \/ HandleGap \/ HandleGapWhilePending)
  /\ WF_vars(ResyncWaitEnds)
  /\ WF_vars(Reconnects)
  /\ WF_vars(UpstreamHandlesRequest)
  /\ \A t \in Topics : WF_vars(AnnounceFresh(t)) /\ WF_vars(SendSnapshot(t))

Spec == Init /\ [][Next]_vars
FairSpec == Spec /\ Fairness

-----------------------------------------------------------------------------
(* A book that is not marked stale equals a state upstream was in: no gap, *)
(* discarded envelope or reconnect lets an update be applied to a book     *)
(* that lacks an earlier one without the stale flag saying so.             *)
FreshBooksAreIntact == \A t \in Topics : book[t].stale \/ book[t].intact

\* A snapshot of t is coming without anything else having to happen: sent,
\* owed, asked for, or going to be asked for.
SnapshotComing(t) ==
  \/ \E i \in DOMAIN toHub : toHub[i].kind = "snapshot" /\ toHub[i].topic = t
  \/ t \in owed
  \/ \E i \in DOMAIN toUpstream : toUpstream[i] = "subscribe"
  \/ resubscribePending
  \/ ~connected

(* A topic that is stale or has no book yet is never given up: until its   *)
(* snapshot is applied, one is on its way or will be asked for, although   *)
(* the hub throws away snapshots that arrive after a gap.                  *)
NoTopicAbandoned ==
  \A t \in Topics : book[t] = NoBook \/ book[t].stale => SnapshotComing(t)

(* A stale topic becomes fresh again, unless the numbers of the connection *)
(* run out first (the bound of the model, not of the hub).                 *)
StaleTopicsRecover ==
  \A t \in Topics : book[t].stale ~> ~book[t].stale \/ nextSeq > MaxSeq

-----------------------------------------------------------------------------
(* docs/06-failure-modes.md: "on receipt of the fresh snapshot the topic   *)
(* transitions back to fresh": a snapshot that a stale topic receives once *)
(* its resync has asked for it ends the staleness.                         *)
ReceivedSnapshotMakesFresh ==
  [][LET e == Head(toHub) IN
       (/\ connected' /\ toHub # <<>> /\ toHub' = Tail(toHub)
        /\ e.kind = "snapshot" /\ book[e.topic].stale /\ ~resubscribePending)
         => ~book'[e.topic].stale]_vars

(* BookMaintainer: subscribers "see a state that's been committed to the   *)
(* canonical store before they observe the change event": once nothing is  *)
(* due, what was last announced is what the store says.                    *)
AnnouncementsMatchStore ==
  freshDue = {} => announced = {t \in Topics : book[t].stale}
=============================================================================
