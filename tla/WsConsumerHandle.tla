-------------------------- MODULE WsConsumerHandle --------------------------
(***************************************************************************)
(* WsConsumerHandle (packages/gateway-ws/src/ws-consumer-handle.ts): the   *)
(* queue of one consumer, the backpressure of its socket and the timer     *)
(* that disconnects a consumer that does not keep up.                      *)
(*                                                                         *)
(* A message is its number: the n-th call of deliver brings n.  Bytes are  *)
(* counted in messages: a send adds one to bufferedAmount, or nothing      *)
(* while it is zero and the kernel takes the message at once.  The socket  *)
(* is open until the peer ends it; its 'close' event comes later.          *)
(***************************************************************************)
EXTENDS BoundedQueue, FiniteSets

CONSTANTS Watermark,     \* bufferedWatermarkBytes
          MaxBuffered,   \* bound: bufferedAmount is not told apart beyond it
          MaxMessages    \* bound: calls of deliver

ASSUME BufferAssumption ==
  /\ Watermark \in Nat
  /\ MaxBuffered \in Nat /\ MaxBuffered > Watermark
  /\ MaxMessages \in Nat

VARIABLES queue,
          buffered,        \* socket.bufferedAmount
          overflowTimer,   \* armed or not
          closed,
          socketOpen,      \* readyState is OPEN
          offered,         \* calls of deliver
          lastSent,        \* number of the last message sent, 0 before
          sent, reported   \* messages sent, and drops told in lagged events

vars == <<queue, buffered, overflowTimer, closed, socketOpen, offered, lastSent, sent, reported>>

TypeOK ==
  /\ queue \in Queues(1..MaxMessages)
  /\ buffered \in 0..MaxBuffered
  /\ overflowTimer \in BOOLEAN /\ closed \in BOOLEAN /\ socketOpen \in BOOLEAN
  /\ {offered, lastSent, sent, reported} \subseteq 0..MaxMessages

Init ==
  /\ queue = NewQueue
  /\ buffered = 0
  /\ overflowTimer = FALSE
  /\ closed = FALSE
  /\ socketOpen = TRUE
  /\ offered = 0 /\ lastSent = 0 /\ sent = 0 /\ reported = 0

-----------------------------------------------------------------------------
(* Sending *)

Capped(amount) == IF amount > MaxBuffered THEN MaxBuffered ELSE amount

Lesser(m, n) == IF m < n THEN m ELSE n

\* How many of `size` entries a drain sends that starts at bufferedAmount b
\* when the kernel takes the first k: it goes on until the watermark is passed.
SentBy(size, b, k) ==
  IF b > Watermark THEN 0 ELSE Lesser(size, k + (Watermark - b) + 1)

\* What the kernel may take of the next sends.
Taken(size, b) == IF b = 0 THEN 0..size ELSE {0}

\* bufferedAmount after n calls of sendWire from b of which the kernel took k
After(b, n, k) == Capped(b + (IF n > k THEN n - k ELSE 0))

\* The timer is not cleared when the queue has been drained.
Flush_NeverClears(q) ==
  \E k \in Taken(q.size, buffered) :
    LET n == SentBy(q.size, buffered, k)
        b == After(buffered, n, k)
        drops == q.droppedSinceTake
    IN /\ queue' = TakeDrops(DrainTo(q, n))
       /\ lastSent' = IF n > 0 THEN Contents(q)[n] ELSE lastSent
       /\ sent' = sent + n
       /\ overflowTimer' = (overflowTimer \/ n < q.size)
       /\ reported' = reported + drops
       /\ \E j \in Taken(1, b) : buffered' = IF drops > 0 THEN After(b, 1, j) ELSE b

\* Any progress clears the timer, also when entries are left.
Flush_ClearsOnProgress(q) ==
  \E k \in Taken(q.size, buffered) :
    LET n == SentBy(q.size, buffered, k)
        b == After(buffered, n, k)
        drops == q.droppedSinceTake
    IN /\ queue' = TakeDrops(DrainTo(q, n))
       /\ lastSent' = IF n > 0 THEN Contents(q)[n] ELSE lastSent
       /\ sent' = sent + n
       /\ overflowTimer' = (n = 0 /\ b > Watermark /\ (overflowTimer \/ q.size > 0))
       /\ reported' = reported + drops
       /\ \E j \in Taken(1, b) : buffered' = IF drops > 0 THEN After(b, 1, j) ELSE b

\* flush on an open socket, from the queue q: the drain, which arms the timer
\* when it leaves something; the timer cleared at or under the watermark; the
\* lagged event, sent whatever bufferedAmount is.
Flush(q) ==
  \E k \in Taken(q.size, buffered) :
    LET n == SentBy(q.size, buffered, k)
        b == After(buffered, n, k)
        drops == q.droppedSinceTake
    IN /\ queue' = TakeDrops(DrainTo(q, n))
       /\ lastSent' = IF n > 0 THEN Contents(q)[n] ELSE lastSent
       /\ sent' = sent + n
       /\ overflowTimer' = (b > Watermark /\ (overflowTimer \/ n < q.size))
       /\ reported' = reported + drops
       /\ \E j \in Taken(1, b) : buffered' = IF drops > 0 THEN After(b, 1, j) ELSE b

\* A flush returns early unless the socket is open, and deliver once closed.
Deliver ==
  /\ ~closed
  /\ offered < MaxMessages
  /\ offered' = offered + 1
  /\ LET q == Enqueue(queue, offered + 1) IN
     IF socketOpen
     THEN Flush(q)
     ELSE queue' = q /\ UNCHANGED <<buffered, overflowTimer, lastSent, sent, reported>>
  /\ UNCHANGED <<closed, socketOpen>>

\* One event to the socket at once, past the queue.
SendEvent == ~closed /\ socketOpen /\ \E j \in Taken(1, buffered) : buffered' = After(buffered, 1, j)

\* Acks, snapshots on subscribe and pongs; the rebalance event takes the same way.
SendDirect ==
  /\ SendEvent
  /\ UNCHANGED <<queue, overflowTimer, closed, socketOpen, offered, lastSent, sent, reported>>

-----------------------------------------------------------------------------
(* The socket and the timer *)

ClearOverflow == overflowTimer' = FALSE

\* The peer reads.  Nobody listens to the socket's drain: no flush follows.
SocketDrains ==
  /\ socketOpen
  /\ buffered > 0
  /\ buffered' \in 0..(buffered - 1)
  /\ UNCHANGED <<queue, overflowTimer, closed, socketOpen, offered, lastSent, sent, reported>>

\* The timer goes off but the consumer is only counted.
OverflowFires_CountsOnly ==
  /\ overflowTimer
  /\ overflowTimer' = FALSE
  /\ UNCHANGED <<queue, buffered, closed, socketOpen, offered, lastSent, sent, reported>>

\* disconnect('consumer_lagged')
OverflowFires ==
  /\ overflowTimer
  /\ ClearOverflow
  /\ closed' = TRUE
  /\ socketOpen' = FALSE
  /\ UNCHANGED <<queue, buffered, offered, lastSent, sent, reported>>

PeerEnds ==
  /\ socketOpen
  /\ socketOpen' = FALSE
  /\ UNCHANGED <<queue, buffered, overflowTimer, closed, offered, lastSent, sent, reported>>

\* 'close'
SocketClosed ==
  /\ ~socketOpen
  /\ ~closed
  /\ closed' = TRUE
  /\ ClearOverflow
  /\ UNCHANGED <<queue, buffered, socketOpen, offered, lastSent, sent, reported>>

Next ==
  \/ Deliver
  \/ SendDirect
  \/ SocketDrains
  \/ OverflowFires
  \/ PeerEnds
  \/ SocketClosed

\* The timer goes off and the 'close' event comes.  Nothing is assumed of the
\* peer, nor that messages keep coming.
Fairness == WF_vars(OverflowFires) /\ WF_vars(SocketClosed)

Spec == Init /\ [][Next]_vars
FairSpec == Spec /\ Fairness

-----------------------------------------------------------------------------
(* The queue holds the newest messages, without a hole and in order, and   *)
(* what was sent is older: a slow consumer loses the oldest messages, sees *)
(* no message twice and none after a newer one of the bus, however often   *)
(* the ring has wrapped.                                                   *)
QueueHoldsNewest ==
  /\ Contents(queue) = [i \in 1..queue.size |-> offered - queue.size + i]
  /\ lastSent <= offered - queue.size

(* Every message is sent, queued, reported as dropped, or dropped and not  *)
(* reported yet; the last only when the socket can take no report.         *)
NoSilentLoss ==
  /\ offered = sent + queue.size + reported + queue.droppedSinceTake
  /\ socketOpen => queue.droppedSinceTake = 0

(* Messages left waiting are waiting against the clock: nothing but the    *)
(* next deliver flushes them, so without the timer they could stay for     *)
(* ever.                                                                   *)
BacklogIsTimed == socketOpen /\ queue.size > 0 => overflowTimer

(* The clock does not run against a consumer that took everything and is   *)
(* at or under the watermark when a flush ends, so that the next flush     *)
(* finds no timer of an earlier episode.                                   *)
ClearedOnceDrained ==
  [][offered' # offered /\ socketOpen /\ queue'.size = 0 /\ buffered' <= Watermark
       => ~overflowTimer']_vars

(* No message waits for ever: it is sent, or its consumer is disconnected. *)
BacklogEnds == queue.size > 0 ~> queue.size = 0 \/ closed

-----------------------------------------------------------------------------
(* docs/06-failure-modes.md: a consumer is disconnected as lagged "if your *)
(* bufferedAmount stays over watermark": it is over when that happens.     *)
LaggedIsBackedUp == [][~closed /\ closed' /\ socketOpen => buffered > Watermark]_vars
=============================================================================
