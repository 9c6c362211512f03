---------------------------- MODULE BoundedQueue ----------------------------
(***************************************************************************)
(* BoundedQueue (packages/gateway-ws/src/bounded-queue.ts): a ring buffer  *)
(* of fixed capacity that drops its oldest entry to make room.  A queue is *)
(* a record of the fields of the class, slots numbered from 0 as there,    *)
(* and every method an operator from a queue to the queue it leaves.  The  *)
(* field `dropped`, which is only reported, is left out.                   *)
(***************************************************************************)
EXTENDS Integers, Sequences

CONSTANTS Capacity,   \* the constructor throws on a capacity that is not positive
          Empty       \* undefined

ASSUME CapacityAssumption == Capacity \in Nat \ {0}

Slots == 0..(Capacity - 1)

\* The slot a number counted on past the last one, or back past the first, is.
Wrap(i) == i % Capacity

Queues(Items) ==
  [buf : [Slots -> Items \cup {Empty}], head : Slots, tail : Slots, size : 0..Capacity,
   droppedSinceTake : Nat]

NewQueue ==
  [buf |-> [i \in Slots |-> Empty], head |-> 0, tail |-> 0, size |-> 0, droppedSinceTake |-> 0]

IsFull(q) == q.size = Capacity

\* The n oldest entries taken out, their slots emptied.
WithoutOldest(q, n) ==
  [q EXCEPT !.buf = [i \in Slots |-> IF Wrap(i - q.head) < n THEN Empty ELSE q.buf[i]],
            !.head = Wrap(q.head + n),
            !.size = q.size - n]

\* The oldest entry evicted and counted when there is no room.
MakeRoom(q) ==
  IF IsFull(q)
  THEN [WithoutOldest(q, 1) EXCEPT !.droppedSinceTake = @ + 1]
  ELSE q

\* No eviction: the tail overwrites the oldest entry.
Enqueue_NoEviction(q, item) ==
  [q EXCEPT !.buf[q.tail] = item,
            !.tail = Wrap(q.tail + 1),
            !.size = @ + 1]

\* The eviction leaves head where it is.
Enqueue_HeadStays(q, item) ==
  LET r == IF IsFull(q) THEN [q EXCEPT !.droppedSinceTake = @ + 1, !.size = @ - 1] ELSE q IN
  [r EXCEPT !.buf[r.tail] = item,
            !.tail = Wrap(r.tail + 1),
            !.size = r.size + 1]

Enqueue(q, item) ==
  LET r == MakeRoom(q) IN
  [r EXCEPT !.buf[r.tail] = item,
            !.tail = Wrap(r.tail + 1),
            !.size = r.size + 1]

\* What drainTo leaves when its handler accepts n entries.
DrainTo(q, n) == WithoutOldest(q, n)

\* The count is returned but not reset.
TakeDrops_NoReset(q) == q

TakeDrops(q) == [q EXCEPT !.droppedSinceTake = 0]

\* The entries, oldest first: what the ring stands for.
Contents(q) == [i \in 1..q.size |-> q.buf[Wrap(q.head + i - 1)]]
=============================================================================
