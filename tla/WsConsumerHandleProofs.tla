----------------------- MODULE WsConsumerHandleProofs -----------------------
(***************************************************************************)
(* What the ring buffer and the consumer handle guarantee for any          *)
(* capacity, watermark and number of messages.                             *)
(***************************************************************************)
EXTENDS WsConsumerHandle, TLAPS

USE CapacityAssumption, BufferAssumption

-----------------------------------------------------------------------------
(* The ring *)

(* Slots are counted modulo the capacity, which no call of the code lets   *)
(* pass twice: what is less than two rounds on, or one back, is the slot   *)
(* reached by taking a round off, or adding one.                           *)
LEMMA WrapOnce ==
  ASSUME NEW i \in Int
  PROVE  /\ i \in Slots => Wrap(i) = i
         /\ i - Capacity \in Slots => Wrap(i) = i - Capacity
         /\ i + Capacity \in Slots => Wrap(i) = i + Capacity
  BY DEF Slots, Wrap

(* The slot k places behind another: it is found again at the distance k,  *)
(* further places are counted on from it, and other places are other slots.*)
LEMMA RingArithmetic ==
  ASSUME NEW h \in Slots, NEW k \in 0..Capacity
  PROVE  /\ Wrap(h + k) \in Slots
         /\ k < Capacity => Wrap(Wrap(h + k) - h) = k
         /\ \A n \in 0..(Capacity - k) : Wrap(Wrap(h + k) + n) = Wrap(h + (k + n))
         /\ \A n \in 0..(Capacity - 1) : k < Capacity /\ n # k => Wrap(h + n) # Wrap(h + k)
  <1>1. h \in Int /\ k \in Int /\ 0 <= h /\ h < Capacity /\ 0 <= k /\ k <= Capacity /\ Capacity \in Int
    BY DEF Slots
  <1>2. \A n \in 0..Capacity :
          Wrap(h + n) = IF h + n < Capacity THEN h + n ELSE h + n - Capacity
    BY <1>1, WrapOnce DEF Slots
  <1> DEFINE w == IF h + k < Capacity THEN h + k ELSE h + k - Capacity
  <1>3. Wrap(h + k) = w /\ w \in Slots
    BY <1>1, <1>2 DEF Slots
  <1>4. ASSUME k < Capacity PROVE Wrap(w - h) = k
    <2>1. w - h = k \/ w - h = k - Capacity
      BY <1>1
    <2> QED
      BY <1>1, <1>4, <2>1, WrapOnce DEF Slots
  <1>5. ASSUME NEW n \in 0..(Capacity - k)
        PROVE  Wrap(w + n) = Wrap(h + (k + n))
    <2>1. n \in Int /\ 0 <= n /\ k + n \in 0..Capacity
      BY <1>1
    <2>2. Wrap(h + (k + n)) = IF h + (k + n) < Capacity THEN h + (k + n) ELSE h + (k + n) - Capacity
      BY <1>2, <2>1
    <2> HIDE DEF w
    <2>3. Wrap(w + n) = IF w + n < Capacity THEN w + n ELSE w + n - Capacity
      BY <1>1, <1>3, <2>1, WrapOnce DEF Slots
    <2> QED
      BY <1>1, <1>3, <2>1, <2>2, <2>3 DEF Slots, w
  <1>6. ASSUME NEW n \in 0..(Capacity - 1), k < Capacity, n # k
        PROVE  Wrap(h + n) # Wrap(h + k)
    BY <1>1, <1>2, <1>6
  <1> QED
    BY <1>3, <1>4, <1>5, <1>6

(* Between two calls the tail is as many slots behind the head as there    *)
(* are entries.                                                            *)
Linked(q) == q.tail = Wrap(q.head + q.size)

(* The i-th entry is i - 1 slots behind the head.                          *)
LEMMA ContentsAt ==
  ASSUME NEW Items, NEW q \in Queues(Items), NEW k \in Nat, k < q.size
  PROVE  Contents(q)[k + 1] = q.buf[Wrap(q.head + k)]
  <1>1. q.head \in Int /\ q.size \in Int /\ k + 1 \in 1..q.size
    BY DEF Queues, Slots
  <1>2. q.head + (k + 1) - 1 = q.head + k
    BY <1>1
  <1> QED
    BY <1>1, <1>2 DEF Contents

(* Taking the n oldest entries out leaves the others in their order, and   *)
(* the ring linked.                                                        *)
LEMMA WithoutOldestContents ==
  ASSUME NEW Items, NEW q \in Queues(Items), Linked(q), NEW n \in 0..q.size
  PROVE  LET r == WithoutOldest(q, n) IN
         /\ r \in Queues(Items)
         /\ Linked(r)
         /\ r.size = q.size - n /\ r.droppedSinceTake = q.droppedSinceTake
         /\ \A i \in 1..r.size : Contents(r)[i] = Contents(q)[i + n]
  <1> DEFINE r == WithoutOldest(q, n)
  <1>1. /\ q.head \in Slots /\ q.tail \in Slots /\ q.size \in 0..Capacity /\ n \in 0..Capacity
        /\ q.buf \in [Slots -> Items \cup {Empty}] /\ q.droppedSinceTake \in Nat
    BY DEF Queues
  <1>2. /\ r.head = Wrap(q.head + n)
        /\ r.tail = q.tail
        /\ r.size = q.size - n
        /\ r.droppedSinceTake = q.droppedSinceTake
        /\ r.buf = [i \in Slots |-> IF Wrap(i - q.head) < n THEN Empty ELSE q.buf[i]]
    BY DEF WithoutOldest, Queues
  <1>3. r.head \in Slots /\ r.size \in 0..Capacity
    BY <1>1, <1>2, RingArithmetic
  <1>4. r \in Queues(Items)
    BY <1>1, <1>2, <1>3 DEF Queues, WithoutOldest
  <1>5. \A k \in 0..(q.size - n) : Wrap(r.head + k) = Wrap(q.head + (n + k))
    BY <1>1, <1>2, RingArithmetic
  <1>6. Linked(r)
    <2>1. n + (q.size - n) = q.size /\ q.size - n \in 0..(q.size - n)
      BY <1>1
    <2> QED
      BY <1>2, <1>5, <2>1 DEF Linked
  <1>7. ASSUME NEW i \in 1..r.size
        PROVE  Contents(r)[i] = Contents(q)[i + n]
    <2> DEFINE k == i - 1
               s == Wrap(q.head + (n + k))
    <2>1. /\ k \in Nat /\ k < r.size /\ k \in 0..(q.size - n)
          /\ n + k \in 0..Capacity /\ n + k < q.size /\ n + k < Capacity /\ n + k >= n
          /\ i = k + 1 /\ i + n = (n + k) + 1
      BY <1>1, <1>2
    <2> HIDE DEF k
    <2>2. s \in Slots /\ Wrap(s - q.head) = n + k
      BY <1>1, <2>1, RingArithmetic
    <2>3. r.buf[s] = q.buf[s]
      BY <1>1, <1>2, <2>1, <2>2
    <2>4. Contents(r)[k + 1] = r.buf[Wrap(r.head + k)]
      BY <1>4, <2>1, ContentsAt
    <2>5. Contents(q)[(n + k) + 1] = q.buf[s]
      BY <2>1, ContentsAt
    <2> QED
      BY <1>5, <2>1, <2>3, <2>4, <2>5
  <1> QED
    BY <1>2, <1>4, <1>6, <1>7

(* enqueue appends, and drops the oldest entry when there is no room: the  *)
(* drop is counted, and no other entry moves or is lost.                   *)
LEMMA EnqueueContents ==
  ASSUME NEW Items, NEW q \in Queues(Items), Linked(q), NEW item \in Items
  PROVE  LET r == Enqueue(q, item)
             d == IF IsFull(q) THEN 1 ELSE 0
         IN
         /\ r \in Queues(Items)
         /\ Linked(r)
         /\ r.size = q.size + 1 - d /\ r.droppedSinceTake = q.droppedSinceTake + d
         /\ \A i \in 1..(r.size - 1) : Contents(r)[i] = Contents(q)[i + d]
         /\ Contents(r)[r.size] = item
  <1> DEFINE d == IF IsFull(q) THEN 1 ELSE 0
             m == MakeRoom(q)
             r == Enqueue(q, item)
  <1>1. /\ m \in Queues(Items) /\ Linked(m)
        /\ m.size = q.size - d /\ m.droppedSinceTake = q.droppedSinceTake + d
        /\ \A i \in 1..m.size : Contents(m)[i] = Contents(q)[i + d]
        /\ m.size < Capacity
    <2>1. CASE IsFull(q)
      <3> DEFINE w == WithoutOldest(q, 1)
      <3>1. 1 \in 0..q.size /\ d = 1
        BY <2>1 DEF IsFull
      <3>2. /\ w \in Queues(Items) /\ Linked(w)
            /\ w.size = q.size - 1 /\ w.droppedSinceTake = q.droppedSinceTake
            /\ \A i \in 1..w.size : Contents(w)[i] = Contents(q)[i + 1]
        BY <3>1, WithoutOldestContents
      <3>3. m = [w EXCEPT !.droppedSinceTake = @ + 1]
        BY <2>1 DEF MakeRoom
      <3>4. /\ m.buf = w.buf /\ m.head = w.head /\ m.tail = w.tail /\ m.size = w.size
            /\ m.droppedSinceTake = w.droppedSinceTake + 1 /\ m \in Queues(Items)
        <4> HIDE DEF w
        <4> QED
          BY <3>2, <3>3 DEF Queues
      <3>5. Contents(m) = Contents(w)
        BY <3>4 DEF Contents
      <3> QED
        BY <2>1, <3>1, <3>2, <3>4, <3>5 DEF Linked, IsFull
    <2>2. CASE ~IsFull(q)
      <3>1. d = 0 /\ m = q
        BY <2>2 DEF MakeRoom
      <3> QED
        BY <2>2, <3>1 DEF IsFull, Queues
    <2> QED
      BY <2>1, <2>2
  <1> HIDE DEF m, d
  <1>2. /\ m.head \in Slots /\ m.tail \in Slots /\ m.size \in 0..(Capacity - 1)
        /\ m.buf \in [Slots -> Items \cup {Empty}] /\ m.droppedSinceTake \in Nat
    BY <1>1 DEF Queues
  <1>3. /\ r.buf = [m.buf EXCEPT ![m.tail] = item]
        /\ r.head = m.head
        /\ r.tail = Wrap(m.tail + 1)
        /\ r.size = m.size + 1
        /\ r.droppedSinceTake = m.droppedSinceTake
    BY <1>1 DEF Enqueue, Queues, m
  <1>4. r.tail \in Slots /\ r.size \in 0..Capacity
    BY <1>2, <1>3, RingArithmetic, SMTT(30)
  <1>5. r \in Queues(Items)
    BY <1>1, <1>2, <1>3, <1>4 DEF Queues, Enqueue, m
  <1>6. Linked(r)
    BY <1>1, <1>2, <1>3, RingArithmetic DEF Linked
  <1>7. ASSUME NEW k \in 0..m.size
        PROVE  r.buf[Wrap(m.head + k)] = IF k = m.size THEN item ELSE m.buf[Wrap(m.head + k)]
    <2>1. m.tail = Wrap(m.head + m.size)
      BY <1>1 DEF Linked
    <2>2. Wrap(m.head + k) \in Slots
      BY <1>2, RingArithmetic
    <2>3. k # m.size => Wrap(m.head + k) # m.tail
      BY <1>2, <2>1, RingArithmetic
    <2> QED
      BY <1>2, <1>3, <2>1, <2>2, <2>3
  <1>8. ASSUME NEW i \in 1..m.size
        PROVE  Contents(r)[i] = Contents(m)[i]
    <2> DEFINE k == i - 1
    <2>1. k \in Nat /\ k < m.size /\ k < r.size /\ k \in 0..m.size /\ k # m.size /\ i = k + 1
      BY <1>2, <1>3
    <2> HIDE DEF k
    <2>2. Contents(r)[k + 1] = r.buf[Wrap(r.head + k)] /\ Contents(m)[k + 1] = m.buf[Wrap(m.head + k)]
      BY <1>1, <1>5, <2>1, ContentsAt
    <2> QED
      BY <1>3, <1>7, <2>1, <2>2
  <1>9. Contents(r)[r.size] = item
    <2>1. m.size \in Nat /\ m.size < r.size /\ m.size \in 0..m.size
      BY <1>2, <1>3
    <2>2. Contents(r)[m.size + 1] = r.buf[Wrap(r.head + m.size)]
      BY <1>5, <2>1, ContentsAt
    <2> QED
      BY <1>3, <1>7, <2>1, <2>2
  <1>10. r.size = q.size + 1 - d /\ r.droppedSinceTake = q.droppedSinceTake + d /\ r.size - 1 = m.size
    BY <1>1, <1>2, <1>3 DEF d, Queues
  <1> QED
    BY <1>1, <1>5, <1>6, <1>8, <1>9, <1>10 DEF d

-----------------------------------------------------------------------------
(* The flush *)

(* What the drain of a flush sends, and where it leaves bufferedAmount: it *)
(* stops before the queue is empty only when the watermark is passed.      *)
LEMMA DrainStopsOverTheWatermark ==
  ASSUME NEW size \in Nat, NEW b \in 0..MaxBuffered, NEW k \in Taken(size, b)
  PROVE  LET n == SentBy(size, b, k) IN
         /\ n \in 0..size
         /\ After(b, n, k) \in 0..MaxBuffered
         /\ n < size => After(b, n, k) > Watermark
  <1>1. k \in 0..size
    BY DEF Taken
  <1>2. CASE b > Watermark
    BY <1>1, <1>2 DEF SentBy, After, Capped
  <1>3. CASE b <= Watermark
    <2> DEFINE n == SentBy(size, b, k)
    <2>1. n = IF size < k + (Watermark - b) + 1 THEN size ELSE k + (Watermark - b) + 1
      BY <1>3 DEF SentBy, Lesser
    <2>2. n \in 0..size
      BY <1>1, <1>3, <2>1
    <2>3. n < size => n > k /\ b + (n - k) = Watermark + 1
      BY <1>1, <1>3, <2>1
    <2> HIDE DEF n
    <2>4. After(b, n, k) \in 0..MaxBuffered
      BY <1>1, <2>2 DEF After, Capped
    <2>5. n < size => After(b, n, k) > Watermark
      BY <2>3 DEF After, Capped
    <2> QED
      BY <2>2, <2>4, <2>5 DEF n
  <1> QED
    BY <1>2, <1>3

(* The lagged event leaves bufferedAmount over the watermark when it was.  *)
LEMMA EventKeepsOver ==
  ASSUME NEW b \in 0..MaxBuffered, NEW j \in Taken(1, b)
  PROVE  /\ After(b, 1, j) \in 0..MaxBuffered
         /\ b > Watermark => After(b, 1, j) > Watermark
  BY DEF Taken, After, Capped

(* The queue that a call of deliver leaves when it flushes: the newest of  *)
(* what it held, all drops reported, and nothing newer sent than what is   *)
(* left.                                                                   *)
LEMMA FlushLeaves ==
  ASSUME NEW q \in Queues(1..MaxMessages), Linked(q), buffered \in 0..MaxBuffered, Flush(q)
  PROVE  \E n \in 0..q.size :
           /\ queue' \in Queues(1..MaxMessages) /\ Linked(queue')
           /\ queue'.size = q.size - n /\ queue'.droppedSinceTake = 0
           /\ \A i \in 1..queue'.size : Contents(queue')[i] = Contents(q)[i + n]
           /\ lastSent' = IF n > 0 THEN Contents(q)[n] ELSE lastSent
           /\ sent' = sent + n
           /\ reported' = reported + q.droppedSinceTake
           /\ buffered' \in 0..MaxBuffered /\ overflowTimer' \in BOOLEAN
           /\ n < q.size => overflowTimer'
           /\ overflowTimer' => buffered' > Watermark
  <1>0. q.size \in Nat /\ q.droppedSinceTake \in Nat
    BY DEF Queues
  <1>1. PICK k \in Taken(q.size, buffered) :
          LET n == SentBy(q.size, buffered, k)
              b == After(buffered, n, k)
              drops == q.droppedSinceTake
          IN /\ queue' = TakeDrops(DrainTo(q, n))
             /\ lastSent' = IF n > 0 THEN Contents(q)[n] ELSE lastSent
             /\ sent' = sent + n
             /\ overflowTimer' = (b > Watermark /\ (overflowTimer \/ n < q.size))
             /\ reported' = reported + drops
             /\ \E j \in Taken(1, b) : buffered' = IF drops > 0 THEN After(b, 1, j) ELSE b
    BY Zenon DEF Flush
  <1> DEFINE n == SentBy(q.size, buffered, k)
             b == After(buffered, n, k)
             w == WithoutOldest(q, n)
  <1>2. n \in 0..q.size /\ b \in 0..MaxBuffered /\ (n < q.size => b > Watermark)
    BY <1>0, DrainStopsOverTheWatermark
  <1>3. /\ queue' = [w EXCEPT !.droppedSinceTake = 0]
        /\ lastSent' = IF n > 0 THEN Contents(q)[n] ELSE lastSent
        /\ sent' = sent + n
        /\ overflowTimer' = (b > Watermark /\ (overflowTimer \/ n < q.size))
        /\ reported' = reported + q.droppedSinceTake
        /\ \E j \in Taken(1, b) : buffered' = IF q.droppedSinceTake > 0 THEN After(b, 1, j) ELSE b
    BY <1>1, Zenon DEF TakeDrops, DrainTo
  <1> HIDE DEF n, b
  <1>4. /\ w \in Queues(1..MaxMessages) /\ Linked(w)
        /\ w.size = q.size - n /\ w.droppedSinceTake = q.droppedSinceTake
        /\ \A i \in 1..w.size : Contents(w)[i] = Contents(q)[i + n]
    BY <1>2, WithoutOldestContents
  <1> HIDE DEF w
  <1>5. /\ queue'.buf = w.buf /\ queue'.head = w.head /\ queue'.tail = w.tail /\ queue'.size = w.size
        /\ queue'.droppedSinceTake = 0 /\ queue' \in Queues(1..MaxMessages)
    BY <1>3, <1>4 DEF Queues
  <1>6. Contents(queue') = Contents(w) /\ Linked(queue')
    BY <1>4, <1>5 DEF Contents, Linked
  <1>7. buffered' \in 0..MaxBuffered /\ (b > Watermark => buffered' > Watermark)
    BY <1>2, <1>3, EventKeepsOver
  <1>8. /\ overflowTimer' \in BOOLEAN
        /\ n < q.size => overflowTimer'
        /\ overflowTimer' => buffered' > Watermark
    BY <1>2, <1>3, <1>7, Zenon
  <1> QED
    BY <1>2, <1>3, <1>4, <1>5, <1>6, <1>7, <1>8

-----------------------------------------------------------------------------
(* The invariant *)

HandleInv ==
  /\ TypeOK
  /\ Linked(queue)
  /\ QueueHoldsNewest
  /\ NoSilentLoss
  /\ BacklogIsTimed

(* A call of deliver puts the newest message last, so that the queue it    *)
(* flushes, or leaves, holds the newest again.                             *)
LEMMA DeliveredIsNewest ==
  ASSUME HandleInv, offered < MaxMessages
  PROVE  LET q == Enqueue(queue, offered + 1) IN
         /\ q \in Queues(1..MaxMessages) /\ Linked(q)
         /\ \A i \in 1..q.size : Contents(q)[i] = (offered + 1) - q.size + i
         /\ lastSent <= (offered + 1) - q.size
         /\ q.size \in 1..Capacity
         /\ q.size + q.droppedSinceTake = queue.size + queue.droppedSinceTake + 1
  <1> DEFINE q == Enqueue(queue, offered + 1)
             d == IF IsFull(queue) THEN 1 ELSE 0
  <1>1. queue \in Queues(1..MaxMessages) /\ offered \in Nat /\ lastSent \in Nat /\ offered + 1 \in 1..MaxMessages
    BY DEF HandleInv, TypeOK
  <1>2. queue.size \in 0..Capacity /\ queue.droppedSinceTake \in Nat
    BY <1>1 DEF Queues
  <1>3. /\ q \in Queues(1..MaxMessages) /\ Linked(q)
        /\ q.size = queue.size + 1 - d /\ q.droppedSinceTake = queue.droppedSinceTake + d
        /\ \A i \in 1..(q.size - 1) : Contents(q)[i] = Contents(queue)[i + d]
        /\ Contents(q)[q.size] = offered + 1
    BY <1>1, EnqueueContents DEF HandleInv
  <1>4. d \in {0, 1} /\ (d = 1 => queue.size = Capacity) /\ (d = 0 => queue.size < Capacity)
    BY <1>2 DEF IsFull
  <1> HIDE DEF q, d
  <1>5. /\ \A i \in 1..queue.size : Contents(queue)[i] = offered - queue.size + i
        /\ lastSent <= offered - queue.size
    BY DEF HandleInv, QueueHoldsNewest
  <1>4a. /\ q.size = queue.size + 1 - d /\ q.droppedSinceTake = queue.droppedSinceTake + d
         /\ lastSent <= offered - queue.size
    BY <1>3, <1>5
  <1>6. ASSUME NEW i \in 1..q.size PROVE Contents(q)[i] = (offered + 1) - q.size + i
    <2>1. CASE i = q.size
      <3>1. offered + 1 = (offered + 1) - q.size + q.size
        BY <1>1, <1>2, <1>4, <1>4a
      <3> QED
        BY <1>3, <2>1, <3>1
    <2>2. CASE i # q.size
      <3>1. i \in 1..(q.size - 1) /\ i + d \in 1..queue.size
        BY <1>2, <1>3, <1>4, <2>2
      <3>2. Contents(q)[i] = offered - queue.size + (i + d)
        BY <1>3, <1>5, <3>1
      <3> QED
        BY <1>1, <1>2, <1>3, <1>4, <3>1, <3>2, SMTT(30)
    <2> QED
      BY <2>1, <2>2
  <1>7. /\ lastSent <= (offered + 1) - q.size
        /\ q.size \in 1..Capacity
        /\ q.size + q.droppedSinceTake = queue.size + queue.droppedSinceTake + 1
    <2>1. CASE d = 0
      <3>1. /\ q.size = queue.size + 1 /\ q.droppedSinceTake = queue.droppedSinceTake
            /\ queue.size < Capacity /\ queue.size \in Nat /\ queue.droppedSinceTake \in Nat
        BY <1>2, <1>4, <1>4a, <2>1
      <3>2. q.size \in 1..Capacity
        BY <3>1
      <3>3. q.size + q.droppedSinceTake = queue.size + queue.droppedSinceTake + 1
        BY <3>1
      <3>4. lastSent <= (offered + 1) - q.size
        BY <1>1, <1>4a, <3>1
      <3> QED
        BY <3>2, <3>3, <3>4
    <2>2. CASE d = 1
      BY <1>1, <1>2, <1>4, <1>4a, <2>2, SMTT(30)
    <2> QED
      BY <1>4, <2>1, <2>2
  <1> QED
    BY <1>3, <1>6, <1>7 DEF q

(* The empty ring of a new consumer.                                       *)
LEMMA InitHandleInv ==
  Init => HandleInv
  <1> SUFFICES ASSUME Init PROVE HandleInv
    OBVIOUS
  <1>1. 0 \in Slots /\ Wrap(0) = 0 /\ 0 \in 0..Capacity
    BY WrapOnce DEF Slots
  <1>2. NewQueue \in Queues(1..MaxMessages) /\ Linked(NewQueue)
    BY <1>1 DEF NewQueue, Queues, Linked
  <1>3. Contents(NewQueue) = [i \in 1..0 |-> 0 - 0 + i]
    BY DEF NewQueue, Contents
  <1>4. NewQueue.size = 0 /\ NewQueue.droppedSinceTake = 0
    BY DEF NewQueue
  <1>5. TypeOK
    <2>1. queue \in Queues(1..MaxMessages) /\ 0 \in 0..MaxBuffered /\ 0 \in 0..MaxMessages
      BY <1>2 DEF Init
    <2> QED
      BY <2>1 DEF Init, TypeOK
  <1>6. QueueHoldsNewest
    BY <1>3, <1>4 DEF Init, QueueHoldsNewest
  <1>7. NoSilentLoss /\ BacklogIsTimed
    BY <1>4 DEF Init, NoSilentLoss, BacklogIsTimed
  <1> QED
    BY <1>2, <1>5, <1>6, <1>7 DEF Init, HandleInv

(* A delivery that flushes.                                                *)
LEMMA DeliverFlushesKeepsInv ==
  ASSUME HandleInv, Deliver, socketOpen
  PROVE  HandleInv'
  <1> DEFINE q == Enqueue(queue, offered + 1)
  <1>1. /\ offered < MaxMessages /\ offered' = offered + 1 /\ Flush(q)
        /\ closed' = closed /\ socketOpen' = socketOpen
    BY DEF Deliver
  <1>2. /\ q \in Queues(1..MaxMessages) /\ Linked(q)
        /\ \A i \in 1..q.size : Contents(q)[i] = (offered + 1) - q.size + i
        /\ lastSent <= (offered + 1) - q.size
        /\ q.size + q.droppedSinceTake = queue.size + queue.droppedSinceTake + 1
    BY <1>1, DeliveredIsNewest
  <1> HIDE DEF q
  <1>3. /\ buffered \in 0..MaxBuffered /\ offered \in 0..MaxMessages /\ lastSent \in 0..MaxMessages
        /\ sent \in 0..MaxMessages /\ reported \in 0..MaxMessages
        /\ queue.size \in Nat /\ queue.droppedSinceTake \in Nat
        /\ closed \in BOOLEAN /\ socketOpen \in BOOLEAN
        /\ offered = sent + queue.size + reported + queue.droppedSinceTake
    BY DEF HandleInv, TypeOK, NoSilentLoss, Queues
  <1>4. PICK n \in 0..q.size :
          /\ queue' \in Queues(1..MaxMessages) /\ Linked(queue')
          /\ queue'.size = q.size - n /\ queue'.droppedSinceTake = 0
          /\ \A i \in 1..queue'.size : Contents(queue')[i] = Contents(q)[i + n]
          /\ lastSent' = IF n > 0 THEN Contents(q)[n] ELSE lastSent
          /\ sent' = sent + n
          /\ reported' = reported + q.droppedSinceTake
          /\ buffered' \in 0..MaxBuffered /\ overflowTimer' \in BOOLEAN
          /\ n < q.size => overflowTimer'
          /\ overflowTimer' => buffered' > Watermark
    BY <1>1, <1>2, <1>3, FlushLeaves
  <1>5. /\ q.size \in Nat /\ q.droppedSinceTake \in Nat /\ n \in Nat /\ n <= q.size
        /\ queue'.size \in Nat
    BY <1>2, <1>4 DEF Queues
  <1>5a. /\ queue'.size = q.size - n /\ queue'.droppedSinceTake = 0
         /\ sent' = sent + n /\ reported' = reported + q.droppedSinceTake
         /\ offered' = offered + 1
         /\ lastSent <= (offered + 1) - q.size
         /\ q.size + q.droppedSinceTake = queue.size + queue.droppedSinceTake + 1
    BY <1>1, <1>2, <1>4
  <1>6. offered' = sent' + queue'.size + reported' + queue'.droppedSinceTake
    BY <1>3, <1>5, <1>5a
  <1>7. lastSent' \in 0..MaxMessages /\ lastSent' <= offered' - queue'.size
    <2>1. CASE n > 0
      <3>1. lastSent' = (offered + 1) - q.size + n
        BY <1>2, <1>4, <1>5, <2>1
      <3>2. 0 <= lastSent' /\ lastSent' = offered' - queue'.size
        BY <1>3, <1>5, <1>5a, <3>1
      <3>3. offered < MaxMessages
        BY <1>1
      <3> QED
        BY <1>3, <1>5, <1>5a, <3>2, <3>3
    <2>2. CASE n = 0
      <3>1. lastSent' = lastSent
        BY <1>4, <2>2
      <3> QED
        BY <1>3, <1>5, <1>5a, <2>2, <3>1
    <2> QED
      BY <1>5, <2>1, <2>2
  <1>8. Contents(queue') = [i \in 1..queue'.size |-> offered' - queue'.size + i]
    <2>1. ASSUME NEW i \in 1..queue'.size
          PROVE  Contents(queue')[i] = offered' - queue'.size + i
      <3>1. i + n \in 1..q.size
        BY <1>4, <1>5
      <3>2. Contents(queue')[i] = (offered + 1) - q.size + (i + n)
        BY <1>2, <1>4, <3>1
      <3> QED
        BY <1>1, <1>3, <1>4, <1>5, <3>2
    <2> QED
      BY <2>1 DEF Contents
  <1>9. TypeOK'
    <2>1. sent' \in 0..MaxMessages /\ reported' \in 0..MaxMessages /\ offered' \in 0..MaxMessages
      <3>1. offered < MaxMessages
        BY <1>1
      <3> QED
        BY <1>3, <1>5, <1>6, <1>5a, <3>1
    <2> QED
      BY <1>1, <1>3, <1>4, <1>7, <2>1 DEF TypeOK
  <1>10. BacklogIsTimed'
    BY <1>4, <1>5 DEF BacklogIsTimed
  <1> QED
    BY <1>4, <1>6, <1>7, <1>8, <1>9, <1>10 DEF HandleInv, QueueHoldsNewest, NoSilentLoss

(* A delivery to a socket that is no longer open only queues.              *)
LEMMA DeliverQueuesKeepsInv ==
  ASSUME HandleInv, Deliver, ~socketOpen
  PROVE  HandleInv'
  <1>1. /\ offered < MaxMessages /\ offered' = offered + 1 /\ queue' = Enqueue(queue, offered + 1)
        /\ UNCHANGED <<buffered, overflowTimer, closed, socketOpen, lastSent, sent, reported>>
    BY DEF Deliver
  <1>2. /\ queue' \in Queues(1..MaxMessages) /\ Linked(queue')
        /\ \A i \in 1..queue'.size : Contents(queue')[i] = offered' - queue'.size + i
        /\ lastSent <= offered' - queue'.size
        /\ queue'.size + queue'.droppedSinceTake = queue.size + queue.droppedSinceTake + 1
    BY <1>1, DeliveredIsNewest
  <1>3. queue'.size \in Nat /\ queue'.droppedSinceTake \in Nat
    BY <1>2 DEF Queues
  <1>4. TypeOK'
    BY <1>1, <1>2 DEF HandleInv, TypeOK
  <1>5. QueueHoldsNewest'
    BY <1>1, <1>2 DEF QueueHoldsNewest, Contents
  <1>6. NoSilentLoss'
    <2>1. /\ queue.size \in Nat /\ queue.droppedSinceTake \in Nat
          /\ sent \in Nat /\ reported \in Nat /\ offered \in Nat
          /\ offered = sent + queue.size + reported + queue.droppedSinceTake
      BY DEF HandleInv, TypeOK, NoSilentLoss, Queues
    <2>2. queue'.size + queue'.droppedSinceTake = queue.size + queue.droppedSinceTake + 1
      BY <1>2
    <2>3. offered' = sent' + queue'.size + reported' + queue'.droppedSinceTake
      BY <1>1, <1>3, <2>1, <2>2
    <2> QED
      BY <1>1, <2>3 DEF NoSilentLoss
  <1> QED
    BY <1>1, <1>2, <1>4, <1>5, <1>6 DEF HandleInv, BacklogIsTimed

(* Everything else leaves the queue as it is.                              *)
LEMMA NextHandleInv ==
  HandleInv /\ [Next]_vars => HandleInv'
  <1> SUFFICES ASSUME HandleInv, [Next]_vars PROVE HandleInv'
    OBVIOUS
  <1>1. CASE Deliver
    BY <1>1, DeliverFlushesKeepsInv, DeliverQueuesKeepsInv
  <1>2. ASSUME UNCHANGED <<queue, offered, lastSent, sent, reported>>,
               buffered' \in 0..MaxBuffered, overflowTimer' \in BOOLEAN, closed' \in BOOLEAN,
               socketOpen' \in BOOLEAN, socketOpen' => socketOpen /\ overflowTimer' = overflowTimer
        PROVE  HandleInv'
    <2>1. TypeOK' /\ Linked(queue)'
      BY <1>2 DEF HandleInv, TypeOK, Linked
    <2>2. QueueHoldsNewest' /\ NoSilentLoss' /\ BacklogIsTimed'
      BY <1>2 DEF HandleInv, QueueHoldsNewest, NoSilentLoss, BacklogIsTimed, Contents
    <2> QED
      BY <2>1, <2>2 DEF HandleInv
  <1>3. TypeOK
    BY DEF HandleInv
  <1>4. CASE SendDirect
    BY <1>2, <1>3, <1>4, EventKeepsOver DEF SendDirect, SendEvent, TypeOK
  <1>5. CASE SocketDrains
    BY <1>2, <1>3, <1>5 DEF SocketDrains, TypeOK
  <1>6. CASE OverflowFires
    BY <1>2, <1>3, <1>6 DEF OverflowFires, ClearOverflow, TypeOK
  <1>7. CASE PeerEnds
    BY <1>2, <1>3, <1>7 DEF PeerEnds, TypeOK
  <1>8. CASE SocketClosed
    BY <1>2, <1>3, <1>8 DEF SocketClosed, ClearOverflow, TypeOK
  <1>9. CASE UNCHANGED vars
    BY <1>2, <1>3, <1>9 DEF vars, TypeOK
  <1> QED
    BY <1>1, <1>4, <1>5, <1>6, <1>7, <1>8, <1>9 DEF Next

-----------------------------------------------------------------------------
(* The theorems *)

(* The invariant of the consumer handle.                                   *)
THEOREM HandleInvariant == Spec => []HandleInv
  BY InitHandleInv, NextHandleInv, PTL DEF Spec

(* What is queued and counted is of its type, whatever the capacity, the   *)
(* watermark and the number of messages.                                   *)
THEOREM HandleTypeCorrect == Spec => []TypeOK
  BY HandleInvariant, PTL DEF HandleInv

(* The queue of ws-consumer-handle.ts holds the newest messages, in order  *)
(* and without a hole, and everything sent is older, however often the     *)
(* ring of bounded-queue.ts has wrapped and whatever it has evicted.       *)
THEOREM QueueAlwaysHoldsNewest == Spec => []QueueHoldsNewest
  BY HandleInvariant, PTL DEF HandleInv

(* Every message of deliver is sent, queued, told as dropped, or still to  *)
(* be told; the last only when the socket is no longer open.               *)
THEOREM NothingIsLostSilently == Spec => []NoSilentLoss
  BY HandleInvariant, PTL DEF HandleInv

(* No backlog of an open socket is without the timer of armOverflow.       *)
THEOREM BacklogIsAlwaysTimed == Spec => []BacklogIsTimed
  BY HandleInvariant, PTL DEF HandleInv

(* A flush that ends with an empty queue at or under the watermark leaves  *)
(* no timer behind.                                                        *)
THEOREM TimerIsClearedOnceDrained == Spec => ClearedOnceDrained
  <1>1. ASSUME HandleInv, Next,
               offered' # offered, socketOpen, buffered' <= Watermark
        PROVE  ~overflowTimer'
    <2>1. Deliver
      BY <1>1 DEF Next, SendDirect, SocketDrains, OverflowFires, PeerEnds, SocketClosed
    <2> DEFINE q == Enqueue(queue, offered + 1)
    <2>2. offered < MaxMessages /\ Flush(q)
      BY <1>1, <2>1 DEF Deliver
    <2>3. q \in Queues(1..MaxMessages) /\ Linked(q)
      BY <1>1, <2>2, DeliveredIsNewest
    <2>4. buffered \in 0..MaxBuffered
      BY <1>1 DEF HandleInv, TypeOK
    <2> HIDE DEF q
    <2>5. buffered' \in 0..MaxBuffered /\ (overflowTimer' => buffered' > Watermark)
      BY <2>2, <2>3, <2>4, FlushLeaves
    <2> QED
      BY <1>1, <2>5
  <1>2. HandleInv /\ [Next]_vars =>
          [offered' # offered /\ socketOpen /\ queue'.size = 0 /\ buffered' <= Watermark
             => ~overflowTimer']_vars
    BY <1>1
  <1> QED
    BY <1>2, HandleInvariant, PTL DEF Spec, ClearedOnceDrained

=============================================================================
