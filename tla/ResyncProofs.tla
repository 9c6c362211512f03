---------------------------- MODULE ResyncProofs ----------------------------
(***************************************************************************)
(* What the sequence check, the stale flag and the resync guarantee for    *)
(* any set of topics, any losses and any number of connections.            *)
(***************************************************************************)
EXTENDS Resync, TLAPS

USE BoundsAssumption

(* Nothing can be applied to the book of t but a snapshot, or what happens *)
(* to it does not matter: it is marked.                                    *)
Suspect(t) == book[t] = NoBook \/ book[t].stale

SnapshotAt(k, t) == toHub[k].kind = "snapshot" /\ toHub[k].topic = t

(* What upstream sends: the numbers rise, and are those of the connection. *)
StreamIsNumbered ==
  /\ \A i \in DOMAIN toHub :
       /\ toHub[i].seq < nextSeq
       /\ toHub[i].kind \in {"snapshot", "update"} => toHub[i].topic \in Topics /\ toHub[i].seq > 0
       /\ toHub[i].kind \notin {"snapshot", "update"} => toHub[i].topic = NoTopic
       /\ \A j \in DOMAIN toHub : i < j /\ toHub[j].seq > 0 => toHub[i].seq < toHub[j].seq
  /\ \A t \in fed \ owed : nextSeq > 1
  /\ hole \subseteq Topics

(* The number of the j-th envelope on its way, or of the next one sent.    *)
NumberAt(j) == IF j = Len(toHub) + 1 THEN nextSeq ELSE toHub[j].seq

(* The j-th is a gap when its turn comes: nothing numbered one less comes  *)
(* before it.                                                              *)
Jump(j) ==
  /\ NumberAt(j) > 0
  /\ \A k \in 1..(j - 1) : toHub[k].seq > 0 => toHub[k].seq # NumberAt(j) - 1
  /\ \/ \E k \in 1..(j - 1) : toHub[k].seq > 0
     \/ lastSeq # NoSeq /\ lastSeq # NumberAt(j) - 1

(* The loss of an update of t right before the i-th envelope is noticed,   *)
(* or will be, before that envelope is handled.                            *)
Noticed(t, i) ==
  \/ Suspect(t) /\ \A k \in 1..(i - 1) : ~SnapshotAt(k, t)
  \/ \E j \in 1..i : Jump(j) /\ \A k \in j..(i - 1) : toHub[k].topic # t

LostBefore(t, i) ==
  IF i = Len(toHub) + 1
  THEN t \in hole
  ELSE toHub[i].kind = "update" /\ toHub[i].topic = t /\ toHub[i].hole

LossesAreNoticed ==
  \A t \in Topics, i \in 1..(Len(toHub) + 1) : LostBefore(t, i) => Noticed(t, i)

(* The updates on their way are newer than the book they will be applied   *)
(* to, and nothing was left out of a book that is not marked.              *)
UpdateOf(t, i) ==
  IF i = Len(toHub) + 1
  THEN t \in fed \ owed
  ELSE toHub[i].kind = "update" /\ toHub[i].topic = t

Newer(t, i) ==
  \/ Suspect(t)
  \/ \E k \in 1..(i - 1) : SnapshotAt(k, t)
  \/ NumberAt(i) > book[t].seq

UpdatesAreNewer ==
  /\ \A t \in Topics, i \in 1..(Len(toHub) + 1) : UpdateOf(t, i) => Newer(t, i)
  /\ \A t \in missed : Suspect(t)

(* lastSeq: of an envelope already handled on this connection; or of no    *)
(* such, while nothing numbered has been handled on it; or left from the   *)
(* connection before, by a resync that ended after its close, and then the *)
(* first envelope was a gap and all books are marked.                      *)
NothingHandled == nextSeq = 1 \/ \E k \in DOMAIN toHub : toHub[k].seq = 1

InStep ==
  /\ lastSeq # NoSeq
  /\ lastSeq < nextSeq
  /\ \A k \in DOMAIN toHub : toHub[k].seq > 0 => lastSeq < toHub[k].seq

AllSuspect == \A t \in Topics : Suspect(t)

SequenceIsKept ==
  /\ connected =>
       \/ NothingHandled /\ ~resubscribePending
       \/ InStep
       \/ AllSuspect /\ resubscribePending /\ lastSeq # NoSeq
  /\ resubscribePending => gapSeq > 0
  /\ connected /\ resubscribePending =>
       /\ gapSeq < nextSeq
       /\ \A k \in DOMAIN toHub : toHub[k].seq > 0 => gapSeq < toHub[k].seq
       /\ AllSuspect \/ gapSeq < lastSeq
  /\ ~connected =>
       /\ toHub = <<>> /\ nextSeq = 1 /\ fed = {} /\ owed = {} /\ hole = {}
       /\ reconnects < MaxReconnects

(* Requests on their way alternate, and leave upstream feeding the topics  *)
(* exactly when no resync waits.                                           *)
RequestsAlternate ==
  /\ \A i \in 1..(Len(toUpstream) - 1) : toUpstream[i] # toUpstream[i + 1]
  /\ toUpstream # <<>> =>
       /\ toUpstream[1] = "subscribe" => fed = {}
       /\ toUpstream[Len(toUpstream)] = "unsubscribe" <=> resubscribePending
  /\ ~connected => toUpstream = <<>>
  /\ connected /\ toUpstream = <<>> /\ resubscribePending => fed = {}

ResyncInv ==
  /\ TypeOK
  /\ StreamIsNumbered /\ LossesAreNoticed /\ UpdatesAreNewer /\ SequenceIsKept /\ RequestsAlternate
  /\ FreshBooksAreIntact /\ NoTopicAbandoned

-----------------------------------------------------------------------------
(* Sequences *)

(* An envelope sent takes the last place.                                  *)
LEMMA Appended ==
  ASSUME NEW S, NEW s \in Seq(S), NEW e \in S, NEW r, r = Append(s, e)
  PROVE  /\ r \in Seq(S) /\ Len(s) \in Nat /\ Len(r) = Len(s) + 1
         /\ DOMAIN s = 1..Len(s) /\ DOMAIN r = 1..(Len(s) + 1)
         /\ \A i \in 1..Len(s) : r[i] = s[i]
         /\ r[Len(s) + 1] = e
  OBVIOUS

(* One received moves the others up.                                       *)
LEMMA Received ==
  ASSUME NEW S, NEW s \in Seq(S), s # <<>>, NEW r, r = Tail(s)
  PROVE  /\ r \in Seq(S) /\ Len(s) \in Nat \ {0} /\ Len(r) = Len(s) - 1
         /\ DOMAIN s = 1..Len(s) /\ DOMAIN r = 1..(Len(s) - 1)
         /\ \A i \in 1..(Len(s) - 1) : r[i] = s[i + 1]
         /\ Head(s) = s[1] /\ s[1] \in S
  OBVIOUS

(* A request alone.                                                        *)
LEMMA OneRequest ==
  ASSUME NEW r \in {"subscribe", "unsubscribe"}, NEW s, s = <<r>>
  PROVE  s \in Seq({"subscribe", "unsubscribe"}) /\ Len(s) = 1 /\ DOMAIN s = 1..1 /\ s[1] = r /\ s # <<>>
  OBVIOUS

(* What is on its way, and its numbers.                                    *)
LEMMA OnTheWay ==
  ASSUME TypeOK
  PROVE  /\ toHub \in Seq(Envelope) /\ Len(toHub) \in Nat /\ DOMAIN toHub = 1..Len(toHub)
         /\ \A k \in 1..Len(toHub) : toHub[k] \in Envelope /\ toHub[k].seq \in 0..MaxSeq
         /\ nextSeq \in 1..(MaxSeq + 1) /\ gapSeq \in 0..MaxSeq /\ lastSeq \in Int
  <1>1. toHub \in Seq(Envelope)
    BY DEF TypeOK
  <1>2. Len(toHub) \in Nat /\ DOMAIN toHub = 1..Len(toHub) /\ \A k \in 1..Len(toHub) : toHub[k] \in Envelope
    BY <1>1
  <1>3. \A k \in 1..Len(toHub) : toHub[k].seq \in 0..MaxSeq
    BY <1>2 DEF Envelope
  <1>4. nextSeq \in 1..(MaxSeq + 1) /\ gapSeq \in 0..MaxSeq /\ lastSeq \in Int
    BY DEF TypeOK, NoSeq
  <1> QED
    BY <1>1, <1>2, <1>3, <1>4

-----------------------------------------------------------------------------
(* What upstream sends *)

(* A numbered envelope takes the next number: a gap that was ahead stays   *)
(* ahead, and one that was in store for what comes next is in this one.    *)
LEMMA NoticedWhenNumbered ==
  ASSUME TypeOK, NEW e \in Envelope, toHub' = Append(toHub, e),
         e.seq = nextSeq, nextSeq' = nextSeq + 1, UNCHANGED <<lastSeq, book>>,
         NEW t, NEW i \in 1..(Len(toHub) + 1), Noticed(t, i)
  PROVE  /\ Noticed(t, i)'
         /\ i = Len(toHub) + 1 /\ e.topic # t => Noticed(t, i + 1)'
  <1>1. /\ Len(toHub) \in Nat /\ Len(toHub') = Len(toHub) + 1
        /\ \A k \in 1..Len(toHub) : toHub'[k] = toHub[k]
        /\ toHub'[Len(toHub) + 1] = e
    BY Appended DEF TypeOK
  <1>2. CASE Suspect(t) /\ \A k \in 1..(i - 1) : ~SnapshotAt(k, t)
    <2>1. Suspect(t)'
      BY <1>2 DEF Suspect
    <2>2. \A k \in 1..(i - 1) : ~SnapshotAt(k, t)'
      BY <1>1, <1>2 DEF SnapshotAt
    <2>3. i = Len(toHub) + 1 /\ e.topic # t => \A k \in 1..i : ~SnapshotAt(k, t)'
      BY <1>1, <2>2 DEF SnapshotAt
    <2>4. (i + 1) - 1 = i
      OBVIOUS
    <2> QED
      BY <2>1, <2>2, <2>3, <2>4 DEF Noticed
  <1>3. ASSUME NEW j \in 1..i, Jump(j), \A k \in j..(i - 1) : toHub[k].topic # t
        PROVE  /\ Noticed(t, i)'
               /\ i = Len(toHub) + 1 /\ e.topic # t => Noticed(t, i + 1)'
    <2>1. \A k \in 1..(i - 1) : toHub'[k] = toHub[k]
      BY <1>1
    <2>2. NumberAt(j)' = NumberAt(j)
      BY <1>1 DEF NumberAt
    <2>3. Jump(j)'
      BY <1>3, <2>1, <2>2 DEF Jump
    <2>4. \A k \in j..(i - 1) : toHub'[k].topic # t
      BY <1>3, <2>1
    <2>5. i = Len(toHub) + 1 /\ e.topic # t => \A k \in j..i : toHub'[k].topic # t
      BY <1>1, <2>4
    <2>6. (i + 1) - 1 = i /\ j \in 1..(i + 1)
      OBVIOUS
    <2> QED
      BY <2>3, <2>4, <2>5, <2>6 DEF Noticed
  <1> QED
    BY <1>2, <1>3 DEF Noticed

(* An envelope numbered 0 is no gap and hides none: what was in store for  *)
(* the next one is in store for the one after it.                          *)
LEMMA NoticedWhenUnnumbered ==
  ASSUME TypeOK, NEW e \in Envelope, toHub' = Append(toHub, e),
         e.seq = 0, UNCHANGED <<nextSeq, lastSeq, book>>,
         NEW t, NEW i \in 1..(Len(toHub) + 1), Noticed(t, i)
  PROVE  /\ i # Len(toHub) + 1 => Noticed(t, i)'
         /\ i = Len(toHub) + 1 /\ e.topic # t => Noticed(t, i + 1)'
  <1>1. /\ Len(toHub) \in Nat /\ Len(toHub') = Len(toHub) + 1
        /\ \A k \in 1..Len(toHub) : toHub'[k] = toHub[k]
        /\ toHub'[Len(toHub) + 1] = e
    BY Appended DEF TypeOK
  <1>2. \A k \in 1..(i - 1) : toHub'[k] = toHub[k]
    BY <1>1
  <1>3. CASE Suspect(t) /\ \A k \in 1..(i - 1) : ~SnapshotAt(k, t)
    <2>1. Suspect(t)'
      BY <1>3 DEF Suspect
    <2>2. \A k \in 1..(i - 1) : ~SnapshotAt(k, t)'
      BY <1>2, <1>3 DEF SnapshotAt
    <2>3. i = Len(toHub) + 1 /\ e.topic # t => \A k \in 1..i : ~SnapshotAt(k, t)'
      BY <1>1, <2>2 DEF SnapshotAt
    <2>4. (i + 1) - 1 = i
      OBVIOUS
    <2> QED
      BY <2>1, <2>2, <2>3, <2>4 DEF Noticed
  <1>4. ASSUME NEW j \in 1..i, Jump(j), \A k \in j..(i - 1) : toHub[k].topic # t
        PROVE  /\ i # Len(toHub) + 1 => Noticed(t, i)'
               /\ i = Len(toHub) + 1 /\ e.topic # t => Noticed(t, i + 1)'
    <2>1. \A k \in 1..(j - 1) : toHub'[k] = toHub[k]
      BY <1>2
    <2>2. \A k \in j..(i - 1) : toHub'[k].topic # t
      BY <1>2, <1>4
    <2>3. i = Len(toHub) + 1 /\ e.topic # t => \A k \in j..i : toHub'[k].topic # t
      BY <1>1, <2>2
    <2>4. (i + 1) - 1 = i /\ j \in 1..(i + 1) /\ (j + 1) - 1 = j
      OBVIOUS
    <2>5. CASE j # Len(toHub) + 1
      <3>1. NumberAt(j)' = NumberAt(j)
        BY <1>1, <2>5 DEF NumberAt
      <3>2. Jump(j)'
        BY <1>4, <2>1, <3>1 DEF Jump
      <3> QED
        BY <2>2, <2>3, <2>4, <3>2 DEF Noticed
    <2>6. CASE j = Len(toHub) + 1
      <3>1. NumberAt(j + 1)' = NumberAt(j) /\ i = j
        BY <1>1, <2>6 DEF NumberAt
      <3>2. toHub'[j].seq = 0
        BY <1>1, <2>6
      <3>3. \A k \in 1..j : IF k = j THEN toHub'[k].seq = 0 ELSE k \in 1..(j - 1) /\ toHub'[k] = toHub[k]
        BY <2>1, <3>2
      <3>4. Jump(j + 1)'
        <4>1. /\ NumberAt(j) > 0
              /\ \A k \in 1..(j - 1) : toHub[k].seq > 0 => toHub[k].seq # NumberAt(j) - 1
              /\ \/ \E k \in 1..(j - 1) : toHub[k].seq > 0
                 \/ lastSeq # NoSeq /\ lastSeq # NumberAt(j) - 1
          BY <1>4 DEF Jump
        <4>2. \A k \in 1..j : toHub'[k].seq > 0 => toHub'[k].seq # NumberAt(j) - 1
          BY <3>3, <4>1
        <4>3. (\E k \in 1..(j - 1) : toHub[k].seq > 0) => \E k \in 1..j : toHub'[k].seq > 0
          BY <2>1
        <4> QED
          BY <2>4, <3>1, <4>1, <4>2, <4>3 DEF Jump
      <3>5. j + 1 \in 1..(i + 1) /\ \A k \in (j + 1)..i : toHub'[k].topic # t
        BY <3>1
      <3> QED
        BY <2>4, <2>6, <3>1, <3>4, <3>5 DEF Noticed
    <2> QED
      BY <2>5, <2>6
  <1> QED
    BY <1>3, <1>4 DEF Noticed

(* What SendSnapshot, SendUpdate and SendHeartbeat do to all parts of the  *)
(* invariant that speak of the stream.                                     *)
LEMMA NumberedKeepsInv ==
  ASSUME ResyncInv, NEW e \in Envelope, TickEmit(e), e.seq = nextSeq, connected,
         e.kind \in {"snapshot", "update"} => e.topic \in Topics,
         e.kind \notin {"snapshot", "update"} => e.topic = NoTopic,
         e.kind = "update" => e.topic \in fed \ owed /\ (e.hole => e.topic \in hole),
         hole' = hole \ {e.topic},
         owed' = owed \ (IF e.kind = "snapshot" THEN {e.topic} ELSE {}),
         UNCHANGED <<fed, losses, connected, reconnects, toUpstream, lastSeq, resubscribePending,
                     gapSeq, books>>
  PROVE  ResyncInv'
  <1> USE DEF ResyncInv
  <1>1. /\ toHub' = Append(toHub, e) /\ nextSeq <= MaxSeq /\ nextSeq' = nextSeq + 1
        /\ UNCHANGED <<book, missed, freshDue, announced>>
    BY DEF TickEmit, SendEnvelope, books
  <1>2. /\ toHub \in Seq(Envelope) /\ toHub' \in Seq(Envelope)
        /\ Len(toHub) \in Nat /\ Len(toHub') = Len(toHub) + 1
        /\ DOMAIN toHub = 1..Len(toHub) /\ DOMAIN toHub' = 1..(Len(toHub) + 1)
        /\ \A k \in 1..Len(toHub) : toHub'[k] = toHub[k] /\ toHub[k] \in Envelope
        /\ toHub'[Len(toHub) + 1] = e
    BY <1>1, Appended DEF TypeOK
  <1>3. nextSeq \in 1..(MaxSeq + 1)
    BY DEF TypeOK
  <1>4. TypeOK'
    BY <1>1, <1>2, <1>3 DEF TypeOK
  <1>5. StreamIsNumbered'
    <2>1. \A i \in 1..Len(toHub) : toHub[i].seq \in Nat
      BY <1>2 DEF Envelope
    <2> QED
      BY <1>1, <1>2, <1>3, <2>1 DEF StreamIsNumbered
  <1>6. LossesAreNoticed'
    <2> SUFFICES ASSUME NEW t \in Topics, NEW i \in 1..(Len(toHub) + 2), LostBefore(t, i)'
                 PROVE  Noticed(t, i)'
      BY <1>2 DEF LossesAreNoticed
    <2>1. CASE i \in 1..Len(toHub)
      <3>1. LostBefore(t, i)
        BY <1>2, <2>1 DEF LostBefore
      <3>2. i \in 1..(Len(toHub) + 1)
        BY <1>2, <2>1
      <3> QED
        BY <1>1, <3>1, <3>2, NoticedWhenNumbered DEF LossesAreNoticed
    <2>2. CASE i = Len(toHub) + 1
      <3>1. LostBefore(t, i) /\ i \in 1..(Len(toHub) + 1)
        BY <1>2, <2>2 DEF LostBefore
      <3> QED
        BY <1>1, <3>1, NoticedWhenNumbered DEF LossesAreNoticed
    <2>3. CASE i = Len(toHub) + 2
      <3> DEFINE n == i - 1
      <3>1. n = Len(toHub) + 1 /\ n \in 1..(Len(toHub) + 1) /\ n + 1 = i
        BY <1>2, <2>3
      <3>2. t \in hole /\ t # e.topic
        BY <1>2, <2>3 DEF LostBefore
      <3> HIDE DEF n
      <3>3. Noticed(t, n)
        BY <3>1, <3>2 DEF LossesAreNoticed, LostBefore
      <3>4. Noticed(t, n + 1)'
        BY <1>1, <3>1, <3>2, <3>3, NoticedWhenNumbered
      <3> QED
        BY <3>1, <3>4
    <2> QED
      BY <1>2, <2>1, <2>2, <2>3
  <1>7. UpdatesAreNewer'
    <2>1. ASSUME NEW t \in Topics, NEW i \in 1..(Len(toHub) + 1), Newer(t, i)
          PROVE  Newer(t, i)'
      <3>1. Suspect(t) => Suspect(t)'
        BY <1>1 DEF Suspect
      <3>2. \A k \in 1..(i - 1) : SnapshotAt(k, t) => SnapshotAt(k, t)'
        BY <1>2 DEF SnapshotAt
      <3>3. NumberAt(i)' = NumberAt(i)
        BY <1>1, <1>2 DEF NumberAt
      <3> QED
        BY <1>1, <2>1, <3>1, <3>2, <3>3 DEF Newer
    <2>2. ASSUME NEW t \in Topics, NEW i \in 1..(Len(toHub) + 2), UpdateOf(t, i)'
          PROVE  Newer(t, i)'
      <3>1. CASE i \in 1..(Len(toHub) + 1)
        <4>1. UpdateOf(t, i)
          <5>1. CASE i = Len(toHub) + 1
            BY <1>2, <2>2, <5>1 DEF UpdateOf
          <5>2. CASE i # Len(toHub) + 1
            BY <1>2, <2>2, <3>1, <5>2 DEF UpdateOf
          <5> QED
            BY <5>1, <5>2
        <4> QED
          BY <2>1, <3>1, <4>1 DEF UpdatesAreNewer
      <3>2. CASE i = Len(toHub) + 2
        <4>1. t \in fed \ owed'
          BY <1>2, <2>2, <3>2 DEF UpdateOf
        <4>2. CASE t \in owed
          <5>1. e.kind = "snapshot" /\ e.topic = t
            BY <4>1, <4>2
          <5>2. \E k \in 1..(i - 1) : SnapshotAt(k, t)'
            BY <1>2, <3>2, <5>1 DEF SnapshotAt
          <5> QED
            BY <5>2 DEF Newer
        <4>3. CASE t \notin owed
          <5> DEFINE n == i - 1
          <5>1. n = Len(toHub) + 1 /\ n \in 1..(Len(toHub) + 1) /\ n + 1 = i
            BY <1>2, <3>2
          <5> HIDE DEF n
          <5>2. UpdateOf(t, n)
            BY <4>1, <4>3, <5>1 DEF UpdateOf
          <5>3. Newer(t, n)
            BY <5>1, <5>2 DEF UpdatesAreNewer
          <5>4. CASE Suspect(t)
            BY <1>1, <5>4 DEF Suspect, Newer
          <5>5. CASE \E k \in 1..(n - 1) : SnapshotAt(k, t)
            BY <1>2, <5>1, <5>5 DEF SnapshotAt, Newer
          <5>6. CASE NumberAt(n) > book[t].seq
            <6>1. NumberAt(n) = nextSeq /\ NumberAt(i)' = nextSeq + 1 /\ book[t].seq \in Int
              BY <1>1, <1>2, <3>2, <5>1 DEF NumberAt, TypeOK, NoSeq
            <6>2. NumberAt(i)' > book'[t].seq
              BY <1>1, <1>3, <5>6, <6>1
            <6> QED
              BY <6>2 DEF Newer
          <5> QED
            BY <5>3, <5>4, <5>5, <5>6 DEF Newer
        <4> QED
          BY <4>2, <4>3
      <3> QED
        BY <1>2, <3>1, <3>2
    <2>3. \A t \in missed' : Suspect(t)'
      BY <1>1 DEF UpdatesAreNewer, Suspect
    <2> QED
      BY <1>2, <2>2, <2>3 DEF UpdatesAreNewer
  <1>8. SequenceIsKept'
    <2>1. NothingHandled => NothingHandled'
      BY <1>1, <1>2 DEF NothingHandled
    <2>2. InStep => InStep'
      BY <1>1, <1>2, <1>3, SMTT(30) DEF InStep, TypeOK, NoSeq
    <2>3. AllSuspect => AllSuspect'
      BY <1>1 DEF AllSuspect, Suspect
    <2>4. resubscribePending =>
            /\ gapSeq < nextSeq'
            /\ \A k \in DOMAIN toHub' : toHub'[k].seq > 0 => gapSeq < toHub'[k].seq
      BY <1>1, <1>2, <1>3 DEF SequenceIsKept, TypeOK
    <2> QED
      BY <1>1, <2>1, <2>2, <2>3, <2>4 DEF SequenceIsKept
  <1>9. RequestsAlternate'
    BY DEF RequestsAlternate
  <1>10. FreshBooksAreIntact'
    BY <1>1 DEF FreshBooksAreIntact
  <1>11. NoTopicAbandoned'
    <2>1. \A t \in Topics : SnapshotComing(t) => SnapshotComing(t)'
      BY <1>2 DEF SnapshotComing
    <2> QED
      BY <1>1, <2>1 DEF NoTopicAbandoned
  <1> QED
    BY <1>4, <1>5, <1>6, <1>7, <1>8, <1>9, <1>10, <1>11

(* A snapshot, an update and a heartbeat are such envelopes.               *)
LEMMA UpstreamSendsKeepsInv ==
  ASSUME ResyncInv,
         \/ \E t \in Topics : SendSnapshot(t) \/ SendUpdate(t)
         \/ SendHeartbeat
  PROVE  ResyncInv'
  <1>1. /\ connected
        /\ \A t \in owed \cup fed : connected
        /\ fed \subseteq Topics /\ owed \subseteq Topics /\ hole \subseteq Topics
        /\ nextSeq \in 1..(MaxSeq + 1)
    BY DEF ResyncInv, TypeOK, SequenceIsKept, SendSnapshot, SendUpdate, SendHeartbeat
  <1>2. ASSUME nextSeq <= MaxSeq, NEW kind \in {"heartbeat", "snapshot", "update"},
               NEW t \in Topics \cup {NoTopic}, NEW h \in BOOLEAN
        PROVE  Numbered(kind, t, h) \in Envelope
    BY <1>1, <1>2 DEF Numbered, Envelope
  <1>3. ASSUME NEW t \in Topics, SendSnapshot(t)
        PROVE  ResyncInv'
    <2> DEFINE e == Numbered("snapshot", t, FALSE)
    <2>1. e \in Envelope /\ e.seq = nextSeq /\ e.kind = "snapshot" /\ e.topic = t
      BY <1>2, <1>3 DEF SendSnapshot, TickEmit, Numbered
    <2>2. /\ TickEmit(e) /\ hole' = hole \ {t} /\ owed' = owed \ {t}
          /\ UNCHANGED <<fed, losses, connected, reconnects, toUpstream, lastSeq, resubscribePending,
                         gapSeq, books>>
      BY <1>3 DEF SendSnapshot
    <2> HIDE DEF e
    <2> QED
      BY <1>1, <2>1, <2>2, NumberedKeepsInv
  <1>4. ASSUME NEW t \in Topics, SendUpdate(t)
        PROVE  ResyncInv'
    <2>0. PICK h \in BOOLEAN : h = (t \in hole)
      <3>1. CASE t \in hole
        <4>1. TRUE = (t \in hole)
          BY <3>1
        <4> QED
          BY <4>1
      <3>2. CASE t \notin hole
        <4>1. FALSE = (t \in hole)
          BY <3>2
        <4> QED
          BY <4>1
      <3> QED
        BY <3>1, <3>2
    <2> DEFINE e == Numbered("update", t, h)
    <2>1. e \in Envelope /\ e.seq = nextSeq /\ e.kind = "update" /\ e.topic = t
      BY <1>2, <1>4 DEF SendUpdate, TickEmit, Numbered
    <2>3. e.hole => t \in hole
      <3>1. e.hole = h
        BY DEF Numbered
      <3> QED
        BY <2>0, <3>1, Zenon
    <2>4. TickEmit(e)
      BY <1>4, <2>0, Zenon DEF SendUpdate
    <2>2. /\ TickEmit(e) /\ hole' = hole \ {t} /\ owed' = owed /\ t \in fed \ owed
          /\ UNCHANGED <<fed, losses, connected, reconnects, toUpstream, lastSeq, resubscribePending,
                         gapSeq, books>>
      BY <1>4, <2>4 DEF SendUpdate
    <2> HIDE DEF e
    <2> QED
      BY <1>1, <2>1, <2>2, <2>3, NumberedKeepsInv
  <1>5. CASE SendHeartbeat
    <2> DEFINE e == Numbered("heartbeat", NoTopic, FALSE)
    <2>1. e \in Envelope /\ e.seq = nextSeq /\ e.kind = "heartbeat" /\ e.topic = NoTopic
      BY <1>2, <1>5 DEF SendHeartbeat, TickEmit, Numbered
    <2>2. /\ TickEmit(e) /\ hole' = hole \ {NoTopic} /\ owed' = owed
          /\ UNCHANGED <<fed, losses, connected, reconnects, toUpstream, lastSeq, resubscribePending,
                         gapSeq, books>>
      BY <1>1, <1>5 DEF SendHeartbeat
    <2> HIDE DEF e
    <2> QED
      BY <1>1, <2>1, <2>2, NumberedKeepsInv
  <1> QED
    BY <1>3, <1>4, <1>5

(* A request is answered; who was fed and is not any more is owed nothing, *)
(* who is fed anew is owed a snapshot.                                     *)
LEMMA RequestKeepsInv ==
  ASSUME ResyncInv, UpstreamHandlesRequest
  PROVE  ResyncInv'
  <1> USE DEF ResyncInv
  <1> DEFINE e == [seq |-> 0, kind |-> "subscriptions", topic |-> NoTopic, hole |-> FALSE]
  <1>1. /\ toHub' = Append(toHub, e) /\ toUpstream # <<>> /\ toUpstream' = Tail(toUpstream)
        /\ IF Head(toUpstream) = "subscribe"
           THEN fed' = Topics /\ owed' = owed \cup (Topics \ fed)
           ELSE fed' = {} /\ owed' = {}
        /\ UNCHANGED <<nextSeq, hole, losses, connected, reconnects, lastSeq, resubscribePending,
                       gapSeq, book, missed, freshDue, announced>>
    BY DEF UpstreamHandlesRequest, SendEnvelope, books
  <1>2. e \in Envelope /\ e.seq = 0 /\ e.kind = "subscriptions" /\ e.topic = NoTopic
    BY DEF Envelope
  <1> HIDE DEF e
  <1>3. /\ toHub \in Seq(Envelope) /\ toHub' \in Seq(Envelope)
        /\ Len(toHub) \in Nat /\ Len(toHub') = Len(toHub) + 1
        /\ DOMAIN toHub = 1..Len(toHub) /\ DOMAIN toHub' = 1..(Len(toHub) + 1)
        /\ \A k \in 1..Len(toHub) : toHub'[k] = toHub[k] /\ toHub[k] \in Envelope
        /\ toHub'[Len(toHub) + 1] = e
    BY <1>1, <1>2, Appended, SMTT(30) DEF TypeOK
  <1>4. /\ toUpstream' \in Seq({"subscribe", "unsubscribe"}) /\ Len(toUpstream) \in Nat \ {0}
        /\ Len(toUpstream') = Len(toUpstream) - 1
        /\ DOMAIN toUpstream = 1..Len(toUpstream) /\ DOMAIN toUpstream' = 1..(Len(toUpstream) - 1)
        /\ \A k \in 1..(Len(toUpstream) - 1) : toUpstream'[k] = toUpstream[k + 1]
        /\ Head(toUpstream) = toUpstream[1]
        /\ toUpstream[1] \in {"subscribe", "unsubscribe"}
    BY <1>1, Received DEF TypeOK
  <1>5. /\ nextSeq \in 1..(MaxSeq + 1) /\ fed \subseteq Topics /\ owed \subseteq Topics /\ connected
        /\ fed' \subseteq Topics /\ owed' \subseteq Topics
        /\ fed' \ owed' \subseteq fed \ owed
    BY <1>1 DEF TypeOK, RequestsAlternate
  <1>6. TypeOK'
    BY <1>1, <1>3, <1>4, <1>5 DEF TypeOK
  <1>7. StreamIsNumbered'
    BY <1>1, <1>2, <1>3, <1>5 DEF StreamIsNumbered
  <1>8. LossesAreNoticed'
    <2> SUFFICES ASSUME NEW t \in Topics, NEW i \in 1..(Len(toHub) + 2), LostBefore(t, i)'
                 PROVE  Noticed(t, i)'
      BY <1>3 DEF LossesAreNoticed
    <2>1. CASE i \in 1..Len(toHub)
      <3>1. LostBefore(t, i)
        BY <1>3, <2>1 DEF LostBefore
      <3>2. i \in 1..(Len(toHub) + 1) /\ i # Len(toHub) + 1
        BY <1>3, <2>1
      <3> QED
        BY <1>1, <1>2, <3>1, <3>2, NoticedWhenUnnumbered DEF LossesAreNoticed
    <2>2. i # Len(toHub) + 1
      BY <1>2, <1>3 DEF LostBefore
    <2>3. CASE i = Len(toHub) + 2
      <3> DEFINE n == i - 1
      <3>1. n = Len(toHub) + 1 /\ n \in 1..(Len(toHub) + 1) /\ n + 1 = i
        BY <1>3, <2>3
      <3>2. t \in hole /\ t # e.topic
        BY <1>1, <1>2, <1>3, <2>3 DEF LostBefore
      <3> HIDE DEF n
      <3>3. Noticed(t, n)
        BY <3>1, <3>2 DEF LossesAreNoticed, LostBefore
      <3>4. Noticed(t, n + 1)'
        BY <1>1, <1>2, <3>1, <3>2, <3>3, NoticedWhenUnnumbered
      <3> QED
        BY <3>1, <3>4
    <2> QED
      BY <1>3, <2>1, <2>2, <2>3
  <1>9. UpdatesAreNewer'
    <2> SUFFICES ASSUME NEW t \in Topics, NEW i \in 1..(Len(toHub) + 2), UpdateOf(t, i)'
                 PROVE  Newer(t, i)'
      BY <1>1, <1>3 DEF UpdatesAreNewer, Suspect
    <2>1. CASE i \in 1..Len(toHub)
      <3>1. UpdateOf(t, i) /\ i \in 1..(Len(toHub) + 1)
        BY <1>3, <2>1 DEF UpdateOf
      <3>2. Newer(t, i)
        BY <3>1 DEF UpdatesAreNewer
      <3>3. NumberAt(i)' = NumberAt(i)
        BY <1>1, <1>3, <2>1 DEF NumberAt
      <3>4. \A k \in 1..(i - 1) : SnapshotAt(k, t) => SnapshotAt(k, t)'
        BY <1>3, <2>1 DEF SnapshotAt
      <3> QED
        BY <1>1, <3>2, <3>3, <3>4 DEF Newer, Suspect
    <2>2. i # Len(toHub) + 1
      BY <1>2, <1>3 DEF UpdateOf
    <2>3. CASE i = Len(toHub) + 2
      <3> DEFINE n == i - 1
      <3>1. n = Len(toHub) + 1 /\ n \in 1..(Len(toHub) + 1) /\ n + 1 = i
        BY <1>3, <2>3
      <3> HIDE DEF n
      <3>2. UpdateOf(t, n)
        BY <1>3, <1>5, <2>3, <3>1 DEF UpdateOf
      <3>3. Newer(t, n)
        BY <3>1, <3>2 DEF UpdatesAreNewer
      <3>4. NumberAt(i)' = NumberAt(n)
        BY <1>1, <1>3, <2>3, <3>1 DEF NumberAt
      <3>5. \A k \in 1..(n - 1) : k \in 1..(i - 1) /\ (SnapshotAt(k, t) => SnapshotAt(k, t)')
        BY <1>3, <3>1 DEF SnapshotAt
      <3> QED
        BY <1>1, <3>3, <3>4, <3>5 DEF Newer, Suspect
    <2> QED
      BY <1>3, <2>1, <2>2, <2>3
  <1>10. SequenceIsKept'
    <2>1. NothingHandled => NothingHandled'
      BY <1>1, <1>3 DEF NothingHandled
    <2>2. InStep => InStep'
      BY <1>1, <1>2, <1>3 DEF InStep
    <2>3. AllSuspect => AllSuspect'
      BY <1>1 DEF AllSuspect, Suspect
    <2>4. connected /\ resubscribePending =>
            \A k \in DOMAIN toHub' : toHub'[k].seq > 0 => gapSeq < toHub'[k].seq
      BY <1>1, <1>2, <1>3 DEF SequenceIsKept
    <2> QED
      BY <1>1, <1>5, <2>1, <2>2, <2>3, <2>4 DEF SequenceIsKept
  <1>11. RequestsAlternate'
    <2>1. CASE Len(toUpstream) = 1
      <3>1. toUpstream' = <<>> /\ (toUpstream[1] = "unsubscribe" <=> resubscribePending)
        BY <1>1, <1>4, <2>1 DEF RequestsAlternate
      <3> QED
        BY <1>1, <1>4, <1>5, <2>1, <3>1, SMTT(30) DEF RequestsAlternate
    <2>2. CASE Len(toUpstream) > 1
      <3>1. /\ toUpstream' # <<>>
            /\ toUpstream'[Len(toUpstream')] = toUpstream[Len(toUpstream)]
            /\ toUpstream'[1] = toUpstream[2]
        BY <1>4, <2>2
      <3>2. \A i \in 1..(Len(toUpstream') - 1) : toUpstream'[i] # toUpstream'[i + 1]
        BY <1>4, <2>2 DEF RequestsAlternate
      <3>3. toUpstream[1] # toUpstream[2]
        BY <1>4, <2>2 DEF RequestsAlternate
      <3> QED
        BY <1>1, <1>4, <1>5, <3>1, <3>2, <3>3 DEF RequestsAlternate
    <2> QED
      BY <1>4, <2>1, <2>2
  <1>12. FreshBooksAreIntact'
    BY <1>1 DEF FreshBooksAreIntact
  <1>13. NoTopicAbandoned'
    <2> SUFFICES ASSUME NEW t \in Topics, SnapshotComing(t)
                 PROVE  SnapshotComing(t)'
      BY <1>1 DEF NoTopicAbandoned
    <2>1. CASE toUpstream[1] = "subscribe"
      <3>1. owed' = owed \cup Topics
        BY <1>1, <1>4, <2>1 DEF RequestsAlternate
      <3> QED
        BY <3>1 DEF SnapshotComing
    <2>2. CASE toUpstream[1] = "unsubscribe"
      <3>1. CASE Len(toUpstream) = 1
        BY <1>1, <1>4, <2>2, <3>1 DEF RequestsAlternate, SnapshotComing
      <3>2. CASE Len(toUpstream) > 1
        <4>1. toUpstream[1] # toUpstream[2] /\ toUpstream[2] \in {"subscribe", "unsubscribe"}
          BY <1>4, <3>2 DEF RequestsAlternate, TypeOK
        <4>2. 1 \in DOMAIN toUpstream' /\ toUpstream'[1] = "subscribe"
          BY <1>4, <2>2, <3>2, <4>1
        <4> QED
          BY <4>2 DEF SnapshotComing
      <3> QED
        BY <1>4, <3>1, <3>2
    <2> QED
      BY <1>4, <2>1, <2>2
  <1> QED
    BY <1>6, <1>7, <1>8, <1>9, <1>10, <1>11, <1>12, <1>13

(* An update that is lost uses up a number: whatever comes next jumps over *)
(* it, unless the books are marked anyway.                                 *)
LEMMA LossKeepsInv ==
  ASSUME ResyncInv, NEW u \in Topics, LoseUpdate(u)
  PROVE  ResyncInv'
  <1> USE DEF ResyncInv
  <1>1. /\ nextSeq <= MaxSeq /\ nextSeq' = nextSeq + 1
        /\ losses < MaxLosses /\ losses' = losses + 1
        /\ u \in fed \ owed /\ hole' = hole \cup {u}
        /\ UNCHANGED <<fed, owed, connected, reconnects, toUpstream, toHub, lastSeq,
                       resubscribePending, gapSeq, book, missed, freshDue, announced>>
    BY DEF LoseUpdate, connection, books
  <1>2. /\ toHub \in Seq(Envelope) /\ Len(toHub) \in Nat /\ DOMAIN toHub = 1..Len(toHub)
        /\ \A k \in 1..Len(toHub) : toHub[k] \in Envelope /\ toHub[k].seq \in 0..MaxSeq
        /\ nextSeq \in 1..(MaxSeq + 1)
    BY OnTheWay
  <1>3. connected /\ nextSeq > 1
    BY <1>1, <1>2 DEF SequenceIsKept, StreamIsNumbered
  <1>4. TypeOK'
    BY <1>1, <1>2 DEF TypeOK
  <1>5. StreamIsNumbered'
    BY <1>1, <1>2, <1>3 DEF StreamIsNumbered
  <1>6. LossesAreNoticed'
    <2> SUFFICES ASSUME NEW t \in Topics, NEW i \in 1..(Len(toHub) + 1), LostBefore(t, i)'
                 PROVE  Noticed(t, i)'
      BY <1>1 DEF LossesAreNoticed
    <2>1. CASE i \in 1..Len(toHub)
      <3>1. LostBefore(t, i)
        BY <1>1, <1>2, <2>1 DEF LostBefore
      <3>2. Noticed(t, i)
        BY <3>1 DEF LossesAreNoticed
      <3>3. \A j \in 1..i : Jump(j) => Jump(j)'
        BY <1>1, <1>2, <2>1, SMTT(30) DEF Jump, NumberAt
      <3> QED
        BY <1>1, <3>2, <3>3 DEF Noticed, Suspect, SnapshotAt
    <2>2. CASE i = Len(toHub) + 1
      <3>0. nextSeq' = nextSeq + 1 /\ i = Len(toHub') + 1 /\ nextSeq \in Nat
        BY <1>1, <1>2, <2>2
      <3>1. NumberAt(i)' = nextSeq + 1 /\ nextSeq + 1 > 0 /\ (nextSeq + 1) - 1 = nextSeq
        BY <3>0 DEF NumberAt
      <3>2. \A k \in 1..(i - 1) : toHub'[k].seq # NumberAt(i)' - 1
        BY <1>1, <1>2, <2>2, <3>1, SMTT(30) DEF StreamIsNumbered
      <3>3. ASSUME Jump(i)'
            PROVE  Noticed(t, i)'
        <4>1. \A k \in i..(i - 1) : toHub'[k].topic # t
          OBVIOUS
        <4> QED
          BY <3>3, <4>1 DEF Noticed
      <3>4. CASE \E k \in 1..(i - 1) : toHub[k].seq > 0
        <4>1. \E k \in 1..(i - 1) : toHub'[k].seq > 0
          BY <1>1, <3>4
        <4> QED
          BY <3>1, <3>2, <3>3, <4>1 DEF Jump
      <3>5. CASE \A k \in 1..(i - 1) : ~(toHub[k].seq > 0)
        <4>1. ~NothingHandled
          BY <1>2, <1>3, <2>2, <3>5 DEF NothingHandled
        <4>2. CASE InStep
          <5>1. lastSeq' # NoSeq /\ lastSeq' # NumberAt(i)' - 1
            BY <1>1, <1>2, <3>1, <4>2 DEF InStep, TypeOK
          <5> QED
            BY <3>1, <3>2, <3>3, <5>1 DEF Jump
        <4>3. CASE AllSuspect
          <5>1. Suspect(t)'
            BY <1>1, <4>3 DEF AllSuspect, Suspect
          <5>2. \A k \in 1..(i - 1) : ~SnapshotAt(k, t)'
            <6>1. ASSUME NEW k \in 1..(i - 1), SnapshotAt(k, t)
                  PROVE  FALSE
              <7>1. k \in DOMAIN toHub
                BY <1>2, <2>2
              <7>2. toHub[k].seq > 0
                BY <6>1, <7>1 DEF SnapshotAt, StreamIsNumbered
              <7> QED
                BY <3>5, <7>2
            <6> QED
              BY <1>1, <6>1 DEF SnapshotAt
          <5> QED
            BY <5>1, <5>2 DEF Noticed
        <4> QED
          BY <1>3, <4>1, <4>2, <4>3 DEF SequenceIsKept
      <3> QED
        BY <3>4, <3>5
    <2> QED
      BY <1>2, <2>1, <2>2
  <1>7. UpdatesAreNewer'
    <2> SUFFICES ASSUME NEW t \in Topics, NEW i \in 1..(Len(toHub) + 1), UpdateOf(t, i)'
                 PROVE  Newer(t, i)'
      BY <1>1 DEF UpdatesAreNewer, Suspect
    <2>1. UpdateOf(t, i)
      BY <1>1 DEF UpdateOf
    <2>2. Newer(t, i)
      BY <2>1 DEF UpdatesAreNewer
    <2>3. NumberAt(i)' >= NumberAt(i) /\ NumberAt(i) \in Int /\ NumberAt(i)' \in Int
      BY <1>1, <1>2 DEF NumberAt
    <2>4. book[t].seq \in Int
      BY DEF TypeOK, NoSeq
    <2>5. NumberAt(i) > book[t].seq => NumberAt(i)' > book[t].seq
      BY <2>3, <2>4
    <2> QED
      BY <1>1, <2>2, <2>5 DEF Newer, Suspect, SnapshotAt
  <1>8. SequenceIsKept'
    <2>1. NothingHandled => NothingHandled'
      BY <1>1, <1>3 DEF NothingHandled
    <2>2. InStep => InStep'
      BY <1>1, <1>2 DEF InStep, TypeOK, NoSeq
    <2>3. AllSuspect => AllSuspect'
      BY <1>1 DEF AllSuspect, Suspect
    <2>4. resubscribePending => gapSeq < nextSeq'
      BY <1>1, <1>2, <1>3 DEF SequenceIsKept, TypeOK
    <2> QED
      BY <1>1, <1>3, <2>1, <2>2, <2>3, <2>4 DEF SequenceIsKept
  <1>9. RequestsAlternate'
    BY <1>1 DEF RequestsAlternate
  <1>10. FreshBooksAreIntact'
    BY <1>1 DEF FreshBooksAreIntact
  <1>11. NoTopicAbandoned'
    BY <1>1 DEF NoTopicAbandoned, SnapshotComing
  <1> QED
    BY <1>4, <1>5, <1>6, <1>7, <1>8, <1>9, <1>10, <1>11

-----------------------------------------------------------------------------
(* What the hub handles *)

(* The rest of what is on its way, once the first envelope is taken.       *)
LEMMA OneTaken ==
  ASSUME TypeOK, StreamIsNumbered, Receive, nextSeq' = nextSeq, UNCHANGED <<fed, owed, hole>>
  PROVE  /\ StreamIsNumbered' /\ toHub' \in Seq(Envelope)
         /\ Len(toHub) \in Nat \ {0} /\ Len(toHub') = Len(toHub) - 1
         /\ DOMAIN toHub = 1..Len(toHub) /\ DOMAIN toHub' = 1..(Len(toHub) - 1)
         /\ \A i \in 1..(Len(toHub) - 1) : toHub'[i] = toHub[i + 1]
         /\ Head(toHub) = toHub[1] /\ toHub[1] \in Envelope
         /\ \A i \in 1..Len(toHub) : toHub[i].seq \in Nat
  <1>1. toHub \in Seq(Envelope) /\ toHub # <<>> /\ toHub' = Tail(toHub)
    BY DEF TypeOK, Receive
  <1>2. /\ toHub' \in Seq(Envelope)
        /\ Len(toHub) \in Nat \ {0} /\ Len(toHub') = Len(toHub) - 1
        /\ DOMAIN toHub = 1..Len(toHub) /\ DOMAIN toHub' = 1..(Len(toHub) - 1)
        /\ \A i \in 1..(Len(toHub) - 1) : toHub'[i] = toHub[i + 1]
        /\ Head(toHub) = toHub[1] /\ toHub[1] \in Envelope
    BY <1>1, Received
  <1>3. \A i \in 1..Len(toHub) : toHub[i] \in Envelope
    BY <1>1, <1>2
  <1>4. \A i \in 1..Len(toHub) : toHub[i].seq \in Nat
    BY <1>3 DEF Envelope
  <1>5. StreamIsNumbered'
    <2>1. ASSUME NEW i \in DOMAIN toHub'
          PROVE  i + 1 \in DOMAIN toHub /\ toHub'[i] = toHub[i + 1] /\ i \in Int
      BY <1>2
    <2>2. ASSUME NEW i \in DOMAIN toHub'
          PROVE  /\ toHub'[i].seq < nextSeq
                 /\ toHub'[i].kind \in {"snapshot", "update"} => toHub'[i].topic \in Topics /\ toHub'[i].seq > 0
                 /\ toHub'[i].kind \notin {"snapshot", "update"} => toHub'[i].topic = NoTopic
      BY <2>1 DEF StreamIsNumbered
    <2>3. ASSUME NEW i \in DOMAIN toHub', NEW j \in DOMAIN toHub', i < j, toHub'[j].seq > 0
          PROVE  toHub'[i].seq < toHub'[j].seq
      <3>1. /\ i + 1 \in DOMAIN toHub /\ toHub'[i] = toHub[i + 1] /\ i \in Int
            /\ j + 1 \in DOMAIN toHub /\ toHub'[j] = toHub[j + 1] /\ j \in Int
        BY <2>1
      <3>2. i + 1 < j + 1
        BY <2>3, <3>1
      <3> QED
        BY <2>3, <3>1, <3>2 DEF StreamIsNumbered
    <2> QED
      BY <2>2, <2>3 DEF StreamIsNumbered
  <1> QED
    BY <1>2, <1>4, <1>5

(* What is said of the i-th was said of the one after the i-th.            *)
LEMMA MovedUp ==
  ASSUME TypeOK, StreamIsNumbered, Receive, nextSeq' = nextSeq, UNCHANGED <<fed, owed, hole>>,
         NEW t, NEW i \in 1..Len(toHub)
  PROVE  /\ i + 1 \in 1..(Len(toHub) + 1)
         /\ LostBefore(t, i)' => LostBefore(t, i + 1)
         /\ UpdateOf(t, i)' => UpdateOf(t, i + 1)
         /\ NumberAt(i)' = NumberAt(i + 1)
  <1>1. /\ Len(toHub) \in Nat \ {0} /\ Len(toHub') = Len(toHub) - 1
        /\ \A k \in 1..(Len(toHub) - 1) : toHub'[k] = toHub[k + 1]
    BY OneTaken
  <1>2. i + 1 \in 1..(Len(toHub) + 1)
    BY <1>1
  <1>3. CASE i = Len(toHub)
    <2>1. i = Len(toHub') + 1 /\ i + 1 = Len(toHub) + 1
      BY <1>1, <1>3
    <2> QED
      BY <1>2, <2>1 DEF LostBefore, UpdateOf, NumberAt
  <1>4. CASE i # Len(toHub)
    <2>1. i \in 1..(Len(toHub) - 1) /\ i # Len(toHub') + 1 /\ i + 1 # Len(toHub) + 1
      BY <1>1, <1>4
    <2>2. toHub'[i] = toHub[i + 1]
      BY <1>1, <2>1
    <2> QED
      BY <1>2, <2>1, <2>2 DEF LostBefore, UpdateOf, NumberAt
  <1> QED
    BY <1>3, <1>4

(* A gap further on stays one: for what comes before it, or because the    *)
(* number handled takes the place of the envelope taken.                   *)
LEMMA JumpMovesUp ==
  ASSUME TypeOK, StreamIsNumbered, Receive, nextSeq' = nextSeq, UNCHANGED <<fed, owed, hole>>,
         NEW m \in 1..Len(toHub), Jump(m + 1),
         \/ \E k \in 2..m : toHub[k].seq > 0
         \/ lastSeq' = IF toHub[1].seq > 0 THEN toHub[1].seq ELSE lastSeq
  PROVE  Jump(m)'
  <1>1. /\ Len(toHub) \in Nat \ {0}
        /\ \A i \in 1..(Len(toHub) - 1) : toHub'[i] = toHub[i + 1]
        /\ \A i \in 1..Len(toHub) : toHub[i].seq \in Nat
        /\ NumberAt(m)' = NumberAt(m + 1)
    BY OneTaken, MovedUp
  <1> DEFINE number == NumberAt(m + 1)
  <1>2. /\ number > 0
        /\ \A k \in 1..m : toHub[k].seq > 0 => toHub[k].seq # number - 1
        /\ \/ \E k \in 1..m : toHub[k].seq > 0
           \/ lastSeq # NoSeq /\ lastSeq # number - 1
    BY DEF Jump
  <1>3. NumberAt(m)' = number
    BY <1>1
  <1> HIDE DEF number
  <1>4. \A k \in 1..(m - 1) : toHub'[k] = toHub[k + 1] /\ k + 1 \in 1..m
    BY <1>1
  <1>5. \A k \in 1..(m - 1) : toHub'[k].seq > 0 => toHub'[k].seq # number - 1
    BY <1>2, <1>4
  <1>6. ASSUME NEW k \in 2..m, toHub[k].seq > 0
        PROVE  Jump(m)'
    <2>1. k - 1 \in 1..(m - 1) /\ (k - 1) + 1 = k
      OBVIOUS
    <2>2. toHub'[k - 1].seq > 0
      BY <1>4, <1>6, <2>1
    <2>3. \E l \in 1..(m - 1) : toHub'[l].seq > 0
      BY <2>1, <2>2
    <2> QED
      BY <1>2, <1>3, <1>5, <2>3 DEF Jump
  <1>7. CASE lastSeq' = IF toHub[1].seq > 0 THEN toHub[1].seq ELSE lastSeq
    <2>1. CASE toHub[1].seq > 0
      <3>1. lastSeq' = toHub[1].seq /\ 1 \in 1..m
        BY <1>7, <2>1
      <3>2. lastSeq' # NoSeq /\ lastSeq' # number - 1
        BY <1>2, <2>1, <3>1 DEF NoSeq
      <3> QED
        BY <1>2, <1>3, <1>5, <3>2 DEF Jump
    <2>2. CASE ~(toHub[1].seq > 0) /\ ~\E k \in 2..m : toHub[k].seq > 0
      <3>1. ~\E k \in 1..m : toHub[k].seq > 0
        BY <2>2
      <3>2. lastSeq' # NoSeq /\ lastSeq' # number - 1
        BY <1>2, <1>7, <2>2, <3>1
      <3> QED
        BY <1>2, <1>3, <1>5, <3>2 DEF Jump
    <2> QED
      BY <1>6, <2>1, <2>2
  <1> QED
    BY <1>6, <1>7

(* What was noticed stays noticed, when the envelope taken is no gap.      *)
LEMMA NoticedInOrder ==
  ASSUME TypeOK, StreamIsNumbered, Receive, nextSeq' = nextSeq, UNCHANGED <<fed, owed, hole>>,
         lastSeq' = IF toHub[1].seq > 0 THEN toHub[1].seq ELSE lastSeq, ~Jump(1),
         NEW t, Suspect(t) /\ ~SnapshotAt(1, t) => Suspect(t)',
         NEW i \in 1..Len(toHub), Noticed(t, i + 1)
  PROVE  Noticed(t, i)'
  <1>1. /\ Len(toHub) \in Nat \ {0}
        /\ \A k \in 1..(Len(toHub) - 1) : toHub'[k] = toHub[k + 1]
    BY OneTaken
  <1>2. \A k \in 1..(i - 1) : toHub'[k] = toHub[k + 1] /\ k + 1 \in 1..i
    BY <1>1
  <1>3. CASE Suspect(t) /\ \A k \in 1..i : ~SnapshotAt(k, t)
    <2>1. 1 \in 1..i
      OBVIOUS
    <2>2. Suspect(t)'
      BY <1>3, <2>1
    <2>3. \A k \in 1..(i - 1) : ~SnapshotAt(k, t)'
      BY <1>2, <1>3 DEF SnapshotAt
    <2> QED
      BY <2>2, <2>3 DEF Noticed
  <1>4. ASSUME NEW j \in 1..(i + 1), Jump(j), \A k \in j..i : toHub[k].topic # t
        PROVE  Noticed(t, i)'
    <2>1. PICK m \in 1..i : j = m + 1
      <3>1. j # 1
        BY <1>4
      <3>2. j - 1 \in 1..i /\ j = (j - 1) + 1
        BY <3>1
      <3> QED
        BY <3>2
    <2>2. m \in 1..Len(toHub) /\ Jump(m + 1)
      BY <1>1, <1>4, <2>1
    <2>3. Jump(m)'
      BY <2>2, JumpMovesUp
    <2>4. \A k \in m..(i - 1) : k \in 1..(i - 1) /\ k + 1 \in j..i
      BY <2>1
    <2>5. \A k \in m..(i - 1) : toHub'[k].topic # t
      BY <1>2, <1>4, <2>4
    <2> QED
      BY <2>3, <2>5 DEF Noticed
  <1>5. (i + 1) - 1 = i
    OBVIOUS
  <1> QED
    BY <1>3, <1>4, <1>5 DEF Noticed

(* And when all books are marked: a loss that matters after a snapshot of  *)
(* the topic is noticed after that snapshot, whatever is handled now.      *)
LEMMA NoticedAfterGap ==
  ASSUME TypeOK, StreamIsNumbered, Receive, nextSeq' = nextSeq, UNCHANGED <<fed, owed, hole>>,
         NEW t, Suspect(t)',
         NEW i \in 1..Len(toHub), Noticed(t, i + 1)
  PROVE  Noticed(t, i)'
  <1>1. /\ Len(toHub) \in Nat \ {0}
        /\ \A k \in 1..(Len(toHub) - 1) : toHub'[k] = toHub[k + 1]
    BY OneTaken
  <1>2. \A k \in 1..(i - 1) : toHub'[k] = toHub[k + 1] /\ k + 1 \in 2..i
    BY <1>1
  <1>3. CASE \A k \in 2..i : ~SnapshotAt(k, t)
    <2>1. \A k \in 1..(i - 1) : ~SnapshotAt(k, t)'
      BY <1>2, <1>3 DEF SnapshotAt
    <2> QED
      BY <2>1 DEF Noticed
  <1>4. ASSUME NEW l \in 2..i, SnapshotAt(l, t)
        PROVE  Noticed(t, i)'
    <2>1. l \in 1..((i + 1) - 1) /\ (i + 1) - 1 = i
      OBVIOUS
    <2>2. PICK j \in 1..(i + 1) : Jump(j) /\ \A k \in j..i : toHub[k].topic # t
      BY <1>4, <2>1 DEF Noticed
    <2>3. j > l
      BY <1>4, <2>2 DEF SnapshotAt
    <2>4. PICK m \in 1..i : j = m + 1
      <3>1. j - 1 \in 1..i /\ j = (j - 1) + 1
        BY <2>3
      <3> QED
        BY <3>1
    <2>5. m \in 1..Len(toHub) /\ Jump(m + 1) /\ l \in 2..m
      BY <1>1, <2>2, <2>3, <2>4
    <2>6. toHub[l].seq > 0
      <3>1. l \in DOMAIN toHub
        BY <1>1, OneTaken
      <3> QED
        BY <1>4, <3>1 DEF SnapshotAt, StreamIsNumbered
    <2>7. Jump(m)'
      BY <2>5, <2>6, JumpMovesUp
    <2>8. \A k \in m..(i - 1) : k \in 1..(i - 1) /\ k + 1 \in j..i
      BY <2>4
    <2>9. \A k \in m..(i - 1) : toHub'[k].topic # t
      BY <1>2, <2>2, <2>8
    <2> QED
      BY <2>7, <2>9 DEF Noticed
  <1> QED
    BY <1>3, <1>4

(* What an envelope in order does to the book of a topic: its snapshot     *)
(* replaces it, its update is applied or dropped, nothing else touches it. *)
(* What is dropped belongs to a book that is marked.                       *)
LEMMA BookAfterEnvelope ==
  ASSUME ResyncInv, HandleInOrder, NEW t \in Topics
  PROVE  /\ book' \in [Topics -> [seq : {NoSeq} \cup 1..MaxSeq, stale : BOOLEAN, intact : BOOLEAN]]
         /\ missed' \subseteq Topics /\ freshDue' \subseteq Topics /\ announced' = announced
         /\ \/ /\ SnapshotAt(1, t) /\ toHub[1].seq > 0 /\ t \notin missed'
               /\ book'[t] = [seq |-> toHub[1].seq, stale |-> FALSE, intact |-> TRUE]
            \/ /\ UpdateOf(t, 1) /\ toHub[1].seq > 0 /\ ~SnapshotAt(1, t)
               /\ book[t] # NoBook /\ (t \in missed' <=> t \in missed)
               /\ book'[t].seq = toHub[1].seq /\ book'[t].stale = book[t].stale
               /\ book[t].intact /\ t \notin missed /\ ~toHub[1].hole => book'[t].intact
            \/ /\ ~SnapshotAt(1, t) /\ book'[t] = book[t]
               /\ t \in missed' => t \in missed \/ Suspect(t)
         /\ toHub[1].seq = 0 => book' = book
  <1> DEFINE e == toHub[1]
  <1>1. /\ Receive /\ toHub # <<>> /\ Head(toHub) = e /\ e \in Envelope
        /\ StreamIsNumbered /\ TypeOK /\ 1 \in DOMAIN toHub /\ 1 # Len(toHub) + 1
    <2>1. toHub \in Seq(Envelope) /\ toHub # <<>> /\ Receive
      BY DEF ResyncInv, TypeOK, HandleInOrder, Receive
    <2>2. toHub[1] \in Envelope /\ Head(toHub) = toHub[1] /\ Len(toHub) \in Nat \ {0} /\ DOMAIN toHub = 1..Len(toHub)
      BY <2>1
    <2> QED
      BY <2>1, <2>2 DEF ResyncInv
  <1>2. /\ e.kind \in {"snapshot", "update"} => e.topic \in Topics /\ e.seq > 0 /\ e.seq \in 1..MaxSeq
        /\ e.kind \in {"subscriptions", "heartbeat", "snapshot", "update"}
        /\ e.hole \in BOOLEAN
    BY <1>1 DEF StreamIsNumbered, Envelope
  <1>3. /\ book \in [Topics -> [seq : {NoSeq} \cup 1..MaxSeq, stale : BOOLEAN, intact : BOOLEAN]]
        /\ missed \subseteq Topics /\ freshDue \subseteq Topics
    BY <1>1 DEF TypeOK
  <1>4. CASE e.kind = "snapshot"
    <2>1. ApplySnapshot(e)
      BY <1>1, <1>4 DEF HandleInOrder
    <2>2. SnapshotAt(1, t) <=> e.topic = t
      BY <1>4 DEF SnapshotAt
    <2> HIDE DEF e
    <2>3. /\ book' = [book EXCEPT ![e.topic] = [seq |-> e.seq, stale |-> FALSE, intact |-> TRUE]]
          /\ missed' = missed \ {e.topic} /\ announced' = announced
          /\ freshDue' \in {freshDue \cup {e.topic}, freshDue}
      BY <2>1 DEF ApplySnapshot
    <2>4. [seq |-> e.seq, stale |-> FALSE, intact |-> TRUE]
            \in [seq : {NoSeq} \cup 1..MaxSeq, stale : BOOLEAN, intact : BOOLEAN]
      BY <1>2, <1>4
    <2>5. /\ book' \in [Topics -> [seq : {NoSeq} \cup 1..MaxSeq, stale : BOOLEAN, intact : BOOLEAN]]
          /\ e.topic = t => book'[t] = [seq |-> e.seq, stale |-> FALSE, intact |-> TRUE]
          /\ e.topic # t => book'[t] = book[t]
      BY <1>2, <1>3, <1>4, <2>3, <2>4
    <2>6. /\ missed' \subseteq Topics /\ freshDue' \subseteq Topics /\ announced' = announced
          /\ e.topic = t => t \notin missed'
          /\ e.topic # t /\ t \in missed' => t \in missed
          /\ e.seq > 0 /\ ~(e.seq = 0)
      BY <1>2, <1>3, <1>4, <2>3
    <2> USE DEF e
    <2>7. CASE e.topic = t
      BY <2>2, <2>5, <2>6, <2>7
    <2>8. CASE e.topic # t
      BY <2>2, <2>5, <2>6, <2>8
    <2> QED
      BY <2>7, <2>8
  <1>5. CASE e.kind = "update"
    <2>1. ApplyUpdate(e)
      BY <1>1, <1>5 DEF HandleInOrder
    <2>2. ~SnapshotAt(1, t) /\ (e.topic = t => UpdateOf(t, 1)) /\ NumberAt(1) = e.seq
      BY <1>1, <1>5 DEF SnapshotAt, UpdateOf, NumberAt
    <2>3. UpdateOf(t, 1) => Newer(t, 1)
      <3>1. 1 \in 1..(Len(toHub) + 1)
        BY <1>1 DEF TypeOK
      <3> QED
        BY <3>1 DEF ResyncInv, UpdatesAreNewer
    <2>4. UpdateOf(t, 1) => Suspect(t) \/ e.seq > book[t].seq
      BY <2>2, <2>3 DEF Newer
    <2> HIDE DEF e
    <2>5. freshDue' = freshDue /\ announced' = announced
      BY <2>1 DEF ApplyUpdate
    <2>6. CASE book[e.topic] = NoBook \/ e.seq <= book[e.topic].seq
      <3>1. missed' = missed \cup {e.topic} /\ book' = book
        BY <2>1, <2>6 DEF ApplyUpdate
      <3>2. t = e.topic => Suspect(t)
        <4>1. ASSUME t = e.topic, book[t] # NoBook, e.seq <= book[t].seq
              PROVE  Suspect(t)
          <5>1. book[t].seq \in Int /\ e.seq \in Int
            BY <1>2, <1>3, <1>5 DEF NoSeq
          <5> QED
            BY <2>2, <2>4, <4>1, <5>1
        <4> QED
          BY <2>6, <4>1 DEF Suspect
      <3> QED
        BY <1>2, <1>3, <1>5, <2>2, <2>5, <3>1, <3>2
    <2>7. CASE ~(book[e.topic] = NoBook \/ e.seq <= book[e.topic].seq)
      <3>1. missed' = missed
        BY <2>1, <2>7 DEF ApplyUpdate
      <3>2. PICK ok \in BOOLEAN :
              /\ ok <=> book[e.topic].intact /\ ~e.hole /\ e.topic \notin missed
              /\ book' = [book EXCEPT ![e.topic].seq = e.seq, ![e.topic].intact = ok]
        <4>1. book' = [book EXCEPT ![e.topic].seq = e.seq,
                                   ![e.topic].intact = book[e.topic].intact /\ ~e.hole /\ e.topic \notin missed]
          BY <2>1, <2>7 DEF ApplyUpdate
        <4> DEFINE good == book[e.topic].intact /\ ~e.hole /\ e.topic \notin missed
        <4>2. good \in BOOLEAN /\ book' = [book EXCEPT ![e.topic].seq = e.seq, ![e.topic].intact = good]
          BY <4>1, Zenon
        <4> QED
          BY <4>2, Zenon
      <3>3. /\ book' \in [Topics -> [seq : {NoSeq} \cup 1..MaxSeq, stale : BOOLEAN, intact : BOOLEAN]]
            /\ e.topic # t => book'[t] = book[t]
            /\ e.topic = t => book'[t].seq = e.seq /\ book'[t].stale = book[t].stale /\ book'[t].intact = ok
        BY <1>2, <1>3, <1>5, <3>2
      <3>4. e.topic = t => (book[t].intact /\ t \notin missed /\ ~e.hole => book'[t].intact)
        BY <3>2, <3>3
      <3> USE DEF e
      <3>5. CASE e.topic = t
        BY <1>2, <1>3, <1>5, <2>2, <2>5, <2>7, <3>1, <3>3, <3>4, <3>5
      <3>6. CASE e.topic # t
        BY <1>2, <1>3, <1>5, <2>2, <2>5, <2>7, <3>1, <3>3, <3>4, <3>6
      <3> QED
        BY <3>5, <3>6
    <2> QED
      BY <2>6, <2>7
  <1>6. CASE e.kind \notin {"snapshot", "update"}
    <2>1. UNCHANGED books
      BY <1>1, <1>6 DEF HandleInOrder
    <2>2. ~SnapshotAt(1, t)
      BY <1>6 DEF SnapshotAt
    <2> QED
      BY <1>3, <2>1, <2>2 DEF books
  <1> QED
    BY <1>4, <1>5, <1>6

(* The next number, or the first, or none: an update that is applied to a  *)
(* book that is not marked is newer and follows what was applied before.   *)
LEMMA InOrderKeepsInv ==
  ASSUME ResyncInv, HandleInOrder
  PROVE  ResyncInv'
  <1> USE DEF ResyncInv
  <1> DEFINE e == toHub[1]
  <1>1. /\ Receive /\ connected /\ toHub # <<>>
        /\ UNCHANGED <<nextSeq, fed, owed, hole, losses, connected, reconnects, toUpstream,
                       resubscribePending, gapSeq>>
    BY DEF HandleInOrder, Receive, upstream
  <1>2. /\ StreamIsNumbered' /\ toHub' \in Seq(Envelope)
        /\ Len(toHub) \in Nat \ {0} /\ Len(toHub') = Len(toHub) - 1
        /\ DOMAIN toHub = 1..Len(toHub) /\ DOMAIN toHub' = 1..(Len(toHub) - 1)
        /\ \A i \in 1..(Len(toHub) - 1) : toHub'[i] = toHub[i + 1]
        /\ Head(toHub) = e /\ e \in Envelope
        /\ \A i \in 1..Len(toHub) : toHub[i].seq \in Nat
    BY <1>1, OneTaken
  <1>4. /\ lastSeq' = IF e.seq > 0 THEN e.seq ELSE lastSeq
        /\ e.seq > 0 => lastSeq = NoSeq \/ e.seq = lastSeq + 1
    BY <1>2 DEF HandleInOrder, IsGap
  <1>5. e.seq \in Nat /\ e.seq <= MaxSeq /\ e.seq < nextSeq /\ nextSeq \in 1..(MaxSeq + 1)
    <2>1. 1 \in 1..Len(toHub) /\ 1 \in DOMAIN toHub
      BY <1>2
    <2>2. e.seq \in 0..MaxSeq /\ nextSeq \in 1..(MaxSeq + 1)
      BY <2>1, OnTheWay
    <2>3. e.seq < nextSeq
      BY <2>1 DEF StreamIsNumbered
    <2> QED
      BY <2>2, <2>3
  <1>6. ~Jump(1)
    <2>1. NumberAt(1) = e.seq /\ ~\E k \in 1..(1 - 1) : toHub[k].seq > 0
      BY <1>2 DEF NumberAt
    <2>2. lastSeq \in Int
      BY DEF TypeOK, NoSeq
    <2>3. ~(e.seq > 0 /\ lastSeq # NoSeq /\ lastSeq # e.seq - 1)
      BY <1>4, <1>5, <2>2
    <2> QED
      BY <2>1, <2>3 DEF Jump
  <1>7. ASSUME NEW t \in Topics
        PROVE  \/ SnapshotAt(1, t) /\ ~Suspect(t)' /\ t \notin missed' /\ book'[t].intact
               \/ ~SnapshotAt(1, t) /\ (Suspect(t)' <=> Suspect(t)) /\ (t \in missed' => Suspect(t)')
    <2>1. t \in missed => Suspect(t)
      BY DEF UpdatesAreNewer
    <2>2. CASE /\ SnapshotAt(1, t) /\ e.seq > 0 /\ t \notin missed'
               /\ book'[t] = [seq |-> e.seq, stale |-> FALSE, intact |-> TRUE]
      <3>1. book'[t].seq # NoBook.seq
        BY <2>2 DEF NoBook, NoSeq
      <3>2. book'[t] # NoBook
        BY <3>1
      <3> QED
        BY <2>2, <3>2 DEF Suspect
    <2>3. CASE /\ e.seq > 0 /\ ~SnapshotAt(1, t) /\ book[t] # NoBook
               /\ t \in missed' <=> t \in missed
               /\ book'[t].seq = e.seq /\ book'[t].stale = book[t].stale
      <3>1. book'[t].seq # NoBook.seq
        BY <2>3 DEF NoBook, NoSeq
      <3>2. book'[t] # NoBook
        BY <3>1
      <3> QED
        BY <2>1, <2>3, <3>2 DEF Suspect
    <2>4. CASE /\ ~SnapshotAt(1, t) /\ book'[t] = book[t]
               /\ t \in missed' => t \in missed \/ Suspect(t)
      BY <2>1, <2>4 DEF Suspect
    <2> HIDE DEF ResyncInv, e
    <2> QED
      BY <2>2, <2>3, <2>4, BookAfterEnvelope DEF e
  <1>8. TypeOK'
    <2>1. /\ book' \in [Topics -> [seq : {NoSeq} \cup 1..MaxSeq, stale : BOOLEAN, intact : BOOLEAN]]
          /\ missed' \subseteq Topics /\ freshDue' \subseteq Topics /\ announced' \subseteq Topics
      <3>1. announced \subseteq Topics
        BY DEF TypeOK
      <3>2. CASE Topics # {}
        BY <3>1, <3>2, BookAfterEnvelope
      <3>3. CASE Topics = {}
        <4>1. e.kind \notin {"snapshot", "update"}
          BY <1>2, <3>3 DEF StreamIsNumbered
        <4>2. UNCHANGED books
          BY <1>2, <4>1 DEF HandleInOrder
        <4> QED
          BY <4>2 DEF books, TypeOK
      <3> QED
        BY <3>2, <3>3
    <2>2. lastSeq' \in {NoSeq} \cup 1..MaxSeq
      BY <1>4, <1>5, SMTT(30) DEF TypeOK
    <2> QED
      BY <1>1, <1>2, <2>1, <2>2 DEF TypeOK
  <1>9. LossesAreNoticed'
    <2> SUFFICES ASSUME NEW t \in Topics, NEW i \in 1..Len(toHub), LostBefore(t, i)'
                 PROVE  Noticed(t, i)'
      BY <1>2 DEF LossesAreNoticed
    <2>1. LostBefore(t, i + 1) /\ i + 1 \in 1..(Len(toHub) + 1)
      BY <1>1, MovedUp
    <2>2. Noticed(t, i + 1)
      BY <2>1 DEF LossesAreNoticed
    <2>3. Suspect(t) /\ ~SnapshotAt(1, t) => Suspect(t)'
      BY <1>7
    <2> QED
      BY <1>1, <1>4, <1>6, <2>2, <2>3, NoticedInOrder
  <1>10. UpdatesAreNewer'
    <2> SUFFICES ASSUME NEW t \in Topics, NEW i \in 1..Len(toHub), UpdateOf(t, i)'
                 PROVE  Newer(t, i)'
      <3>1. missed' \subseteq Topics
        BY <1>8 DEF TypeOK
      <3>2. \A t \in missed' : Suspect(t)'
        BY <1>7, <3>1
      <3> QED
        BY <1>2, <3>2 DEF UpdatesAreNewer
    <2>1. UpdateOf(t, i + 1) /\ i + 1 \in 1..(Len(toHub) + 1) /\ NumberAt(i)' = NumberAt(i + 1)
      BY <1>1, MovedUp
    <2>2. Newer(t, i + 1) /\ (i + 1) - 1 = i
      BY <2>1 DEF UpdatesAreNewer
    <2>3. NumberAt(i + 1) > e.seq
      <3>1. CASE i + 1 = Len(toHub) + 1
        BY <1>5, <3>1 DEF NumberAt
      <3>2. CASE i + 1 # Len(toHub) + 1
        <4>1. 1 < i + 1 /\ i + 1 \in DOMAIN toHub /\ 1 \in DOMAIN toHub
          BY <1>2, <3>2
        <4>2. toHub[i + 1].seq > 0
          BY <2>1, <3>2, <4>1 DEF UpdateOf, StreamIsNumbered
        <4> QED
          BY <3>2, <4>1, <4>2 DEF NumberAt, StreamIsNumbered
      <3> QED
        BY <3>1, <3>2
    <2>4. CASE book'[t].seq = e.seq
      BY <2>1, <2>3, <2>4 DEF Newer
    <2>5. CASE ~SnapshotAt(1, t) /\ book'[t] = book[t]
      <3>1. CASE Suspect(t)
        BY <2>5, <3>1 DEF Suspect, Newer
      <3>2. CASE \E k \in 1..i : SnapshotAt(k, t)
        <4>1. PICK k \in 2..i : SnapshotAt(k, t)
          BY <2>5, <3>2
        <4>2. k - 1 \in 1..(i - 1) /\ k - 1 \in 1..(Len(toHub) - 1) /\ (k - 1) + 1 = k
          BY <1>2
        <4>3. toHub'[k - 1] = toHub[k]
          BY <1>2, <4>2
        <4>4. \E l \in 1..(i - 1) : SnapshotAt(l, t)'
          BY <4>1, <4>2, <4>3 DEF SnapshotAt
        <4> QED
          BY <4>4 DEF Newer
      <3>3. CASE NumberAt(i + 1) > book[t].seq
        BY <2>1, <2>5, <3>3 DEF Newer
      <3> QED
        BY <2>2, <3>1, <3>2, <3>3 DEF Newer
    <2> HIDE DEF ResyncInv
    <2>6. book'[t].seq = e.seq \/ (~SnapshotAt(1, t) /\ book'[t] = book[t])
      BY BookAfterEnvelope
    <2> QED
      BY <2>4, <2>5, <2>6
  <1>11. SequenceIsKept'
    <2>1. /\ resubscribePending =>
               /\ gapSeq > 0 /\ gapSeq < nextSeq
               /\ \A k \in 1..Len(toHub) : toHub[k].seq > 0 => gapSeq < toHub[k].seq
               /\ AllSuspect \/ gapSeq < lastSeq
          /\ \/ NothingHandled /\ ~resubscribePending
             \/ InStep
             \/ AllSuspect /\ resubscribePending /\ lastSeq # NoSeq
      BY <1>1, <1>2 DEF SequenceIsKept
    <2>0. \A k \in DOMAIN toHub' : k + 1 \in 1..Len(toHub) /\ toHub'[k] = toHub[k + 1]
      BY <1>2
    <2>2. resubscribePending => \A k \in DOMAIN toHub' : toHub'[k].seq > 0 => gapSeq < toHub'[k].seq
      BY <2>0, <2>1
    <2>3. CASE e.seq > 0
      <3>1. lastSeq' = e.seq /\ lastSeq' # NoSeq
        BY <1>4, <2>3 DEF NoSeq
      <3>2. \A k \in DOMAIN toHub' : toHub'[k].seq > 0 => e.seq < toHub'[k].seq
        <4>1. ASSUME NEW k \in DOMAIN toHub', toHub'[k].seq > 0
              PROVE  e.seq < toHub'[k].seq
          <5>1. k + 1 \in DOMAIN toHub /\ 1 \in DOMAIN toHub /\ 1 < k + 1 /\ toHub'[k] = toHub[k + 1]
            BY <1>2
          <5> QED
            BY <4>1, <5>1 DEF StreamIsNumbered
        <4> QED
          BY <4>1
      <3>3. InStep'
        BY <1>1, <1>5, <3>1, <3>2 DEF InStep
      <3>4. resubscribePending => gapSeq < lastSeq'
        BY <1>2, <2>1, <2>3, <3>1
      <3> QED
        BY <1>1, <2>1, <2>2, <3>3, <3>4 DEF SequenceIsKept
    <2>4. CASE e.seq = 0
      <3>1. lastSeq' = lastSeq
        BY <1>4, <2>4
      <3>2. AllSuspect => AllSuspect'
        <4>1. ASSUME NEW t \in Topics, Suspect(t)
              PROVE  Suspect(t)'
          <5> HIDE DEF ResyncInv
          <5>1. book' = book
            BY <2>4, BookAfterEnvelope
          <5> QED
            BY <4>1, <5>1 DEF Suspect
        <4> QED
          BY <4>1 DEF AllSuspect
      <3>3. NothingHandled => NothingHandled'
        <4>1. ASSUME NEW k \in 1..Len(toHub), toHub[k].seq = 1
              PROVE  NothingHandled'
          <5>1. k # 1
            BY <2>4, <4>1
          <5>2. k - 1 \in 1..(Len(toHub) - 1) /\ (k - 1) + 1 = k
            BY <1>2, <5>1
          <5>3. toHub'[k - 1].seq = 1 /\ k - 1 \in DOMAIN toHub'
            BY <1>2, <4>1, <5>2
          <5> QED
            BY <5>3 DEF NothingHandled
        <4> QED
          BY <1>1, <1>2, <4>1 DEF NothingHandled
      <3>4. InStep => InStep'
        BY <1>1, <1>2, <2>0, <3>1 DEF InStep
      <3> QED
        BY <1>1, <2>1, <2>2, <3>1, <3>2, <3>3, <3>4 DEF SequenceIsKept
    <2> QED
      BY <1>5, <2>3, <2>4
  <1>12. RequestsAlternate'
    BY <1>1 DEF RequestsAlternate
  <1>13. FreshBooksAreIntact'
    <2> SUFFICES ASSUME NEW t \in Topics
                 PROVE  book'[t].stale \/ book'[t].intact
      BY DEF FreshBooksAreIntact
    <2>1. book[t].stale \/ book[t].intact
      BY DEF FreshBooksAreIntact
    <2>2. CASE /\ UpdateOf(t, 1) /\ book[t] # NoBook /\ book'[t].stale = book[t].stale
               /\ book[t].intact /\ t \notin missed /\ ~e.hole => book'[t].intact
      <3>1. CASE Suspect(t)
        BY <2>2, <3>1 DEF Suspect
      <3>2. CASE ~Suspect(t)
        <4>1. t \notin missed /\ book[t].intact
          BY <2>1, <3>2 DEF UpdatesAreNewer, Suspect
        <4>2. ~Noticed(t, 1)
          BY <1>6, <3>2 DEF Noticed
        <4>3. ~LostBefore(t, 1) /\ 1 # Len(toHub) + 1
          BY <1>2, <4>2 DEF LossesAreNoticed
        <4>4. ~e.hole
          BY <2>2, <4>3 DEF LostBefore, UpdateOf
        <4> QED
          BY <2>2, <4>1, <4>4
      <3> QED
        BY <3>1, <3>2
    <2> HIDE DEF ResyncInv, e
    <2>3. \/ book'[t] = [seq |-> e.seq, stale |-> FALSE, intact |-> TRUE]
          \/ /\ UpdateOf(t, 1) /\ book[t] # NoBook /\ book'[t].stale = book[t].stale
             /\ book[t].intact /\ t \notin missed /\ ~e.hole => book'[t].intact
          \/ book'[t] = book[t]
      BY BookAfterEnvelope DEF e
    <2> QED
      BY <2>1, <2>2, <2>3
  <1>14. NoTopicAbandoned'
    <2> SUFFICES ASSUME NEW t \in Topics, Suspect(t)'
                 PROVE  SnapshotComing(t)'
      BY DEF NoTopicAbandoned, Suspect
    <2>1. ~SnapshotAt(1, t) /\ Suspect(t)
      BY <1>7
    <2>2. SnapshotComing(t)
      BY <2>1 DEF NoTopicAbandoned, Suspect
    <2>3. ASSUME NEW k \in 1..Len(toHub), SnapshotAt(k, t)
          PROVE  \E i \in DOMAIN toHub' : toHub'[i].kind = "snapshot" /\ toHub'[i].topic = t
      <3>1. k # 1
        BY <2>1, <2>3
      <3>2. k - 1 \in 1..(Len(toHub) - 1) /\ (k - 1) + 1 = k
        BY <1>2, <3>1
      <3>3. toHub'[k - 1] = toHub[k] /\ k - 1 \in DOMAIN toHub'
        BY <1>2, <3>2
      <3> QED
        BY <2>3, <3>3 DEF SnapshotAt
    <2> QED
      BY <1>1, <1>2, <2>2, <2>3 DEF SnapshotComing, SnapshotAt
  <1> QED
    BY <1>2, <1>8, <1>9, <1>10, <1>11, <1>12, <1>13, <1>14

(* After a gap every book is marked, whatever the envelope holds.          *)
LEMMA BooksAfterGap ==
  ASSUME ResyncInv, Receive, MarkAllStale, Discard(Head(toHub)),
         UNCHANGED <<upstream, freshDue>>
  PROVE  /\ book' \in [Topics -> [seq : {NoSeq} \cup 1..MaxSeq, stale : BOOLEAN, intact : BOOLEAN]]
         /\ missed' \subseteq Topics /\ announced' \subseteq Topics
         /\ AllSuspect' /\ FreshBooksAreIntact' /\ LossesAreNoticed' /\ UpdatesAreNewer'
  <1> USE DEF ResyncInv
  <1>1. UNCHANGED <<nextSeq, fed, owed, hole, losses>>
    BY DEF upstream
  <1>2. /\ StreamIsNumbered' /\ Len(toHub) \in Nat \ {0} /\ Len(toHub') = Len(toHub) - 1
        /\ Head(toHub) = toHub[1] /\ 1 \in DOMAIN toHub
    BY <1>1, OneTaken
  <1>4. book \in [Topics -> [seq : {NoSeq} \cup 1..MaxSeq, stale : BOOLEAN, intact : BOOLEAN]]
    BY DEF TypeOK
  <1>5. book' \in [Topics -> [seq : {NoSeq} \cup 1..MaxSeq, stale : BOOLEAN, intact : BOOLEAN]]
    BY <1>4 DEF MarkAllStale
  <1>6. missed' \subseteq Topics /\ announced' \subseteq Topics
    BY <1>2 DEF TypeOK, MarkAllStale, Discard, StreamIsNumbered
  <1>7. ASSUME NEW t \in Topics
        PROVE  book'[t] = NoBook \/ book'[t].stale
    BY <1>4 DEF MarkAllStale
  <1>8. AllSuspect'
    BY <1>7 DEF AllSuspect, Suspect
  <1>9. FreshBooksAreIntact'
    BY <1>7 DEF FreshBooksAreIntact, NoBook
  <1>10. LossesAreNoticed'
    <2> SUFFICES ASSUME NEW t \in Topics, NEW i \in 1..Len(toHub), LostBefore(t, i)'
                 PROVE  Noticed(t, i)'
      BY <1>2 DEF LossesAreNoticed
    <2>1. LostBefore(t, i + 1) /\ i + 1 \in 1..(Len(toHub) + 1)
      BY <1>1, MovedUp
    <2>2. Noticed(t, i + 1)
      BY <2>1 DEF LossesAreNoticed
    <2>3. Suspect(t)'
      BY <1>8 DEF AllSuspect
    <2> QED
      BY <1>1, <2>2, <2>3, NoticedAfterGap
  <1>11. UpdatesAreNewer'
    BY <1>6, <1>8 DEF UpdatesAreNewer, Newer, AllSuspect
  <1> QED
    BY <1>5, <1>6, <1>8, <1>9, <1>10, <1>11

(* A gap: the topics are given up and will be asked for again; the number  *)
(* it jumped to is behind everything still to come.                        *)
LEMMA GapKeepsInv ==
  ASSUME ResyncInv, HandleGap \/ HandleGapWhilePending
  PROVE  ResyncInv'
  <1> USE DEF ResyncInv
  <1> DEFINE e == toHub[1]
  <1>1. /\ Receive /\ IsGap(Head(toHub)) /\ MarkAllStale /\ Discard(Head(toHub))
        /\ connected /\ UNCHANGED <<upstream, connected, reconnects, freshDue>>
        /\ resubscribePending'
    BY DEF HandleGap, HandleGapWhilePending, Receive, TypeOK
  <1>2. UNCHANGED <<nextSeq, fed, owed, hole, losses>>
    BY <1>1 DEF upstream
  <1>3. /\ StreamIsNumbered' /\ toHub' \in Seq(Envelope)
        /\ Len(toHub) \in Nat \ {0} /\ Len(toHub') = Len(toHub) - 1
        /\ DOMAIN toHub = 1..Len(toHub) /\ DOMAIN toHub' = 1..(Len(toHub) - 1)
        /\ \A i \in 1..(Len(toHub) - 1) : toHub'[i] = toHub[i + 1]
        /\ Head(toHub) = e /\ e \in Envelope
    BY <1>1, <1>2, OneTaken
  <1>4. /\ book' \in [Topics -> [seq : {NoSeq} \cup 1..MaxSeq, stale : BOOLEAN, intact : BOOLEAN]]
        /\ missed' \subseteq Topics /\ announced' \subseteq Topics
        /\ AllSuspect' /\ FreshBooksAreIntact' /\ LossesAreNoticed' /\ UpdatesAreNewer'
    BY <1>1, BooksAfterGap
  <1>5. /\ e.seq > 0 /\ e.seq \in 1..MaxSeq /\ e.seq < nextSeq /\ lastSeq # NoSeq
        /\ nextSeq \in 1..(MaxSeq + 1)
    <2>1. e.seq > 0 /\ lastSeq # NoSeq /\ e.seq \in 0..MaxSeq
      BY <1>1, <1>3 DEF IsGap, Envelope
    <2>2. nextSeq \in 1..(MaxSeq + 1) /\ 1 \in DOMAIN toHub
      BY <1>3 DEF TypeOK
    <2>3. e.seq < nextSeq
      BY <2>2 DEF StreamIsNumbered
    <2> QED
      BY <2>1, <2>2, <2>3
  <1>6. \A k \in DOMAIN toHub' : toHub'[k].seq > 0 => e.seq < toHub'[k].seq
    <2>1. ASSUME NEW k \in DOMAIN toHub', toHub'[k].seq > 0
          PROVE  e.seq < toHub'[k].seq
      <3>1. k + 1 \in DOMAIN toHub /\ 1 \in DOMAIN toHub /\ 1 < k + 1 /\ toHub'[k] = toHub[k + 1]
        BY <1>3
      <3> QED
        BY <2>1, <3>1 DEF StreamIsNumbered
    <2> QED
      BY <2>1
  <1>7. NoTopicAbandoned'
    BY <1>1 DEF NoTopicAbandoned, SnapshotComing
  <1>8. CASE HandleGap
    <2>1. /\ ~resubscribePending /\ gapSeq' = e.seq /\ lastSeq' = lastSeq
          /\ toUpstream' = Append(toUpstream, "unsubscribe") /\ resubscribePending' = TRUE
      BY <1>3, <1>8 DEF HandleGap
    <2>2. /\ toUpstream' \in Seq({"subscribe", "unsubscribe"})
          /\ Len(toUpstream) \in Nat /\ Len(toUpstream') = Len(toUpstream) + 1
          /\ \A i \in 1..Len(toUpstream) : toUpstream'[i] = toUpstream[i]
          /\ toUpstream'[Len(toUpstream) + 1] = "unsubscribe"
      BY <2>1, Appended DEF TypeOK
    <2>3. TypeOK'
      <3>1. /\ UNCHANGED <<nextSeq, fed, owed, hole, losses, connected, reconnects, freshDue, lastSeq>>
            /\ gapSeq' \in 0..MaxSeq /\ resubscribePending' \in BOOLEAN
        BY <1>1, <1>2, <1>5, <2>1
      <3> QED
        BY <1>3, <1>4, <2>2, <3>1, SMTT(30) DEF TypeOK
    <2>4. SequenceIsKept'
      BY <1>1, <1>2, <1>4, <1>5, <1>6, <2>1 DEF SequenceIsKept
    <2>5. RequestsAlternate'
      <3>1. CASE toUpstream = <<>>
        <4>1. toUpstream' = <<"unsubscribe">>
          BY <2>1, <3>1
        <4>2. Len(toUpstream') = 1 /\ toUpstream'[1] = "unsubscribe" /\ toUpstream' # <<>>
          BY <4>1, OneRequest
        <4> QED
          BY <1>1, <2>1, <4>2 DEF RequestsAlternate
      <3>2. CASE toUpstream # <<>>
        <4>1. Len(toUpstream) > 0 /\ toUpstream' # <<>>
          BY <2>2, <3>2 DEF TypeOK
        <4>2. toUpstream[Len(toUpstream)] # "unsubscribe"
          BY <2>1, <3>2 DEF RequestsAlternate
        <4>3. \A i \in 1..(Len(toUpstream') - 1) : toUpstream'[i] # toUpstream'[i + 1]
          <5>1. ASSUME NEW i \in 1..Len(toUpstream), i # Len(toUpstream)
                PROVE  toUpstream'[i] # toUpstream'[i + 1]
            <6>1. i \in 1..(Len(toUpstream) - 1) /\ i + 1 \in 1..Len(toUpstream)
              BY <2>2, <5>1
            <6> QED
              BY <2>2, <6>1 DEF RequestsAlternate
          <5>2. Len(toUpstream) \in 1..Len(toUpstream)
            BY <2>2, <4>1
          <5> QED
            BY <2>2, <4>2, <5>1, <5>2
        <4>4. toUpstream'[1] = toUpstream[1]
          BY <2>2, <4>1
        <4> QED
          BY <1>1, <1>2, <2>1, <2>2, <3>2, <4>1, <4>3, <4>4 DEF RequestsAlternate
      <3> QED
        BY <3>1, <3>2
    <2> QED
      BY <1>3, <1>4, <1>7, <2>3, <2>4, <2>5
  <1>9. CASE HandleGapWhilePending
    <2>1. /\ resubscribePending /\ lastSeq' = e.seq /\ lastSeq' # NoSeq
          /\ UNCHANGED <<toUpstream, resubscribePending, gapSeq>>
      BY <1>3, <1>5, <1>9 DEF HandleGapWhilePending, NoSeq
    <2>2. TypeOK'
      BY <1>1, <1>2, <1>3, <1>4, <1>5, <2>1, SMTT(30) DEF TypeOK
    <2>3. SequenceIsKept'
      <3>1. InStep'
        BY <1>2, <1>5, <1>6, <2>1 DEF InStep
      <3>2. gapSeq > 0 /\ gapSeq < nextSeq /\ gapSeq < e.seq
        BY <1>1, <1>3, <1>5, <2>1 DEF SequenceIsKept
      <3>3. gapSeq \in Nat /\ \A k \in DOMAIN toHub' : toHub'[k].seq \in Nat
        <4>1. \A k \in DOMAIN toHub' : k + 1 \in 1..Len(toHub) /\ toHub'[k] = toHub[k + 1]
          BY <1>3
        <4> QED
          BY <4>1, OnTheWay
      <3>4. \A k \in DOMAIN toHub' : toHub'[k].seq > 0 => gapSeq < toHub'[k].seq
        BY <1>5, <1>6, <3>2, <3>3
      <3> QED
        BY <1>1, <1>2, <1>4, <2>1, <3>1, <3>2, <3>4 DEF SequenceIsKept
    <2>4. RequestsAlternate'
      BY <1>1, <1>2, <2>1 DEF RequestsAlternate
    <2> QED
      BY <1>3, <1>4, <1>7, <2>2, <2>3, <2>4
  <1> QED
    BY <1>8, <1>9

-----------------------------------------------------------------------------
(* Timers, announcements and the connection *)

(* The wait ends and undoes the reset: the number kept may be an old one,  *)
(* so the next envelope is a gap again; it never makes a lost update look  *)
(* like the next one.                                                      *)
LEMMA WaitEndsKeepsInv ==
  ASSUME ResyncInv, ResyncWaitEnds
  PROVE  ResyncInv'
  <1> USE DEF ResyncInv
  <1>1. /\ resubscribePending /\ resubscribePending' = FALSE
        /\ toUpstream' = IF connected THEN Append(toUpstream, "subscribe") ELSE toUpstream
        /\ lastSeq' = gapSeq /\ gapSeq' = 0
        /\ UNCHANGED <<nextSeq, fed, owed, hole, losses, connected, reconnects, toHub,
                       book, missed, freshDue, announced>>
    BY DEF ResyncWaitEnds, upstream, books
  <1>2. /\ gapSeq \in 1..MaxSeq
        /\ connected => gapSeq < nextSeq /\ \A k \in DOMAIN toHub : toHub[k].seq > 0 => gapSeq < toHub[k].seq
        /\ toHub \in Seq(Envelope) /\ Len(toHub) \in Nat /\ DOMAIN toHub = 1..Len(toHub)
        /\ nextSeq \in 1..(MaxSeq + 1)
    BY <1>1 DEF SequenceIsKept, TypeOK
  <1>3. /\ Len(toUpstream) \in Nat
        /\ toUpstream' \in Seq({"subscribe", "unsubscribe"})
        /\ connected => /\ Len(toUpstream') = Len(toUpstream) + 1
                        /\ DOMAIN toUpstream' = 1..(Len(toUpstream) + 1)
                        /\ \A i \in 1..Len(toUpstream) : toUpstream'[i] = toUpstream[i]
                        /\ toUpstream'[Len(toUpstream) + 1] = "subscribe"
    <2>1. Len(toUpstream) \in Nat /\ toUpstream \in Seq({"subscribe", "unsubscribe"})
      BY DEF TypeOK
    <2>2. CASE connected
      <3>1. toUpstream' = Append(toUpstream, "subscribe")
        BY <1>1, <2>2
      <3> QED
        BY <2>1, <3>1, Appended
    <2>3. CASE ~connected
      BY <1>1, <2>1, <2>3
    <2> QED
      BY <2>2, <2>3
  <1>4. TypeOK'
    <2>1. /\ UNCHANGED <<nextSeq, fed, owed, hole, losses, connected, reconnects, toHub,
                         book, missed, freshDue, announced>>
      BY <1>1
    <2>2. resubscribePending' \in BOOLEAN
      BY <1>1
    <2>3. lastSeq' \in {NoSeq} \cup 1..MaxSeq
      BY <1>1, <1>2
    <2>4. MaxSeq \in Nat /\ gapSeq' = 0
      BY <1>1
    <2>5. gapSeq' \in 0..MaxSeq
      BY <2>4
    <2> QED
      BY <1>3, <2>1, <2>2, <2>3, <2>5 DEF TypeOK
  <1>5. StreamIsNumbered'
    BY <1>1 DEF StreamIsNumbered
  <1>6. LossesAreNoticed'
    <2> SUFFICES ASSUME NEW t \in Topics, NEW i \in 1..(Len(toHub) + 1), LostBefore(t, i)'
                 PROVE  Noticed(t, i)'
      BY <1>1 DEF LossesAreNoticed
    <2>1. connected
      BY <1>1, <1>2 DEF LostBefore, SequenceIsKept
    <2>2. LostBefore(t, i)
      BY <1>1 DEF LostBefore
    <2>3. Noticed(t, i)
      BY <2>2 DEF LossesAreNoticed
    <2>4. CASE Suspect(t) /\ \A k \in 1..(i - 1) : ~SnapshotAt(k, t)
      BY <1>1, <2>4 DEF Noticed, Suspect, SnapshotAt
    <2>5. ASSUME NEW j \in 1..i, Jump(j), \A k \in j..(i - 1) : toHub[k].topic # t
          PROVE  Noticed(t, i)'
      <3>1. CASE Jump(j)'
        BY <1>1, <2>5, <3>1 DEF Noticed
      <3>2. CASE \E k \in 1..(j - 1) : toHub[k].seq > 0
        <4>1. Jump(j)'
          BY <1>1, <2>5, <3>2 DEF Jump, NumberAt
        <4> QED
          BY <3>1, <4>1
      <3>3. CASE /\ \A k \in 1..(j - 1) : ~(toHub[k].seq > 0)
                 /\ AllSuspect
        <4>1. \A k \in 1..(i - 1) : ~SnapshotAt(k, t)
          <5>1. ASSUME NEW k \in 1..(i - 1), SnapshotAt(k, t)
                PROVE  FALSE
            <6>1. k \in DOMAIN toHub
              BY <1>2
            <6>2. toHub[k].seq > 0 /\ toHub[k].topic = t
              BY <5>1, <6>1 DEF SnapshotAt, StreamIsNumbered
            <6>3. k \in 1..(j - 1) \/ k \in j..(i - 1)
              OBVIOUS
            <6> QED
              BY <2>5, <3>3, <6>2, <6>3
          <5> QED
            BY <5>1
        <4> QED
          BY <1>1, <3>3, <4>1 DEF Noticed, AllSuspect, Suspect, SnapshotAt
      <3>4. CASE /\ \A k \in 1..(j - 1) : ~(toHub[k].seq > 0)
                 /\ ~AllSuspect
        <4>1. InStep /\ gapSeq < lastSeq
          BY <1>1, <2>1, <3>4 DEF SequenceIsKept
        <4>2. NumberAt(j) > 0 /\ lastSeq # NumberAt(j) - 1
          BY <2>5, <3>4 DEF Jump
        <4>3. lastSeq < NumberAt(j) /\ NumberAt(j) \in Int /\ lastSeq \in Int
          <5>1. CASE j = Len(toHub) + 1
            BY <1>2, <4>1, <5>1 DEF NumberAt, InStep, TypeOK, NoSeq
          <5>2. CASE j # Len(toHub) + 1
            <6>1. j \in DOMAIN toHub /\ j \in 1..Len(toHub) /\ NumberAt(j) = toHub[j].seq
              BY <1>2, <5>2 DEF NumberAt
            <6>2. toHub[j].seq \in Int /\ lastSeq \in Int
              BY <6>1, OnTheWay
            <6> QED
              BY <4>1, <4>2, <6>1, <6>2 DEF InStep
          <5> QED
            BY <5>1, <5>2
        <4>4. gapSeq # NumberAt(j) - 1 /\ gapSeq # NoSeq
          BY <1>2, <4>1, <4>2, <4>3 DEF NoSeq
        <4>5. NumberAt(j)' = NumberAt(j)
          BY <1>1 DEF NumberAt
        <4>6. Jump(j)'
          BY <1>1, <2>5, <4>4, <4>5 DEF Jump
        <4> QED
          BY <3>1, <4>6
      <3> QED
        BY <3>2, <3>3, <3>4
    <2> QED
      BY <2>3, <2>4, <2>5 DEF Noticed
  <1>7. UpdatesAreNewer'
    BY <1>1 DEF UpdatesAreNewer, UpdateOf, Newer, Suspect, SnapshotAt, NumberAt
  <1>8. SequenceIsKept'
    BY <1>1, <1>2 DEF SequenceIsKept, InStep, NoSeq
  <1>9. RequestsAlternate'
    <2>1. CASE ~connected
      BY <1>1, <2>1 DEF RequestsAlternate
    <2>2. CASE connected /\ toUpstream = <<>>
      <3>1. toUpstream' = <<"subscribe">>
        BY <1>1, <2>2
      <3>2. Len(toUpstream') = 1 /\ toUpstream'[1] = "subscribe" /\ toUpstream' # <<>>
        BY <3>1, OneRequest
      <3>3. fed' = {}
        BY <1>1, <2>2 DEF RequestsAlternate
      <3> QED
        BY <1>1, <2>2, <3>2, <3>3 DEF RequestsAlternate
    <2>3. CASE connected /\ toUpstream # <<>>
      <3>1. Len(toUpstream) > 0 /\ toUpstream' # <<>>
        BY <1>3, <2>3 DEF TypeOK
      <3>2. toUpstream[Len(toUpstream)] = "unsubscribe"
        BY <1>1, <2>3 DEF RequestsAlternate
      <3>3. \A i \in 1..(Len(toUpstream') - 1) : toUpstream'[i] # toUpstream'[i + 1]
        <4>1. ASSUME NEW i \in 1..Len(toUpstream), i # Len(toUpstream)
              PROVE  toUpstream'[i] # toUpstream'[i + 1]
          <5>1. i \in 1..(Len(toUpstream) - 1) /\ i + 1 \in 1..Len(toUpstream)
            BY <1>3, <4>1
          <5> QED
            BY <1>3, <2>3, <5>1 DEF RequestsAlternate
        <4>2. Len(toUpstream) \in 1..Len(toUpstream)
          BY <1>3, <3>1
        <4> QED
          BY <1>3, <2>3, <3>2, <4>1, <4>2
      <3>4. toUpstream'[1] = toUpstream[1]
        BY <1>3, <2>3, <3>1
      <3> QED
        BY <1>1, <1>3, <2>3, <3>1, <3>3, <3>4 DEF RequestsAlternate
    <2> QED
      BY <2>1, <2>2, <2>3
  <1>10. FreshBooksAreIntact'
    BY <1>1 DEF FreshBooksAreIntact
  <1>11. NoTopicAbandoned'
    <2>1. connected => Len(toUpstream) + 1 \in DOMAIN toUpstream'
      BY <1>3
    <2> QED
      BY <1>1, <1>3, <2>1 DEF NoTopicAbandoned, SnapshotComing
  <1> QED
    BY <1>4, <1>5, <1>6, <1>7, <1>8, <1>9, <1>10, <1>11

(* An announcement says something of the store and changes nothing in it;  *)
(* nor does a step that is not the hub's or upstream's.                    *)
LEMMA AnnouncementKeepsInv ==
  ASSUME ResyncInv, (\E t \in Topics : AnnounceFresh(t)) \/ UNCHANGED vars
  PROVE  ResyncInv'
  <1> USE DEF ResyncInv
  <1>1. /\ UNCHANGED <<nextSeq, fed, owed, hole, losses, connected, reconnects, toUpstream, toHub,
                       lastSeq, resubscribePending, gapSeq, book, missed>>
        /\ freshDue' \subseteq Topics /\ announced' \subseteq Topics
    BY DEF AnnounceFresh, vars, upstream, connection, books, TypeOK
  <1>2. TypeOK'
    BY <1>1 DEF TypeOK
  <1>3. StreamIsNumbered' /\ RequestsAlternate' /\ FreshBooksAreIntact' /\ NoTopicAbandoned'
    BY <1>1 DEF StreamIsNumbered, RequestsAlternate, FreshBooksAreIntact, NoTopicAbandoned, SnapshotComing
  <1>4. LossesAreNoticed'
    <2>1. ASSUME NEW j
          PROVE  Jump(j) => Jump(j)'
      BY <1>1 DEF Jump, NumberAt
    <2>2. ASSUME NEW t, NEW i, Noticed(t, i)
          PROVE  Noticed(t, i)'
      BY <1>1, <2>1, <2>2 DEF Noticed, Suspect, SnapshotAt
    <2>3. ASSUME NEW t, NEW i, LostBefore(t, i)'
          PROVE  LostBefore(t, i)
      BY <1>1, <2>3 DEF LostBefore
    <2> QED
      BY <1>1, <2>2, <2>3 DEF LossesAreNoticed
  <1>5. UpdatesAreNewer'
    BY <1>1 DEF UpdatesAreNewer, UpdateOf, Newer, Suspect, SnapshotAt, NumberAt
  <1>6. SequenceIsKept'
    BY <1>1 DEF SequenceIsKept, NothingHandled, InStep, AllSuspect, Suspect
  <1> QED
    BY <1>2, <1>3, <1>4, <1>5, <1>6

(* Nothing of a connection outlives it but the books, and a number that a  *)
(* resync still under way puts back.                                       *)
LEMMA ConnectionKeepsInv ==
  ASSUME ResyncInv, ConnectionCloses \/ Reconnects
  PROVE  ResyncInv'
  <1> USE DEF ResyncInv
  <1>1. /\ toHub' = <<>> /\ nextSeq' = 1 /\ fed' = {} /\ owed' = {} /\ hole' = {}
        /\ losses' \in 0..MaxLosses /\ reconnects' \in 0..MaxReconnects
        /\ ~connected' => reconnects' < MaxReconnects
        /\ UNCHANGED <<resubscribePending, gapSeq, book, missed, freshDue, announced>>
        /\ lastSeq' \in {NoSeq, lastSeq}
    <2>1. CASE ConnectionCloses
      BY <2>1 DEF ConnectionCloses, DropConnection, AcceptWs, ResetSequence, books, TypeOK
    <2>2. CASE Reconnects
      BY <2>2 DEF Reconnects, upstream, books, TypeOK, SequenceIsKept
    <2> QED
      BY <2>1, <2>2
  <1>2. \/ connected' = FALSE /\ toUpstream' = <<>>
        \/ connected' = TRUE /\ toUpstream' = <<"subscribe">> /\ ~resubscribePending
    BY DEF ConnectionCloses, DropConnection, Reconnects
  <1>3. Len(toHub') = 0 /\ DOMAIN toHub' = {} /\ toHub' \in Seq(Envelope)
    BY <1>1
  <1>4. /\ toUpstream' \in Seq({"subscribe", "unsubscribe"})
        /\ connected' => Len(toUpstream') = 1 /\ toUpstream'[1] = "subscribe"
    <2>1. CASE connected' = FALSE /\ toUpstream' = <<>>
      BY <2>1
    <2>2. CASE toUpstream' = <<"subscribe">>
      BY <2>2, OneRequest
    <2> QED
      BY <1>2, <2>1, <2>2
  <1>5. TypeOK'
    <2>1. MaxSeq \in Nat /\ nextSeq' = 1
      BY <1>1
    <2>2. nextSeq' \in 1..(MaxSeq + 1)
      BY <2>1
    <2>3. connected' \in BOOLEAN
      BY <1>2
    <2>4. lastSeq' \in {NoSeq} \cup 1..MaxSeq
      BY <1>1 DEF TypeOK
    <2>5. {fed', owed', hole', missed', freshDue', announced'} \subseteq SUBSET Topics
      BY <1>1 DEF TypeOK
    <2> QED
      BY <1>1, <1>3, <1>4, <2>2, <2>3, <2>4, <2>5 DEF TypeOK
  <1>6. StreamIsNumbered'
    BY <1>1, <1>3 DEF StreamIsNumbered
  <1>7. LossesAreNoticed'
    BY <1>1, <1>3 DEF LossesAreNoticed, LostBefore
  <1>8. UpdatesAreNewer'
    BY <1>1, <1>3 DEF UpdatesAreNewer, UpdateOf, Suspect
  <1>9. SequenceIsKept'
    BY <1>1, <1>2, <1>3 DEF SequenceIsKept, NothingHandled
  <1>10. RequestsAlternate'
    BY <1>1, <1>2, <1>4 DEF RequestsAlternate
  <1>11. FreshBooksAreIntact'
    BY <1>1 DEF FreshBooksAreIntact
  <1>12. NoTopicAbandoned'
    <2>1. connected' => 1 \in DOMAIN toUpstream' /\ toUpstream'[1] = "subscribe"
      BY <1>2
    <2> QED
      BY <1>1, <1>2, <2>1 DEF NoTopicAbandoned, SnapshotComing
  <1> QED
    BY <1>5, <1>6, <1>7, <1>8, <1>9, <1>10, <1>11, <1>12

-----------------------------------------------------------------------------
(* The first connection has just opened: nothing is on its way but the     *)
(* request, and there is no book.                                          *)
LEMMA InitResyncInv == Init => ResyncInv
  <1> SUFFICES ASSUME Init
               PROVE  ResyncInv
    OBVIOUS
  <1> USE DEF Init
  <1>1. /\ toHub \in Seq(Envelope) /\ Len(toHub) = 0 /\ DOMAIN toHub = {}
        /\ toUpstream \in Seq({"subscribe", "unsubscribe"}) /\ Len(toUpstream) = 1
        /\ toUpstream[1] = "subscribe" /\ 1 \in DOMAIN toUpstream
    OBVIOUS
  <1>2. \A t \in Topics : book[t] = NoBook
    OBVIOUS
  <1>3. TypeOK
    <2>1. NoBook \in [seq : {NoSeq} \cup 1..MaxSeq, stale : BOOLEAN, intact : BOOLEAN]
      BY DEF NoBook
    <2>2. book \in [Topics -> [seq : {NoSeq} \cup 1..MaxSeq, stale : BOOLEAN, intact : BOOLEAN]]
      BY <2>1
    <2>3. /\ nextSeq \in 1..(MaxSeq + 1) /\ losses \in 0..MaxLosses /\ reconnects \in 0..MaxReconnects
          /\ gapSeq \in 0..MaxSeq /\ lastSeq \in {NoSeq} \cup 1..MaxSeq
      OBVIOUS
    <2> QED
      BY <1>1, <2>2, <2>3 DEF TypeOK
  <1>4. StreamIsNumbered /\ LossesAreNoticed
    BY <1>1 DEF StreamIsNumbered, LossesAreNoticed, LostBefore
  <1>5. UpdatesAreNewer
    BY <1>1 DEF UpdatesAreNewer, UpdateOf
  <1>6. SequenceIsKept /\ RequestsAlternate
    BY <1>1 DEF SequenceIsKept, NothingHandled, RequestsAlternate
  <1>7. FreshBooksAreIntact
    BY <1>2 DEF FreshBooksAreIntact, NoBook
  <1>8. NoTopicAbandoned
    BY <1>1 DEF NoTopicAbandoned, SnapshotComing
  <1> QED
    BY <1>3, <1>4, <1>5, <1>6, <1>7, <1>8 DEF ResyncInv

(* Every handler, timer and step of upstream keeps it.                     *)
LEMMA NextResyncInv == ResyncInv /\ [Next]_vars => ResyncInv'
  <1> SUFFICES ASSUME ResyncInv, [Next]_vars
               PROVE  ResyncInv'
    OBVIOUS
  <1>1. CASE UpstreamHandlesRequest
    BY <1>1, RequestKeepsInv
  <1>2. CASE (\E t \in Topics : SendSnapshot(t) \/ SendUpdate(t)) \/ SendHeartbeat
    BY <1>2, UpstreamSendsKeepsInv
  <1>3. CASE \E t \in Topics : LoseUpdate(t)
    BY <1>3, LossKeepsInv
  <1>4. CASE HandleInOrder
    BY <1>4, InOrderKeepsInv
  <1>5. CASE HandleGap \/ HandleGapWhilePending
    BY <1>5, GapKeepsInv
  <1>6. CASE ResyncWaitEnds
    BY <1>6, WaitEndsKeepsInv
  <1>7. CASE (\E t \in Topics : AnnounceFresh(t)) \/ UNCHANGED vars
    BY <1>7, AnnouncementKeepsInv
  <1>8. CASE ConnectionCloses \/ Reconnects
    BY <1>8, ConnectionKeepsInv
  <1> QED
    BY <1>1, <1>2, <1>3, <1>4, <1>5, <1>6, <1>7, <1>8 DEF Next

(* The inductive invariant, in every behaviour of the hub and upstream.    *)
THEOREM ResyncInvariant == Spec => []ResyncInv
  BY InitResyncInv, NextResyncInv, PTL DEF Spec

(* Numbers, requests and books keep their types, and all bounds hold.      *)
THEOREM ResyncTypeCorrect == Spec => []TypeOK
  <1>1. ResyncInv => TypeOK
    BY DEF ResyncInv
  <1> QED
    BY <1>1, ResyncInvariant, PTL

(* However envelopes are lost, and whenever a connection ends, a book that *)
(* the store does not mark stale equals a state upstream was in.           *)
THEOREM FreshBooksAreAlwaysIntact == Spec => []FreshBooksAreIntact
  <1>1. ResyncInv => FreshBooksAreIntact
    BY DEF ResyncInv
  <1> QED
    BY <1>1, ResyncInvariant, PTL

(* A topic without a current book always has a snapshot ahead of it, or a  *)
(* request for one, although handle() throws away what follows a gap.      *)
THEOREM NoTopicIsEverAbandoned == Spec => []NoTopicAbandoned
  <1>1. ResyncInv => NoTopicAbandoned
    BY DEF ResyncInv
  <1> QED
    BY <1>1, ResyncInvariant, PTL

=============================================================================
