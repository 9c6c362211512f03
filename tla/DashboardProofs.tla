--------------------------- MODULE DashboardProofs ---------------------------
(***************************************************************************)
(* What Dashboard guarantees for any set of tab ids and topics and any     *)
(* number of requests on their way.                                        *)
(***************************************************************************)
EXTENDS Dashboard, SequenceTheorems, WellFoundedInduction, TLAPS

USE NoneAssumption

(* The mux has the open tabs for listeners, each under its topic.          *)
ListenersAreTabs ==
  \A u \in Topics : listeners[u] = {t \in OpenTabs : uri[t] = u}

(* Requests wait for the socket until it opens and for the gateway while   *)
(* it is open; the gateway knows the window then only.                     *)
WaitingInOnePlace ==
  /\ socket = "open" => pendingOps = <<>>
  /\ socket # "open" => toHub = <<>> /\ hubSubs = {}

DashboardInv ==
  TypeOK /\ ListenersAreTabs /\ WaitingInOnePlace /\ TabsAreSubscribed /\ RequestsAreTransitions

-----------------------------------------------------------------------------
(* Steps one after the other                                               *)

(* What holds at 0 and holds of n when it holds of n - 1 holds up to N: a  *)
(* set stands for what holds.                                              *)
LEMMA StepByStep ==
  ASSUME NEW N \in Nat, NEW G, 0 \in G, \A n \in 1..N : n - 1 \in G => n \in G
  PROVE  \A n \in 0..N : n \in G
  <1> DEFINE T == {n \in 0..N : n \notin G}
  <1> SUFFICES ASSUME T # {} PROVE FALSE
    OBVIOUS
  <1>1. PICK n \in T : \A m \in T : ~ (<<m, n>> \in OpToRel(<, Nat))
    <2>1. T \subseteq Nat
      OBVIOUS
    <2> HIDE DEF T
    <2> QED
      BY <2>1, NatLessThanWellFounded, WFMin
  <1>2. n \in 0..N /\ n # 0
    OBVIOUS
  <1>3. n \in 1..N /\ n - 1 \in Nat /\ n - 1 < n /\ n - 1 \in 0..N
    BY <1>2
  <1>4. n - 1 \notin T
    <2>1. <<n - 1, n>> \in OpToRel(<, Nat)
      BY <1>3 DEF OpToRel
    <2> HIDE DEF T
    <2> QED
      BY <1>1, <2>1
  <1> QED
    BY <1>3, <1>4

(* From start there is a value for every number of steps up to N, each     *)
(* made from the one before it.                                            *)
CanRun(N, S, start, step) ==
  \E f \in [0..N -> S] : f[0] = start /\ \A n \in 1..N : f[n] = step[n][f[n - 1]]

(* There is, whatever the steps are: the recursion of CleanedUp and SetUp  *)
(* has a solution.                                                         *)
LEMMA StepsCanRun ==
  ASSUME NEW N \in Nat, NEW S, NEW start \in S, NEW step \in [1..N -> [S -> S]]
  PROVE  CanRun(N, S, start, step)
  <1> DEFINE Has(k) == CanRun(k, S, start, step)
             G == {k \in 0..N : Has(k)}
  <1>1. Has(0)
    <2> DEFINE f == [n \in 0..0 |-> start]
    <2>1. f \in [0..0 -> S] /\ f[0] = start /\ \A n \in 1..0 : f[n] = step[n][f[n - 1]]
      OBVIOUS
    <2> HIDE DEF f
    <2> QED
      BY <2>1 DEF CanRun
  <1>2. ASSUME NEW k \in 1..N, Has(k - 1)
        PROVE  Has(k)
    <2>1. PICK f \in [0..(k - 1) -> S] :
            f[0] = start /\ \A n \in 1..(k - 1) : f[n] = step[n][f[n - 1]]
      BY <1>2 DEF CanRun
    <2> DEFINE g == [n \in 0..k |-> IF n = k THEN step[k][f[k - 1]] ELSE f[n]]
    <2>2. step[k][f[k - 1]] \in S
      OBVIOUS
    <2>3. g \in [0..k -> S] /\ g[0] = start
      BY <2>1, <2>2
    <2>4. \A n \in 1..k : g[n] = step[n][g[n - 1]]
      BY <2>1
    <2> HIDE DEF g
    <2> QED
      BY <2>3, <2>4 DEF CanRun
  <1>3. 0 \in G /\ \A n \in 1..N : n - 1 \in G => n \in G
    <2> HIDE DEF Has
    <2> QED
      BY <1>1, <1>2
  <1>4. N \in G
    <2>1. N \in 0..N
      OBVIOUS
    <2> HIDE DEF G
    <2> QED
      BY <1>3, <2>1, StepByStep
  <1> QED
    BY <1>4

-----------------------------------------------------------------------------
(* Which topics are served after some requests                             *)

(* Nothing changes before the first request.                               *)
LEMMA ServedAtFirst ==
  ASSUME NEW subs \in SUBSET Topics, NEW ops
  PROVE  Served(subs, ops, 0) = subs
  BY DEF Served

(* Each request is added to, or taken off, what was served before it.      *)
LEMMA ServedByOneMore ==
  ASSUME NEW subs \in SUBSET Topics, NEW ops \in Seq(Op), NEW n \in 1..Len(ops)
  PROVE  Served(subs, ops, n) = After(ops[n], Served(subs, ops, n - 1))
  <1>1. ops[n] \in Op
    OBVIOUS
  <1>2. ASSUME NEW u \in Topics, ops[n].uri # u
        PROVE  u \in Served(subs, ops, n) <=> u \in Served(subs, ops, n - 1)
    BY <1>2 DEF Served
  <1>3. ASSUME NEW u \in Topics, ops[n].uri = u
        PROVE  u \in Served(subs, ops, n) <=> ops[n].op = "subscribe"
    BY <1>1, <1>3 DEF Served, Op
  <1>4. Served(subs, ops, n) \subseteq Topics /\ Served(subs, ops, n - 1) \subseteq Topics
    BY DEF Served
  <1>5. ops[n].uri \in Topics
    BY <1>1 DEF Op
  <1> QED
    BY <1>2, <1>3, <1>4, <1>5 DEF After

(* What comes later changes nothing of what was served before.             *)
LEMMA ServedOfAPrefix ==
  ASSUME NEW subs, NEW ops \in Seq(Op), NEW op \in Op, NEW n \in 0..Len(ops)
  PROVE  Served(subs, Append(ops, op), n) = Served(subs, ops, n)
  <1>1. \A i \in 1..n : Append(ops, op)[i] = ops[i]
    OBVIOUS
  <1> QED
    BY <1>1 DEF Served

(* The gateway that has handled the first request is as far as the one     *)
(* that has it before it.                                                  *)
LEMMA ServedAfterTheFirst ==
  ASSUME NEW subs \in SUBSET Topics, NEW ops \in Seq(Op), ops # <<>>,
         NEW n \in 0..(Len(ops) - 1)
  PROVE  Served(After(Head(ops), subs), Tail(ops), n) = Served(subs, ops, n + 1)
  <1> DEFINE now == After(Head(ops), subs)
             rest == Tail(ops)
             G == {k \in 0..(Len(ops) - 1) : Served(now, rest, k) = Served(subs, ops, k + 1)}
  <1>1. rest \in Seq(Op) /\ Len(rest) = Len(ops) - 1 /\ Head(ops) = ops[1] /\ ops[1] \in Op
    OBVIOUS
  <1>2. \A i \in 1..(Len(ops) - 1) : rest[i] = ops[i + 1]
    OBVIOUS
  <1>3. now \in SUBSET Topics
    BY <1>1 DEF After, Op
  <1>4. 0 \in G
    <2>1. Served(now, rest, 0) = now
      BY <1>3, ServedAtFirst
    <2>2. Served(subs, ops, 1) = After(ops[1], Served(subs, ops, 0))
      <3>1. 1 \in 1..Len(ops) /\ 1 - 1 = 0
        OBVIOUS
      <3> QED
        BY <3>1, ServedByOneMore
    <2> QED
      BY <1>1, <2>1, <2>2, ServedAtFirst
  <1>5. ASSUME NEW k \in 1..(Len(ops) - 1), k - 1 \in G
        PROVE  k \in G
    <2>1. k \in 1..Len(rest) /\ k + 1 \in 1..Len(ops) /\ (k + 1) - 1 = k /\ (k - 1) + 1 = k
      BY <1>1
    <2>2. Served(now, rest, k - 1) = Served(subs, ops, k)
      BY <1>5, <2>1
    <2> HIDE DEF now, rest
    <2>3. Served(now, rest, k) = After(rest[k], Served(now, rest, k - 1))
      BY <1>1, <1>3, <2>1, ServedByOneMore
    <2>4. Served(subs, ops, k + 1) = After(ops[k + 1], Served(subs, ops, (k + 1) - 1))
      BY <2>1, ServedByOneMore
    <2> QED
      BY <1>2, <2>1, <2>2, <2>3, <2>4
  <1>6. Len(ops) - 1 \in Nat
    OBVIOUS
  <1>7. n \in G
    <2> HIDE DEF G
    <2> QED
      BY <1>4, <1>5, <1>6, StepByStep
  <1> QED
    BY <1>7

(* A request that changes what is served may come last.                    *)
LEMMA OneMoreTransition ==
  ASSUME NEW subs \in SUBSET Topics, NEW ops \in Seq(Op), Transitions(subs, ops), NEW op \in Op,
         op.op = "subscribe" <=> op.uri \notin Served(subs, ops, Len(ops))
  PROVE  /\ Append(ops, op) \in Seq(Op)
         /\ Transitions(subs, Append(ops, op))
         /\ Served(subs, Append(ops, op), Len(Append(ops, op)))
              = After(op, Served(subs, ops, Len(ops)))
  <1> DEFINE longer == Append(ops, op)
  <1>1. /\ longer \in Seq(Op) /\ Len(longer) = Len(ops) + 1 /\ longer[Len(ops) + 1] = op
        /\ DOMAIN longer = 1..(Len(ops) + 1)
        /\ \A i \in 1..Len(ops) : longer[i] = ops[i]
    OBVIOUS
  <1>2. \A n \in 0..Len(ops) : Served(subs, longer, n) = Served(subs, ops, n)
    BY ServedOfAPrefix
  <1>3. Served(subs, longer, Len(longer)) = After(op, Served(subs, ops, Len(ops)))
    <2>1. Len(longer) \in 1..Len(longer) /\ Len(longer) - 1 = Len(ops) /\ Len(ops) \in 0..Len(ops)
      BY <1>1
    <2> HIDE DEF longer
    <2>2. Served(subs, longer, Len(longer))
            = After(longer[Len(longer)], Served(subs, longer, Len(longer) - 1))
      BY <1>1, <2>1, ServedByOneMore
    <2> QED
      BY <1>1, <1>2, <2>1, <2>2
  <1>4. Transitions(subs, longer)
    <2> SUFFICES ASSUME NEW i \in 1..(Len(ops) + 1)
                 PROVE  longer[i].op = "subscribe" <=> longer[i].uri \notin Served(subs, longer, i - 1)
      BY <1>1 DEF Transitions
    <2> HIDE DEF longer
    <2>1. CASE i = Len(ops) + 1
      BY <1>1, <1>2, <2>1
    <2>2. CASE i \in 1..Len(ops)
      BY <1>1, <1>2, <2>2 DEF Transitions
    <2> QED
      BY <2>1, <2>2
  <1> QED
    BY <1>1, <1>3, <1>4

-----------------------------------------------------------------------------
(* The mux                                                                 *)

Muxes == [listeners : [Topics -> SUBSET Tabs], ops : Seq(Op)]

(* With what waits already, the requests of the mux lead from what the     *)
(* gateway serves to the topics that have a listener.                      *)
Fits(mux) ==
  /\ mux \in Muxes
  /\ Transitions(hubSubs, Waiting \o mux.ops)
  /\ Served(hubSubs, Waiting \o mux.ops, Len(Waiting \o mux.ops))
       = {u \in Topics : mux.listeners[u] # {}}

(* A request the mux sends waits behind what waits already.                *)
LEMMA MuxSendsLast ==
  ASSUME toHub \in Seq(Op), pendingOps \in Seq(Op), NEW ops \in Seq(Op), NEW op \in Op
  PROVE  /\ Waiting \in Seq(Op) /\ Waiting \o ops \in Seq(Op)
         /\ Append(ops, op) \in Seq(Op)
         /\ Waiting \o Append(ops, op) = Append(Waiting \o ops, op)
  <1>1. Waiting \in Seq(Op)
    BY DEF Waiting
  <1> HIDE DEF Waiting
  <1> QED
    BY <1>1

(* The first listener of a topic asks for what is not served by then; for  *)
(* any other nothing is sent.                                              *)
LEMMA AddListenerFits ==
  ASSUME TypeOK, NEW mux, Fits(mux), NEW t \in Tabs, NEW u \in Topics
  PROVE  Fits(AddListener(mux, t, u))
  <1> DEFINE after == AddListener(mux, t, u)
             op == [op |-> "subscribe", uri |-> u]
  <1> SUFFICES Fits(after)
    OBVIOUS
  <1>1. /\ mux.listeners \in [Topics -> SUBSET Tabs] /\ mux.ops \in Seq(Op) /\ op \in Op
        /\ toHub \in Seq(Op) /\ pendingOps \in Seq(Op) /\ hubSubs \in SUBSET Topics
    BY DEF Fits, Muxes, Op, TypeOK
  <1>2. /\ after.listeners = [mux.listeners EXCEPT ![u] = @ \cup {t}]
        /\ after.ops = IF mux.listeners[u] = {} THEN Append(mux.ops, op) ELSE mux.ops
        /\ after = [listeners |-> after.listeners, ops |-> after.ops]
    BY DEF AddListener
  <1>3. after.listeners \in [Topics -> SUBSET Tabs]
    BY <1>1, <1>2
  <1>4. Waiting \o mux.ops \in Seq(Op) /\ Append(mux.ops, op) \in Seq(Op)
        /\ Waiting \o Append(mux.ops, op) = Append(Waiting \o mux.ops, op)
    BY <1>1, MuxSendsLast
  <1>5. after \in Muxes
    BY <1>2, <1>3, <1>4, <1>1 DEF Muxes
  <1>6. CASE mux.listeners[u] = {}
    <2>1. u \notin Served(hubSubs, Waiting \o mux.ops, Len(Waiting \o mux.ops))
      BY <1>6 DEF Fits
    <2>2. /\ Transitions(hubSubs, Append(Waiting \o mux.ops, op))
          /\ Served(hubSubs, Append(Waiting \o mux.ops, op), Len(Append(Waiting \o mux.ops, op)))
               = After(op, Served(hubSubs, Waiting \o mux.ops, Len(Waiting \o mux.ops)))
      BY <1>1, <1>4, <2>1, OneMoreTransition DEF Fits
    <2>3. After(op, Served(hubSubs, Waiting \o mux.ops, Len(Waiting \o mux.ops)))
            = {v \in Topics : mux.listeners[v] # {}} \cup {u}
      BY DEF After, Fits
    <2>4. {v \in Topics : after.listeners[v] # {}} = {v \in Topics : mux.listeners[v] # {}} \cup {u}
      BY <1>1, <1>2
    <2>5. after.ops = Append(mux.ops, op)
      BY <1>2, <1>6
    <2> HIDE DEF after, op
    <2> QED
      BY <1>4, <1>5, <2>2, <2>3, <2>4, <2>5 DEF Fits
  <1>7. CASE mux.listeners[u] # {}
    <2>1. {v \in Topics : after.listeners[v] # {}} = {v \in Topics : mux.listeners[v] # {}}
      BY <1>1, <1>2, <1>7
    <2>2. after.ops = mux.ops
      BY <1>2, <1>7
    <2> HIDE DEF after, op
    <2> QED
      BY <1>5, <2>1, <2>2 DEF Fits
  <1> QED
    BY <1>6, <1>7

(* The last one gives up what is served by then.                           *)
LEMMA RemoveListenerFits ==
  ASSUME TypeOK, NEW mux, Fits(mux), NEW t \in Tabs, NEW u \in Topics
  PROVE  Fits(RemoveListener(mux, t, u))
  <1> DEFINE after == RemoveListener(mux, t, u)
             op == [op |-> "unsubscribe", uri |-> u]
  <1> SUFFICES Fits(after)
    OBVIOUS
  <1>1. /\ mux.listeners \in [Topics -> SUBSET Tabs] /\ mux.ops \in Seq(Op) /\ op \in Op
        /\ toHub \in Seq(Op) /\ pendingOps \in Seq(Op) /\ hubSubs \in SUBSET Topics
    BY DEF Fits, Muxes, Op, TypeOK
  <1>2. /\ after.listeners = [mux.listeners EXCEPT ![u] = @ \ {t}]
        /\ after.ops = IF mux.listeners[u] = {t} THEN Append(mux.ops, op) ELSE mux.ops
        /\ after = [listeners |-> after.listeners, ops |-> after.ops]
    BY DEF RemoveListener
  <1>3. after.listeners \in [Topics -> SUBSET Tabs]
    BY <1>1, <1>2
  <1>4. Waiting \o mux.ops \in Seq(Op) /\ Append(mux.ops, op) \in Seq(Op)
        /\ Waiting \o Append(mux.ops, op) = Append(Waiting \o mux.ops, op)
    BY <1>1, MuxSendsLast
  <1>5. after \in Muxes
    BY <1>2, <1>3, <1>4, <1>1 DEF Muxes
  <1>6. CASE mux.listeners[u] = {t}
    <2>1. u \in Served(hubSubs, Waiting \o mux.ops, Len(Waiting \o mux.ops))
      BY <1>6 DEF Fits
    <2>2. /\ Transitions(hubSubs, Append(Waiting \o mux.ops, op))
          /\ Served(hubSubs, Append(Waiting \o mux.ops, op), Len(Append(Waiting \o mux.ops, op)))
               = After(op, Served(hubSubs, Waiting \o mux.ops, Len(Waiting \o mux.ops)))
      BY <1>1, <1>4, <2>1, OneMoreTransition DEF Fits
    <2>3. After(op, Served(hubSubs, Waiting \o mux.ops, Len(Waiting \o mux.ops)))
            = {v \in Topics : mux.listeners[v] # {}} \ {u}
      BY DEF After, Fits
    <2>4. {v \in Topics : after.listeners[v] # {}} = {v \in Topics : mux.listeners[v] # {}} \ {u}
      BY <1>1, <1>2, <1>6
    <2>5. after.ops = Append(mux.ops, op)
      BY <1>2, <1>6
    <2> HIDE DEF after, op
    <2> QED
      BY <1>4, <1>5, <2>2, <2>3, <2>4, <2>5 DEF Fits
  <1>7. CASE mux.listeners[u] # {t}
    <2>1. {v \in Topics : after.listeners[v] # {}} = {v \in Topics : mux.listeners[v] # {}}
      BY <1>1, <1>2, <1>7
    <2>2. after.ops = mux.ops
      BY <1>2, <1>7
    <2> HIDE DEF after, op
    <2> QED
      BY <1>5, <2>1, <2>2 DEF Fits
  <1> QED
    BY <1>6, <1>7

(* The mux stays one when a listener comes or goes.                        *)
LEMMA MuxStaysTyped ==
  ASSUME NEW mux \in Muxes, NEW t \in Tabs, NEW u \in Topics
  PROVE  AddListener(mux, t, u) \in Muxes /\ RemoveListener(mux, t, u) \in Muxes
  <1>1. mux.listeners \in [Topics -> SUBSET Tabs] /\ mux.ops \in Seq(Op)
    BY DEF Muxes
  <1>2. \A o \in Op : Append(mux.ops, o) \in Seq(Op)
    BY <1>1
  <1>3. /\ [op |-> "subscribe", uri |-> u] \in Op
        /\ [op |-> "unsubscribe", uri |-> u] \in Op
    BY DEF Op
  <1>4. /\ [mux.listeners EXCEPT ![u] = @ \cup {t}] \in [Topics -> SUBSET Tabs]
        /\ [mux.listeners EXCEPT ![u] = @ \ {t}] \in [Topics -> SUBSET Tabs]
    BY <1>1
  <1> QED
    BY <1>1, <1>2, <1>3, <1>4 DEF AddListener, RemoveListener, Muxes

(* The tab at every place has a topic.                                     *)
LEMMA TabsHaveTopics ==
  ASSUME TypeOK
  PROVE  /\ Len(tabs) \in Nat
         /\ OpenTabs = {tabs[i] : i \in 1..Len(tabs)} /\ OpenTabs \subseteq Tabs
         /\ \A i \in 1..Len(tabs) : tabs[i] \in Tabs /\ uri[tabs[i]] \in Topics
  <1>1. tabs \in Seq(Tabs) /\ uri \in [Tabs -> Topics \cup {None}]
    BY DEF TypeOK
  <1>2. /\ Len(tabs) \in Nat
        /\ OpenTabs = {tabs[i] : i \in 1..Len(tabs)}
        /\ \A i \in 1..Len(tabs) : tabs[i] \in Tabs
    BY <1>1 DEF OpenTabs, ToSet
  <1>3. \A i \in 1..Len(tabs) : uri[tabs[i]] # None
    BY <1>2 DEF TypeOK
  <1> QED
    BY <1>1, <1>2, <1>3

(* CleanedUp and SetUp do what they say: a value for every number of tabs, *)
(* each made from the one before it.                                       *)
LEMMA CleanedUpTabByTab ==
  ASSUME TypeOK, NEW mux \in Muxes
  PROVE  /\ CleanedUp(mux) \in [0..Len(tabs) -> Muxes]
         /\ CleanedUp(mux)[0] = mux
         /\ \A n \in 1..Len(tabs) :
              CleanedUp(mux)[n] = RemoveListener(CleanedUp(mux)[n - 1], tabs[n], uri[tabs[n]])
  <1> DEFINE N == Len(tabs)
             step == [n \in 1..N |-> [m \in Muxes |-> RemoveListener(m, tabs[n], uri[tabs[n]])]]
             Made(f) == [n \in 0..N |->
                           IF n = 0 THEN mux ELSE RemoveListener(f[n - 1], tabs[n], uri[tabs[n]])]
  <1>1. N \in Nat /\ \A n \in 1..N : tabs[n] \in Tabs /\ uri[tabs[n]] \in Topics
    BY TabsHaveTopics
  <1>2. step \in [1..N -> [Muxes -> Muxes]]
    BY <1>1, MuxStaysTyped
  <1>3. PICK f \in [0..N -> Muxes] : f[0] = mux /\ \A n \in 1..N : f[n] = step[n][f[n - 1]]
    <2> HIDE DEF step, N
    <2>1. CanRun(N, Muxes, mux, step)
      BY <1>1, <1>2, StepsCanRun
    <2> QED
      BY <2>1 DEF CanRun
  <1>4. \A n \in 1..N : f[n] = RemoveListener(f[n - 1], tabs[n], uri[tabs[n]])
    <2> SUFFICES ASSUME NEW n \in 1..N
                 PROVE  f[n] = RemoveListener(f[n - 1], tabs[n], uri[tabs[n]])
      OBVIOUS
    <2>1. f[n - 1] \in Muxes
      BY <1>1
    <2> QED
      BY <1>3, <2>1
  <1>5. f = Made(f)
    BY <1>1, <1>3, <1>4
  <1>6. CleanedUp(mux) = Made(CleanedUp(mux))
    <2>1. CleanedUp(mux) = CHOOSE g : g = Made(g)
      BY DEF CleanedUp
    <2> HIDE DEF Made
    <2> QED
      BY <1>5, <2>1
  <1> DEFINE c == CleanedUp(mux)
  <1>7. /\ c[0] = mux
        /\ \A n \in 1..N : c[n] = RemoveListener(c[n - 1], tabs[n], uri[tabs[n]])
    <2> HIDE DEF c
    <2>1. c = Made(c)
      BY <1>6 DEF c
    <2>2. \A n \in 0..N :
            c[n] = IF n = 0 THEN mux ELSE RemoveListener(c[n - 1], tabs[n], uri[tabs[n]])
      BY <2>1
    <2> QED
      BY <1>1, <2>2
  <1>8. \A n \in 0..N : c[n] \in Muxes
    <2> DEFINE G == {n \in 0..N : c[n] \in Muxes}
    <2> HIDE DEF c
    <2>1. 0 \in G
      BY <1>1, <1>7
    <2>2. \A n \in 1..N : n - 1 \in G => n \in G
      BY <1>1, <1>7, MuxStaysTyped
    <2>3. \A n \in 0..N : n \in G
      <3> HIDE DEF G
      <3> QED
        BY <1>1, <2>1, <2>2, StepByStep
    <2> QED
      BY <2>3
  <1>9. c \in [0..N -> Muxes]
    <2>1. c = [n \in 0..N |-> c[n]]
      BY <1>6
    <2> HIDE DEF c
    <2> QED
      BY <1>8, <2>1
  <1> QED
    BY <1>7, <1>9

(* And so for SetUp.                                                       *)
LEMMA SetUpTabByTab ==
  ASSUME TypeOK, NEW mux \in Muxes
  PROVE  /\ SetUp(mux) \in [0..Len(tabs) -> Muxes]
         /\ SetUp(mux)[0] = mux
         /\ \A n \in 1..Len(tabs) :
              SetUp(mux)[n] = AddListener(SetUp(mux)[n - 1], tabs[n], uri[tabs[n]])
  <1> DEFINE N == Len(tabs)
             step == [n \in 1..N |-> [m \in Muxes |-> AddListener(m, tabs[n], uri[tabs[n]])]]
             Made(f) == [n \in 0..N |->
                           IF n = 0 THEN mux ELSE AddListener(f[n - 1], tabs[n], uri[tabs[n]])]
  <1>1. N \in Nat /\ \A n \in 1..N : tabs[n] \in Tabs /\ uri[tabs[n]] \in Topics
    BY TabsHaveTopics
  <1>2. step \in [1..N -> [Muxes -> Muxes]]
    BY <1>1, MuxStaysTyped
  <1>3. PICK f \in [0..N -> Muxes] : f[0] = mux /\ \A n \in 1..N : f[n] = step[n][f[n - 1]]
    <2> HIDE DEF step, N
    <2>1. CanRun(N, Muxes, mux, step)
      BY <1>1, <1>2, StepsCanRun
    <2> QED
      BY <2>1 DEF CanRun
  <1>4. \A n \in 1..N : f[n] = AddListener(f[n - 1], tabs[n], uri[tabs[n]])
    <2> SUFFICES ASSUME NEW n \in 1..N
                 PROVE  f[n] = AddListener(f[n - 1], tabs[n], uri[tabs[n]])
      OBVIOUS
    <2>1. f[n - 1] \in Muxes
      BY <1>1
    <2> QED
      BY <1>3, <2>1
  <1>5. f = Made(f)
    BY <1>1, <1>3, <1>4
  <1>6. SetUp(mux) = Made(SetUp(mux))
    <2>1. SetUp(mux) = CHOOSE g : g = Made(g)
      BY DEF SetUp
    <2> HIDE DEF Made
    <2> QED
      BY <1>5, <2>1
  <1> DEFINE c == SetUp(mux)
  <1>7. /\ c[0] = mux
        /\ \A n \in 1..N : c[n] = AddListener(c[n - 1], tabs[n], uri[tabs[n]])
    <2> HIDE DEF c
    <2>1. c = Made(c)
      BY <1>6 DEF c
    <2>2. \A n \in 0..N :
            c[n] = IF n = 0 THEN mux ELSE AddListener(c[n - 1], tabs[n], uri[tabs[n]])
      BY <2>1
    <2> QED
      BY <1>1, <2>2
  <1>8. \A n \in 0..N : c[n] \in Muxes
    <2> DEFINE G == {n \in 0..N : c[n] \in Muxes}
    <2> HIDE DEF c
    <2>1. 0 \in G
      BY <1>1, <1>7
    <2>2. \A n \in 1..N : n - 1 \in G => n \in G
      BY <1>1, <1>7, MuxStaysTyped
    <2>3. \A n \in 0..N : n \in G
      <3> HIDE DEF G
      <3> QED
        BY <1>1, <2>1, <2>2, StepByStep
    <2> QED
      BY <2>3
  <1>9. c \in [0..N -> Muxes]
    <2>1. c = [n \in 0..N |-> c[n]]
      BY <1>6
    <2> HIDE DEF c
    <2> QED
      BY <1>8, <2>1
  <1> QED
    BY <1>7, <1>9

(* The mux as it is before a step.                                         *)
LEMMA MuxNow ==
  ASSUME TypeOK
  PROVE  Mux \in Muxes /\ Mux.listeners = listeners /\ Mux.ops = <<>>
  <1>1. <<>> \in Seq(Op)
    OBVIOUS
  <1>2. listeners \in [Topics -> SUBSET Tabs]
    BY DEF TypeOK
  <1> QED
    BY <1>1, <1>2 DEF Mux, Muxes

(* All effects run again: the mux has the listeners it had, and its        *)
(* requests fit in the end if they did before.                             *)
LEMMA EffectsRunAgainFits ==
  ASSUME TypeOK, ListenersAreTabs
  PROVE  /\ EffectsRunAgain(Mux) \in Muxes
         /\ EffectsRunAgain(Mux).listeners = listeners
         /\ Fits(Mux) => Fits(EffectsRunAgain(Mux))
  <1> DEFINE N == Len(tabs)
             c == CleanedUp(Mux)
             d == SetUp(c[N])
             Under(n, u) == {t \in {tabs[i] : i \in 1..n} : uri[t] = u}
  <1>1. /\ N \in Nat /\ 0 \in 0..N /\ N \in 0..N
        /\ OpenTabs = {tabs[i] : i \in 1..N} /\ OpenTabs \subseteq Tabs
        /\ \A i \in 1..N : tabs[i] \in Tabs /\ uri[tabs[i]] \in Topics
    BY TabsHaveTopics
  <1>2. Mux \in Muxes /\ Mux.listeners = listeners
    BY MuxNow
  <1>3. /\ c \in [0..N -> Muxes] /\ c[0] = Mux
        /\ \A n \in 1..N : c[n] = RemoveListener(c[n - 1], tabs[n], uri[tabs[n]])
    BY <1>2, CleanedUpTabByTab
  <1>4. /\ d \in [0..N -> Muxes] /\ d[0] = c[N]
        /\ \A n \in 1..N : d[n] = AddListener(d[n - 1], tabs[n], uri[tabs[n]])
    <2>1. c[N] \in Muxes
      BY <1>1, <1>3
    <2> HIDE DEF c
    <2> QED
      BY <2>1, SetUpTabByTab
  <1>5. EffectsRunAgain(Mux) = d[N]
    BY DEF EffectsRunAgain
  <1> HIDE DEF c, d, N
  <1>6. \A n \in 1..N : n - 1 \in 0..N
    BY <1>1
  <1>7. (Fits(Mux) => Fits(c[N])) /\ \A u \in Topics : c[N].listeners[u] = {}
    <2> DEFINE G == {n \in 0..N :
                       /\ Fits(Mux) => Fits(c[n])
                       /\ \A u \in Topics : c[n].listeners[u] = listeners[u] \ Under(n, u)}
    <2>1. 0 \in G
      BY <1>1, <1>2, <1>3
    <2>2. ASSUME NEW n \in 1..N, n - 1 \in G
          PROVE  n \in G
      <3>1. tabs[n] \in Tabs /\ uri[tabs[n]] \in Topics /\ c[n - 1] \in Muxes
        BY <1>1, <1>3, <1>6
      <3>2. c[n] = RemoveListener(c[n - 1], tabs[n], uri[tabs[n]])
        BY <1>3
      <3>3. Fits(Mux) => Fits(c[n])
        BY <2>2, <3>1, <3>2, RemoveListenerFits
      <3>4. c[n].listeners = [c[n - 1].listeners EXCEPT ![uri[tabs[n]]] = @ \ {tabs[n]}]
        BY <3>2 DEF RemoveListener
      <3>5. c[n - 1].listeners \in [Topics -> SUBSET Tabs]
        BY <3>1 DEF Muxes
      <3>6. {tabs[i] : i \in 1..n} = {tabs[i] : i \in 1..(n - 1)} \cup {tabs[n]}
        BY <1>1
      <3>7. ASSUME NEW u \in Topics
            PROVE  c[n].listeners[u] = listeners[u] \ Under(n, u)
        <4>1. c[n - 1].listeners[u] = listeners[u] \ Under(n - 1, u)
          BY <2>2
        <4> QED
          BY <3>4, <3>5, <3>6, <4>1
      <3> QED
        BY <3>3, <3>7
    <2>3. N \in G
      <3> HIDE DEF G
      <3> QED
        BY <1>1, <2>1, <2>2, StepByStep
    <2>4. \A u \in Topics : listeners[u] = Under(N, u)
      BY <1>1 DEF ListenersAreTabs
    <2> QED
      BY <2>3, <2>4
  <1>8. (Fits(Mux) => Fits(d[N])) /\ \A u \in Topics : d[N].listeners[u] = Under(N, u)
    <2> DEFINE G == {n \in 0..N :
                       /\ Fits(Mux) => Fits(d[n])
                       /\ \A u \in Topics : d[n].listeners[u] = Under(n, u)}
    <2>1. 0 \in G
      BY <1>1, <1>4, <1>7
    <2>2. ASSUME NEW n \in 1..N, n - 1 \in G
          PROVE  n \in G
      <3>1. tabs[n] \in Tabs /\ uri[tabs[n]] \in Topics /\ d[n - 1] \in Muxes
        BY <1>1, <1>4, <1>6
      <3>2. d[n] = AddListener(d[n - 1], tabs[n], uri[tabs[n]])
        BY <1>4
      <3>3. Fits(Mux) => Fits(d[n])
        BY <2>2, <3>1, <3>2, AddListenerFits
      <3>4. d[n].listeners = [d[n - 1].listeners EXCEPT ![uri[tabs[n]]] = @ \cup {tabs[n]}]
        BY <3>2 DEF AddListener
      <3>5. d[n - 1].listeners \in [Topics -> SUBSET Tabs]
        BY <3>1 DEF Muxes
      <3>6. {tabs[i] : i \in 1..n} = {tabs[i] : i \in 1..(n - 1)} \cup {tabs[n]}
        BY <1>1
      <3>7. ASSUME NEW u \in Topics
            PROVE  d[n].listeners[u] = Under(n, u)
        <4>1. d[n - 1].listeners[u] = Under(n - 1, u)
          BY <2>2
        <4> QED
          BY <3>4, <3>5, <3>6, <4>1
      <3> QED
        BY <3>3, <3>7
    <2>3. N \in G
      <3> HIDE DEF G
      <3> QED
        BY <1>1, <2>1, <2>2, StepByStep
    <2> QED
      BY <2>3
  <1>9. d[N].listeners = listeners
    <2>1. d[N].listeners \in [Topics -> SUBSET Tabs] /\ listeners \in [Topics -> SUBSET Tabs]
      BY <1>1, <1>4 DEF Muxes, TypeOK
    <2>2. \A u \in Topics : listeners[u] = Under(N, u)
      BY <1>1 DEF ListenersAreTabs
    <2>3. \A u \in Topics : d[N].listeners[u] = listeners[u]
      BY <1>8, <2>2
    <2> QED
      BY <2>1, <2>3
  <1> QED
    BY <1>1, <1>4, <1>5, <1>8, <1>9

(* What the mux has before a step fits while the socket may still serve.   *)
LEMMA MuxFitsNow ==
  ASSUME DashboardInv
  PROVE  /\ Mux \in Muxes
         /\ {u \in Topics : listeners[u] # {}} = {uri[t] : t \in OpenTabs}
         /\ socket # "closed" => Fits(Mux)
  <1>1. Mux \in Muxes /\ Mux.listeners = listeners /\ Mux.ops = <<>>
    BY MuxNow DEF DashboardInv
  <1>2. {u \in Topics : listeners[u] # {}} = {uri[t] : t \in OpenTabs}
    <2>1. \A t \in OpenTabs : uri[t] \in Topics
      BY TabsHaveTopics DEF DashboardInv
    <2> QED
      BY <2>1 DEF DashboardInv, ListenersAreTabs
  <1>3. Waiting \in Seq(Op)
    <2>1. toHub \in Seq(Op) /\ pendingOps \in Seq(Op)
      BY DEF DashboardInv, TypeOK
    <2> QED
      BY <2>1 DEF Waiting
  <1>4. Waiting \o Mux.ops = Waiting
    BY <1>1, <1>3
  <1>5. socket # "closed" => Fits(Mux)
    BY <1>1, <1>2, <1>4 DEF Fits, DashboardInv, TabsAreSubscribed, RequestsAreTransitions
  <1> QED
    BY <1>1, <1>2, <1>5

(* The requests of a mux that fits are put where they wait in order.       *)
LEMMA BecomeKeepsOrder ==
  ASSUME DashboardInv, NEW mux \in Muxes, socket # "closed" => Fits(mux),
         Become(mux), UNCHANGED <<socket, hubSubs>>
  PROVE  /\ listeners' = mux.listeners
         /\ toHub' \in Seq(Op) /\ pendingOps' \in Seq(Op)
         /\ WaitingInOnePlace' /\ RequestsAreTransitions'
         /\ socket' # "closed" =>
              Served(hubSubs, Waiting, Len(Waiting))' = {u \in Topics : listeners'[u] # {}}
  <1>1. /\ toHub \in Seq(Op) /\ pendingOps \in Seq(Op) /\ mux.ops \in Seq(Op)
        /\ socket \in {"connecting", "open", "closed"}
    BY DEF DashboardInv, TypeOK, Muxes
  <1>2. /\ listeners' = mux.listeners
        /\ toHub' = IF socket = "open" THEN toHub \o mux.ops ELSE toHub
        /\ pendingOps' = IF socket = "connecting" THEN pendingOps \o mux.ops ELSE pendingOps
    BY DEF Become
  <1>3. WaitingInOnePlace
    BY DEF DashboardInv
  <1>4. toHub' \in Seq(Op) /\ pendingOps' \in Seq(Op)
    BY <1>1, <1>2
  <1>5. WaitingInOnePlace'
    BY <1>2, <1>3 DEF WaitingInOnePlace
  <1>6. CASE socket = "closed"
    <2>1. Waiting' = Waiting
      BY <1>2, <1>6 DEF Waiting
    <2> QED
      BY <1>2, <1>4, <1>5, <1>6, <2>1 DEF DashboardInv, RequestsAreTransitions
  <1>7. CASE socket # "closed"
    <2>1. ASSUME socket = "open"
          PROVE  Waiting' = Waiting \o mux.ops
      <3>1. pendingOps = <<>> /\ pendingOps' = <<>> /\ toHub' = toHub \o mux.ops
        BY <1>2, <1>3, <2>1 DEF WaitingInOnePlace
      <3> QED
        BY <1>1, <3>1 DEF Waiting
    <2>2. ASSUME socket = "connecting"
          PROVE  Waiting' = Waiting \o mux.ops
      <3>1. toHub = <<>> /\ toHub' = <<>> /\ pendingOps' = pendingOps \o mux.ops
        BY <1>2, <1>3, <2>2 DEF WaitingInOnePlace
      <3> QED
        BY <1>1, <3>1 DEF Waiting
    <2>3. Waiting' = Waiting \o mux.ops
      BY <1>1, <1>7, <2>1, <2>2
    <2>4. /\ Transitions(hubSubs', Waiting')
          /\ Served(hubSubs', Waiting', Len(Waiting')) = {u \in Topics : mux.listeners[u] # {}}
      BY <1>7, <2>3 DEF Fits
    <2> QED
      BY <1>2, <1>4, <1>5, <2>4 DEF RequestsAreTransitions
  <1> QED
    BY <1>6, <1>7

-----------------------------------------------------------------------------
(* The tabs                                                                *)

(* A tab that is opened is put last.                                       *)
LEMMA TabComes ==
  ASSUME TypeOK, NEW t \in Tabs, t \notin OpenTabs
  PROVE  /\ Append(tabs, t) \in Seq(Tabs) /\ IsInjective(Append(tabs, t))
         /\ Append(tabs, t) # <<>>
         /\ ToSet(Append(tabs, t)) = OpenTabs \cup {t}
  <1> DEFINE N == Len(tabs)
             more == Append(tabs, t)
  <1>1. tabs \in Seq(Tabs) /\ IsInjective(tabs)
    BY DEF TypeOK
  <1>2. /\ N \in Nat /\ DOMAIN tabs = 1..N /\ DOMAIN more = 1..(N + 1)
        /\ more \in Seq(Tabs) /\ more # <<>>
        /\ more[N + 1] = t /\ \A i \in 1..N : more[i] = tabs[i]
    BY <1>1
  <1> HIDE DEF more, N
  <1>3. \A i \in 1..N : tabs[i] # t
    BY <1>2 DEF OpenTabs, ToSet
  <1>4. \A i, j \in 1..N : tabs[i] = tabs[j] => i = j
    BY <1>1, <1>2 DEF IsInjective
  <1>5. IsInjective(more)
    BY <1>2, <1>3, <1>4 DEF IsInjective
  <1>6. ToSet(more) = OpenTabs \cup {t}
    BY <1>2 DEF OpenTabs, ToSet
  <1> QED
    BY <1>2, <1>5, <1>6 DEF more

(* A tab that is closed leaves the others in their order.                  *)
LEMMA TabGoes ==
  ASSUME TypeOK, NEW t \in OpenTabs
  PROVE  /\ RemoveFirst(tabs, t) \in Seq(Tabs) /\ IsInjective(RemoveFirst(tabs, t))
         /\ ToSet(RemoveFirst(tabs, t)) = OpenTabs \ {t}
  <1> DEFINE N == Len(tabs)
             fewer == RemoveFirst(tabs, t)
  <1>1. tabs \in Seq(Tabs) /\ IsInjective(tabs) /\ N \in Nat /\ DOMAIN tabs = 1..N
    <2>1. tabs \in Seq(Tabs) /\ IsInjective(tabs)
      BY DEF TypeOK
    <2> QED
      BY <2>1
  <1>2. \A i, j \in 1..N : tabs[i] = tabs[j] => i = j
    BY <1>1 DEF IsInjective
  <1>3. PICK k \in 1..N : tabs[k] = t
    BY <1>1 DEF OpenTabs, ToSet
  <1>4. fewer = SubSeq(tabs, 1, k - 1) \o SubSeq(tabs, k + 1, N)
    <2>1. {i \in 1..N : tabs[i] = t} = {k}
      BY <1>2, <1>3
    <2>2. Min({k}) = k
      BY DEF Min
    <2>3. SelectInSeq(tabs, LAMBDA v : v = t) = k
      BY <2>1, <2>2 DEF SelectInSeq
    <2> QED
      BY <1>3, <2>3 DEF RemoveFirst, RemoveAt
  <1>5. /\ fewer \in Seq(Tabs) /\ Len(fewer) = N - 1 /\ DOMAIN fewer = 1..(N - 1)
        /\ \A i \in 1..(N - 1) : fewer[i] = IF i < k THEN tabs[i] ELSE tabs[i + 1]
    <2> DEFINE front == SubSeq(tabs, 1, k - 1)
               back == SubSeq(tabs, k + 1, N)
    <2>1. /\ front \in Seq(Tabs) /\ Len(front) = k - 1
          /\ \A i \in 1..(k - 1) : front[i] = tabs[i]
      BY <1>1, <1>3
    <2>2. /\ back \in Seq(Tabs) /\ Len(back) = N - k
          /\ \A i \in 1..(N - k) : back[i] = tabs[i + k]
      BY <1>1, <1>3
    <2>3. k \in Nat /\ N \in Nat /\ 1 <= k /\ k <= N
      BY <1>1, <1>3
    <2> HIDE DEF front, back, fewer, N
    <2>4. /\ front \o back \in Seq(Tabs) /\ Len(front \o back) = N - 1
          /\ DOMAIN (front \o back) = 1..(N - 1)
      <3>1. front \o back \in Seq(Tabs) /\ Len(front \o back) = Len(front) + Len(back)
        BY <2>1, <2>2, ConcatProperties
      <3>2. DOMAIN (front \o back) = 1..Len(front \o back)
        BY <3>1, LenProperties
      <3> QED
        BY <2>1, <2>2, <2>3, <3>1, <3>2
    <2>5. ASSUME NEW i \in 1..(N - 1)
          PROVE  (front \o back)[i] = IF i < k THEN tabs[i] ELSE tabs[i + 1]
      <3>1. CASE i < k
        BY <2>1, <2>2, <2>3, <3>1
      <3>2. CASE ~ (i < k)
        <4>1. (front \o back)[i] = back[i - (k - 1)]
          BY <2>1, <2>2, <2>3, <3>2
        <4>2. i - (k - 1) \in 1..(N - k) /\ i - (k - 1) + k = i + 1
          BY <2>3, <3>2
        <4> QED
          BY <2>2, <3>2, <4>1, <4>2
      <3> QED
        BY <3>1, <3>2
    <2>6. fewer = front \o back
      BY <1>4 DEF front, back
    <2> QED
      BY <2>4, <2>5, <2>6
  <1> HIDE DEF fewer, N
  <1>6. IsInjective(fewer)
    BY <1>1, <1>2, <1>3, <1>5 DEF IsInjective
  <1>7. ToSet(fewer) = OpenTabs \ {t}
    <2>1. ASSUME NEW i \in 1..N, tabs[i] # t
          PROVE  \E j \in 1..(N - 1) : fewer[j] = tabs[i]
      <3>1. CASE i < k
        <4>1. i \in 1..(N - 1) /\ fewer[i] = tabs[i]
          BY <1>1, <1>3, <1>5, <3>1
        <4> QED
          BY <4>1
      <3>2. CASE i > k
        <4>1. i - 1 \in 1..(N - 1) /\ ~ (i - 1 < k) /\ (i - 1) + 1 = i
          BY <1>1, <1>3, <3>2
        <4>2. fewer[i - 1] = tabs[i]
          BY <1>5, <4>1
        <4> QED
          BY <4>1, <4>2
      <3> QED
        BY <1>3, <2>1, <3>1, <3>2
    <2>2. ASSUME NEW j \in 1..(N - 1)
          PROVE  fewer[j] # t /\ \E i \in 1..N : fewer[j] = tabs[i]
      <3>1. CASE j < k
        <4>1. j \in 1..N /\ j # k /\ fewer[j] = tabs[j]
          BY <1>1, <1>3, <1>5, <3>1
        <4> QED
          BY <1>2, <1>3, <4>1
      <3>2. CASE ~ (j < k)
        <4>1. j + 1 \in 1..N /\ j + 1 # k /\ fewer[j] = tabs[j + 1]
          BY <1>1, <1>3, <1>5, <3>2
        <4> QED
          BY <1>2, <1>3, <4>1
      <3> QED
        BY <3>1, <3>2
    <2> QED
      <3>1. /\ OpenTabs = {tabs[i] : i \in 1..N}
            /\ ToSet(fewer) = {fewer[j] : j \in 1..(N - 1)}
        BY <1>1, <1>5 DEF OpenTabs, ToSet
      <3> QED
        BY <2>1, <2>2, <3>1
  <1> QED
    BY <1>5, <1>6, <1>7 DEF fewer

-----------------------------------------------------------------------------
(* The actions                                                             *)

(* A tab that mounts is one more listener of its topic, once or twice      *)
(* mounted, and its requests fit.                                          *)
LEMMA MountedFits ==
  ASSUME TypeOK, NEW t \in Tabs, NEW u \in Topics
  PROVE  /\ Mounted(Mux, t, u) \in Muxes
         /\ Mounted(Mux, t, u).listeners = [listeners EXCEPT ![u] = @ \cup {t}]
         /\ Fits(Mux) => Fits(Mounted(Mux, t, u))
  <1> DEFINE m1 == AddListener(Mux, t, u)
             m2 == RemoveListener(m1, t, u)
             m3 == AddListener(m2, t, u)
  <1>1. Mux \in Muxes /\ Mux.listeners = listeners /\ listeners \in [Topics -> SUBSET Tabs]
    BY MuxNow DEF TypeOK
  <1>2. m1.listeners = [listeners EXCEPT ![u] = @ \cup {t}]
    BY <1>1 DEF AddListener
  <1>3. m2.listeners = [m1.listeners EXCEPT ![u] = @ \ {t}]
    BY DEF RemoveListener
  <1>4. m3.listeners = [m2.listeners EXCEPT ![u] = @ \cup {t}]
    BY DEF AddListener
  <1>5. m1 \in Muxes /\ (Fits(Mux) => Fits(m1))
    BY <1>1, MuxStaysTyped, AddListenerFits
  <1> HIDE DEF m1
  <1>6. m2 \in Muxes /\ (Fits(Mux) => Fits(m2))
    BY <1>5, MuxStaysTyped, RemoveListenerFits
  <1> HIDE DEF m2
  <1>7. m3 \in Muxes /\ (Fits(Mux) => Fits(m3))
    BY <1>6, MuxStaysTyped, AddListenerFits
  <1> HIDE DEF m3
  <1>8. m3.listeners = [listeners EXCEPT ![u] = @ \cup {t}]
    BY <1>1, <1>2, <1>3, <1>4
  <1>9. Mounted(Mux, t, u) = IF strict THEN m3 ELSE m1
    BY DEF Mounted, m1, m2, m3
  <1> QED
    BY <1>2, <1>5, <1>7, <1>8, <1>9

(* Where the tabs are served after a step: what the mux has after it is    *)
(* what is shown after it.                                                 *)
LEMMA ShownIsListened ==
  ASSUME ListenersAreTabs', OpenTabs' \subseteq Tabs,
         \A t \in OpenTabs' : uri'[t] \in Topics,
         socket' # "closed" =>
           Served(hubSubs, Waiting, Len(Waiting))' = {u \in Topics : listeners'[u] # {}}
  PROVE  TabsAreSubscribed'
  <1>1. {u \in Topics : listeners'[u] # {}} = {uri'[t] : t \in OpenTabs'}
    BY DEF ListenersAreTabs
  <1> QED
    BY <1>1 DEF TabsAreSubscribed

(* The new tab listens, last in the row and active.                        *)
LEMMA OpenTabKeepsInv ==
  ASSUME DashboardInv, NEW t \in Tabs, NEW u \in Topics, OpenTab(t, u)
  PROVE  DashboardInv'
  <1>1. TypeOK /\ ListenersAreTabs
    BY DEF DashboardInv
  <1>2. /\ t \notin OpenTabs /\ tabs' = Append(tabs, t) /\ uri' = [uri EXCEPT ![t] = u]
        /\ activeId' = t /\ Become(Mounted(Mux, t, u))
        /\ UNCHANGED <<view, socket, strict, ghost, render, hubSubs, toTab>>
    BY DEF OpenTab, socketVars
  <1>3. /\ tabs' \in Seq(Tabs) /\ IsInjective(tabs') /\ tabs' # <<>>
        /\ OpenTabs' = OpenTabs \cup {t}
    BY <1>1, <1>2, TabComes DEF OpenTabs
  <1>4. /\ Mounted(Mux, t, u) \in Muxes
        /\ Mounted(Mux, t, u).listeners = [listeners EXCEPT ![u] = @ \cup {t}]
        /\ socket # "closed" => Fits(Mounted(Mux, t, u))
    BY <1>1, MountedFits, MuxFitsNow
  <1>5. /\ listeners' = [listeners EXCEPT ![u] = @ \cup {t}]
        /\ toHub' \in Seq(Op) /\ pendingOps' \in Seq(Op)
        /\ WaitingInOnePlace' /\ RequestsAreTransitions'
        /\ socket' # "closed" =>
             Served(hubSubs, Waiting, Len(Waiting))' = {v \in Topics : listeners'[v] # {}}
    BY <1>2, <1>4, BecomeKeepsOrder
  <1>6. /\ uri \in [Tabs -> Topics \cup {None}] /\ listeners \in [Topics -> SUBSET Tabs]
        /\ OpenTabs \subseteq Tabs /\ \A s \in Tabs : s \in OpenTabs <=> uri[s] # None
    BY <1>1, TabsHaveTopics DEF TypeOK
  <1>7. TypeOK'
    <2>1. uri' \in [Tabs -> Topics \cup {None}] /\ listeners' \in [Topics -> SUBSET Tabs]
      BY <1>2, <1>5, <1>6
    <2>2. \A s \in Tabs : s \in OpenTabs' <=> uri'[s] # None
      BY <1>2, <1>3, <1>6
    <2>3. activeId' \in OpenTabs' /\ activeId' # None /\ view' \subseteq OpenTabs'
      BY <1>1, <1>2, <1>3 DEF TypeOK
    <2>4. /\ socket' \in {"connecting", "open", "closed"} /\ strict' \in BOOLEAN
          /\ ghost' \in IF strict' THEN 0..2 ELSE {0}
          /\ render' \in {"done", "due", "effects due"}
          /\ hubSubs' \subseteq Topics /\ toTab' \subseteq Topics
      BY <1>1, <1>2 DEF TypeOK
    <2> QED
      BY <1>3, <1>5, <2>1, <2>2, <2>3, <2>4 DEF TypeOK
  <1>8. ListenersAreTabs'
    BY <1>1, <1>2, <1>3, <1>5, <1>6 DEF ListenersAreTabs
  <1>9. TabsAreSubscribed'
    <2>1. OpenTabs' \subseteq Tabs /\ \A s \in OpenTabs' : uri'[s] \in Topics
      BY <1>2, <1>3, <1>6
    <2> QED
      BY <1>5, <1>8, <2>1, ShownIsListened
  <1> QED
    BY <1>5, <1>7, <1>8, <1>9 DEF DashboardInv

(* The tab that goes has left the mux, and another is active, or none.     *)
LEMMA CloseTabKeepsInv ==
  ASSUME DashboardInv, NEW t \in Tabs, CloseTab(t)
  PROVE  DashboardInv'
  <1> DEFINE left == RemoveListener(Mux, t, uri[t])
  <1>1. TypeOK /\ ListenersAreTabs
    BY DEF DashboardInv
  <1>2. /\ t \in OpenTabs /\ tabs' = RemoveFirst(tabs, t) /\ uri' = [uri EXCEPT ![t] = None]
        /\ activeId' = IF activeId # t THEN activeId ELSE IF tabs' = <<>> THEN None ELSE Last(tabs')
        /\ view' = view \ {t} /\ Become(left)
        /\ UNCHANGED <<socket, strict, ghost, render, hubSubs, toTab>>
    BY DEF CloseTab, socketVars
  <1>3. /\ tabs' \in Seq(Tabs) /\ IsInjective(tabs')
        /\ OpenTabs' = OpenTabs \ {t}
    BY <1>1, <1>2, TabGoes DEF OpenTabs
  <1>4. /\ uri \in [Tabs -> Topics \cup {None}] /\ listeners \in [Topics -> SUBSET Tabs]
        /\ OpenTabs \subseteq Tabs /\ \A s \in Tabs : s \in OpenTabs <=> uri[s] # None
        /\ uri[t] \in Topics
    BY <1>1, <1>2, TabsHaveTopics DEF TypeOK
  <1>5. /\ left \in Muxes
        /\ left.listeners = [listeners EXCEPT ![uri[t]] = @ \ {t}]
        /\ socket # "closed" => Fits(left)
    <2>1. Mux \in Muxes /\ Mux.listeners = listeners
      BY <1>1, MuxNow
    <2>2. left.listeners = [Mux.listeners EXCEPT ![uri[t]] = @ \ {t}]
      BY DEF RemoveListener
    <2> QED
      BY <1>1, <1>4, <2>1, <2>2, MuxStaysTyped, MuxFitsNow, RemoveListenerFits
  <1> HIDE DEF left
  <1>6. /\ listeners' = [listeners EXCEPT ![uri[t]] = @ \ {t}]
        /\ toHub' \in Seq(Op) /\ pendingOps' \in Seq(Op)
        /\ WaitingInOnePlace' /\ RequestsAreTransitions'
        /\ socket' # "closed" =>
             Served(hubSubs, Waiting, Len(Waiting))' = {v \in Topics : listeners'[v] # {}}
    BY <1>2, <1>5, BecomeKeepsOrder
  <1>7. TypeOK'
    <2>1. uri' \in [Tabs -> Topics \cup {None}] /\ listeners' \in [Topics -> SUBSET Tabs]
      BY <1>2, <1>4, <1>6
    <2>2. \A s \in Tabs : s \in OpenTabs' <=> uri'[s] # None
      BY <1>2, <1>3, <1>4
    <2>3. OpenTabs' = {} <=> tabs' = <<>>
      BY <1>3 DEF OpenTabs, ToSet
    <2>4. tabs' # <<>> => Last(tabs') \in OpenTabs'
      <3>1. tabs' # <<>> => Len(tabs') \in DOMAIN tabs'
        BY <1>3, EmptySeq, LenProperties
      <3>2. OpenTabs' = {tabs'[i] : i \in DOMAIN tabs'}
        BY DEF OpenTabs, ToSet
      <3>3. Last(tabs') = tabs'[Len(tabs')]
        BY DEF Last
      <3> QED
        BY <3>1, <3>2, <3>3
    <2>5. None \notin OpenTabs /\ (activeId = None <=> OpenTabs = {}) /\ activeId \in OpenTabs \cup {None}
      <3>1. tabs \in Seq(Tabs) /\ (activeId = None <=> tabs = <<>>) /\ activeId \in OpenTabs \cup {None}
        BY <1>1 DEF TypeOK
      <3>2. OpenTabs = {} <=> tabs = <<>>
        BY <3>1 DEF OpenTabs, ToSet
      <3> QED
        BY <1>4, <3>1, <3>2
    <2>6. activeId' \in OpenTabs' \cup {None} /\ (activeId' = None <=> tabs' = <<>>)
      BY <1>2, <1>3, <2>3, <2>4, <2>5
    <2>7. view' \subseteq OpenTabs'
      BY <1>1, <1>2, <1>3 DEF TypeOK
    <2>8. /\ socket' \in {"connecting", "open", "closed"} /\ strict' \in BOOLEAN
          /\ ghost' \in IF strict' THEN 0..2 ELSE {0}
          /\ render' \in {"done", "due", "effects due"}
          /\ hubSubs' \subseteq Topics /\ toTab' \subseteq Topics
      BY <1>1, <1>2 DEF TypeOK
    <2> QED
      BY <1>3, <1>6, <2>1, <2>2, <2>6, <2>7, <2>8 DEF TypeOK
  <1>8. ListenersAreTabs'
    BY <1>1, <1>2, <1>3, <1>4, <1>6 DEF ListenersAreTabs
  <1>9. TabsAreSubscribed'
    <2>1. OpenTabs' \subseteq Tabs /\ \A s \in OpenTabs' : uri'[s] \in Topics
      BY <1>2, <1>3, <1>4
    <2> QED
      BY <1>6, <1>8, <2>1, ShownIsListened
  <1> QED
    BY <1>6, <1>7, <1>8, <1>9 DEF DashboardInv

(* Every tab leaves the mux and comes back, whatever the socket is doing.  *)
LEMMA RunEffectsKeepsInv ==
  ASSUME DashboardInv, RunEffects
  PROVE  DashboardInv'
  <1>1. TypeOK /\ ListenersAreTabs
    BY DEF DashboardInv
  <1>2. /\ render' = "done" /\ view' = {} /\ Become(EffectsRunAgain(Mux))
        /\ UNCHANGED <<tabs, uri, activeId, socket, strict, ghost, hubSubs, toTab>>
    BY DEF RunEffects, tabVars, socketVars
  <1>3. /\ EffectsRunAgain(Mux) \in Muxes
        /\ EffectsRunAgain(Mux).listeners = listeners
        /\ socket # "closed" => Fits(EffectsRunAgain(Mux))
    BY <1>1, EffectsRunAgainFits, MuxFitsNow
  <1>4. /\ listeners' = listeners
        /\ toHub' \in Seq(Op) /\ pendingOps' \in Seq(Op)
        /\ WaitingInOnePlace' /\ RequestsAreTransitions'
        /\ socket' # "closed" =>
             Served(hubSubs, Waiting, Len(Waiting))' = {v \in Topics : listeners'[v] # {}}
    BY <1>2, <1>3, BecomeKeepsOrder
  <1>5. OpenTabs' = OpenTabs
    BY <1>2 DEF OpenTabs
  <1>6. TypeOK'
    BY <1>1, <1>2, <1>4, <1>5 DEF TypeOK
  <1>7. ListenersAreTabs'
    BY <1>1, <1>2, <1>4, <1>5 DEF ListenersAreTabs
  <1>8. TabsAreSubscribed'
    BY <1>1, <1>2, <1>4, <1>5, <1>7, TabsHaveTopics, ShownIsListened
  <1> QED
    BY <1>4, <1>6, <1>7, <1>8 DEF DashboardInv

(* Steps that leave the tabs, the mux and what waits as they are: they     *)
(* select a tab, render, let an event of the first socket come or bring    *)
(* data.                                                                   *)
QuietStep ==
  /\ tabs' = tabs /\ uri' = uri /\ listeners' = listeners /\ pendingOps' = pendingOps
  /\ socket' = socket /\ strict' = strict /\ toHub' = toHub /\ hubSubs' = hubSubs
  /\ activeId' = activeId \/ activeId' \in OpenTabs
  /\ view' \subseteq OpenTabs
  /\ ghost' = ghost \/ (ghost > 0 /\ ghost' = ghost - 1)
  /\ render' \in {"done", "due", "effects due"}
  /\ toTab' \subseteq Topics

(* A quiet step keeps DashboardInv: the bookkeeping between the tabs and  *)
(* the hub stays as it is.                                                 *)
LEMMA QuietStepKeepsInv ==
  ASSUME DashboardInv, QuietStep
  PROVE  DashboardInv'
  <1>1. TypeOK
    BY DEF DashboardInv
  <1>2. /\ OpenTabs' = OpenTabs /\ Waiting' = Waiting
        /\ \A n : Served(hubSubs, Waiting, n)' = Served(hubSubs, Waiting, n)
    BY DEF QuietStep, OpenTabs, Waiting, Served
  <1>3. activeId' \in OpenTabs \cup {None} /\ (activeId' = None <=> tabs = <<>>)
    <2>1. OpenTabs \subseteq Tabs /\ OpenTabs = {tabs[i] : i \in 1..Len(tabs)}
      BY <1>1, TabsHaveTopics
    <2>2. tabs = <<>> => OpenTabs = {}
      BY DEF OpenTabs, ToSet
    <2>3. None \notin OpenTabs
      BY <2>1
    <2> QED
      BY <1>1, <2>2, <2>3 DEF QuietStep, TypeOK
  <1>4. ghost' \in IF strict THEN 0..2 ELSE {0}
    <2>1. ghost \in IF strict THEN 0..2 ELSE {0}
      BY <1>1 DEF TypeOK
    <2>2. ghost' = ghost \/ (ghost > 0 /\ ghost' = ghost - 1)
      BY DEF QuietStep
    <2>3. ghost \in 0..2 => ghost' \in 0..2
      BY <2>2
    <2>4. ghost \in {0} => ghost' \in {0}
      BY <2>2
    <2> QED
      BY <2>1, <2>3, <2>4, Zenon
  <1>5. TypeOK'
    BY <1>1, <1>2, <1>3, <1>4 DEF QuietStep, TypeOK
  <1>6. ListenersAreTabs' /\ WaitingInOnePlace'
    BY <1>2 DEF QuietStep, DashboardInv, ListenersAreTabs, WaitingInOnePlace
  <1>7. TabsAreSubscribed' /\ RequestsAreTransitions'
    BY <1>2 DEF QuietStep, DashboardInv, TabsAreSubscribed, RequestsAreTransitions
  <1> QED
    BY <1>5, <1>6, <1>7 DEF DashboardInv

(* What waited for the socket waits for the gateway, in the same order.    *)
LEMMA SocketOpensKeepsInv ==
  ASSUME DashboardInv, SocketOpens
  PROVE  DashboardInv'
  <1>1. /\ socket = "connecting" /\ socket' = "open" /\ render' = "due"
        /\ toHub' = toHub \o pendingOps /\ pendingOps' = <<>>
        /\ UNCHANGED <<tabs, uri, activeId, view, listeners, strict, ghost, hubSubs, toTab>>
    BY DEF SocketOpens, StateChanges, tabVars
  <1>2. toHub \in Seq(Op) /\ pendingOps \in Seq(Op)
    BY DEF DashboardInv, TypeOK
  <1>3. toHub' \in Seq(Op) /\ pendingOps' \in Seq(Op) /\ Waiting' = Waiting
    BY <1>1, <1>2 DEF Waiting
  <1>4. OpenTabs' = OpenTabs
    BY <1>1 DEF OpenTabs
  <1>5. TypeOK'
    BY <1>1, <1>3, <1>4 DEF DashboardInv, TypeOK
  <1>6. ListenersAreTabs' /\ WaitingInOnePlace'
    BY <1>1, <1>4 DEF DashboardInv, ListenersAreTabs, WaitingInOnePlace
  <1>7. TabsAreSubscribed' /\ RequestsAreTransitions'
    BY <1>1, <1>3, <1>4 DEF DashboardInv, TabsAreSubscribed, RequestsAreTransitions
  <1> QED
    BY <1>5, <1>6, <1>7 DEF DashboardInv

(* What still waits when the socket has closed is asked of nobody; it is   *)
(* what a gateway that knows nothing of the window could be asked.         *)
LEMMA SocketClosesKeepsInv ==
  ASSUME DashboardInv, SocketCloses
  PROVE  DashboardInv'
  <1>1. /\ socket # "closed" /\ socket' = "closed" /\ render' = "due"
        /\ toHub' = <<>> /\ hubSubs' = {} /\ toTab' = {}
        /\ UNCHANGED <<tabs, uri, activeId, view, listeners, pendingOps, strict, ghost>>
    BY DEF SocketCloses, StateChanges, tabVars
  <1>2. /\ pendingOps \in Seq(Op) /\ toHub' \in Seq(Op)
        /\ Waiting' = pendingOps
    <2>1. pendingOps \in Seq(Op)
      BY DEF DashboardInv, TypeOK
    <2> QED
      BY <1>1, <2>1, EmptySeq, ConcatEmptySeq DEF Waiting
  <1>3. OpenTabs' = OpenTabs
    BY <1>1 DEF OpenTabs
  <1>4. TypeOK'
    BY <1>1, <1>2, <1>3 DEF DashboardInv, TypeOK
  <1>5. ListenersAreTabs' /\ WaitingInOnePlace' /\ TabsAreSubscribed'
    BY <1>1, <1>3 DEF DashboardInv, ListenersAreTabs, WaitingInOnePlace, TabsAreSubscribed
  <1>6. Transitions({}, pendingOps)
    <2>1. CASE socket = "open"
      <3>1. pendingOps = <<>>
        BY <2>1 DEF DashboardInv, WaitingInOnePlace
      <3> QED
        BY <3>1 DEF Transitions
    <2>2. CASE socket # "open"
      <3>1. toHub = <<>> /\ hubSubs = {}
        BY <2>2 DEF DashboardInv, WaitingInOnePlace
      <3>2. Waiting = pendingOps
        BY <1>2, <3>1, ConcatEmptySeq DEF Waiting
      <3> QED
        BY <3>1, <3>2 DEF DashboardInv, RequestsAreTransitions
    <2> QED
      BY <2>1, <2>2
  <1>7. RequestsAreTransitions'
    BY <1>1, <1>2, <1>6 DEF RequestsAreTransitions
  <1> QED
    BY <1>4, <1>5, <1>7 DEF DashboardInv

(* The first request that waits is handled.                                *)
LEMMA HubHandlesKeepsInv ==
  ASSUME DashboardInv, HubHandles
  PROVE  DashboardInv'
  <1>1. /\ toHub # <<>> /\ toHub' = Tail(toHub) /\ hubSubs' = After(Head(toHub), hubSubs)
        /\ \E snapshots \in SUBSET (hubSubs' \ hubSubs) : toTab' = toTab \cup snapshots
        /\ UNCHANGED <<tabs, uri, activeId, view, listeners, pendingOps, socket, strict, ghost, render>>
    BY DEF HubHandles, tabVars, socketVars
  <1>2. /\ toHub \in Seq(Op) /\ pendingOps \in Seq(Op)
        /\ hubSubs \in SUBSET Topics /\ toTab \subseteq Topics
    BY DEF DashboardInv, TypeOK
  <1>3. /\ Waiting \in Seq(Op) /\ Waiting # <<>> /\ Head(Waiting) = Head(toHub)
        /\ Waiting' \in Seq(Op) /\ Waiting' = Tail(Waiting) /\ toHub' \in Seq(Op)
    BY <1>1, <1>2 DEF Waiting
  <1>4. /\ Len(Waiting) \in Nat \ {0} /\ Len(Waiting') = Len(Waiting) - 1
        /\ DOMAIN Waiting = 1..Len(Waiting) /\ DOMAIN Waiting' = 1..(Len(Waiting) - 1)
        /\ \A i \in 1..(Len(Waiting) - 1) : Waiting'[i] = Waiting[i + 1]
    BY <1>3
  <1>5. \A n \in 0..(Len(Waiting) - 1) :
          Served(hubSubs', Waiting', n) = Served(hubSubs, Waiting, n + 1)
    BY <1>1, <1>2, <1>3, ServedAfterTheFirst
  <1>6. hubSubs' \subseteq Topics /\ toTab' \subseteq Topics
    <2>1. Head(toHub) \in Op
      BY <1>1, <1>2
    <2>2. hubSubs' \subseteq Topics
      BY <1>1, <1>2, <2>1 DEF After, Op
    <2> QED
      BY <1>1, <1>2, <2>2
  <1>7. OpenTabs' = OpenTabs
    BY <1>1 DEF OpenTabs
  <1>8. TypeOK'
    BY <1>1, <1>3, <1>6, <1>7 DEF DashboardInv, TypeOK
  <1>9. ListenersAreTabs' /\ WaitingInOnePlace'
    BY <1>1, <1>7 DEF DashboardInv, ListenersAreTabs, WaitingInOnePlace
  <1>10. TabsAreSubscribed'
    <2>1. Served(hubSubs', Waiting', Len(Waiting')) = Served(hubSubs, Waiting, Len(Waiting))
      BY <1>4, <1>5
    <2> QED
      BY <1>1, <1>7, <2>1 DEF DashboardInv, TabsAreSubscribed
  <1>11. RequestsAreTransitions'
    <2> SUFFICES ASSUME NEW i \in 1..(Len(Waiting) - 1)
                 PROVE  Waiting'[i].op = "subscribe"
                          <=> Waiting'[i].uri \notin Served(hubSubs', Waiting', i - 1)
      BY <1>4 DEF RequestsAreTransitions, Transitions
    <2>1. i + 1 \in 1..Len(Waiting) /\ (i + 1) - 1 = i /\ i - 1 \in 0..(Len(Waiting) - 1) /\ (i - 1) + 1 = i
      BY <1>4
    <2>2. Waiting[i + 1].op = "subscribe" <=> Waiting[i + 1].uri \notin Served(hubSubs, Waiting, i)
      BY <1>4, <2>1 DEF DashboardInv, RequestsAreTransitions, Transitions
    <2> QED
      BY <1>4, <1>5, <2>1, <2>2
  <1> QED
    BY <1>8, <1>9, <1>10, <1>11 DEF DashboardInv

-----------------------------------------------------------------------------
(* The invariant                                                           *)

(* Nothing is shown, nothing waits and nothing is served at first.         *)
LEMMA DashboardInvInit == Init => DashboardInv
  <1> SUFFICES ASSUME Init PROVE DashboardInv
    OBVIOUS
  <1>1. OpenTabs = {} /\ Waiting = <<>>
    BY DEF Init, OpenTabs, Waiting, ToSet
  <1>2. TypeOK
    <2>1. tabs \in Seq(Tabs) /\ pendingOps \in Seq(Op) /\ toHub \in Seq(Op)
      BY DEF Init
    <2>2. IsInjective(tabs)
      BY DEF Init, IsInjective
    <2> QED
      BY <1>1, <2>1, <2>2 DEF Init, TypeOK
  <1>3. ListenersAreTabs /\ WaitingInOnePlace
    BY <1>1 DEF Init, ListenersAreTabs, WaitingInOnePlace
  <1>4. TabsAreSubscribed /\ RequestsAreTransitions
    BY <1>1 DEF Init, TabsAreSubscribed, RequestsAreTransitions, Transitions, Served
  <1> QED
    BY <1>2, <1>3, <1>4 DEF DashboardInv

(* Every step of a window keeps the invariant.                             *)
LEMMA DashboardInvStep == DashboardInv /\ [Next]_vars => DashboardInv'
  <1> SUFFICES ASSUME DashboardInv, [Next]_vars
               PROVE  DashboardInv'
    OBVIOUS
  <1> USE DEF tabVars, socketVars
  <1>1. ASSUME NEW t \in Tabs, NEW u \in Topics, OpenTab(t, u)
        PROVE  DashboardInv'
    BY <1>1, OpenTabKeepsInv
  <1>2. ASSUME NEW t \in Tabs, CloseTab(t)
        PROVE  DashboardInv'
    BY <1>2, CloseTabKeepsInv
  <1>3. /\ view \subseteq OpenTabs /\ toTab \subseteq Topics /\ hubSubs \subseteq Topics
        /\ render \in {"done", "due", "effects due"}
        /\ \A u \in Topics : listeners[u] \subseteq OpenTabs
    <2>1. TypeOK
      BY DEF DashboardInv
    <2>2. view \subseteq OpenTabs /\ toTab \subseteq Topics /\ hubSubs \subseteq Topics
      BY <2>1 DEF TypeOK
    <2>3. render \in {"done", "due", "effects due"}
      BY <2>1 DEF TypeOK
    <2>4. \A u \in Topics : listeners[u] \subseteq OpenTabs
      BY DEF DashboardInv, ListenersAreTabs
    <2> QED
      BY <2>2, <2>3, <2>4
  <1>4. ASSUME NEW t \in Tabs, SelectTab(t)
        PROVE  DashboardInv'
    <2>1. QuietStep
      BY <1>3, <1>4 DEF SelectTab, QuietStep
    <2> QED
      BY <2>1, QuietStepKeepsInv
  <1>5. CASE Render
    <2>1. QuietStep
      BY <1>3, <1>5 DEF Render, QuietStep
    <2> QED
      BY <2>1, QuietStepKeepsInv
  <1>6. CASE RunEffects
    BY <1>6, RunEffectsKeepsInv
  <1>7. CASE SocketOpens
    BY <1>7, SocketOpensKeepsInv
  <1>8. CASE SocketCloses
    BY <1>8, SocketClosesKeepsInv
  <1>9. CASE GhostEvent
    <2>1. QuietStep
      BY <1>3, <1>9 DEF GhostEvent, StateChanges, QuietStep
    <2> QED
      BY <2>1, QuietStepKeepsInv
  <1>10. ASSUME NEW u \in Topics, MessageArrives(u)
         PROVE  DashboardInv'
    <2>1. QuietStep
      BY <1>3, <1>10 DEF MessageArrives, Dispatch, QuietStep
    <2> QED
      BY <2>1, QuietStepKeepsInv
  <1>11. ASSUME NEW u \in Topics, BookMoves(u)
         PROVE  DashboardInv'
    <2>1. QuietStep
      BY <1>3, <1>11 DEF BookMoves, QuietStep
    <2> QED
      BY <2>1, QuietStepKeepsInv
  <1>12. CASE HubHandles
    BY <1>12, HubHandlesKeepsInv
  <1>13. CASE UNCHANGED vars
    <2>1. QuietStep
      BY <1>3, <1>13 DEF vars, QuietStep
    <2> QED
      BY <2>1, QuietStepKeepsInv
  <1> QED
    BY <1>1, <1>2, <1>4, <1>5, <1>6, <1>7, <1>8, <1>9, <1>10, <1>11, <1>12, <1>13 DEF Next

(* DashboardInv holds in every state of a window.                          *)
THEOREM DashboardInvariant == Spec => []DashboardInv
  BY DashboardInvInit, DashboardInvStep, PTL DEF Spec

(* Types                                                                   *)
THEOREM DashboardTypeCorrect == Spec => []TypeOK
  <1>1. DashboardInv => TypeOK
    BY DEF DashboardInv
  <1> QED
    BY <1>1, DashboardInvariant, PTL

(* When the gateway has handled what is on its way and what waits for the  *)
(* socket, it serves the topics of the open tabs and no others.            *)
THEOREM TabsAreAlwaysSubscribed == Spec => []TabsAreSubscribed
  <1>1. DashboardInv => TabsAreSubscribed
    BY DEF DashboardInv
  <1> QED
    BY <1>1, DashboardInvariant, PTL

(* No request asks for what is served by then, or gives up what is not.    *)
THEOREM RequestsAreAlwaysTransitions == Spec => []RequestsAreTransitions
  <1>1. DashboardInv => RequestsAreTransitions
    BY DEF DashboardInv
  <1> QED
    BY <1>1, DashboardInvariant, PTL
=============================================================================
