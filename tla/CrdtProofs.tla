----------------------------- MODULE CrdtProofs -----------------------------
(***************************************************************************)
(* Proofs about PNCounter.tla, MVRegister.tla and ORSet.tla for any number *)
(* of peers, operations, elements and copies, and any limits of the arrays, *)
(* the counts and the clocks.                                              *)
(***************************************************************************)
EXTENDS PNCounter, MVRegister, ORSet, Induction, SequenceTheorems

-----------------------------------------------------------------------------
(* What peer s's own slot and clock were after its k-th operation, in the   *)
(* histories h.                                                            *)
IncsAt(h, s, k)  == IF k = 0 THEN 0 ELSE h[s][k].p
DecsAt(h, s, k)  == IF k = 0 THEN 0 ELSE h[s][k].n
ClockAt(h, s, k) == IF k = 0 THEN 0 ELSE h[s][k].clock

Histories == [Peer -> Seq(Op)]

Upto(h, s) == 0 .. Len(h[s])

(* A peer's own counts and clock never go back. *)
Monotone(h) ==
  \A s \in Peer : \A i, j \in Upto(h, s) :
    i <= j => /\ IncsAt(h, s, i) <= IncsAt(h, s, j)
              /\ DecsAt(h, s, i) <= DecsAt(h, s, j)
              /\ ClockAt(h, s, i) <= ClockAt(h, s, j)

(* A replica, or a copy of one, that has seen k[s] operations of each peer  *)
(* s holds what these left, and its clock is the latest of theirs.          *)
Counts(h, c, k) ==
  \A s \in Peer : /\ k[s] \in Upto(h, s)
                  /\ c.p[s] = IncsAt(h, s, k[s])
                  /\ c.n[s] = DecsAt(h, s, k[s])

NotBehind(h, c, k) == \A s \in Peer : ClockAt(h, s, k[s]) <= c.clock

NotAhead(h, c, k) == c.clock = 0 \/ \E s \in Peer : c.clock = ClockAt(h, s, k[s])

Faithful(h, c, k) ==
  /\ c \in Counter /\ k \in [Peer -> Nat]
  /\ Counts(h, c, k)
  /\ NotBehind(h, c, k)
  /\ NotAhead(h, c, k)

CounterInv ==
  /\ made \in Histories /\ Monotone(made)
  /\ counter \in [Peer -> Counter] /\ known \in [Peer -> [Peer -> Nat]]
  /\ sent \subseteq Copy
  /\ \A r \in Peer : Faithful(made, counter[r], known[r]) /\ known[r][r] = Len(made[r])
  /\ \A m \in sent : Faithful(made, m.counter, m.known)

-----------------------------------------------------------------------------
LEMMA AtType ==
  ASSUME NEW h \in Histories, NEW s \in Peer, NEW k \in Upto(h, s)
  PROVE  /\ Len(h[s]) \in Nat /\ k \in Nat
         /\ IncsAt(h, s, k) \in 0 .. MaxInt
         /\ DecsAt(h, s, k) \in 0 .. MaxInt
         /\ ClockAt(h, s, k) \in 0 .. LamportMax
<1>1. h[s] \in Seq(Op) /\ Len(h[s]) \in Nat /\ k \in Nat
  BY DEF Histories, Upto
<1>2. CASE k = 0
  BY <1>1, <1>2, CounterAssumption DEF IncsAt, DecsAt, ClockAt
<1>3. CASE k # 0
  <2>1. h[s][k] \in Op
    BY <1>1, <1>3, ElementOfSeq DEF Upto
  <2> QED BY <1>1, <1>3, <2>1 DEF IncsAt, DecsAt, ClockAt, Op
<1> QED BY <1>2, <1>3

(* merge takes the larger of what the two have seen, slot by slot. *)
LEMMA MergedCounter ==
  ASSUME NEW c \in Counter, NEW d \in Counter
  PROVE  /\ Merged(c, d) \in Counter
         /\ Merged(c, d).p = [s \in Peer |-> Larger(c.p[s], d.p[s])]
         /\ Merged(c, d).n = [s \in Peer |-> Larger(c.n[s], d.n[s])]
         /\ Merged(c, d).clock = Larger(c.clock, d.clock)
<1> DEFINE p == [s \in Peer |-> Larger(c.p[s], d.p[s])]
           n == [s \in Peer |-> Larger(c.n[s], d.n[s])]
           t == Larger(c.clock, d.clock)
<1>1. p \in [Peer -> 0 .. MaxInt] /\ n \in [Peer -> 0 .. MaxInt] /\ t \in 0 .. LamportMax
  BY DEF Counter, Larger
<1>2. Merged(c, d) = [p |-> p, n |-> n, clock |-> t]
  BY DEF Merged
<1> HIDE DEF p, n, t
<1>3. [p |-> p, n |-> n, clock |-> t] \in Counter
  BY <1>1 DEF Counter
<1> QED BY <1>2, <1>3 DEF p, n, t

LEMMA MergeIsFaithful ==
  ASSUME NEW h \in Histories, Monotone(h),
         NEW c, NEW k, Faithful(h, c, k),
         NEW d, NEW l, Faithful(h, d, l)
  PROVE  Faithful(h, Merged(c, d), [s \in Peer |-> Larger(k[s], l[s])])
<1> DEFINE e == Merged(c, d)
           j == [s \in Peer |-> Larger(k[s], l[s])]
<1>1. /\ c \in Counter /\ d \in Counter
      /\ k \in [Peer -> Nat] /\ l \in [Peer -> Nat] /\ j \in [Peer -> Nat]
  BY DEF Faithful, Larger
<1>2. /\ e \in Counter
      /\ \A s \in Peer : /\ e.p[s] = Larger(c.p[s], d.p[s])
                         /\ e.n[s] = Larger(c.n[s], d.n[s])
      /\ e.clock = Larger(c.clock, d.clock)
  <2>1. /\ e \in Counter
        /\ e.p = [s \in Peer |-> Larger(c.p[s], d.p[s])]
        /\ e.n = [s \in Peer |-> Larger(c.n[s], d.n[s])]
        /\ e.clock = Larger(c.clock, d.clock)
    BY <1>1, MergedCounter
  <2> HIDE DEF e
  <2> QED BY <2>1
<1> HIDE DEF e
<1>3. \A s \in Peer : /\ k[s] \in Upto(h, s) /\ l[s] \in Upto(h, s)
                      /\ k[s] \in Nat /\ l[s] \in Nat
                      /\ c.clock \in Nat /\ d.clock \in Nat
                      /\ ClockAt(h, s, k[s]) \in Nat /\ ClockAt(h, s, l[s]) \in Nat
                      /\ ClockAt(h, s, k[s]) <= c.clock /\ ClockAt(h, s, l[s]) <= d.clock
  BY <1>1, AtType, CounterAssumption DEF Faithful, Counts, NotBehind, Counter
<1>4. ASSUME NEW s \in Peer
      PROVE  /\ j[s] \in Upto(h, s)
             /\ e.p[s] = IncsAt(h, s, j[s]) /\ e.n[s] = DecsAt(h, s, j[s])
             /\ ClockAt(h, s, k[s]) <= ClockAt(h, s, j[s])
             /\ ClockAt(h, s, l[s]) <= ClockAt(h, s, j[s])
             /\ ClockAt(h, s, j[s]) <= e.clock
  <2>1. /\ c.p[s] = IncsAt(h, s, k[s]) /\ c.n[s] = DecsAt(h, s, k[s])
        /\ d.p[s] = IncsAt(h, s, l[s]) /\ d.n[s] = DecsAt(h, s, l[s])
    BY DEF Faithful, Counts
  <2>2. /\ IncsAt(h, s, k[s]) \in Nat /\ DecsAt(h, s, k[s]) \in Nat
        /\ IncsAt(h, s, l[s]) \in Nat /\ DecsAt(h, s, l[s]) \in Nat
    BY <1>3, AtType
  <2>3. CASE l[s] > k[s]
    <3>1. j[s] = l[s] /\ k[s] <= l[s]
      BY <1>3, <2>3 DEF Larger
    <3>2. /\ IncsAt(h, s, k[s]) <= IncsAt(h, s, l[s])
          /\ DecsAt(h, s, k[s]) <= DecsAt(h, s, l[s])
          /\ ClockAt(h, s, k[s]) <= ClockAt(h, s, l[s])
      BY <1>3, <3>1 DEF Monotone
    <3> QED BY <1>2, <1>3, <2>1, <2>2, <3>1, <3>2 DEF Larger
  <2>4. CASE ~(l[s] > k[s])
    <3>1. j[s] = k[s] /\ l[s] <= k[s]
      BY <1>3, <2>4 DEF Larger
    <3>2. /\ IncsAt(h, s, l[s]) <= IncsAt(h, s, k[s])
          /\ DecsAt(h, s, l[s]) <= DecsAt(h, s, k[s])
          /\ ClockAt(h, s, l[s]) <= ClockAt(h, s, k[s])
      BY <1>3, <3>1 DEF Monotone
    <3> QED BY <1>2, <1>3, <2>1, <2>2, <3>1, <3>2 DEF Larger
  <2> QED BY <2>3, <2>4
<1>5. Counts(h, e, j) /\ NotBehind(h, e, j)
  BY <1>4 DEF Counts, NotBehind
<1>6. NotAhead(h, e, j)
  <2>1. e.clock \in Nat /\ (e.clock = c.clock \/ e.clock = d.clock)
    BY <1>1, <1>2 DEF Larger, Counter
  <2>2. \A s \in Peer : j[s] \in Upto(h, s) /\ ClockAt(h, s, j[s]) \in Nat
    BY <1>4, AtType
  <2>3. ASSUME NEW s \in Peer,
               e.clock = ClockAt(h, s, k[s]) \/ e.clock = ClockAt(h, s, l[s])
        PROVE  e.clock = ClockAt(h, s, j[s])
    BY <1>3, <1>4, <2>1, <2>2, <2>3
  <2>4. c.clock = 0 \/ \E s \in Peer : c.clock = ClockAt(h, s, k[s])
    BY DEF Faithful, NotAhead
  <2>5. d.clock = 0 \/ \E s \in Peer : d.clock = ClockAt(h, s, l[s])
    BY DEF Faithful, NotAhead
  <2> QED BY <2>1, <2>3, <2>4, <2>5 DEF NotAhead
<1> QED BY <1>1, <1>2, <1>5, <1>6 DEF Faithful, e

-----------------------------------------------------------------------------
(* An operation adds to the history of its peer and leaves the earlier      *)
(* entries, so what was faithful stays faithful.                           *)
After(h, r, o) == [h EXCEPT ![r] = Append(h[r], o)]

Noted(k, r, n) == [k EXCEPT ![r] = n]

LEMMA AppendedHistory ==
  ASSUME NEW h \in Histories, NEW r \in Peer, NEW o \in Op,
         NEW g, g = After(h, r, o)
  PROVE  /\ g \in Histories
         /\ Len(g[r]) = Len(h[r]) + 1
         /\ IncsAt(g, r, Len(h[r]) + 1) = o.p
         /\ DecsAt(g, r, Len(h[r]) + 1) = o.n
         /\ ClockAt(g, r, Len(h[r]) + 1) = o.clock
         /\ \A s \in Peer, k \in Nat : k \in Upto(h, s) =>
              /\ k \in Upto(g, s)
              /\ IncsAt(g, s, k) = IncsAt(h, s, k)
              /\ DecsAt(g, s, k) = DecsAt(h, s, k)
              /\ ClockAt(g, s, k) = ClockAt(h, s, k)
<1>1. h \in [Peer -> Seq(Op)] /\ h[r] \in Seq(Op) /\ Len(h[r]) \in Nat
  BY DEF Histories
<1>2. /\ Append(h[r], o) \in Seq(Op)
      /\ Len(Append(h[r], o)) = Len(h[r]) + 1
      /\ Append(h[r], o)[Len(h[r]) + 1] = o
      /\ \A k \in 1 .. Len(h[r]) : Append(h[r], o)[k] = h[r][k]
  BY <1>1, AppendProperties
<1>3. /\ g \in [Peer -> Seq(Op)] /\ g[r] = Append(h[r], o)
      /\ \A s \in Peer : s # r => g[s] = h[s]
  BY <1>1, <1>2 DEF After
<1>4. Len(h[r]) + 1 # 0
  BY <1>1
<1>5. ASSUME NEW s \in Peer, NEW k \in Nat, k \in Upto(h, s)
      PROVE  k \in Upto(g, s) /\ (k = 0 \/ g[s][k] = h[s][k])
  <2>1. CASE s = r
    BY <1>1, <1>2, <1>3, <1>5, <2>1 DEF Upto
  <2>2. CASE s # r
    BY <1>3, <1>5, <2>2 DEF Upto
  <2> QED BY <2>1, <2>2
<1> QED BY <1>2, <1>3, <1>4, <1>5 DEF Histories, IncsAt, DecsAt, ClockAt

LEMMA AppendedMonotone ==
  ASSUME NEW h \in Histories, Monotone(h), NEW r \in Peer, NEW o \in Op,
         NEW g, g = After(h, r, o),
         IncsAt(h, r, Len(h[r])) <= o.p,
         DecsAt(h, r, Len(h[r])) <= o.n,
         ClockAt(h, r, Len(h[r])) <= o.clock
  PROVE  Monotone(g)
<1> SUFFICES ASSUME NEW s \in Peer, NEW i \in Upto(g, s), NEW j \in Upto(g, s), i <= j
             PROVE  /\ IncsAt(g, s, i) <= IncsAt(g, s, j)
                    /\ DecsAt(g, s, i) <= DecsAt(g, s, j)
                    /\ ClockAt(g, s, i) <= ClockAt(g, s, j)
  BY DEF Monotone
<1> DEFINE n == Len(h[r])
<1>1. /\ g \in Histories /\ Len(g[r]) = n + 1
      /\ IncsAt(g, r, n + 1) = o.p /\ DecsAt(g, r, n + 1) = o.n
      /\ ClockAt(g, r, n + 1) = o.clock
  BY AppendedHistory
<1>2. \A t \in Peer, k \in Nat : k \in Upto(h, t) =>
        /\ IncsAt(g, t, k) = IncsAt(h, t, k)
        /\ DecsAt(g, t, k) = DecsAt(h, t, k)
        /\ ClockAt(g, t, k) = ClockAt(h, t, k)
  BY AppendedHistory
<1>3. i \in Nat /\ j \in Nat /\ n \in Nat /\ Len(g[s]) \in Nat
  BY <1>1 DEF Upto, Histories
<1>4. s # r => g[s] = h[s]
  BY DEF Histories, After
<1>5. CASE j \in Upto(h, s)
  <2>1. i \in Upto(h, s)
    BY <1>3, <1>5 DEF Upto, Histories
  <2> QED BY <1>2, <1>3, <1>5, <2>1 DEF Monotone
<1>6. CASE j \notin Upto(h, s)
  <2>1. s = r /\ j = n + 1
    BY <1>1, <1>3, <1>4, <1>6 DEF Upto
  <2>2. CASE i = j
    BY <1>1, AtType, <2>2
  <2>3. CASE i # j
    <3>1. i \in Upto(h, r) /\ n \in Upto(h, r) /\ i <= n
      BY <1>3, <2>1, <2>3 DEF Upto
    <3>2. /\ IncsAt(h, r, i) <= IncsAt(h, r, n)
          /\ DecsAt(h, r, i) <= DecsAt(h, r, n)
          /\ ClockAt(h, r, i) <= ClockAt(h, r, n)
      BY <3>1 DEF Monotone
    <3>3. /\ IncsAt(h, r, i) \in Nat /\ IncsAt(h, r, n) \in Nat
          /\ DecsAt(h, r, i) \in Nat /\ DecsAt(h, r, n) \in Nat
          /\ ClockAt(h, r, i) \in Nat /\ ClockAt(h, r, n) \in Nat
      BY <3>1, AtType
    <3>4. o.p \in Nat /\ o.n \in Nat /\ o.clock \in Nat
      BY DEF Op
    <3>5. /\ IncsAt(g, r, i) = IncsAt(h, r, i)
          /\ DecsAt(g, r, i) = DecsAt(h, r, i)
          /\ ClockAt(g, r, i) = ClockAt(h, r, i)
      BY <1>2, <1>3, <3>1
    <3> HIDE DEF n
    <3>6. IncsAt(h, r, n) <= o.p /\ DecsAt(h, r, n) <= o.n /\ ClockAt(h, r, n) <= o.clock
      BY DEF n
    <3>7. /\ IncsAt(h, r, i) <= o.p /\ DecsAt(h, r, i) <= o.n
          /\ ClockAt(h, r, i) <= o.clock
      BY <3>2, <3>3, <3>4, <3>6
    <3> QED BY <1>1, <2>1, <3>5, <3>7
  <2> QED BY <2>2, <2>3
<1> QED BY <1>5, <1>6

LEMMA AppendedFaithful ==
  ASSUME NEW h \in Histories, NEW r \in Peer, NEW o \in Op,
         NEW g, g = After(h, r, o),
         NEW c, NEW k, Faithful(h, c, k)
  PROVE  Faithful(g, c, k)
<1>1. \A s \in Peer, i \in Nat : i \in Upto(h, s) =>
        /\ i \in Upto(g, s)
        /\ IncsAt(g, s, i) = IncsAt(h, s, i)
        /\ DecsAt(g, s, i) = DecsAt(h, s, i)
        /\ ClockAt(g, s, i) = ClockAt(h, s, i)
  BY AppendedHistory
<1>2. c \in Counter /\ k \in [Peer -> Nat]
  BY DEF Faithful
<1>3. \A s \in Peer : k[s] \in Nat /\ k[s] \in Upto(h, s)
  BY <1>2 DEF Faithful, Counts
<1>4. Counts(g, c, k)
  BY <1>1, <1>3 DEF Faithful, Counts
<1>5. NotBehind(g, c, k)
  BY <1>1, <1>3 DEF Faithful, NotBehind
<1>6. NotAhead(g, c, k)
  BY <1>1, <1>3 DEF Faithful, NotAhead
<1> QED BY <1>2, <1>4, <1>5, <1>6 DEF Faithful

(* The replica d peer r has after an operation o, which may raise both its  *)
(* own counts, leaves the other slots alone and never lowers the clock.     *)
LEMMA OperatedFaithful ==
  ASSUME NEW h \in Histories, NEW r \in Peer, NEW o \in Op,
         NEW g, g = After(h, r, o),
         NEW c, NEW k, Faithful(h, c, k), k[r] = Len(h[r]),
         NEW d \in Counter, o.p = d.p[r], o.n = d.n[r], o.clock = d.clock,
         \A s \in Peer : s # r => d.p[s] = c.p[s] /\ d.n[s] = c.n[s],
         c.clock <= d.clock,
         NEW l, l = Noted(k, r, Len(h[r]) + 1)
  PROVE  Faithful(g, d, l) /\ l[r] = Len(g[r])
<1>1. /\ c \in Counter /\ k \in [Peer -> Nat] /\ Len(h[r]) \in Nat
      /\ c.clock \in Nat /\ d.clock \in Nat
  BY DEF Faithful, Histories, Counter
<1>2. /\ l \in [Peer -> Nat] /\ l[r] = Len(h[r]) + 1
      /\ \A s \in Peer : s # r => l[s] = k[s]
  BY <1>1 DEF Noted
<1>3. /\ g \in Histories /\ Len(g[r]) = Len(h[r]) + 1
      /\ IncsAt(g, r, l[r]) = o.p /\ DecsAt(g, r, l[r]) = o.n
      /\ ClockAt(g, r, l[r]) = o.clock
  BY <1>2, AppendedHistory
<1>4. Faithful(g, c, k)
  BY AppendedFaithful
<1>5. Counts(g, d, l)
  <2>1. l[r] \in Upto(g, r)
    BY <1>1, <1>2, <1>3 DEF Upto
  <2> QED BY <1>2, <1>3, <1>4, <2>1 DEF Faithful, Counts
<1>6. NotBehind(g, d, l)
  <2> SUFFICES ASSUME NEW s \in Peer PROVE ClockAt(g, s, l[s]) <= d.clock
    BY DEF NotBehind
  <2>1. CASE s = r
    BY <1>1, <1>3, <2>1
  <2>2. CASE s # r
    <3>1. k[s] \in Upto(g, s) /\ ClockAt(g, s, k[s]) <= c.clock
      BY <1>4 DEF Faithful, Counts, NotBehind
    <3>2. ClockAt(g, s, k[s]) \in Nat
      BY <1>3, <3>1, AtType
    <3> QED BY <1>1, <1>2, <2>2, <3>1, <3>2
  <2> QED BY <2>1, <2>2
<1>7. NotAhead(g, d, l)
  BY <1>3 DEF NotAhead
<1> QED BY <1>2, <1>3, <1>5, <1>6, <1>7 DEF Faithful

-----------------------------------------------------------------------------
(* Every step keeps the replicas and the copies faithful to the histories.  *)
LEMMA InitCounter == CounterInit => CounterInv
<1> SUFFICES ASSUME CounterInit PROVE CounterInv
  OBVIOUS
<1> DEFINE zero == [s \in Peer |-> 0]
<1>1. zero \in [Peer -> 0 .. MaxInt] /\ zero \in [Peer -> Nat] /\ 0 \in 0 .. LamportMax
  BY CounterAssumption
<1>2. /\ \A s \in Peer : made[s] = << >> /\ Len(made[s]) = 0
      /\ made \in Histories
  BY DEF CounterInit, Histories
<1>3. \A r \in Peer : known[r] = zero /\ counter[r] = [p |-> zero, n |-> zero, clock |-> 0]
  BY DEF CounterInit
<1>4. \A s \in Peer : zero[s] = 0
  OBVIOUS
<1> HIDE DEF zero
<1>5. [p |-> zero, n |-> zero, clock |-> 0] \in Counter
  BY <1>1 DEF Counter
<1>6. Monotone(made)
  BY <1>2 DEF Monotone, Upto, IncsAt, DecsAt, ClockAt
<1>7. \A r \in Peer : Faithful(made, counter[r], known[r]) /\ known[r][r] = Len(made[r])
  BY <1>1, <1>2, <1>3, <1>4, <1>5
  DEF Faithful, Counts, NotBehind, NotAhead, Upto, IncsAt, DecsAt, ClockAt
<1>8. /\ counter \in [Peer -> Counter] /\ known \in [Peer -> [Peer -> Nat]]
      /\ sent = {}
  BY <1>1, <1>5 DEF CounterInit, zero
<1> QED BY <1>2, <1>6, <1>7, <1>8 DEF CounterInv

LEMMA Saturates ==
  ASSUME NEW max \in Nat, NEW x \in 0 .. max
  PROVE  Saturated(x, max) \in 0 .. max /\ x <= Saturated(x, max)
BY DEF Saturated

(* An operation of peer r that turns its replica into d. *)
LEMMA OperateStep ==
  ASSUME CounterInv, NEW r \in Peer, NEW kind \in {"inc", "dec"}, NEW d \in Counter,
         Operate(r, kind, d),
         \A s \in Peer : s # r => d.p[s] = counter[r].p[s] /\ d.n[s] = counter[r].n[s],
         counter[r].p[r] <= d.p[r], counter[r].n[r] <= d.n[r],
         counter[r].clock <= d.clock
  PROVE  CounterInv'
<1> DEFINE o == [kind |-> kind, p |-> d.p[r], n |-> d.n[r], clock |-> d.clock]
           l == [known[r] EXCEPT ![r] = Len(made[r]) + 1]
<1>1. o \in Op
  BY DEF Op, Counter
<1>2. /\ made' = After(made, r, o)
      /\ counter' = [counter EXCEPT ![r] = d]
      /\ known' = [known EXCEPT ![r] = l]
      /\ sent' = sent
  BY DEF Operate, After
<1>3. /\ made \in Histories /\ Monotone(made)
      /\ counter \in [Peer -> Counter] /\ known \in [Peer -> [Peer -> Nat]]
      /\ Faithful(made, counter[r], known[r]) /\ known[r][r] = Len(made[r])
      /\ Len(made[r]) \in Nat
  BY DEF CounterInv, Histories
<1>4. o.p = d.p[r] /\ o.n = d.n[r] /\ o.clock = d.clock
  OBVIOUS
<1>5. l \in [Peer -> Nat]
  BY <1>3
<1>6. l = Noted(known[r], r, Len(made[r]) + 1)
  BY DEF Noted
<1> HIDE DEF o, l
<1>7. made' \in Histories /\ Len(made'[r]) = Len(made[r]) + 1
  BY <1>1, <1>2, <1>3, AppendedHistory
<1>8. Monotone(made')
  <2>1. /\ IncsAt(made, r, Len(made[r])) = counter[r].p[r]
        /\ DecsAt(made, r, Len(made[r])) = counter[r].n[r]
        /\ ClockAt(made, r, Len(made[r])) <= counter[r].clock
    BY <1>3 DEF Faithful, Counts, NotBehind
  <2>2. ClockAt(made, r, Len(made[r])) <= d.clock
    <3>1. Len(made[r]) \in Upto(made, r)
      BY <1>3 DEF Upto
    <3>2. ClockAt(made, r, Len(made[r])) \in Nat
      BY <1>3, <3>1, AtType
    <3>3. counter[r].clock \in Nat /\ d.clock \in Nat
      BY <1>3 DEF Counter
    <3> QED BY <2>1, <3>2, <3>3
  <2> QED BY <1>1, <1>2, <1>3, <1>4, <2>1, <2>2, AppendedMonotone
<1>9. Faithful(made', d, l) /\ l[r] = Len(made'[r])
  BY <1>1, <1>2, <1>3, <1>4, <1>6, OperatedFaithful
<1>10. ASSUME NEW s \in Peer
       PROVE  Faithful(made', counter'[s], known'[s]) /\ known'[s][s] = Len(made'[s])
  <2>1. CASE s = r
    BY <1>2, <1>3, <1>5, <1>9, <2>1
  <2>2. CASE s # r
    <3>1. counter'[s] = counter[s] /\ known'[s] = known[s] /\ made'[s] = made[s]
      BY <1>2, <1>3, <2>2 DEF After, Histories
    <3>2. Faithful(made, counter[s], known[s]) /\ known[s][s] = Len(made[s])
      BY DEF CounterInv
    <3>3. Faithful(made', counter[s], known[s])
      BY <1>1, <1>2, <1>3, <3>2, AppendedFaithful
    <3> QED BY <3>1, <3>2, <3>3
  <2> QED BY <2>1, <2>2
<1>11. ASSUME NEW m \in sent
       PROVE  Faithful(made', m.counter, m.known)
  <2>1. Faithful(made, m.counter, m.known)
    BY DEF CounterInv
  <2> QED BY <1>1, <1>2, <1>3, <2>1, AppendedFaithful
<1>12. counter' \in [Peer -> Counter] /\ known' \in [Peer -> [Peer -> Nat]]
  BY <1>2, <1>3, <1>5
<1>13. sent' \subseteq Copy
  BY <1>2 DEF CounterInv
<1> QED BY <1>2, <1>7, <1>8, <1>10, <1>11, <1>12, <1>13 DEF CounterInv

LEMMA IncStep ==
  ASSUME CounterInv, NEW r \in Peer, Inc(r)
  PROVE  CounterInv'
<1> DEFINE c == counter[r]
           p == [c.p EXCEPT ![r] = Saturated(c.p[r], MaxInt)]
           t == Saturated(c.clock, LamportMax)
           d == Incremented(c, r)
<1>1. c \in Counter /\ c.p[r] \in 0 .. MaxInt /\ c.n[r] \in 0 .. MaxInt
      /\ c.p \in [Peer -> 0 .. MaxInt] /\ c.n \in [Peer -> 0 .. MaxInt]
      /\ c.clock \in 0 .. LamportMax
  BY DEF CounterInv, Counter
<1>2. /\ Saturated(c.p[r], MaxInt) \in 0 .. MaxInt /\ c.p[r] <= Saturated(c.p[r], MaxInt)
      /\ t \in 0 .. LamportMax /\ c.clock <= t
  BY <1>1, Saturates, CounterAssumption
<1>3. p \in [Peer -> 0 .. MaxInt] /\ c.p[r] <= p[r] /\ \A s \in Peer : s # r => p[s] = c.p[s]
  BY <1>1, <1>2
<1>4. d = [p |-> p, n |-> c.n, clock |-> t]
  BY DEF Incremented
<1> HIDE DEF p, t, d
<1>5. d \in Counter /\ d.p = p /\ d.n = c.n /\ d.clock = t
  BY <1>1, <1>2, <1>3, <1>4 DEF Counter
<1>6. Operate(r, "inc", d)
  BY DEF Inc, d
<1> QED BY <1>1, <1>2, <1>3, <1>5, <1>6, OperateStep

LEMMA DecStep ==
  ASSUME CounterInv, NEW r \in Peer, Dec(r)
  PROVE  CounterInv'
<1> DEFINE c == counter[r]
           n == [c.n EXCEPT ![r] = Saturated(c.n[r], MaxInt)]
           t == Saturated(c.clock, LamportMax)
           d == Decremented(c, r)
<1>1. c \in Counter /\ c.p[r] \in 0 .. MaxInt /\ c.n[r] \in 0 .. MaxInt
      /\ c.p \in [Peer -> 0 .. MaxInt] /\ c.n \in [Peer -> 0 .. MaxInt]
      /\ c.clock \in 0 .. LamportMax
  BY DEF CounterInv, Counter
<1>2. /\ Saturated(c.n[r], MaxInt) \in 0 .. MaxInt /\ c.n[r] <= Saturated(c.n[r], MaxInt)
      /\ t \in 0 .. LamportMax /\ c.clock <= t
  BY <1>1, Saturates, CounterAssumption
<1>3. n \in [Peer -> 0 .. MaxInt] /\ c.n[r] <= n[r] /\ \A s \in Peer : s # r => n[s] = c.n[s]
  BY <1>1, <1>2
<1>4. d = [p |-> c.p, n |-> n, clock |-> t]
  BY DEF Decremented
<1> HIDE DEF n, t, d
<1>5. d \in Counter /\ d.p = c.p /\ d.n = n /\ d.clock = t
  BY <1>1, <1>2, <1>3, <1>4 DEF Counter
<1>6. Operate(r, "dec", d)
  BY DEF Dec, d
<1> QED BY <1>1, <1>2, <1>3, <1>5, <1>6, OperateStep

LEMMA SendStep ==
  ASSUME CounterInv, NEW r \in Peer, SendCopy(r)
  PROVE  CounterInv'
<1> DEFINE m == [counter |-> counter[r], known |-> known[r]]
<1>1. /\ sent' = sent \cup {m}
      /\ UNCHANGED <<counter, made, known>>
  BY DEF SendCopy
<1>2. counter[r] \in Counter /\ known[r] \in [Peer -> Nat] /\ sent \subseteq Copy
  BY DEF CounterInv
<1>3. m \in Copy
  BY <1>2 DEF Copy
<1>4. Faithful(made, m.counter, m.known)
  BY DEF CounterInv
<1> HIDE DEF m
<1>5. sent' \subseteq Copy /\ \A x \in sent' : Faithful(made', x.counter, x.known)
  BY <1>1, <1>2, <1>3, <1>4 DEF CounterInv
<1> QED BY <1>1, <1>5 DEF CounterInv

LEMMA MergeStep ==
  ASSUME CounterInv, NEW r \in Peer, NEW m \in sent, Merge(r, m)
  PROVE  CounterInv'
<1> DEFINE e == Merged(counter[r], m.counter)
           j == [s \in Peer |-> Larger(known[r][s], m.known[s])]
<1>1. /\ counter' = [counter EXCEPT ![r] = e]
      /\ known' = [known EXCEPT ![r] = j]
      /\ UNCHANGED <<sent, made>>
  BY DEF Merge
<1>2. /\ made \in Histories /\ Monotone(made)
      /\ counter \in [Peer -> Counter] /\ known \in [Peer -> [Peer -> Nat]]
      /\ Faithful(made, counter[r], known[r]) /\ known[r][r] = Len(made[r])
      /\ Faithful(made, m.counter, m.known)
  BY DEF CounterInv
<1>3. Faithful(made, e, j)
  BY <1>2, MergeIsFaithful
<1>4. j[r] = Len(made[r])
  <2>1. m.known[r] \in Upto(made, r) /\ Len(made[r]) \in Nat
    BY <1>2 DEF Faithful, Counts, Histories
  <2> QED BY <1>2, <2>1 DEF Larger, Upto
<1>5. e \in Counter /\ j \in [Peer -> Nat]
  BY <1>3 DEF Faithful
<1> HIDE DEF e, j
<1>6. ASSUME NEW s \in Peer
      PROVE  Faithful(made', counter'[s], known'[s]) /\ known'[s][s] = Len(made'[s])
  <2>1. CASE s = r
    BY <1>1, <1>2, <1>3, <1>4, <2>1
  <2>2. CASE s # r
    BY <1>1, <1>2, <2>2 DEF CounterInv
  <2> QED BY <2>1, <2>2
<1>7. counter' \in [Peer -> Counter] /\ known' \in [Peer -> [Peer -> Nat]]
  BY <1>1, <1>2, <1>5
<1>8. /\ made' \in Histories /\ Monotone(made')
      /\ sent' \subseteq Copy
      /\ \A x \in sent' : Faithful(made', x.counter, x.known)
  BY <1>1 DEF CounterInv
<1> QED BY <1>6, <1>7, <1>8 DEF CounterInv

LEMMA CounterInvariant == CounterSpec => []CounterInv
<1>1. ASSUME CounterInv, [CounterNext]_counterVars PROVE CounterInv'
  <2>1. CASE \E r \in Peer : Inc(r)
    BY <1>1, <2>1, IncStep
  <2>2. CASE \E r \in Peer : Dec(r)
    BY <1>1, <2>2, DecStep
  <2>3. CASE \E r \in Peer : SendCopy(r)
    BY <1>1, <2>3, SendStep
  <2>4. CASE \E m \in sent : LoseCopy(m)
    BY <1>1, <2>4 DEF LoseCopy, CounterInv
  <2>5. CASE \E r \in Peer, m \in sent : Merge(r, m)
    BY <1>1, <2>5, MergeStep
  <2>6. CASE UNCHANGED counterVars
    BY <1>1, <2>6 DEF counterVars, CounterInv
  <2> QED BY <1>1, <2>1, <2>2, <2>3, <2>4, <2>5, <2>6 DEF CounterNext
<1> QED BY InitCounter, <1>1, PTL DEF CounterSpec

-----------------------------------------------------------------------------
(* Counts and clocks of replicas and copies stay in their ranges, at and    *)
(* past saturation, and a merge invents no operation.                      *)
THEOREM CounterTypeCorrect == CounterSpec => []CounterTypeOK
<1>1. CounterInv => CounterTypeOK
  BY DEF CounterInv, CounterTypeOK, Histories
<1> QED BY <1>1, CounterInvariant, PTL

(* The clock is determined by what has been seen. *)
LEMMA SameClock ==
  ASSUME NEW h \in Histories, NEW c, NEW d, NEW k, Faithful(h, c, k), Faithful(h, d, k)
  PROVE  c.clock <= d.clock
<1>1. c.clock \in Nat /\ d.clock \in Nat
  BY CounterAssumption DEF Faithful, Counter
<1>2. CASE c.clock = 0
  BY <1>1, <1>2
<1>3. CASE \E s \in Peer : c.clock = ClockAt(h, s, k[s])
  BY <1>3 DEF Faithful, NotBehind
<1> QED BY <1>2, <1>3 DEF Faithful, NotAhead

LEMMA SameReplica ==
  ASSUME NEW h \in Histories, NEW c, NEW d, NEW k, Faithful(h, c, k), Faithful(h, d, k)
  PROVE  c = d
<1>1. /\ c \in Counter /\ d \in Counter
      /\ \A s \in Peer : c.p[s] = d.p[s] /\ c.n[s] = d.n[s]
  BY DEF Faithful, Counts
<1>2. c.clock = d.clock
  <2>1. c.clock <= d.clock /\ d.clock <= c.clock
    BY SameClock
  <2>2. c.clock \in Int /\ d.clock \in Int
    BY <1>1 DEF Counter
  <2> QED BY <2>1, <2>2
<1>3. c.p = d.p /\ c.n = d.n
  BY <1>1 DEF Counter
<1> QED BY <1>1, <1>2, <1>3 DEF Counter

(* Replicas of the PN-counter that have seen the same operations are equal, *)
(* however many peers relay, repeat, reorder or lose copies.               *)
THEOREM CounterConvergesCorrect == CounterSpec => []CounterConverges
<1>1. CounterInv => CounterConverges
  <2> SUFFICES ASSUME CounterInv, NEW r \in Peer, NEW s \in Peer, known[r] = known[s]
               PROVE  counter[r] = counter[s]
    BY DEF CounterConverges
  <2>1. /\ made \in Histories
        /\ Faithful(made, counter[r], known[r]) /\ Faithful(made, counter[s], known[r])
    BY DEF CounterInv
  <2> QED BY <2>1, SameReplica
<1> QED BY <1>1, CounterInvariant, PTL

-----------------------------------------------------------------------------
(* Every operation adds one to the count of its kind of its peer, up to the *)
(* largest number, and leaves the other count alone.                       *)
Bumped(x, hit) == IF hit THEN Saturated(x, MaxInt) ELSE x

Stepwise(h) ==
  \A s \in Peer : \A k \in 1 .. Len(h[s]) :
    /\ h[s][k].p = Bumped(IncsAt(h, s, k - 1), h[s][k].kind = "inc")
    /\ h[s][k].n = Bumped(DecsAt(h, s, k - 1), h[s][k].kind = "dec")

LEMMA AppendedStepwise ==
  ASSUME NEW h \in Histories, Stepwise(h), NEW r \in Peer, NEW o \in Op,
         NEW g, g = After(h, r, o),
         o.p = Bumped(IncsAt(h, r, Len(h[r])), o.kind = "inc"),
         o.n = Bumped(DecsAt(h, r, Len(h[r])), o.kind = "dec")
  PROVE  Stepwise(g)
<1>1. h \in [Peer -> Seq(Op)] /\ h[r] \in Seq(Op) /\ Len(h[r]) \in Nat
  BY DEF Histories
<1>2. /\ Append(h[r], o) \in Seq(Op) /\ Len(Append(h[r], o)) = Len(h[r]) + 1
      /\ Append(h[r], o)[Len(h[r]) + 1] = o
      /\ \A k \in 1 .. Len(h[r]) : Append(h[r], o)[k] = h[r][k]
  BY <1>1, AppendProperties
<1>3. /\ g[r] = Append(h[r], o)
      /\ \A s \in Peer : s # r => g[s] = h[s]
  BY <1>1, <1>2 DEF After
<1>4. \A s \in Peer, k \in Nat : k \in Upto(h, s) =>
        IncsAt(g, s, k) = IncsAt(h, s, k) /\ DecsAt(g, s, k) = DecsAt(h, s, k)
  BY AppendedHistory
<1> SUFFICES ASSUME NEW s \in Peer, NEW k \in 1 .. Len(g[s])
             PROVE  /\ g[s][k].p = Bumped(IncsAt(g, s, k - 1), g[s][k].kind = "inc")
                    /\ g[s][k].n = Bumped(DecsAt(g, s, k - 1), g[s][k].kind = "dec")
  BY DEF Stepwise
<1>5. Len(h[s]) \in Nat
  BY DEF Histories
<1>6. CASE k \in 1 .. Len(h[s])
  <2>1. g[s][k] = h[s][k]
    BY <1>2, <1>3, <1>6
  <2>2. k - 1 \in Nat /\ k - 1 \in Upto(h, s)
    BY <1>5, <1>6 DEF Upto
  <2>3. IncsAt(g, s, k - 1) = IncsAt(h, s, k - 1) /\ DecsAt(g, s, k - 1) = DecsAt(h, s, k - 1)
    BY <1>4, <2>2
  <2> QED BY <1>6, <2>1, <2>3 DEF Stepwise
<1>7. CASE k \notin 1 .. Len(h[s])
  <2>1. s = r /\ k = Len(h[r]) + 1
    BY <1>1, <1>2, <1>3, <1>7
  <2>2. g[s][k] = o /\ k - 1 = Len(h[r])
    BY <1>1, <1>2, <1>3, <2>1
  <2>3. Len(h[r]) \in Upto(h, r)
    BY <1>1 DEF Upto
  <2>4. /\ IncsAt(g, s, k - 1) = IncsAt(h, r, Len(h[r]))
        /\ DecsAt(g, s, k - 1) = DecsAt(h, r, Len(h[r]))
    BY <1>1, <1>4, <2>1, <2>2, <2>3
  <2> QED BY <2>2, <2>4
<1> QED BY <1>6, <1>7

LEMMA StepwiseStep ==
  ASSUME CounterInv, Stepwise(made), [CounterNext]_counterVars
  PROVE  Stepwise(made')
<1>1. /\ made \in Histories
      /\ \A r \in Peer : /\ counter[r] \in Counter
                         /\ counter[r].p[r] = IncsAt(made, r, Len(made[r]))
                         /\ counter[r].n[r] = DecsAt(made, r, Len(made[r]))
  BY DEF CounterInv, Faithful, Counts
<1>2. ASSUME NEW r \in Peer, NEW kind \in {"inc", "dec"}, NEW d, Operate(r, kind, d),
             d = IF kind = "inc" THEN Incremented(counter[r], r) ELSE Decremented(counter[r], r)
      PROVE  Stepwise(made')
  <2> DEFINE c == counter[r]
             o == [kind |-> kind, p |-> d.p[r], n |-> d.n[r], clock |-> d.clock]
  <2>1. made' = After(made, r, o)
    BY <1>2 DEF Operate, After
  <2>2. /\ c.p \in [Peer -> 0 .. MaxInt] /\ c.n \in [Peer -> 0 .. MaxInt]
        /\ c.clock \in 0 .. LamportMax
    BY <1>1 DEF Counter
  <2>3. /\ d.p[r] = Bumped(c.p[r], kind = "inc") /\ d.n[r] = Bumped(c.n[r], kind = "dec")
        /\ d.clock = Saturated(c.clock, LamportMax)
    BY <1>2, <2>2 DEF Incremented, Decremented, Bumped
  <2>4. d.p[r] \in 0 .. MaxInt /\ d.n[r] \in 0 .. MaxInt /\ d.clock \in 0 .. LamportMax
    BY <2>2, <2>3, Saturates, CounterAssumption DEF Bumped
  <2>5. o \in Op /\ o.kind = kind /\ o.p = d.p[r] /\ o.n = d.n[r]
    BY <2>4 DEF Op
  <2> HIDE DEF o
  <2> QED BY <1>1, <2>1, <2>3, <2>5, AppendedStepwise
<1>3. CASE \E r \in Peer : Inc(r)
  BY <1>2, <1>3 DEF Inc
<1>4. CASE \E r \in Peer : Dec(r)
  BY <1>2, <1>4 DEF Dec
<1>5. CASE UNCHANGED made
  BY <1>5
<1> QED BY <1>3, <1>4, <1>5 DEF CounterNext, SendCopy, LoseCopy, Merge, counterVars

LEMMA StepwiseInvariant == CounterSpec => [](CounterInv /\ Stepwise(made))
<1>1. CounterInit => Stepwise(made)
  BY DEF CounterInit, Stepwise
<1>2. CounterInv /\ Stepwise(made) /\ [CounterNext]_counterVars => Stepwise(made)'
  BY StepwiseStep
<1> QED BY <1>1, <1>2, CounterInvariant, PTL DEF CounterSpec

-----------------------------------------------------------------------------
(* The operations of one kind among the first k of peer s, and those among  *)
(* the k[s] first of every peer s below i.                                 *)
OfKind(h, s, k, kind) == {j \in 1 .. k : h[s][j].kind = kind}

Below(h, k, i, kind) ==
  {op \in UNION {{s} \X (1 .. k[s]) : s \in Peer} :
     op[1] < i /\ h[op[1]][op[2]].kind = kind}

Capped(x) == IF x > MaxInt THEN MaxInt ELSE x

LEMMA OneMore ==
  ASSUME NEW h, NEW s, NEW k \in Nat, NEW kind
  PROVE  /\ IsFiniteSet(OfKind(h, s, k, kind)) /\ Cardinality(OfKind(h, s, k, kind)) \in Nat
         /\ Cardinality(OfKind(h, s, k + 1, kind)) =
              IF h[s][k + 1].kind = kind THEN Cardinality(OfKind(h, s, k, kind)) + 1
                                         ELSE Cardinality(OfKind(h, s, k, kind))
<1>1. IsFiniteSet(OfKind(h, s, k, kind))
  <2>1. IsFiniteSet(1 .. k)
    BY FS_Interval
  <2>2. OfKind(h, s, k, kind) \in SUBSET (1 .. k)
    BY DEF OfKind
  <2> QED BY <2>1, <2>2, FS_Subset
<1>2. \A j : j \in 1 .. k + 1 <=> j \in 1 .. k \/ j = k + 1
  OBVIOUS
<1>3. k + 1 \notin 1 .. k
  OBVIOUS
<1>4. CASE h[s][k + 1].kind = kind
  <2>1. /\ OfKind(h, s, k + 1, kind) = OfKind(h, s, k, kind) \cup {k + 1}
        /\ k + 1 \notin OfKind(h, s, k, kind)
    BY <1>2, <1>3, <1>4 DEF OfKind
  <2> QED BY <1>1, <1>4, <2>1, FS_AddElement, FS_CardinalityType
<1>5. CASE h[s][k + 1].kind # kind
  <2>1. OfKind(h, s, k + 1, kind) = OfKind(h, s, k, kind)
    BY <1>2, <1>5 DEF OfKind
  <2>2. Cardinality(OfKind(h, s, k, kind)) \in Nat
    BY <1>1, FS_CardinalityType
  <2> QED BY <1>1, <1>5, <2>1, <2>2
<1> QED BY <1>4, <1>5

(* A slot counts the operations of its kind until it saturates. *)
LEMMA SlotCounts ==
  ASSUME NEW h \in Histories, Stepwise(h), NEW s \in Peer, NEW k \in Upto(h, s)
  PROVE  /\ IncsAt(h, s, k) = Capped(Cardinality(OfKind(h, s, k, "inc")))
         /\ DecsAt(h, s, k) = Capped(Cardinality(OfKind(h, s, k, "dec")))
<1> DEFINE n == Len(h[s])
           incs(j) == Cardinality(OfKind(h, s, j, "inc"))
           decs(j) == Cardinality(OfKind(h, s, j, "dec"))
           S == {j \in 0 .. n : /\ IncsAt(h, s, j) = Capped(incs(j))
                                /\ DecsAt(h, s, j) = Capped(decs(j))}
<1>1. n \in Nat /\ MaxInt \in Nat
  BY CounterAssumption DEF Histories
<1>2. 0 \in S
  <2>1. OfKind(h, s, 0, "inc") = {} /\ OfKind(h, s, 0, "dec") = {}
    BY DEF OfKind
  <2>2. incs(0) = 0 /\ decs(0) = 0
    BY <2>1, FS_EmptySet
  <2> HIDE DEF incs, decs
  <2> QED BY <1>1, <2>2 DEF IncsAt, DecsAt, Capped
<1>3. ASSUME NEW j \in 0 .. n - 1, j \in S PROVE j + 1 \in S
  <2>1. j \in Nat /\ j + 1 \in 1 .. n /\ (j + 1) - 1 = j /\ j + 1 # 0 /\ j + 1 \in 0 .. n
    BY <1>1
  <2>2. /\ incs(j) \in Nat /\ decs(j) \in Nat
        /\ incs(j + 1) = IF h[s][j + 1].kind = "inc" THEN incs(j) + 1 ELSE incs(j)
        /\ decs(j + 1) = IF h[s][j + 1].kind = "dec" THEN decs(j) + 1 ELSE decs(j)
    BY <2>1, OneMore
  <2>3. IncsAt(h, s, j) = Capped(incs(j)) /\ DecsAt(h, s, j) = Capped(decs(j))
    BY <1>3
  <2> HIDE DEF incs, decs, n
  <2>4. /\ IncsAt(h, s, j + 1) = Bumped(IncsAt(h, s, j), h[s][j + 1].kind = "inc")
        /\ DecsAt(h, s, j + 1) = Bumped(DecsAt(h, s, j), h[s][j + 1].kind = "dec")
    <3>1. /\ h[s][j + 1].p = Bumped(IncsAt(h, s, (j + 1) - 1), h[s][j + 1].kind = "inc")
          /\ h[s][j + 1].n = Bumped(DecsAt(h, s, (j + 1) - 1), h[s][j + 1].kind = "dec")
      BY <2>1 DEF Stepwise, n
    <3>2. IncsAt(h, s, j + 1) = h[s][j + 1].p /\ DecsAt(h, s, j + 1) = h[s][j + 1].n
      BY <2>1 DEF IncsAt, DecsAt
    <3> QED BY <2>1, <3>1, <3>2
  <2>5. /\ Capped(incs(j + 1)) = Bumped(Capped(incs(j)), h[s][j + 1].kind = "inc")
        /\ Capped(decs(j + 1)) = Bumped(Capped(decs(j)), h[s][j + 1].kind = "dec")
    BY <1>1, <2>2 DEF Capped, Bumped, Saturated
  <2> QED BY <2>1, <2>3, <2>4, <2>5
<1>4. k \in S
  <2> HIDE DEF S
  <2>1. \A j \in 0 .. n - 1 : j \in S => j + 1 \in S
    BY <1>3
  <2>2. 0 .. n \subseteq S
    BY <1>1, <1>2, <2>1, BoundedInduction
  <2> QED BY <2>2 DEF Upto
<1> QED BY <1>4

LEMMA BelowNext ==
  ASSUME NEW h, NEW k \in [Peer -> Nat], NEW i \in Peer, NEW kind,
         IsFiniteSet(Below(h, k, i, kind))
  PROVE  /\ IsFiniteSet(Below(h, k, i + 1, kind))
         /\ Cardinality(Below(h, k, i + 1, kind)) =
              Cardinality(Below(h, k, i, kind)) + Cardinality(OfKind(h, i, k[i], kind))
<1> DEFINE A == Below(h, k, i, kind)
           T == OfKind(h, i, k[i], kind)
           B == {i} \X T
<1>1. \A s \in Peer : s \in Int /\ (s < i + 1 <=> s < i \/ s = i) /\ ~(i < i)
  BY CounterAssumption DEF Peer
<1>2. Below(h, k, i + 1, kind) = A \cup B
  <2>1. ASSUME NEW op \in Below(h, k, i + 1, kind) PROVE op \in A \cup B
    <3>1. PICK s \in Peer : op \in {s} \X (1 .. k[s])
      BY DEF Below
    <3>2. /\ op = <<op[1], op[2]>> /\ op[1] = s /\ op[2] \in 1 .. k[s]
          /\ s < i + 1 /\ h[s][op[2]].kind = kind
      BY <3>1 DEF Below
    <3>3. CASE s = i
      BY <3>2, <3>3 DEF OfKind
    <3>4. CASE s # i
      <4>1. s < i
        BY <1>1, <3>2, <3>4
      <4>2. op \in UNION {{t} \X (1 .. k[t]) : t \in Peer}
        BY <3>1
      <4> QED BY <3>2, <4>1, <4>2 DEF Below
    <3> QED BY <3>3, <3>4
  <2>2. ASSUME NEW op \in A PROVE op \in Below(h, k, i + 1, kind)
    <3>1. PICK s \in Peer : op \in {s} \X (1 .. k[s])
      BY DEF Below
    <3>2. op[1] = s /\ s < i
      BY <3>1 DEF Below
    <3>3. op[1] < i + 1
      BY <1>1, <3>2
    <3> QED BY <3>3 DEF Below
  <2>3. ASSUME NEW op \in B PROVE op \in Below(h, k, i + 1, kind)
    <3>1. op = <<op[1], op[2]>> /\ op[1] = i /\ op[2] \in 1 .. k[i] /\ h[i][op[2]].kind = kind
      BY DEF OfKind
    <3>2. op \in {i} \X (1 .. k[i])
      BY <3>1
    <3>3. op \in UNION {{t} \X (1 .. k[t]) : t \in Peer} /\ i < i + 1
      BY <1>1, <3>2
    <3> QED BY <3>1, <3>3 DEF Below
  <2> QED BY <2>1, <2>2, <2>3
<1>3. A \cap B = {}
  <2> SUFFICES ASSUME NEW op \in A, op \in B PROVE FALSE
    OBVIOUS
  <2>1. op[1] = i /\ op[1] < i
    BY DEF Below
  <2> QED BY <1>1, <2>1
<1>4. IsFiniteSet(T) /\ Cardinality(T) \in Nat
  BY OneMore
<1>5. IsFiniteSet(B) /\ Cardinality(B) = Cardinality(T)
  <2>1. IsFiniteSet({i}) /\ Cardinality({i}) = 1
    BY FS_Singleton
  <2> HIDE DEF T
  <2>2. IsFiniteSet(B) /\ Cardinality(B) = Cardinality({i}) * Cardinality(T)
    BY <1>4, <2>1, FS_Product
  <2> QED BY <1>4, <2>1, <2>2
<1> HIDE DEF A, B, T
<1>6. IsFiniteSet(A) /\ Cardinality(A) \in Nat
  BY FS_CardinalityType DEF A
<1>7. /\ IsFiniteSet(A \cup B)
      /\ Cardinality(A \cup B) = Cardinality(A) + Cardinality(B) - Cardinality(A \cap B)
  BY <1>5, <1>6, FS_Union
<1>8. Cardinality(A \cap B) = 0
  BY <1>3, FS_EmptySet
<1>9. Cardinality(A \cup B) = Cardinality(A) + Cardinality(T)
  BY <1>4, <1>5, <1>6, <1>7, <1>8
<1>10. /\ IsFiniteSet(Below(h, k, i + 1, kind))
       /\ Cardinality(Below(h, k, i + 1, kind)) = Cardinality(A) + Cardinality(T)
  BY <1>2, <1>7, <1>9
<1> QED BY <1>10 DEF A, T

-----------------------------------------------------------------------------
(* The loop of quilt_pn_counter_value, slot by slot. *)
LEMMA SumLoop ==
  ASSUME NEW c \in Counter
  PROVE  /\ PartialSums(c)[0] = 0
         /\ \A i \in 1 .. Slots : PartialSums(c)[i] = PartialSums(c)[i - 1] + c.p[i - 1] - c.n[i - 1]
<1> DEFINE step == [i \in 1 .. Slots |-> [x \in Int |-> x + c.p[i - 1] - c.n[i - 1]]]
           Sums(f) == f = [i \in 0 .. Slots |->
                             IF i = 0 THEN 0 ELSE f[i - 1] + c.p[i - 1] - c.n[i - 1]]
<1>1. \A i \in 1 .. Slots : c.p[i - 1] \in Int /\ c.n[i - 1] \in Int
  BY CounterAssumption DEF Counter, Peer
<1>2. step \in [1 .. Slots -> [Int -> Int]]
  BY <1>1
<1>3. \E f : Sums(f)
  <2> HIDE DEF step
  <2>1. PICK f \in [0 .. Slots -> Int] : Recurs(Slots, 0, step, f)
    <3>1. 0 \in Int /\ Slots \in Nat
      BY CounterAssumption
    <3> QED BY <1>2, <3>1, RecursionExists
  <2>2. \A i \in 1 .. Slots : i - 1 \in 0 .. Slots /\ f[i - 1] \in Int
    BY CounterAssumption
  <2>3. \A i \in 1 .. Slots : step[i][f[i - 1]] = f[i - 1] + c.p[i - 1] - c.n[i - 1]
    BY <2>2 DEF step
  <2>4. \A i \in 0 .. Slots : i = 0 \/ i \in 1 .. Slots
    BY CounterAssumption
  <2>5. Sums(f)
    BY <2>1, <2>3, <2>4 DEF Recurs
  <2> QED BY <2>5
<1>4. PartialSums(c) = CHOOSE f : Sums(f)
  BY DEF PartialSums
<1>5. Sums(PartialSums(c))
  <2> HIDE DEF Sums
  <2> QED BY <1>3, <1>4
<1>6. 0 \in 0 .. Slots /\ \A i \in 1 .. Slots : i \in 0 .. Slots /\ i # 0
  BY CounterAssumption
<1> QED BY <1>5, <1>6

(* The counts of every slot add up, and no partial sum leaves int64, when   *)
(* no more increments and no more decrements have been seen than fit.      *)
LEMMA SumCounts ==
  ASSUME NEW h \in Histories, Stepwise(h), NEW c, NEW k, Faithful(h, c, k),
         Cardinality(Below(h, k, Slots, "inc")) <= MaxInt,
         Cardinality(Below(h, k, Slots, "dec")) <= MaxInt
  PROVE  /\ Fits(c)
         /\ PartialSums(c)[Slots] = Cardinality(Below(h, k, Slots, "inc"))
                              - Cardinality(Below(h, k, Slots, "dec"))
<1> DEFINE incs(i) == Cardinality(Below(h, k, i, "inc"))
           decs(i) == Cardinality(Below(h, k, i, "dec"))
           Good(i) == /\ IsFiniteSet(Below(h, k, i, "inc")) /\ IsFiniteSet(Below(h, k, i, "dec"))
                      /\ incs(i) \in Nat /\ decs(i) \in Nat
           S == {i \in 0 .. Slots : Good(i)}
           p(i) == Cardinality(OfKind(h, i, k[i], "inc"))
           n(i) == Cardinality(OfKind(h, i, k[i], "dec"))
<1>1. /\ Slots \in Nat /\ MaxInt \in Nat /\ k \in [Peer -> Nat] /\ c \in Counter
      /\ \A i \in 1 .. Slots : i - 1 \in Peer
  BY CounterAssumption DEF Faithful, Peer
<1>2. 0 \in S
  <2>1. ASSUME NEW kind PROVE Below(h, k, 0, kind) = {}
    <3> SUFFICES ASSUME NEW op \in Below(h, k, 0, kind) PROVE FALSE
      OBVIOUS
    <3>1. PICK s \in Peer : op \in {s} \X (1 .. k[s])
      BY DEF Below
    <3>2. s < 0
      BY <3>1 DEF Below
    <3> QED BY <1>1, <3>2 DEF Peer
  <2>2. Below(h, k, 0, "inc") = {} /\ Below(h, k, 0, "dec") = {}
    BY <2>1
  <2>3. Good(0)
    <3>1. /\ IsFiniteSet(Below(h, k, 0, "inc")) /\ Cardinality(Below(h, k, 0, "inc")) = 0
          /\ IsFiniteSet(Below(h, k, 0, "dec")) /\ Cardinality(Below(h, k, 0, "dec")) = 0
      BY <2>2, FS_EmptySet, Zenon
    <3> QED BY <3>1
  <2>4. 0 \in 0 .. Slots
    BY <1>1
  <2> HIDE DEF Good
  <2> QED BY <2>3, <2>4
<1>3. ASSUME NEW i \in 0 .. Slots - 1, Good(i)
      PROVE  Good(i + 1) /\ incs(i + 1) = incs(i) + p(i) /\ decs(i + 1) = decs(i) + n(i)
             /\ p(i) \in Nat /\ n(i) \in Nat
  <2>1. i \in Peer /\ k[i] \in Nat
    BY <1>1 DEF Peer
  <2>2. p(i) \in Nat /\ n(i) \in Nat
    BY <2>1, OneMore
  <2>3. ASSUME NEW kind, IsFiniteSet(Below(h, k, i, kind))
        PROVE  /\ IsFiniteSet(Below(h, k, i + 1, kind))
               /\ Cardinality(Below(h, k, i + 1, kind)) =
                    Cardinality(Below(h, k, i, kind)) + Cardinality(OfKind(h, i, k[i], kind))
    BY <1>1, <2>1, <2>3, BelowNext
  <2>4. /\ IsFiniteSet(Below(h, k, i + 1, "inc")) /\ IsFiniteSet(Below(h, k, i + 1, "dec"))
        /\ incs(i + 1) = incs(i) + p(i) /\ decs(i + 1) = decs(i) + n(i)
    BY <1>3, <2>3
  <2> QED BY <2>2, <2>4, FS_CardinalityType
<1>4. \A i \in 0 .. Slots : Good(i)
  <2>1. \A i \in 0 .. Slots - 1 : i \in S => i + 1 \in S
    BY <1>1, <1>3
  <2> HIDE DEF S
  <2>2. 0 .. Slots \subseteq S
    BY <1>1, <1>2, <2>1, BoundedInduction
  <2> QED BY <2>2 DEF S
<1>5. ASSUME NEW i \in 1 .. Slots
      PROVE  /\ incs(i - 1) \in Nat /\ decs(i - 1) \in Nat /\ incs(i) \in Nat /\ decs(i) \in Nat
             /\ incs(i) = incs(i - 1) + p(i - 1) /\ decs(i) = decs(i - 1) + n(i - 1)
             /\ p(i - 1) \in Nat /\ n(i - 1) \in Nat
  <2>1. i - 1 \in 0 .. Slots - 1 /\ i - 1 \in 0 .. Slots /\ (i - 1) + 1 = i /\ i \in 0 .. Slots
    BY <1>1
  <2> HIDE DEF Good, p, n
  <2>2. Good(i - 1) /\ Good(i)
    BY <1>4, <2>1
  <2>3. /\ incs((i - 1) + 1) = incs(i - 1) + p(i - 1) /\ decs((i - 1) + 1) = decs(i - 1) + n(i - 1)
        /\ p(i - 1) \in Nat /\ n(i - 1) \in Nat
    BY <1>3, <2>1, <2>2
  <2> QED BY <2>1, <2>2, <2>3 DEF Good
<1>6. ASSUME NEW i \in 0 .. Slots PROVE incs(i) <= incs(Slots) /\ decs(i) <= decs(Slots)
  <2>1. Slots \in 0 .. Slots
    BY <1>1
  <2>2. \A kind : Below(h, k, i, kind) \in SUBSET Below(h, k, Slots, kind)
    <3> SUFFICES ASSUME NEW kind, NEW op \in Below(h, k, i, kind)
                 PROVE  op \in Below(h, k, Slots, kind)
      OBVIOUS
    <3>1. PICK s \in Peer : op \in {s} \X (1 .. k[s])
      BY DEF Below
    <3>2. op[1] < Slots
      BY <1>1, <3>1 DEF Peer
    <3> QED BY <3>2 DEF Below
  <2>3. IsFiniteSet(Below(h, k, Slots, "inc")) /\ IsFiniteSet(Below(h, k, Slots, "dec"))
    BY <1>4, <2>1
  <2> QED BY <2>2, <2>3, FS_Subset
<1>7. incs(Slots) \in Nat /\ decs(Slots) \in Nat /\ incs(Slots) <= MaxInt /\ decs(Slots) <= MaxInt
  BY <1>1, <1>4
<1>8. ASSUME NEW i \in 1 .. Slots PROVE c.p[i - 1] = p(i - 1) /\ c.n[i - 1] = n(i - 1)
  <2>1. /\ k[i - 1] \in Upto(h, i - 1)
        /\ c.p[i - 1] = IncsAt(h, i - 1, k[i - 1]) /\ c.n[i - 1] = DecsAt(h, i - 1, k[i - 1])
    BY <1>1 DEF Faithful, Counts
  <2>2. c.p[i - 1] = Capped(p(i - 1)) /\ c.n[i - 1] = Capped(n(i - 1))
    BY <1>1, <2>1, SlotCounts
  <2>3. i \in 0 .. Slots
    BY <1>1
  <2> DEFINE a == p(i - 1)
             b == n(i - 1)
  <2> HIDE DEF p, n, incs, decs
  <2>4. /\ a \in Nat /\ b \in Nat /\ incs(i - 1) \in Nat /\ decs(i - 1) \in Nat
        /\ incs(i) = incs(i - 1) + a /\ decs(i) = decs(i - 1) + b
    BY <1>5
  <2>5. incs(i) <= incs(Slots) /\ decs(i) <= decs(Slots)
    BY <1>6, <2>3
  <2>6. c.p[i - 1] = Capped(a) /\ c.n[i - 1] = Capped(b)
    BY <2>2
  <2> HIDE DEF a, b
  <2>7. a <= MaxInt /\ b <= MaxInt
    BY <1>1, <1>7, <2>4, <2>5
  <2>8. Capped(a) = a /\ Capped(b) = b
    BY <1>1, <2>4, <2>7 DEF Capped
  <2> QED BY <2>6, <2>8 DEF a, b
<1> DEFINE T == {i \in 0 .. Slots : PartialSums(c)[i] = incs(i) - decs(i)}
<1> HIDE DEF p, n, incs, decs, Good, S
<1>9. 0 \in T
  <2>1. incs(0) = 0 /\ decs(0) = 0
    <3>1. ASSUME NEW kind PROVE Below(h, k, 0, kind) = {}
      <4> SUFFICES ASSUME NEW op \in Below(h, k, 0, kind) PROVE FALSE
        OBVIOUS
      <4>1. PICK s \in Peer : op \in {s} \X (1 .. k[s])
        BY DEF Below
      <4>2. s < 0
        BY <4>1 DEF Below
      <4> QED BY <1>1, <4>2 DEF Peer
    <3> QED BY <3>1, FS_EmptySet DEF incs, decs
  <2> QED BY <1>1, <2>1, SumLoop
<1>10. ASSUME NEW i \in 0 .. Slots - 1, i \in T PROVE i + 1 \in T
  <2>1. i + 1 \in 1 .. Slots /\ (i + 1) - 1 = i /\ i + 1 \in 0 .. Slots
    BY <1>1
  <2>2. PartialSums(c)[i + 1] = PartialSums(c)[i] + c.p[i] - c.n[i]
    BY <1>1, <2>1, SumLoop
  <2>3. /\ incs(i) \in Nat /\ decs(i) \in Nat /\ p(i) \in Nat /\ n(i) \in Nat
        /\ incs(i + 1) = incs(i) + p(i) /\ decs(i + 1) = decs(i) + n(i)
        /\ c.p[i] = p(i) /\ c.n[i] = n(i)
    BY <1>5, <1>8, <2>1
  <2> QED BY <1>10, <2>1, <2>2, <2>3
<1>11. \A i \in 0 .. Slots : PartialSums(c)[i] = incs(i) - decs(i)
  <2> HIDE DEF T
  <2>1. \A i \in 0 .. Slots - 1 : i \in T => i + 1 \in T
    BY <1>10
  <2>2. 0 .. Slots \subseteq T
    BY <1>1, <1>9, <2>1, BoundedInduction
  <2> QED BY <2>2 DEF T
<1>12. Fits(c)
  <2> SUFFICES ASSUME NEW i \in 1 .. Slots
               PROVE  PartialSums(c)[i - 1] + c.p[i - 1] \in Int64 /\ PartialSums(c)[i] \in Int64
    BY DEF Fits
  <2>1. i - 1 \in 0 .. Slots /\ i \in 0 .. Slots
    BY <1>1
  <2>2. /\ PartialSums(c)[i - 1] = incs(i - 1) - decs(i - 1) /\ PartialSums(c)[i] = incs(i) - decs(i)
        /\ c.p[i - 1] = p(i - 1)
    BY <1>8, <1>11, <2>1
  <2>3. PartialSums(c)[i - 1] + c.p[i - 1] = incs(i) - decs(i - 1)
    BY <1>5, <2>2
  <2>4. /\ incs(i) <= incs(Slots) /\ decs(i) <= decs(Slots) /\ decs(i - 1) <= decs(Slots)
    BY <1>6, <2>1
  <2>5. /\ incs(i) - decs(i - 1) \in Int64 /\ incs(i) - decs(i) \in Int64
    BY <1>1, <1>5, <1>7, <2>4 DEF Int64
  <2> QED BY <2>2, <2>3, <2>5
<1>13. Slots \in 0 .. Slots
  BY <1>1
<1> QED BY <1>11, <1>12, <1>13 DEF incs, decs

(* A replica that has seen no more increments, and no more decrements, than *)
(* fit has their difference for its value, whatever merges brought them.   *)
THEOREM ValueCountsTheSeenCorrect == CounterSpec => []ValueCountsTheSeen
<1>1. CounterInv /\ Stepwise(made) => ValueCountsTheSeen
  <2> SUFFICES ASSUME CounterInv, Stepwise(made), NEW r \in Peer,
                      Cardinality(Seen(r, "inc")) <= MaxInt, Cardinality(Seen(r, "dec")) <= MaxInt
               PROVE  Values(counter[r])
                        = {Cardinality(Seen(r, "inc")) - Cardinality(Seen(r, "dec"))}
    BY DEF ValueCountsTheSeen
  <2>1. made \in Histories /\ Faithful(made, counter[r], known[r])
    BY DEF CounterInv
  <2>2. ASSUME NEW kind PROVE Seen(r, kind) = Below(made, known[r], Slots, kind)
    <3>1. ASSUME NEW op \in UNION {{s} \X (1 .. known[r][s]) : s \in Peer} PROVE op[1] < Slots
      <4>1. PICK s \in Peer : op \in {s} \X (1 .. known[r][s])
        OBVIOUS
      <4> QED BY <4>1, CounterAssumption DEF Peer
    <3> QED BY <3>1 DEF Seen, Below
  <2>3. /\ Fits(counter[r])
        /\ PartialSums(counter[r])[Slots] = Cardinality(Seen(r, "inc")) - Cardinality(Seen(r, "dec"))
    BY <2>1, <2>2, SumCounts
  <2> QED BY <2>3 DEF Values
<1> QED BY <1>1, StepwiseInvariant, PTL

(* quilt_pn_counter_merge alone, whatever its arguments: order, grouping    *)
(* and repetition of merges do not matter, and no count is lost by one.     *)
THEOREM MergeIsJoin ==
  \A a, b, c \in Counter :
    /\ Merged(a, b) \in Counter
    /\ Merged(a, b) = Merged(b, a)
    /\ Merged(Merged(a, b), c) = Merged(a, Merged(b, c))
    /\ Merged(a, a) = a
<1>1. \A x, y, z \in Int : /\ Larger(x, y) = Larger(y, x) /\ Larger(x, x) = x
                           /\ Larger(x, y) \in {x, y}
                           /\ Larger(Larger(x, y), z) = Larger(x, Larger(y, z))
  BY DEF Larger
<1> SUFFICES ASSUME NEW a \in Counter, NEW b \in Counter, NEW c \in Counter
             PROVE  /\ Merged(a, b) \in Counter
                    /\ Merged(a, b) = Merged(b, a)
                    /\ Merged(Merged(a, b), c) = Merged(a, Merged(b, c))
                    /\ Merged(a, a) = a
  OBVIOUS
<1>2. \A d \in Counter : /\ d.p \in [Peer -> 0 .. MaxInt] /\ d.n \in [Peer -> 0 .. MaxInt]
                         /\ d.clock \in 0 .. LamportMax
                         /\ d = [p |-> d.p, n |-> d.n, clock |-> d.clock]
  BY DEF Counter
<1>3. \A d \in Counter : /\ \A s \in Peer : d.p[s] \in Int /\ d.n[s] \in Int
                         /\ d.clock \in Int
  BY <1>2
<1> HIDE DEF Larger
<1>4. Merged(a, b) \in Counter
  <2>1. \A s \in Peer : Larger(a.p[s], b.p[s]) \in 0 .. MaxInt /\ Larger(a.n[s], b.n[s]) \in 0 .. MaxInt
    <3> SUFFICES ASSUME NEW s \in Peer PROVE Larger(a.p[s], b.p[s]) \in 0 .. MaxInt /\ Larger(a.n[s], b.n[s]) \in 0 .. MaxInt
      OBVIOUS
    <3>1. Larger(a.p[s], b.p[s]) \in {a.p[s], b.p[s]} /\ Larger(a.n[s], b.n[s]) \in {a.n[s], b.n[s]}
      BY <1>1, <1>3
    <3> QED BY <1>2, <3>1
  <2>2. Larger(a.clock, b.clock) \in 0 .. LamportMax
    BY <1>1, <1>2, <1>3
  <2> QED BY <2>1, <2>2 DEF Merged, Counter
<1>5. Merged(a, b) = Merged(b, a)
  <2>1. /\ [s \in Peer |-> Larger(a.p[s], b.p[s])] = [s \in Peer |-> Larger(b.p[s], a.p[s])]
        /\ [s \in Peer |-> Larger(a.n[s], b.n[s])] = [s \in Peer |-> Larger(b.n[s], a.n[s])]
        /\ Larger(a.clock, b.clock) = Larger(b.clock, a.clock)
    BY <1>1, <1>3
  <2> QED BY <2>1, Zenon DEF Merged
<1>6. Merged(Merged(a, b), c) = Merged(a, Merged(b, c))
  <2> DEFINE L(x, y) == [s \in Peer |-> Larger(x[s], y[s])]
  <2>1. ASSUME NEW x \in [Peer -> Int], NEW y \in [Peer -> Int], NEW z \in [Peer -> Int]
        PROVE  L(L(x, y), z) = L(x, L(y, z))
    BY <1>1
  <2>2. /\ L(L(a.p, b.p), c.p) = L(a.p, L(b.p, c.p))
        /\ L(L(a.n, b.n), c.n) = L(a.n, L(b.n, c.n))
        /\ Larger(Larger(a.clock, b.clock), c.clock) = Larger(a.clock, Larger(b.clock, c.clock))
    <3>1. \A d \in Counter : d.p \in [Peer -> Int] /\ d.n \in [Peer -> Int]
      BY <1>2
    <3> HIDE DEF L
    <3>2. a.p \in [Peer -> Int] /\ b.p \in [Peer -> Int] /\ c.p \in [Peer -> Int]
      BY <3>1
    <3>3. a.n \in [Peer -> Int] /\ b.n \in [Peer -> Int] /\ c.n \in [Peer -> Int]
      BY <3>1
    <3>4. L(L(a.p, b.p), c.p) = L(a.p, L(b.p, c.p))
      BY <2>1, <3>2
    <3>5. L(L(a.n, b.n), c.n) = L(a.n, L(b.n, c.n))
      BY <2>1, <3>3
    <3>6. a.clock \in Int /\ b.clock \in Int /\ c.clock \in Int
      BY <1>3
    <3>7. Larger(Larger(a.clock, b.clock), c.clock) = Larger(a.clock, Larger(b.clock, c.clock))
      BY <1>1, <3>6
    <3> QED BY <3>4, <3>5, <3>7
  <2> QED BY <2>2 DEF Merged
<1>7. Merged(a, a) = a
  <2>1. [s \in Peer |-> Larger(a.p[s], a.p[s])] = a.p /\ [s \in Peer |-> Larger(a.n[s], a.n[s])] = a.n
        /\ Larger(a.clock, a.clock) = a.clock
    BY <1>1, <1>2, <1>3
  <2> QED BY <1>2, <2>1, Zenon DEF Merged
<1> QED BY <1>4, <1>5, <1>6, <1>7

-----------------------------------------------------------------------------
(* A sequence without repetition is as long as the set of its elements.     *)
LEMMA InjectiveLength ==
  ASSUME NEW S, NEW s \in Seq(S), IsInjective(s)
  PROVE  IsFiniteSet(ToSet(s)) /\ Cardinality(ToSet(s)) = Len(s)
<1>1. Len(s) \in Nat /\ DOMAIN s = 1 .. Len(s) /\ s \in [1 .. Len(s) -> ToSet(s)]
  BY DEF ToSet
<1>2. s \in Surjection(1 .. Len(s), ToSet(s))
  <2>1. \A t \in ToSet(s) : \E i \in 1 .. Len(s) : s[i] = t
    BY <1>1 DEF ToSet
  <2> QED BY <1>1, <2>1 DEF Surjection
<1>3. s \in Injection(1 .. Len(s), ToSet(s))
  BY <1>1 DEF Injection, IsInjective
<1>4. IsFiniteSet(1 .. Len(s)) /\ Cardinality(1 .. Len(s)) = Len(s)
  BY <1>1, FS_Interval
<1> QED BY <1>2, <1>3, <1>4, FS_Surjection

LEMMA AppendedSet ==
  ASSUME NEW S, NEW s \in Seq(S), NEW e \in S
  PROVE  ToSet(Append(s, e)) = ToSet(s) \cup {e}
<1>1. /\ Append(s, e) \in Seq(S) /\ Len(Append(s, e)) = Len(s) + 1
      /\ \A i \in 1 .. Len(s) : Append(s, e)[i] = s[i]
      /\ Append(s, e)[Len(s) + 1] = e
  BY AppendProperties
<1>2. /\ DOMAIN s = 1 .. Len(s) /\ DOMAIN Append(s, e) = 1 .. Len(s) + 1
      /\ Len(s) \in Nat
  BY <1>1
<1> HIDE DEF ToSet
<1>3. ASSUME NEW x \in ToSet(Append(s, e)) PROVE x \in ToSet(s) \cup {e}
  BY <1>1, <1>2 DEF ToSet
<1>4. ASSUME NEW x \in ToSet(s) \cup {e} PROVE x \in ToSet(Append(s, e))
  <2>1. CASE x = e
    BY <1>1, <1>2, <2>1 DEF ToSet
  <2>2. CASE x \in ToSet(s)
    <3>1. PICK i \in 1 .. Len(s) : s[i] = x
      BY <1>2, <2>2 DEF ToSet
    <3>2. i \in 1 .. Len(s) + 1 /\ Append(s, e)[i] = x
      BY <1>1, <1>2, <3>1
    <3> QED BY <1>2, <3>2 DEF ToSet
  <2> QED BY <2>1, <2>2
<1> QED BY <1>3, <1>4

(* One add: what it keeps, and when it takes the element. *)
LEMMA AddedElement ==
  ASSUME NEW s \in Seq(Elem), NEW e \in Elem, NEW lost,
         Len(s) <= SetMax, IsInjective(s)
  PROVE  LET t == Added(s, e, lost)
         IN  /\ t \in Seq(Elem) /\ Len(t) <= SetMax /\ IsInjective(t)
             /\ ToSet(s) \subseteq ToSet(t) /\ ToSet(t) \subseteq ToSet(s) \cup ({e} \ lost)
             /\ (e \in ToSet(s) \/ (e \notin lost /\ Len(s) < SetMax)) => e \in ToSet(t)
<1>1. CASE e \in ToSet(s) \cup lost \/ Len(s) >= SetMax
  <2>1. Added(s, e, lost) = s
    BY <1>1 DEF Added
  <2>2. Len(s) \in Nat /\ SetMax \in Nat
    BY SetAssumption
  <2> QED BY <1>1, <2>1, <2>2
<1>2. CASE ~(e \in ToSet(s) \cup lost \/ Len(s) >= SetMax)
  <2>1. Added(s, e, lost) = Append(s, e)
    BY <1>2 DEF Added
  <2>2. ToSet(Append(s, e)) = ToSet(s) \cup {e}
    BY AppendedSet
  <2>3. /\ Append(s, e) \in Seq(Elem) /\ Len(Append(s, e)) = Len(s) + 1
        /\ Append(s, e)[Len(s) + 1] = e
        /\ \A i \in 1 .. Len(s) : Append(s, e)[i] = s[i]
    BY AppendProperties
  <2>4. Len(s) \in Nat /\ SetMax \in Nat /\ DOMAIN s = 1 .. Len(s)
        /\ DOMAIN Append(s, e) = 1 .. Len(s) + 1
    BY <2>3, SetAssumption
  <2>5. \A i \in 1 .. Len(s) : s[i] # e
    BY <1>2, <2>4 DEF ToSet
  <2>6. IsInjective(Append(s, e))
    BY <2>3, <2>4, <2>5 DEF IsInjective
  <2> QED BY <1>2, <2>1, <2>2, <2>3, <2>4, <2>6
<1> QED BY <1>1, <1>2

(* The merge loop, one element of src at a time: u[k] is the set after k. *)
UnionLoop(u, dst, src, lost) ==
  /\ u[0] = dst
  /\ \A k \in 1 .. Len(src) : u[k] = Added(u[k - 1], src[k], lost)
  /\ UnionOf(dst, src, lost) = u[Len(src)]

LEMMA UnionSteps ==
  ASSUME NEW dst \in Seq(Elem), NEW src \in Seq(Elem), NEW lost
  PROVE  \E u : UnionLoop(u, dst, src, lost)
<1> DEFINE n == Len(src)
           step == [k \in 1 .. n |-> [s \in Seq(Elem) |-> Added(s, src[k], lost)]]
           Folds(f) == f = [s \in SUBSET (1 .. n) |->
             IF s = {} THEN dst ELSE Added(f[s \ {Max(s)}], src[Max(s)], lost)]
<1>1. n \in Nat /\ DOMAIN src = 1 .. n /\ \A k \in 1 .. n : src[k] \in Elem
  OBVIOUS
<1>2. step \in [1 .. n -> [Seq(Elem) -> Seq(Elem)]]
  BY <1>1 DEF Added
<1>3. \E f : Folds(f)
  <2> HIDE DEF n, step
  <2>1. PICK f \in [SUBSET (1 .. n) -> Seq(Elem)] : Iterates(n, dst, step, f)
    BY <1>1, <1>2, IterationExists
  <2>2. ASSUME NEW s \in SUBSET (1 .. n), s # {}
        PROVE  step[Max(s)][f[s \ {Max(s)}]] = Added(f[s \ {Max(s)}], src[Max(s)], lost)
    <3>1. Max(s) \in 1 .. n
      BY <1>1, <2>2, LargestOfSet
    <3>2. s \ {Max(s)} \in SUBSET (1 .. n)
      OBVIOUS
    <3> QED BY <3>1, <3>2 DEF step
  <2>3. Folds(f)
    BY <2>1, <2>2 DEF Iterates
  <2> QED BY <2>3
<1>4. PICK f : Folds(f) /\ UnionOf(dst, src, lost) = f[1 .. n]
  <2>1. UnionOf(dst, src, lost) = (CHOOSE f : Folds(f))[1 .. n]
    BY <1>1 DEF UnionOf, FoldLeft, MapThenFoldSet
  <2> QED BY <1>3, <2>1
<1> DEFINE u == [k \in 0 .. n |-> f[1 .. k]]
<1> HIDE DEF n
<1>5. u[0] = dst
  <2>1. 1 .. 0 = {} /\ 0 \in 0 .. n
    BY <1>1
  <2>2. f[{}] = dst
    BY <1>4
  <2> QED BY <2>1, <2>2
<1>6. ASSUME NEW k \in 1 .. n PROVE u[k] = Added(u[k - 1], src[k], lost)
  <2>1. Max(1 .. k) = k /\ (1 .. k) \ {k} = 1 .. k - 1 /\ 1 .. k # {}
    BY LargestIndex
  <2>2. 1 .. k \in SUBSET (1 .. n) /\ k \in 0 .. n /\ k - 1 \in 0 .. n
    BY <1>1
  <2>3. f[1 .. k] = Added(f[(1 .. k) \ {Max(1 .. k)}], src[Max(1 .. k)], lost)
    BY <1>4, <2>1, <2>2
  <2> QED BY <2>1, <2>2, <2>3
<1> HIDE DEF u
<1>7. UnionOf(dst, src, lost) = u[n]
  <2>1. n \in 0 .. n
    BY <1>1
  <2> QED BY <1>4, <2>1 DEF u
<1>8. UnionLoop(u, dst, src, lost)
  BY <1>5, <1>6, <1>7 DEF n, UnionLoop
<1> QED BY <1>8

LEMMA FiniteRange ==
  ASSUME NEW S, NEW s \in Seq(S)
  PROVE  IsFiniteSet(ToSet(s))
<1>1. Len(s) \in Nat /\ DOMAIN s = 1 .. Len(s) /\ s \in [1 .. Len(s) -> ToSet(s)]
  BY DEF ToSet
<1>2. s \in Surjection(1 .. Len(s), ToSet(s))
  BY <1>1 DEF Surjection, ToSet
<1>3. IsFiniteSet(1 .. Len(s))
  BY <1>1, FS_Interval
<1> QED BY <1>2, <1>3, FS_Surjection

LEMMA DisjointUnion ==
  ASSUME NEW S, IsFiniteSet(S), NEW T, IsFiniteSet(T), S \cap T = {}
  PROVE  IsFiniteSet(S \cup T) /\ Cardinality(S \cup T) = Cardinality(S) + Cardinality(T)
<1>1. Cardinality(S) \in Nat /\ Cardinality(T) \in Nat
  BY FS_CardinalityType
<1>2. Cardinality({}) = 0
  BY FS_EmptySet
<1>3. /\ IsFiniteSet(S \cup T)
      /\ Cardinality(S \cup T) = Cardinality(S) + Cardinality(T) - Cardinality(S \cap T)
  BY FS_Union, Zenon
<1>4. Cardinality(S \cap T) = 0
  BY <1>2, Zenon
<1>5. ASSUME NEW a \in Nat, NEW b \in Nat, NEW c, c = 0 PROVE a + b - c = a + b
  BY <1>5
<1>6. Cardinality(S) + Cardinality(T) - Cardinality(S \cap T) = Cardinality(S) + Cardinality(T)
  BY <1>1, <1>4, <1>5, Zenon
<1> QED BY <1>3, <1>6, Zenon

(* The elements of src that a merge into dst would add, with room enough.    *)
Taken(dst, src, lost) == (ToSet(src) \ ToSet(dst)) \ lost

(* What merging src into dst gives: no repetition, no more than fits, all   *)
(* of dst, nothing that is in neither, and, if there is room for all that   *)
(* is not lost, all of that.                                               *)
LEMMA UnionHolds ==
  ASSUME NEW dst \in Seq(Elem), Len(dst) <= SetMax, IsInjective(dst),
         NEW src \in Seq(Elem), NEW lost
  PROVE  LET u == UnionOf(dst, src, lost)
         IN  /\ u \in Seq(Elem) /\ Len(u) <= SetMax /\ IsInjective(u)
             /\ ToSet(dst) \subseteq ToSet(u)
             /\ ToSet(u) \subseteq ToSet(dst) \cup ToSet(src)
             /\ Len(dst) + Cardinality(Taken(dst, src, lost)) <= SetMax
                  => Taken(dst, src, lost) \subseteq ToSet(u)
<1> PICK u : UnionLoop(u, dst, src, lost)
  BY UnionSteps
<1>1. /\ u[0] = dst
      /\ \A k \in 1 .. Len(src) : u[k] = Added(u[k - 1], src[k], lost)
      /\ UnionOf(dst, src, lost) = u[Len(src)]
  BY DEF UnionLoop
<1> DEFINE n == Len(src)
           new == Taken(dst, src, lost)
           all == ToSet(dst) \cup new
           Room == Len(dst) + Cardinality(new) <= SetMax
<1>2. n \in Nat /\ DOMAIN src = 1 .. n /\ \A k \in 1 .. n : src[k] \in Elem
  OBVIOUS
<1> DEFINE Good(k) == /\ u[k] \in Seq(Elem) /\ Len(u[k]) <= SetMax /\ IsInjective(u[k])
                      /\ ToSet(dst) \subseteq ToSet(u[k]) /\ ToSet(u[k]) \subseteq all
                      /\ Room => \A j \in 1 .. k : src[j] \in new => src[j] \in ToSet(u[k])
           S == {k \in 0 .. n : Good(k)}
<1>3. 0 \in S
  BY <1>2, <1>1
<1>4. ASSUME NEW k \in 0 .. n - 1, k \in S PROVE k + 1 \in S
  <2> DEFINE e == src[k + 1]
             s == u[k]
             t == Added(s, e, lost)
  <2>1. k \in Nat /\ k + 1 \in 1 .. n /\ (k + 1) - 1 = k
    BY <1>2
  <2>2. e \in Elem /\ e \in ToSet(src)
    BY <1>2, <2>1 DEF ToSet
  <2> HIDE DEF new
  <2>12. {e} \ lost \subseteq all
    BY <2>2 DEF new, Taken
  <2>3. Good(k)
    BY <1>4
  <2>4. u[k + 1] = t
    BY <1>1, <2>1
  <2> HIDE DEF n, all, e, Room
  <2>5. s \in Seq(Elem) /\ Len(s) <= SetMax /\ IsInjective(s)
    BY <2>3
  <2> HIDE DEF s
  <2>6. /\ t \in Seq(Elem) /\ Len(t) <= SetMax /\ IsInjective(t)
        /\ ToSet(s) \subseteq ToSet(t) /\ ToSet(t) \subseteq ToSet(s) \cup ({e} \ lost)
        /\ (e \in ToSet(s) \/ (e \notin lost /\ Len(s) < SetMax)) => e \in ToSet(t)
    BY <2>2, <2>5, AddedElement
  <2> HIDE DEF t
  <2>7. ASSUME Room, e \in new PROVE e \in ToSet(t)
    <3>1. CASE e \in ToSet(s)
      BY <2>6, <3>1
    <3>2. CASE e \notin ToSet(s)
      <4>1. ToSet(s) \cup {e} \subseteq all
        BY <2>3, <2>7 DEF s, all
      <4>2. e \notin lost
        BY <2>7 DEF new, Taken
      <4>3. IsFiniteSet(all) /\ Cardinality(all) = Len(dst) + Cardinality(new)
        <5>1. IsFiniteSet(ToSet(dst)) /\ Cardinality(ToSet(dst)) = Len(dst)
          BY InjectiveLength
        <5>2. IsFiniteSet(new) /\ ToSet(dst) \cap new = {}
          <6>1. IsFiniteSet(ToSet(src)) /\ new \subseteq ToSet(src)
            BY FiniteRange DEF new, Taken
          <6> QED BY <6>1, FS_Subset DEF new, Taken
        <5>3. /\ IsFiniteSet(ToSet(dst) \cup new)
              /\ Cardinality(ToSet(dst) \cup new) = Cardinality(ToSet(dst)) + Cardinality(new)
          BY <5>1, <5>2, DisjointUnion, Zenon
        <5> QED BY <5>1, <5>3, Zenon DEF all
      <4>4. IsFiniteSet(ToSet(s)) /\ Cardinality(ToSet(s)) = Len(s)
        BY <2>5, InjectiveLength
      <4>5. Cardinality(ToSet(s) \cup {e}) = Len(s) + 1
        BY <3>2, <4>4, FS_AddElement
      <4>6. Cardinality(ToSet(s) \cup {e}) <= Cardinality(all) /\ Cardinality(all) \in Nat
        BY <4>1, <4>3, FS_Subset, FS_CardinalityType
      <4>7. Len(s) \in Nat /\ Cardinality(all) <= SetMax /\ SetMax \in Nat
        BY <2>5, <2>7, <4>3, SetAssumption DEF Room
      <4>8. Len(s) < SetMax
        BY <4>5, <4>6, <4>7
      <4> QED BY <2>6, <4>2, <4>8
    <3> QED BY <3>1, <3>2
  <2>8. Room => \A j \in 1 .. k + 1 : src[j] \in new => src[j] \in ToSet(t)
    <3>1. ASSUME Room, NEW j \in 1 .. k + 1, src[j] \in new PROVE src[j] \in ToSet(t)
      <4>1. CASE j = k + 1
        BY <2>7, <3>1, <4>1 DEF e
      <4>2. CASE j # k + 1
        <5>1. j \in 1 .. k
          BY <2>1, <4>2
        <5> QED BY <2>3, <2>6, <3>1, <5>1 DEF s
      <4> QED BY <4>1, <4>2
    <3> QED BY <3>1
  <2>9. ToSet(dst) \subseteq ToSet(t) /\ ToSet(t) \subseteq all
    BY <2>3, <2>6, <2>12 DEF s
  <2>10. Good(k + 1)
    BY <2>4, <2>6, <2>8, <2>9
  <2>11. k + 1 \in 0 .. n
    BY <1>2, <2>1
  <2> HIDE DEF Good
  <2> QED BY <2>10, <2>11
<1>5. Good(n)
  <2> HIDE DEF S
  <2>1. \A k \in 0 .. n - 1 : k \in S => k + 1 \in S
    BY <1>4
  <2>2. n \in S
    <3>1. 0 .. n \subseteq S
      BY <1>2, <1>3, <2>1, BoundedInduction
    <3> QED BY <1>2, <3>1
  <2> QED BY <2>2 DEF S
<1>6. Room => new \subseteq ToSet(u[n])
  <2>1. ASSUME Room, NEW e \in new PROVE e \in ToSet(u[n])
    <3>1. PICK j \in 1 .. n : src[j] = e
      BY <1>2, <2>1 DEF ToSet, Taken
    <3> QED BY <1>5, <2>1, <3>1
  <2> QED BY <2>1
<1>7. all \subseteq ToSet(dst) \cup ToSet(src)
  BY DEF Taken
<1> QED BY <1>1, <1>5, <1>6, <1>7

-----------------------------------------------------------------------------
(* A replica, or a copy of one, keeps no element twice and no more than fit *)
(* into the array; it holds what was heard but for elements refused.        *)
Keeps(s, h, lacks) ==
  /\ s \in Seq(Elem) /\ h \in SUBSET Elem
  /\ Len(s) <= SetMax /\ IsInjective(s)
  /\ ToSet(s) \subseteq h
  /\ h \subseteq ToSet(s) \cup lacks

SetInv ==
  /\ DOMAIN adds = Replica /\ DOMAIN heard = Replica /\ DOMAIN refused = Replica
  /\ adds \in [Replica -> Seq(Elem)] /\ heard \in [Replica -> SUBSET Elem]
  /\ \A r \in Replica : Keeps(adds[r], heard[r], refused[r])
  /\ \A m \in mail : Keeps(m.adds, m.heard, m.refused)

LEMMA InitSet == SetInit => SetInv
<1>1. << >> \in Seq(Elem) /\ Len(<< >>) = 0 /\ IsInjective(<< >>) /\ ToSet(<< >>) = {}
  BY DEF IsInjective, ToSet
<1> QED BY <1>1, SetAssumption DEF SetInit, SetInv, Keeps

LEMMA AddStep ==
  ASSUME SetInv, NEW r \in Replica, NEW e \in Elem, Add(r, e)
  PROVE  SetInv'
<1> DEFINE t == Added(adds[r], e, {})
<1>1. Keeps(adds[r], heard[r], refused[r])
  BY DEF SetInv
<1>2. /\ t \in Seq(Elem) /\ Len(t) <= SetMax /\ IsInjective(t)
      /\ ToSet(adds[r]) \subseteq ToSet(t) /\ ToSet(t) \subseteq ToSet(adds[r]) \cup {e}
      /\ e \in ToSet(t)
  BY <1>1, AddedElement DEF Keeps, Add
<1>3. /\ adds' = [adds EXCEPT ![r] = t] /\ heard' = [heard EXCEPT ![r] = heard[r] \cup {e}]
      /\ mail' = mail /\ refused' = [refused EXCEPT ![r] = refused[r] \ {e}]
  BY DEF Add
<1> HIDE DEF t
<1>4. Keeps(t, heard[r] \cup {e}, refused[r] \ {e})
  BY <1>1, <1>2 DEF Keeps
<1>5. ASSUME NEW s \in Replica PROVE Keeps(adds'[s], heard'[s], refused'[s])
  BY <1>3, <1>4 DEF SetInv
<1>6. adds' \in [Replica -> Seq(Elem)] /\ heard' \in [Replica -> SUBSET Elem]
  BY <1>2, <1>3 DEF SetInv
<1> QED BY <1>3, <1>5, <1>6 DEF SetInv

LEMMA SendSetStep ==
  ASSUME SetInv, NEW r \in Replica, SendSet(r)
  PROVE  SetInv'
<1> DEFINE m == [adds |-> adds[r], heard |-> heard[r], refused |-> refused[r]]
<1>1. mail' = mail \cup {m} /\ UNCHANGED <<adds, heard, refused>>
  BY DEF SendSet
<1>2. Keeps(m.adds, m.heard, m.refused)
  BY DEF SetInv
<1> HIDE DEF m
<1>3. \A x \in mail' : Keeps(x.adds, x.heard, x.refused)
  BY <1>1, <1>2 DEF SetInv
<1> QED BY <1>1, <1>3 DEF SetInv

LEMMA MergeSetStep ==
  ASSUME SetInv, NEW r \in Replica, NEW m \in mail, NEW lost, MergeSet(r, m, lost)
  PROVE  SetInv'
<1> DEFINE u == UnionOf(adds[r], m.adds, lost)
           h == heard[r] \cup m.heard
<1>1. Keeps(adds[r], heard[r], refused[r]) /\ Keeps(m.adds, m.heard, m.refused)
  BY DEF SetInv
<1>2. /\ adds[r] \in Seq(Elem) /\ m.adds \in Seq(Elem) /\ Len(adds[r]) <= SetMax
      /\ IsInjective(adds[r])
  BY <1>1 DEF Keeps
<1> DEFINE new == Taken(adds[r], m.adds, lost)
           all == ToSet(m.adds) \ ToSet(adds[r])
           lacks == (refused[r] \cup m.refused \cup Refused(r, m, lost)) \ ToSet(u)
<1>3. /\ u \in Seq(Elem) /\ Len(u) <= SetMax /\ IsInjective(u)
      /\ ToSet(adds[r]) \subseteq ToSet(u)
      /\ ToSet(u) \subseteq ToSet(adds[r]) \cup ToSet(m.adds)
      /\ Len(adds[r]) + Cardinality(new) <= SetMax => new \subseteq ToSet(u)
  BY <1>2, UnionHolds
<1>4. adds' = [adds EXCEPT ![r] = u] /\ heard' = [heard EXCEPT ![r] = h] /\ mail' = mail
  BY DEF MergeSet
<1>5. refused' = [refused EXCEPT ![r] = lacks]
  <2>1. adds'[r] = u
    BY <1>4 DEF SetInv
  <2> QED BY <2>1 DEF MergeSet
<1> HIDE DEF u
<1>6. ToSet(m.adds) \subseteq ToSet(u) \cup Refused(r, m, lost)
  <2>1. IsFiniteSet(new) /\ new = all \ lost
    <3>1. IsFiniteSet(ToSet(m.adds)) /\ new \subseteq ToSet(m.adds)
      BY <1>2, FiniteRange DEF Taken
    <3> QED BY <3>1, FS_Subset DEF Taken
  <2>2. Cardinality(new) \in Nat /\ Len(adds[r]) \in Nat /\ SetMax \in Nat
    BY <1>2, <2>1, FS_CardinalityType, SetAssumption
  <2>3. Refused(r, m, lost)
          = IF Len(adds[r]) + Cardinality(new) > SetMax THEN all ELSE all \cap lost
    BY <2>1 DEF Refused
  <2> HIDE DEF new
  <2>4. CASE Len(adds[r]) + Cardinality(new) > SetMax
    BY <1>3, <2>3, <2>4
  <2>5. CASE ~(Len(adds[r]) + Cardinality(new) > SetMax)
    <3>1. new \subseteq ToSet(u)
      BY <1>3, <2>2, <2>5
    <3> QED BY <1>3, <2>1, <2>3, <2>5, <3>1
  <2> QED BY <2>4, <2>5
<1>7. Keeps(u, h, lacks)
  <2>1. u \in Seq(Elem) /\ h \in SUBSET Elem /\ ToSet(u) \subseteq h
    BY <1>1, <1>3 DEF Keeps
  <2>2. heard[r] \subseteq ToSet(adds[r]) \cup refused[r]
        /\ m.heard \subseteq ToSet(m.adds) \cup m.refused
    BY <1>1 DEF Keeps
  <2>3. h \subseteq ToSet(u) \cup lacks
    BY <1>3, <1>6, <2>2
  <2> QED BY <1>3, <2>1, <2>3 DEF Keeps
<1> HIDE DEF h, lacks
<1>8. ASSUME NEW s \in Replica PROVE Keeps(adds'[s], heard'[s], refused'[s])
  BY <1>4, <1>5, <1>7 DEF SetInv
<1>9. adds' \in [Replica -> Seq(Elem)] /\ heard' \in [Replica -> SUBSET Elem]
  BY <1>4, <1>7 DEF SetInv, Keeps
<1> QED BY <1>4, <1>5, <1>8, <1>9 DEF SetInv

LEMMA FreeSetStep ==
  ASSUME SetInv, NEW r \in Replica, FreeSet(r)
  PROVE  SetInv'
<1>1. << >> \in Seq(Elem) /\ Len(<< >>) = 0 /\ IsInjective(<< >>) /\ ToSet(<< >>) = {}
  BY DEF IsInjective, ToSet
<1>2. Keeps(<< >>, {}, {})
  BY <1>1, SetAssumption DEF Keeps
<1>3. /\ adds' = [adds EXCEPT ![r] = << >>] /\ heard' = [heard EXCEPT ![r] = {}]
      /\ refused' = [refused EXCEPT ![r] = {}] /\ mail' = mail
  BY DEF FreeSet
<1>4. ASSUME NEW s \in Replica PROVE Keeps(adds'[s], heard'[s], refused'[s])
  BY <1>2, <1>3 DEF SetInv, Keeps
<1> QED BY <1>1, <1>3, <1>4 DEF SetInv

LEMMA SetInvariant == SetSpec => []SetInv
<1>1. ASSUME SetInv, [SetNext]_setVars PROVE SetInv'
  <2>1. CASE \E r \in Replica, e \in Elem : Add(r, e)
    BY <1>1, <2>1, AddStep
  <2>2. CASE \E r \in Replica : SendSet(r)
    BY <1>1, <2>2, SendSetStep
  <2>3. CASE \E m \in mail : LoseSet(m)
    BY <1>1, <2>3 DEF LoseSet, SetInv
  <2>4. CASE \E r \in Replica, m \in mail, lost \in Lost : MergeSet(r, m, lost)
    BY <1>1, <2>4, MergeSetStep
  <2>5. CASE \E r \in Replica : FreeSet(r)
    BY <1>1, <2>5, FreeSetStep
  <2>6. CASE UNCHANGED setVars
    BY <1>1, <2>6 DEF setVars, SetInv
  <2> QED BY <1>1, <2>1, <2>2, <2>3, <2>4, <2>5, <2>6 DEF SetNext
<1> QED BY InitSet, <1>1, PTL DEF SetSpec

(* However merges interleave, and whatever they find no room or memory for: *)
(* no replica of the OR-set keeps an element twice, outgrows its array,     *)
(* invents an element, or misses one but that a merge refused this very one. *)
THEOREM HoldsTheSeenCorrect == SetSpec => []HoldsTheSeen
<1>1. SetInv => HoldsTheSeen
  BY DEF SetInv, Keeps, HoldsTheSeen
<1> QED BY <1>1, SetInvariant, PTL

-----------------------------------------------------------------------------
(* The two loops of the MV-register, as functions of how far they are.      *)
LEMMA AbsorbedType ==
  ASSUME NEW ws \in Seq(Write), NEW w \in Write
  PROVE  Absorbed(ws, w) \in Seq(Write)
<1>1. CASE FirstOf(ws, w.peer) # {}
  <2> DEFINE v == [j \in DOMAIN ws |->
                     IF j \in FirstOf(ws, w.peer) /\ w.clock > ws[j].clock THEN w ELSE ws[j]]
  <2>1. DOMAIN ws = 1 .. Len(ws) /\ Len(ws) \in Nat /\ \A j \in DOMAIN ws : ws[j] \in Write
    OBVIOUS
  <2>2. v \in [1 .. Len(ws) -> Write]
    BY <2>1
  <2> QED BY <1>1, <2>1, <2>2 DEF Absorbed
<1>2. CASE FirstOf(ws, w.peer) = {}
  BY <1>2, AppendProperties DEF Absorbed
<1> QED BY <1>1, <1>2

LEMMA MergeLoop ==
  ASSUME NEW dst \in Seq(Write), NEW src \in Seq(Write)
  PROVE  \E g : /\ g[0] = dst
                /\ \A k \in 1 .. Len(src) : g[k] = Absorbed(g[k - 1], src[k])
                /\ MergedWrites(dst, src) = g[Len(src)]
<1> DEFINE n == Len(src)
           step == [k \in 1 .. n |-> [ws \in Seq(Write) |-> Absorbed(ws, src[k])]]
           Folds(f) == f = [s \in SUBSET (1 .. n) |->
             IF s = {} THEN dst ELSE Absorbed(f[s \ {Max(s)}], src[Max(s)])]
<1>1. n \in Nat /\ DOMAIN src = 1 .. n /\ \A k \in 1 .. n : src[k] \in Write
  OBVIOUS
<1>2. step \in [1 .. n -> [Seq(Write) -> Seq(Write)]]
  BY <1>1, AbsorbedType
<1>3. \E f : Folds(f)
  <2> HIDE DEF n, step
  <2>1. PICK f \in [SUBSET (1 .. n) -> Seq(Write)] : Iterates(n, dst, step, f)
    BY <1>1, <1>2, IterationExists
  <2>2. ASSUME NEW s \in SUBSET (1 .. n), s # {}
        PROVE  step[Max(s)][f[s \ {Max(s)}]] = Absorbed(f[s \ {Max(s)}], src[Max(s)])
    <3>1. Max(s) \in 1 .. n
      BY <1>1, <2>2, LargestOfSet
    <3>2. s \ {Max(s)} \in SUBSET (1 .. n)
      OBVIOUS
    <3> QED BY <3>1, <3>2 DEF step
  <2>3. Folds(f)
    BY <2>1, <2>2 DEF Iterates
  <2> QED BY <2>3
<1>4. PICK f : Folds(f) /\ MergedWrites(dst, src) = f[1 .. n]
  <2>1. MergedWrites(dst, src) = (CHOOSE f : Folds(f))[1 .. n]
    BY <1>1 DEF MergedWrites, FoldLeft, MapThenFoldSet
  <2> QED BY <1>3, <2>1
<1> DEFINE g == [k \in 0 .. n |-> f[1 .. k]]
<1> HIDE DEF n
<1>5. g[0] = dst
  <2>1. 1 .. 0 = {} /\ 0 \in 0 .. n
    BY <1>1
  <2>2. f[{}] = dst
    BY <1>4
  <2> QED BY <2>1, <2>2
<1>6. ASSUME NEW k \in 1 .. n PROVE g[k] = Absorbed(g[k - 1], src[k])
  <2>1. Max(1 .. k) = k /\ (1 .. k) \ {k} = 1 .. k - 1 /\ 1 .. k # {}
    BY LargestIndex
  <2>2. 1 .. k \in SUBSET (1 .. n) /\ k \in 0 .. n /\ k - 1 \in 0 .. n
    BY <1>1
  <2>3. f[1 .. k] = Absorbed(f[(1 .. k) \ {Max(1 .. k)}], src[Max(1 .. k)])
    BY <1>4, <2>1, <2>2
  <2> QED BY <2>1, <2>2, <2>3
<1> HIDE DEF g
<1>7. MergedWrites(dst, src) = g[n]
  <2>1. n \in 0 .. n
    BY <1>1
  <2> QED BY <1>4, <2>1 DEF g
<1> QED BY <1>5, <1>6, <1>7 DEF n

Scanning == [at : Nat, ws : Seq(Write)]

LEMMA ScanType ==
  ASSUME NEW x \in Write, NEW s \in Scanning
  PROVE  Scan(x, s) \in Scanning
<1> DEFINE ws == s.ws
           moved == [ws EXCEPT ![s.at] = Last(ws)]
<1>1. s.at \in Nat /\ ws \in Seq(Write) /\ Len(ws) \in Nat /\ DOMAIN ws = 1 .. Len(ws)
      /\ s = [at |-> s.at, ws |-> s.ws]
  BY DEF Scanning
<1>2. CASE ~Older(s.ws[s.at], x)
  BY <1>1, <1>2 DEF Scan, Scanning
<1>3. CASE Older(s.ws[s.at], x)
  <2>1. ASSUME NEW i \in 1 .. Len(ws) - 1 PROVE moved[i] \in Write
    <3>1. i \in 1 .. Len(ws) /\ Len(ws) \in 1 .. Len(ws)
      BY <1>1
    <3>2. ws[i] \in Write /\ ws[Len(ws)] \in Write
      BY <1>1, <3>1
    <3> QED BY <1>1, <3>1, <3>2 DEF Last
  <2> HIDE DEF moved
  <2>2. SubSeq(moved, 1, Len(ws) - 1) \in Seq(Write)
    <3>1. Len(ws) - 1 \in Int /\ 1 \in Int
      BY <1>1
    <3> HIDE DEF ws
    <3> QED BY <2>1, <3>1, SubSeqProperties
  <2>3. Scan(x, s) = [s EXCEPT !.ws = SubSeq(moved, 1, Len(ws) - 1)]
    BY <1>3 DEF Scan, moved
  <2> QED BY <1>1, <2>2, <2>3 DEF Scanning
<1> QED BY <1>2, <1>3

LEMMA ScanLoop ==
  ASSUME NEW ws \in Seq(Write), NEW x \in Write
  PROVE  \E g : /\ g[0] = [at |-> 1, ws |-> ws]
                /\ \A k \in 1 .. Len(ws) : g[k] = Scan(x, g[k - 1])
                /\ WithoutOlder(ws, x) = g[Len(ws)].ws
<1> DEFINE n == Len(ws)
           first == [at |-> 1, ws |-> ws]
           step == [k \in 1 .. n |-> [s \in Scanning |-> Scan(x, s)]]
           Folds(f) == f = [s \in SUBSET (1 .. n) |->
             IF s = {} THEN first ELSE Scan(x, f[s \ {Max(s)}])]
<1>1. n \in Nat /\ DOMAIN ws = 1 .. n /\ first \in Scanning
  BY DEF Scanning
<1>2. step \in [1 .. n -> [Scanning -> Scanning]]
  BY ScanType
<1>3. \E f : Folds(f)
  <2> HIDE DEF n, step, first
  <2>1. PICK f \in [SUBSET (1 .. n) -> Scanning] : Iterates(n, first, step, f)
    BY <1>1, <1>2, IterationExists
  <2>2. ASSUME NEW s \in SUBSET (1 .. n), s # {}
        PROVE  step[Max(s)][f[s \ {Max(s)}]] = Scan(x, f[s \ {Max(s)}])
    <3>1. Max(s) \in 1 .. n
      BY <1>1, <2>2, LargestOfSet
    <3>2. s \ {Max(s)} \in SUBSET (1 .. n)
      OBVIOUS
    <3> QED BY <3>1, <3>2 DEF step
  <2>3. Folds(f)
    BY <2>1, <2>2 DEF Iterates
  <2> QED BY <2>3
<1>4. PICK f : Folds(f) /\ WithoutOlder(ws, x) = f[1 .. n].ws
  <2>1. WithoutOlder(ws, x) = (CHOOSE f : Folds(f))[1 .. n].ws
    BY <1>1 DEF WithoutOlder, FoldLeft, MapThenFoldSet
  <2> QED BY <1>3, <2>1
<1> DEFINE g == [k \in 0 .. n |-> f[1 .. k]]
<1> HIDE DEF n, first
<1>5. g[0] = first
  <2>1. 1 .. 0 = {} /\ 0 \in 0 .. n
    BY <1>1
  <2>2. f[{}] = first
    BY <1>4
  <2> QED BY <2>1, <2>2
<1>6. ASSUME NEW k \in 1 .. n PROVE g[k] = Scan(x, g[k - 1])
  <2>1. Max(1 .. k) = k /\ (1 .. k) \ {k} = 1 .. k - 1 /\ 1 .. k # {}
    BY LargestIndex
  <2>2. 1 .. k \in SUBSET (1 .. n) /\ k \in 0 .. n /\ k - 1 \in 0 .. n
    BY <1>1
  <2>3. f[1 .. k] = Scan(x, f[(1 .. k) \ {Max(1 .. k)}])
    BY <1>4, <2>1, <2>2
  <2> QED BY <2>1, <2>2, <2>3
<1> HIDE DEF g
<1>7. WithoutOlder(ws, x) = g[n].ws
  <2>1. n \in 0 .. n
    BY <1>1
  <2> QED BY <1>4, <2>1 DEF g
<1> QED BY <1>5, <1>6, <1>7 DEF n, first

-----------------------------------------------------------------------------
(* What the compaction of quilt_mv_register_set leaves.                     *)
OnePerPeer(ws) == \A i, j \in 1 .. Len(ws) : ws[i].peer = ws[j].peer => i = j

LEMMA ScanKeeps ==
  ASSUME NEW x \in Write, NEW s \in Scanning,
         s.at \in 1 .. Len(s.ws), Older(s.ws[s.at], x)
  PROVE  LET t == Scan(x, s)
         IN  /\ t.at = s.at /\ t.ws \in Seq(Write) /\ Len(t.ws) = Len(s.ws) - 1
             /\ \A i \in 1 .. Len(s.ws) - 1 :
                  t.ws[i] = s.ws[IF i = s.at THEN Len(s.ws) ELSE i]
<1> DEFINE ws == s.ws
           n == Len(ws)
           moved == [ws EXCEPT ![s.at] = Last(ws)]
           v == SubSeq(moved, 1, n - 1)
<1>1. s.at \in Nat /\ ws \in Seq(Write) /\ n \in Nat /\ DOMAIN ws = 1 .. n
      /\ s = [at |-> s.at, ws |-> s.ws]
  BY DEF Scanning
<1>2. ASSUME NEW i \in 1 .. n - 1
      PROVE  moved[i] \in Write /\ moved[i] = ws[IF i = s.at THEN n ELSE i]
  <2>1. i \in 1 .. n /\ n \in 1 .. n
    BY <1>1
  <2>2. ws[i] \in Write /\ ws[n] \in Write
    BY <1>1, <2>1
  <2> QED BY <1>1, <2>1, <2>2 DEF Last
<1>3. Scan(x, s) = [s EXCEPT !.ws = v]
  BY DEF Scan
<1> HIDE DEF moved
<1>4. v \in Seq(Write) /\ Len(v) = n - 1 /\ \A i \in 1 .. n - 1 : v[i] = moved[i]
  <2>1. n - 1 \in Int /\ 1 \in Int /\ n \in Nat /\ n # 0
    BY <1>1
  <2> HIDE DEF n
  <2>2. /\ v \in Seq(Write) /\ Len(v) = IF 1 <= n - 1 THEN (n - 1) - 1 + 1 ELSE 0
        /\ \A i \in 1 .. (n - 1) - 1 + 1 : v[i] = moved[1 + i - 1]
    BY <1>2, <2>1, SubSeqProperties
  <2> HIDE DEF v
  <2>3. Len(v) = n - 1
    BY <2>1, <2>2
  <2>4. ASSUME NEW i \in 1 .. n - 1 PROVE v[i] = moved[i]
    <3>1. i \in 1 .. (n - 1) - 1 + 1 /\ 1 + i - 1 = i
      BY <2>1
    <3> QED BY <2>2, <3>1
  <2> QED BY <2>2, <2>3, <2>4
<1> HIDE DEF v
<1>5. Scan(x, s).at = s.at /\ Scan(x, s).ws = v
  BY <1>1, <1>3
<1> QED BY <1>2, <1>4, <1>5

LEMMA ScanSkips ==
  ASSUME NEW x \in Write, NEW s \in Scanning, ~Older(s.ws[s.at], x)
  PROVE  Scan(x, s).at = s.at + 1 /\ Scan(x, s).ws = s.ws
<1>1. s = [at |-> s.at, ws |-> s.ws]
  BY DEF Scanning
<1> QED BY <1>1 DEF Scan

(* After k rounds: the slots before s.at hold nothing older than x, every   *)
(* write left was there, and nothing was dropped but what is older.        *)
Scanned(ws, x, k, s) ==
  /\ s \in Scanning /\ s.at \in 1 .. Len(s.ws) + 1
  /\ Len(s.ws) <= Len(ws) /\ s.at + Len(ws) = k + 1 + Len(s.ws)
  /\ \A i \in 1 .. Len(s.ws) : i < s.at => ~Older(s.ws[i], x)
  /\ \A i \in 1 .. Len(s.ws) : \E j \in 1 .. Len(ws) : s.ws[i] = ws[j]
  /\ \A j \in 1 .. Len(ws) : ~Older(ws[j], x) => \E i \in 1 .. Len(s.ws) : s.ws[i] = ws[j]
  /\ OnePerPeer(ws) => OnePerPeer(s.ws)

LEMMA ScanStep ==
  ASSUME NEW ws \in Seq(Write), NEW x \in Write, NEW k \in 0 .. Len(ws) - 1,
         NEW s, Scanned(ws, x, k, s)
  PROVE  Scanned(ws, x, k + 1, Scan(x, s))
<1> DEFINE t == Scan(x, s)
<1>1. /\ s \in Scanning /\ s.ws \in Seq(Write) /\ Len(s.ws) \in Nat /\ Len(ws) \in Nat
      /\ s.at \in 1 .. Len(s.ws) + 1 /\ s.at + Len(ws) = k + 1 + Len(s.ws)
  BY DEF Scanned, Scanning
<1>2. s.at \in 1 .. Len(s.ws) /\ k \in Nat /\ s.at + 1 + Len(ws) = k + 1 + 1 + Len(s.ws)
  <2> DEFINE a == s.at
             b == Len(s.ws)
             n == Len(ws)
  <2>1. a \in 1 .. b + 1 /\ b \in Nat /\ n \in Nat /\ k \in 0 .. n - 1 /\ a + n = k + 1 + b
    BY <1>1
  <2> HIDE DEF a, b, n
  <2>2. a \in 1 .. b /\ k \in Nat /\ a + 1 + n = k + 1 + 1 + b
    BY <2>1
  <2> QED BY <2>2 DEF a, b, n
<1>3. t \in Scanning
  BY <1>1, ScanType
<1>4. CASE ~Older(s.ws[s.at], x)
  <2>1. t.at = s.at + 1 /\ t.ws = s.ws
    BY <1>1, <1>4, ScanSkips
  <2> HIDE DEF t
  <2>2. \A i \in 1 .. Len(s.ws) : i < s.at + 1 => i < s.at \/ i = s.at
    BY <1>2
  <2>3. \A i \in 1 .. Len(t.ws) : i < t.at => ~Older(t.ws[i], x)
    BY <1>4, <2>1, <2>2 DEF Scanned
  <2>4. s.at + 1 \in 1 .. Len(s.ws) + 1
    BY <1>1, <1>2
  <2>5. t.at \in 1 .. Len(t.ws) + 1 /\ t.at + Len(ws) = k + 1 + 1 + Len(t.ws)
    BY <1>2, <2>1, <2>4
  <2> QED BY <1>3, <2>1, <2>3, <2>5 DEF Scanned, t
<1>5. CASE Older(s.ws[s.at], x)
  <2> DEFINE n == Len(s.ws)
             old(i) == IF i = s.at THEN n ELSE i
  <2>1. /\ t.at = s.at /\ t.ws \in Seq(Write) /\ Len(t.ws) = n - 1
        /\ \A i \in 1 .. n - 1 : t.ws[i] = s.ws[old(i)]
    BY <1>1, <1>2, <1>5, ScanKeeps
  <2> HIDE DEF t
  <2>2. \A i \in 1 .. n - 1 : old(i) \in 1 .. n /\ old(i) # s.at
    BY <1>1, <1>2
  <2>3. \A i, j \in 1 .. n - 1 : old(i) = old(j) => i = j
    BY <1>1, <1>2
  <2>4. \A j \in 1 .. n : j # s.at => \E i \in 1 .. n - 1 : old(i) = j
    <3> SUFFICES ASSUME NEW j \in 1 .. n, j # s.at PROVE \E i \in 1 .. n - 1 : old(i) = j
      OBVIOUS
    <3>1. CASE j = n
      <4>1. s.at \in 1 .. n - 1 /\ old(s.at) = j
        BY <1>1, <1>2, <3>1
      <4> QED BY <4>1
    <3>2. CASE j # n
      <4>1. j \in 1 .. n - 1 /\ old(j) = j
        BY <1>1, <3>2
      <4> QED BY <4>1
    <3> QED BY <3>1, <3>2
  <2>5. \A i \in 1 .. n - 1 : i < s.at => old(i) = i
    BY <1>2
  <2> HIDE DEF old
  <2>6. \A i \in 1 .. n - 1 : i < s.at => ~Older(t.ws[i], x)
    BY <1>1, <2>1, <2>2, <2>5 DEF Scanned
  <2>7. ASSUME NEW i \in 1 .. n - 1 PROVE \E j \in 1 .. Len(ws) : t.ws[i] = ws[j]
    <3>1. old(i) \in 1 .. n /\ t.ws[i] = s.ws[old(i)]
      BY <2>1, <2>2
    <3>2. PICK j \in 1 .. Len(ws) : s.ws[old(i)] = ws[j]
      BY <3>1 DEF Scanned
    <3> QED BY <3>1, <3>2
  <2>8. ASSUME NEW j \in 1 .. Len(ws), ~Older(ws[j], x)
        PROVE  \E i \in 1 .. n - 1 : t.ws[i] = ws[j]
    <3>1. PICK i \in 1 .. n : s.ws[i] = ws[j]
      BY <2>8 DEF Scanned
    <3>2. i # s.at
      BY <1>5, <2>8, <3>1
    <3>3. PICK l \in 1 .. n - 1 : old(l) = i
      BY <2>4, <3>2
    <3> QED BY <2>1, <3>1, <3>3
  <2>9. ASSUME OnePerPeer(s.ws) PROVE OnePerPeer(t.ws)
    <3> SUFFICES ASSUME NEW i \in 1 .. n - 1, NEW j \in 1 .. n - 1,
                        t.ws[i].peer = t.ws[j].peer
                 PROVE  i = j
      BY <2>1 DEF OnePerPeer
    <3>1. t.ws[i] = s.ws[old(i)] /\ t.ws[j] = s.ws[old(j)]
      BY <2>1
    <3>2. old(i) \in 1 .. n /\ old(j) \in 1 .. n
      BY <2>2
    <3>3. old(i) = old(j)
      BY <2>9, <3>1, <3>2 DEF OnePerPeer
    <3> QED BY <2>3, <3>3
  <2>10. /\ t.at \in 1 .. Len(t.ws) + 1 /\ t.at + Len(ws) = k + 1 + 1 + Len(t.ws)
         /\ Len(t.ws) <= Len(ws)
    <3> DEFINE a == s.at
               m == Len(ws)
    <3>1. a \in 1 .. n /\ n \in Nat /\ m \in Nat /\ n <= m /\ a + m = k + 1 + n
      BY <1>1, <1>2 DEF Scanned
    <3>2. t.at = a /\ Len(t.ws) = n - 1
      BY <2>1
    <3> HIDE DEF a, m, n
    <3>3. /\ t.at \in 1 .. Len(t.ws) + 1 /\ t.at + m = k + 1 + 1 + Len(t.ws)
          /\ Len(t.ws) <= m
      BY <3>1, <3>2
    <3> QED BY <3>3 DEF m
  <2> QED BY <1>3, <2>1, <2>6, <2>7, <2>8, <2>9, <2>10 DEF Scanned, t
<1> QED BY <1>4, <1>5

LEMMA WithoutOlderKeeps ==
  ASSUME NEW ws \in Seq(Write), NEW x \in Write
  PROVE  LET v == WithoutOlder(ws, x)
         IN  /\ v \in Seq(Write) /\ Len(v) <= Len(ws)
             /\ ToSet(v) = {w \in ToSet(ws) : ~Older(w, x)}
             /\ OnePerPeer(ws) => OnePerPeer(v)
<1> DEFINE n == Len(ws)
<1>1. n \in Nat /\ DOMAIN ws = 1 .. n
  OBVIOUS
<1>2. PICK g : /\ g[0] = [at |-> 1, ws |-> ws]
               /\ \A k \in 1 .. n : g[k] = Scan(x, g[k - 1])
               /\ WithoutOlder(ws, x) = g[n].ws
  BY ScanLoop
<1> DEFINE S == {k \in 0 .. n : Scanned(ws, x, k, g[k])}
<1>3. 0 \in S
  <2>1. g[0].at = 1 /\ g[0].ws = ws /\ g[0] \in Scanning
    BY <1>2 DEF Scanning
  <2>2. Scanned(ws, x, 0, g[0])
    BY <1>1, <2>1 DEF Scanned
  <2> QED BY <1>1, <2>2
<1>4. ASSUME NEW k \in 0 .. n - 1, k \in S PROVE k + 1 \in S
  <2>1. k + 1 \in 1 .. n /\ (k + 1) - 1 = k /\ k + 1 \in 0 .. n
    BY <1>1
  <2>2. g[k + 1] = Scan(x, g[k])
    BY <1>2, <2>1
  <2> QED BY <1>4, <2>1, <2>2, ScanStep
<1>5. Scanned(ws, x, n, g[n])
  <2> HIDE DEF S
  <2>1. \A k \in 0 .. n - 1 : k \in S => k + 1 \in S
    BY <1>4
  <2>2. 0 .. n \subseteq S
    BY <1>1, <1>3, <2>1, BoundedInduction
  <2>3. n \in S
    BY <1>1, <2>2
  <2> QED BY <2>3 DEF S
<1> DEFINE v == g[n].ws
<1>6. v \in Seq(Write) /\ Len(v) \in Nat /\ DOMAIN v = 1 .. Len(v)
  BY <1>5 DEF Scanned, Scanning
<1>7. \A i \in 1 .. Len(v) : ~Older(v[i], x)
  <2> DEFINE a == g[n].at
             b == Len(v)
  <2>1. a \in 1 .. b + 1 /\ b \in Nat /\ a + n = n + 1 + b
    BY <1>5, <1>6 DEF Scanned
  <2>2. \A i \in 1 .. b : i < a => ~Older(v[i], x)
    BY <1>5 DEF Scanned
  <2> HIDE DEF a, b, v, n
  <2>3. \A i \in 1 .. b : i < a
    BY <1>1, <2>1
  <2>4. \A i \in 1 .. b : ~Older(v[i], x)
    BY <2>2, <2>3
  <2> QED BY <2>4 DEF b
<1>8. /\ Len(v) <= n
      /\ \A i \in 1 .. Len(v) : \E j \in 1 .. n : v[i] = ws[j]
      /\ \A j \in 1 .. n : ~Older(ws[j], x) => \E i \in 1 .. Len(v) : v[i] = ws[j]
      /\ OnePerPeer(ws) => OnePerPeer(v)
  BY <1>5 DEF Scanned
<1> HIDE DEF v
<1>9. ToSet(v) = {w \in ToSet(ws) : ~Older(w, x)}
  <2>1. \A w : w \in ToSet(v) <=> \E i \in 1 .. Len(v) : v[i] = w
    BY <1>6 DEF ToSet
  <2>2. \A w : w \in ToSet(ws) <=> \E j \in 1 .. n : ws[j] = w
    BY <1>1 DEF ToSet
  <2>3. ASSUME NEW w \in ToSet(v) PROVE w \in ToSet(ws) /\ ~Older(w, x)
    BY <1>7, <1>8, <2>1, <2>2
  <2>4. ASSUME NEW w \in ToSet(ws), ~Older(w, x) PROVE w \in ToSet(v)
    BY <1>8, <2>1, <2>2, <2>4
  <2> QED BY <2>3, <2>4
<1> QED BY <1>2, <1>6, <1>8, <1>9 DEF v

-----------------------------------------------------------------------------
(* What a merge keeps of a register, however full it is. *)
Overtakes(w, y) == w.peer = y.peer /\ w.clock > y.clock

LEMMA AbsorbedKeeps ==
  ASSUME NEW ws \in Seq(Write), NEW w \in Write, Len(ws) <= RegMax
  PROVE  LET v == Absorbed(ws, w)
         IN  /\ v \in Seq(Write) /\ Len(v) <= RegMax
             /\ ToSet(v) \subseteq ToSet(ws) \cup {w}
             /\ \A y \in ToSet(ws) : y \in ToSet(v) \/ Overtakes(w, y)
             /\ OnePerPeer(ws) => OnePerPeer(v)
<1> DEFINE n == Len(ws)
           v == Absorbed(ws, w)
<1>1. /\ DOMAIN ws = 1 .. n /\ n \in Nat /\ (\A j \in 1 .. n : ws[j] \in Write)
      /\ v \in Seq(Write) /\ RegMax \in Nat
  BY AbsorbedType, RegisterAssumption
<1>2. \A y : y \in ToSet(ws) <=> \E j \in 1 .. n : ws[j] = y
  BY <1>1 DEF ToSet
<1>3. CASE FirstOf(ws, w.peer) # {}
  <2> DEFINE taken(j) == j \in FirstOf(ws, w.peer) /\ w.clock > ws[j].clock
  <2>1. v = [j \in 1 .. n |-> IF taken(j) THEN w ELSE ws[j]]
    BY <1>1, <1>3 DEF Absorbed
  <2>2. Len(v) = n /\ DOMAIN v = 1 .. n
    BY <1>1, <2>1
  <2>3. \A j \in 1 .. n : taken(j) => Overtakes(w, ws[j])
    BY DEF FirstOf, Overtakes
  <2>4. \A j \in 1 .. n : v[j] = IF taken(j) THEN w ELSE ws[j]
    BY <2>1
  <2> HIDE DEF v, taken, n
  <2>5. \A y : y \in ToSet(v) <=> \E j \in 1 .. n : v[j] = y
    BY <2>2 DEF ToSet
  <2>6. ToSet(v) \subseteq ToSet(ws) \cup {w}
    BY <1>2, <2>4, <2>5
  <2>7. \A y \in ToSet(ws) : y \in ToSet(v) \/ Overtakes(w, y)
    BY <1>2, <2>3, <2>4, <2>5
  <2>8. \A j \in 1 .. n : v[j].peer = ws[j].peer
    BY <2>3, <2>4 DEF Overtakes
  <2>9. OnePerPeer(ws) => OnePerPeer(v)
    BY <2>2, <2>8 DEF OnePerPeer, n
  <2>10. Len(v) <= RegMax
    BY <2>2 DEF n
  <2> QED BY <1>1, <2>6, <2>7, <2>9, <2>10 DEF v
<1>4. CASE FirstOf(ws, w.peer) = {} /\ Len(ws) < RegMax
  <2>1. v = Append(ws, w)
    BY <1>4 DEF Absorbed
  <2>2. /\ Len(v) = n + 1 /\ v[n + 1] = w /\ \A j \in 1 .. n : v[j] = ws[j]
    BY <2>1, AppendProperties
  <2>3. ToSet(v) = ToSet(ws) \cup {w}
    BY <2>1, AppendedSet
  <2>4. ASSUME OnePerPeer(ws), NEW j \in 1 .. n PROVE ws[j].peer # w.peer
    <3>1. ASSUME ws[j].peer = w.peer PROVE FALSE
      <4>1. \A i \in 1 .. j - 1 : i \in 1 .. n /\ i # j
        BY <1>1
      <4>2. \A i \in 1 .. j - 1 : ws[i].peer # w.peer
        BY <2>4, <3>1, <4>1 DEF OnePerPeer
      <4> QED BY <1>1, <1>4, <3>1, <4>2 DEF FirstOf
    <3> QED BY <3>1
  <2>5. OnePerPeer(ws) => OnePerPeer(v)
    <3> SUFFICES ASSUME OnePerPeer(ws), NEW i \in 1 .. n + 1, NEW j \in 1 .. n + 1,
                        v[i].peer = v[j].peer
                 PROVE  i = j
      BY <2>2 DEF OnePerPeer
    <3>1. \A k \in 1 .. n + 1 : k \in 1 .. n \/ k = n + 1
      BY <1>1
    <3>2. CASE i \in 1 .. n /\ j \in 1 .. n
      BY <2>2, <3>2 DEF OnePerPeer
    <3>3. CASE i = n + 1 /\ j \in 1 .. n
      BY <2>2, <2>4, <3>3
    <3>4. CASE i \in 1 .. n /\ j = n + 1
      BY <2>2, <2>4, <3>4
    <3> QED BY <3>1, <3>2, <3>3, <3>4
  <2> HIDE DEF v
  <2>6. Len(v) <= RegMax
    BY <1>1, <1>4, <2>2
  <2> QED BY <1>1, <2>3, <2>5, <2>6 DEF v
<1>5. CASE FirstOf(ws, w.peer) = {} /\ ~(Len(ws) < RegMax)
  <2>1. v = ws
    BY <1>5 DEF Absorbed
  <2> QED BY <1>1, <2>1
<1> QED BY <1>3, <1>4, <1>5

LEMMA MergedKeeps ==
  ASSUME NEW dst \in Seq(Write), NEW src \in Seq(Write), Len(dst) <= RegMax
  PROVE  LET v == MergedWrites(dst, src)
         IN  /\ v \in Seq(Write) /\ Len(v) <= RegMax
             /\ ToSet(v) \subseteq ToSet(dst) \cup ToSet(src)
             /\ \A y \in ToSet(dst) :
                  y \in ToSet(v) \/ \E w \in ToSet(src) : Overtakes(w, y)
             /\ OnePerPeer(dst) => OnePerPeer(v)
<1> DEFINE n == Len(src)
           Stays(y) == ~ \E w \in ToSet(src) : Overtakes(w, y)
<1>1. n \in Nat /\ DOMAIN src = 1 .. n /\ \A k \in 1 .. n : src[k] \in Write
  OBVIOUS
<1>2. PICK g : /\ g[0] = dst
               /\ \A k \in 1 .. n : g[k] = Absorbed(g[k - 1], src[k])
               /\ MergedWrites(dst, src) = g[n]
  BY MergeLoop
<1> DEFINE Good(k) == /\ g[k] \in Seq(Write) /\ Len(g[k]) <= RegMax
                      /\ ToSet(g[k]) \subseteq ToSet(dst) \cup ToSet(src)
                      /\ \A y \in ToSet(dst) : Stays(y) => y \in ToSet(g[k])
                      /\ OnePerPeer(dst) => OnePerPeer(g[k])
           S == {k \in 0 .. n : Good(k)}
<1>3. 0 \in S
  BY <1>1, <1>2
<1>4. ASSUME NEW k \in 0 .. n - 1, k \in S PROVE k + 1 \in S
  <2> DEFINE w == src[k + 1]
             ws == g[k]
             v == Absorbed(ws, w)
  <2>1. k \in Nat /\ k + 1 \in 1 .. n /\ (k + 1) - 1 = k /\ k + 1 \in 0 .. n
    BY <1>1
  <2>2. w \in Write /\ w \in ToSet(src)
    BY <1>1, <2>1 DEF ToSet
  <2>3. Good(k)
    BY <1>4
  <2>4. g[k + 1] = v
    BY <1>2, <2>1
  <2> HIDE DEF n, w
  <2>5. ws \in Seq(Write) /\ Len(ws) <= RegMax
    BY <2>3
  <2> HIDE DEF ws
  <2>6. /\ v \in Seq(Write) /\ Len(v) <= RegMax
        /\ ToSet(v) \subseteq ToSet(ws) \cup {w}
        /\ \A y \in ToSet(ws) : y \in ToSet(v) \/ Overtakes(w, y)
        /\ OnePerPeer(ws) => OnePerPeer(v)
    BY <2>2, <2>5, AbsorbedKeeps
  <2> HIDE DEF v
  <2>7. \A y \in ToSet(dst) : Stays(y) => y \in ToSet(v)
    BY <2>2, <2>3, <2>6 DEF ws
  <2>8. ToSet(v) \subseteq ToSet(dst) \cup ToSet(src)
    BY <2>2, <2>3, <2>6 DEF ws
  <2>9. Good(k + 1)
    BY <2>3, <2>4, <2>6, <2>7, <2>8 DEF ws
  <2> HIDE DEF Good
  <2> QED BY <2>1, <2>9
<1>5. Good(n)
  <2> HIDE DEF S
  <2>1. \A k \in 0 .. n - 1 : k \in S => k + 1 \in S
    BY <1>4
  <2>2. 0 .. n \subseteq S
    BY <1>1, <1>3, <2>1, BoundedInduction
  <2>3. n \in S
    BY <1>1, <2>2
  <2> QED BY <2>3 DEF S
<1> QED BY <1>2, <1>5

(* A write of a peer that is there already, and newer than none of its      *)
(* writes there, changes nothing.                                          *)
LEMMA AbsorbedNothing ==
  ASSUME NEW ws \in Seq(Write), NEW w \in Write, NEW x \in ToSet(ws), x.peer = w.peer,
         \A y \in ToSet(ws) : ~Overtakes(w, y)
  PROVE  Absorbed(ws, w) = ws
<1> DEFINE n == Len(ws)
           T == {j \in 1 .. n : ws[j].peer = w.peer}
<1>1. DOMAIN ws = 1 .. n /\ n \in Nat
  OBVIOUS
<1>2. \A y : y \in ToSet(ws) <=> \E j \in 1 .. n : ws[j] = y
  BY <1>1 DEF ToSet
<1>3. T \in SUBSET Nat /\ T # {}
  BY <1>1, <1>2
<1>4. Min(T) \in T /\ \A j \in T : Min(T) <= j
  BY <1>3, LeastOfSet
<1> DEFINE m == Min(T)
<1> HIDE DEF m
<1>5. m \in FirstOf(ws, w.peer)
  <2>1. m \in 1 .. n /\ ws[m].peer = w.peer /\ \A j \in 1 .. n : ws[j].peer = w.peer => m <= j
    BY <1>4 DEF m
  <2>2. ASSUME NEW i \in 1 .. m - 1 PROVE ws[i].peer # w.peer
    <3>1. i \in 1 .. n /\ ~(m <= i)
      BY <1>1, <2>1
    <3> QED BY <2>1, <3>1
  <2> QED BY <1>1, <2>1, <2>2 DEF FirstOf
<1>6. Absorbed(ws, w) =
        [j \in 1 .. n |-> IF j \in FirstOf(ws, w.peer) /\ w.clock > ws[j].clock THEN w ELSE ws[j]]
  BY <1>1, <1>5 DEF Absorbed
<1>7. \A j \in 1 .. n : ~(j \in FirstOf(ws, w.peer) /\ w.clock > ws[j].clock)
  BY <1>2 DEF FirstOf, Overtakes
<1>8. Absorbed(ws, w) = [j \in 1 .. n |-> ws[j]]
  BY <1>6, <1>7
<1> QED BY <1>1, <1>8

(* The writes of a peer p in s. *)
OwnWrites(s, p) == {x \in s : x.peer = p}

(* A merge brings no write of a peer that is there already unless it is     *)
(* newer than one that is there.                                           *)
LEMMA MergedBringsNone ==
  ASSUME NEW dst \in Seq(Write), NEW src \in Seq(Write), Len(dst) <= RegMax,
         NEW p, NEW x \in OwnWrites(ToSet(dst), p),
         \A w \in OwnWrites(ToSet(src), p), y \in OwnWrites(ToSet(dst), p) : ~Overtakes(w, y)
  PROVE  OwnWrites(ToSet(MergedWrites(dst, src)), p) \subseteq ToSet(dst)
<1> DEFINE n == Len(src)
<1>1. n \in Nat /\ DOMAIN src = 1 .. n /\ \A k \in 1 .. n : src[k] \in Write
  OBVIOUS
<1>2. PICK g : /\ g[0] = dst
               /\ \A k \in 1 .. n : g[k] = Absorbed(g[k - 1], src[k])
               /\ MergedWrites(dst, src) = g[n]
  BY MergeLoop
<1> DEFINE Good(k) == /\ g[k] \in Seq(Write) /\ Len(g[k]) <= RegMax
                      /\ x \in ToSet(g[k])
                      /\ OwnWrites(ToSet(g[k]), p) \subseteq ToSet(dst)
           S == {k \in 0 .. n : Good(k)}
<1>3. 0 \in S
  BY <1>1, <1>2 DEF OwnWrites
<1>4. ASSUME NEW k \in 0 .. n - 1, k \in S PROVE k + 1 \in S
  <2> DEFINE w == src[k + 1]
             ws == g[k]
             v == Absorbed(ws, w)
  <2>1. k \in Nat /\ k + 1 \in 1 .. n /\ (k + 1) - 1 = k /\ k + 1 \in 0 .. n
    BY <1>1
  <2>2. w \in Write /\ w \in ToSet(src)
    BY <1>1, <2>1 DEF ToSet
  <2>3. Good(k)
    BY <1>4
  <2>4. g[k + 1] = v
    BY <1>2, <2>1
  <2> HIDE DEF n, w
  <2>5. ws \in Seq(Write) /\ Len(ws) <= RegMax /\ x \in ToSet(ws) /\ x.peer = p
        /\ \A y \in ToSet(ws) : y.peer = p => y \in OwnWrites(ToSet(dst), p)
    BY <2>3 DEF OwnWrites
  <2> HIDE DEF ws
  <2>6. CASE w.peer = p
    <3>1. w \in OwnWrites(ToSet(src), p)
      BY <2>2, <2>6 DEF OwnWrites
    <3>2. \A y \in ToSet(ws) : ~Overtakes(w, y)
      <4>1. ASSUME NEW y \in ToSet(ws), Overtakes(w, y) PROVE FALSE
        <5>1. y.peer = p
          BY <2>6, <4>1 DEF Overtakes
        <5> QED BY <2>5, <3>1, <4>1, <5>1
      <4> QED BY <4>1
    <3>3. v = ws
      BY <2>2, <2>5, <2>6, <3>2, AbsorbedNothing
    <3>4. Good(k + 1)
      BY <2>3, <2>4, <3>3 DEF ws
    <3> QED BY <2>1, <3>4
  <2>7. CASE w.peer # p
    <3>1. /\ v \in Seq(Write) /\ Len(v) <= RegMax
          /\ ToSet(v) \subseteq ToSet(ws) \cup {w}
          /\ \A y \in ToSet(ws) : y \in ToSet(v) \/ Overtakes(w, y)
      BY <2>2, <2>5, AbsorbedKeeps
    <3> HIDE DEF v
    <3>2. x \in ToSet(v)
      BY <2>5, <2>7, <3>1 DEF Overtakes
    <3>3. OwnWrites(ToSet(v), p) \subseteq ToSet(dst)
      BY <2>5, <2>7, <3>1 DEF OwnWrites
    <3>4. Good(k + 1)
      BY <2>4, <3>1, <3>2, <3>3
    <3> QED BY <2>1, <3>4
  <2> QED BY <2>6, <2>7
<1>5. Good(n)
  <2> HIDE DEF S
  <2>1. \A k \in 0 .. n - 1 : k \in S => k + 1 \in S
    BY <1>4
  <2>2. 0 .. n \subseteq S
    BY <1>1, <1>3, <2>1, BoundedInduction
  <2>3. n \in S
    BY <1>1, <2>2
  <2> QED BY <2>3 DEF S
<1> QED BY <1>2, <1>5

-----------------------------------------------------------------------------
(* What a register with room for every peer it has heard of holds.          *)
Ordered(E) == \A x, y \in E : x.peer = y.peer /\ x.clock = y.clock => x = y

Represents(ws, E) == ws \in Seq(Write) /\ OnePerPeer(ws) /\ ToSet(ws) = Latest(E)

(* Of every peer heard of there is a latest write, since clocks are bounded. *)
LEMMA LatestExists ==
  ASSUME NEW E \in SUBSET Write, NEW x \in E
  PROVE  \E y \in Latest(E) : y.peer = x.peer /\ x.clock <= y.clock
<1> DEFINE s == {c \in 1 .. MaxClock : \E y \in E : y.peer = x.peer /\ y.clock = c}
<1>1. MaxClock \in Nat /\ s \in SUBSET (1 .. MaxClock)
  BY RegisterAssumption
<1>2. \A y \in E : y.clock \in 1 .. MaxClock
  BY DEF Write
<1>3. x.clock \in s
  BY <1>2
<1>4. Max(s) \in s /\ \A c \in s : c <= Max(s)
  BY <1>1, <1>3, LargestOfSet
<1>5. PICK y \in E : y.peer = x.peer /\ y.clock = Max(s)
  BY <1>4
<1>6. ASSUME NEW z \in E, z.peer = y.peer PROVE z.clock <= y.clock
  <2>1. z.clock \in s
    BY <1>2, <1>5, <1>6
  <2> QED BY <1>4, <1>5, <2>1
<1> QED BY <1>3, <1>4, <1>5, <1>6 DEF Latest

LEMMA RepresentedLength ==
  ASSUME NEW E \in SUBSET Write, NEW ws, Represents(ws, E)
  PROVE  IsFiniteSet(PeersOf(E)) /\ Cardinality(PeersOf(E)) = Len(ws)
<1> DEFINE n == Len(ws)
           f == [i \in 1 .. n |-> ws[i].peer]
<1>1. ws \in Seq(Write) /\ n \in Nat /\ DOMAIN ws = 1 .. n
  BY DEF Represents
<1>2. \A y : y \in Latest(E) <=> \E i \in 1 .. n : ws[i] = y
  BY <1>1 DEF Represents, ToSet
<1>3. ASSUME NEW i \in 1 .. n PROVE f[i] \in PeersOf(E)
  BY <1>2 DEF PeersOf, Latest
<1>4. ASSUME NEW p \in PeersOf(E) PROVE \E i \in 1 .. n : f[i] = p
  <2>1. PICK x \in E : x.peer = p
    BY DEF PeersOf
  <2>2. PICK y \in Latest(E) : y.peer = p
    BY <2>1, LatestExists
  <2> QED BY <1>2, <2>2
<1>5. f \in Surjection(1 .. n, PeersOf(E))
  BY <1>3, <1>4 DEF Surjection
<1>6. f \in Injection(1 .. n, PeersOf(E))
  BY <1>3 DEF Injection, IsInjective, Represents, OnePerPeer
<1>7. IsFiniteSet(1 .. n) /\ Cardinality(1 .. n) = n
  BY <1>1, FS_Interval
<1> QED BY <1>5, <1>6, <1>7, FS_Surjection

LEMMA LatestAdded ==
  ASSUME NEW E \in SUBSET Write, NEW w \in Write, NEW x
  PROVE  x \in Latest(E \cup {w}) <=>
           \/ x \in Latest(E) /\ (x.peer = w.peer => w.clock <= x.clock)
           \/ x = w /\ \A y \in E : y.peer = w.peer => y.clock <= w.clock
<1>1. \A y \in E \cup {w} : y.clock \in Int
  BY DEF Write
<1> QED BY <1>1 DEF Latest

LEMMA AbsorbedRepresents ==
  ASSUME NEW E \in SUBSET Write, NEW w \in Write, NEW ws, Represents(ws, E),
         Ordered(E \cup {w}), Cardinality(PeersOf(E \cup {w})) <= RegMax
  PROVE  Represents(Absorbed(ws, w), E \cup {w})
<1> DEFINE n == Len(ws)
           v == Absorbed(ws, w)
<1>1. /\ ws \in Seq(Write) /\ n \in Nat /\ DOMAIN ws = 1 .. n
      /\ OnePerPeer(ws) /\ (\A i \in 1 .. n : ws[i] \in Write) /\ RegMax \in Nat
  BY RegisterAssumption DEF Represents
<1>2. \A y : y \in Latest(E) <=> \E i \in 1 .. n : ws[i] = y
  BY <1>1 DEF Represents, ToSet
<1>3. IsFiniteSet(PeersOf(E)) /\ Cardinality(PeersOf(E)) = n
  BY RepresentedLength
<1>4. \A y \in E \cup {w} : y.clock \in Int
  BY DEF Write
<1>5. CASE \E j \in 1 .. n : ws[j].peer = w.peer
  <2>1. PICK j \in 1 .. n : ws[j].peer = w.peer
    BY <1>5
  <2>2. \A i \in 1 .. n : ws[i].peer = w.peer => i = j
    BY <1>1, <2>1 DEF OnePerPeer
  <2>3. FirstOf(ws, w.peer) = {j}
    <3>1. \A i \in 1 .. j - 1 : i \in 1 .. n /\ i # j
      BY <1>1
    <3> QED BY <1>1, <2>1, <2>2, <3>1 DEF FirstOf
  <2> DEFINE taken(i) == i = j /\ w.clock > ws[j].clock
  <2>4. v = [i \in 1 .. n |-> IF taken(i) THEN w ELSE ws[i]]
    BY <1>1, <2>3 DEF Absorbed
  <2>5. Len(v) = n /\ DOMAIN v = 1 .. n /\ v \in Seq(Write)
    BY <1>1, <2>4
  <2>6. \A i \in 1 .. n : v[i] = IF taken(i) THEN w ELSE ws[i]
    BY <2>4
  <2>7. ws[j] \in Latest(E) /\ ws[j] \in E
    BY <1>2 DEF Latest
  <2>8. \A y \in E : y.peer = w.peer => y.clock <= ws[j].clock
    BY <2>1, <2>7 DEF Latest
  <2> HIDE DEF v
  <2>9. \A y : y \in ToSet(v) <=> \E i \in 1 .. n : v[i] = y
    BY <2>5 DEF ToSet
  <2>10. \A i \in 1 .. n : v[i].peer = ws[i].peer
    BY <2>1, <2>6
  <2>11. OnePerPeer(v)
    BY <1>1, <2>5, <2>10 DEF OnePerPeer
  <2>12. CASE w.clock > ws[j].clock
    <3>1. \A y : y \in ToSet(v) <=> y = w \/ (y \in Latest(E) /\ y.peer # w.peer)
      BY <1>2, <2>1, <2>2, <2>6, <2>9, <2>12
    <3>2. \A y : y \in Latest(E \cup {w}) <=> y = w \/ (y \in Latest(E) /\ y.peer # w.peer)
      <4>1. \A y \in E : y.peer = w.peer => y.clock <= w.clock /\ ~(w.clock <= y.clock)
        BY <1>4, <2>7, <2>8, <2>12
      <4>2. \A y \in Latest(E) : y \in E
        BY DEF Latest
      <4>3. ASSUME NEW y
            PROVE  y \in Latest(E \cup {w}) <=> y = w \/ (y \in Latest(E) /\ y.peer # w.peer)
        BY <4>1, <4>2, LatestAdded
      <4> QED BY <4>3
    <3>4. ToSet(v) = Latest(E \cup {w})
      BY <3>1, <3>2
    <3> QED BY <2>5, <2>11, <3>4 DEF Represents, v
  <2>13. CASE ~(w.clock > ws[j].clock)
    <3>1. \A y : y \in ToSet(v) <=> y \in Latest(E)
      BY <1>2, <2>6, <2>9, <2>13
    <3>2. w.clock <= ws[j].clock
      BY <1>4, <2>7, <2>13
    <3>3. \A y : y \in Latest(E \cup {w}) <=> y \in Latest(E)
      <4>1. ASSUME NEW y \in Latest(E), y.peer = w.peer PROVE w.clock <= y.clock
        <5>1. PICK i \in 1 .. n : ws[i] = y
          BY <1>2
        <5>2. i = j
          BY <2>2, <4>1, <5>1
        <5> QED BY <3>2, <5>1, <5>2
      <4>2. ASSUME \A y \in E : y.peer = w.peer => y.clock <= w.clock PROVE w = ws[j]
        <5>1. w.clock = ws[j].clock
          BY <1>4, <2>1, <2>7, <3>2, <4>2
        <5> QED BY <2>1, <2>7, <5>1 DEF Ordered
      <4>3. ASSUME NEW y PROVE y \in Latest(E \cup {w}) <=> y \in Latest(E)
        BY <2>7, <4>1, <4>2, LatestAdded
      <4> QED BY <4>3
    <3>4. ToSet(v) = Latest(E \cup {w})
      BY <3>1, <3>3
    <3> QED BY <2>5, <2>11, <3>4 DEF Represents, v
  <2> QED BY <2>12, <2>13
<1>6. CASE ~ \E j \in 1 .. n : ws[j].peer = w.peer
  <2>1. \A y \in E : y.peer # w.peer
    <3> SUFFICES ASSUME NEW y \in E, y.peer = w.peer PROVE FALSE
      OBVIOUS
    <3>1. PICK z \in Latest(E) : z.peer = w.peer
      BY LatestExists
    <3> QED BY <1>2, <1>6, <3>1
  <2>2. n < RegMax
    <3>1. PeersOf(E \cup {w}) = PeersOf(E) \cup {w.peer} /\ w.peer \notin PeersOf(E)
      BY <2>1 DEF PeersOf
    <3>2. Cardinality(PeersOf(E \cup {w})) = n + 1
      BY <1>3, <3>1, FS_AddElement
    <3> QED BY <1>1, <3>2
  <2>3. FirstOf(ws, w.peer) = {}
    BY <1>1, <1>6 DEF FirstOf
  <2>4. v = Append(ws, w)
    BY <2>2, <2>3 DEF Absorbed
  <2>5. ToSet(v) = ToSet(ws) \cup {w} /\ v \in Seq(Write) /\ Len(v) <= RegMax
    BY <1>1, <2>2, <2>4, AppendedSet, AppendProperties
  <2>6. OnePerPeer(v)
    BY <1>1, <2>2, AbsorbedKeeps
  <2>7. ASSUME NEW y PROVE y \in Latest(E \cup {w}) <=> y \in Latest(E) \/ y = w
    <3>1. \A z \in Latest(E) : z \in E
      BY DEF Latest
    <3> QED BY <2>1, <3>1, LatestAdded
  <2> HIDE DEF v
  <2>8. ToSet(ws) = Latest(E)
    BY DEF Represents
  <2>9. ToSet(v) = Latest(E \cup {w})
    BY <2>5, <2>7, <2>8
  <2> QED BY <2>5, <2>6, <2>9 DEF Represents, v
<1> QED BY <1>5, <1>6

LEMMA SmallerPeers ==
  ASSUME NEW D \in SUBSET Write, NEW E \in SUBSET Write, D \subseteq E,
         IsFiniteSet(PeersOf(E)), Cardinality(PeersOf(E)) <= RegMax
  PROVE  IsFiniteSet(PeersOf(D)) /\ Cardinality(PeersOf(D)) <= RegMax
<1>1. PeersOf(D) \in SUBSET PeersOf(E)
  BY DEF PeersOf
<1>2. IsFiniteSet(PeersOf(D)) /\ Cardinality(PeersOf(D)) <= Cardinality(PeersOf(E))
  BY <1>1, FS_Subset
<1>3. Cardinality(PeersOf(D)) \in Nat /\ Cardinality(PeersOf(E)) \in Nat /\ RegMax \in Nat
  BY <1>2, FS_CardinalityType, RegisterAssumption
<1> QED BY <1>2, <1>3

LEMMA MergedRepresents ==
  ASSUME NEW D \in SUBSET Write, NEW E \in SUBSET Write,
         NEW dst, NEW src, Represents(dst, D), Represents(src, E),
         Ordered(D \cup E), Cardinality(PeersOf(D \cup E)) <= RegMax
  PROVE  Represents(MergedWrites(dst, src), D \cup E)
<1> DEFINE n == Len(src)
           taken(k) == D \cup {src[i] : i \in 1 .. k}
<1>1. /\ n \in Nat /\ DOMAIN src = 1 .. n /\ dst \in Seq(Write) /\ src \in Seq(Write)
      /\ \A k \in 1 .. n : src[k] \in Write
  BY DEF Represents
<1>2. \A y : y \in Latest(E) <=> \E i \in 1 .. n : src[i] = y
  BY <1>1 DEF Represents, ToSet
<1>3. PICK g : /\ g[0] = dst
               /\ \A k \in 1 .. n : g[k] = Absorbed(g[k - 1], src[k])
               /\ MergedWrites(dst, src) = g[n]
  BY <1>1, MergeLoop
<1>4. IsFiniteSet(PeersOf(D \cup E))
  <2>1. IsFiniteSet(PeersOf(D)) /\ IsFiniteSet(PeersOf(E))
    BY RepresentedLength
  <2>2. PeersOf(D \cup E) = PeersOf(D) \cup PeersOf(E)
    BY DEF PeersOf
  <2> QED BY <2>1, <2>2, FS_Union
<1> DEFINE S == {k \in 0 .. n : Represents(g[k], taken(k))}
<1>5. 0 \in S
  <2>1. taken(0) = D
    OBVIOUS
  <2> HIDE DEF taken
  <2> QED BY <1>1, <1>3, <2>1
<1>6. ASSUME NEW k \in 0 .. n - 1, k \in S PROVE k + 1 \in S
  <2> DEFINE w == src[k + 1]
  <2>1. k \in Nat /\ k + 1 \in 1 .. n /\ (k + 1) - 1 = k /\ k + 1 \in 0 .. n
    BY <1>1
  <2>2. g[k + 1] = Absorbed(g[k], w)
    BY <1>3, <2>1
  <2>3. taken(k + 1) = taken(k) \cup {w}
    BY <1>1, <2>1
  <2>4. Represents(g[k], taken(k))
    BY <1>6
  <2>5. \A i \in 1 .. k : i \in 1 .. n
    BY <1>1, <2>1
  <2>6. taken(k) \in SUBSET Write /\ w \in Write /\ taken(k) \cup {w} \subseteq D \cup E
    BY <1>1, <1>2, <2>1, <2>5 DEF Latest
  <2> HIDE DEF taken, w, n
  <2>7. Ordered(taken(k) \cup {w})
    BY <2>6 DEF Ordered
  <2>8. Cardinality(PeersOf(taken(k) \cup {w})) <= RegMax
    <3>1. taken(k) \cup {w} \in SUBSET Write /\ D \cup E \in SUBSET Write
      BY <2>6
    <3> QED BY <1>4, <2>6, <3>1, SmallerPeers
  <2>9. Represents(g[k + 1], taken(k + 1))
    BY <2>2, <2>3, <2>4, <2>6, <2>7, <2>8, AbsorbedRepresents
  <2> QED BY <2>1, <2>9
<1>7. Represents(g[n], taken(n))
  <2> HIDE DEF S
  <2>1. \A k \in 0 .. n - 1 : k \in S => k + 1 \in S
    BY <1>6
  <2>2. 0 .. n \subseteq S
    BY <1>1, <1>5, <2>1, BoundedInduction
  <2>3. n \in S
    BY <1>1, <2>2
  <2> QED BY <2>3 DEF S
<1>8. taken(n) = D \cup Latest(E)
  BY <1>2
<1>9. Latest(D \cup Latest(E)) = Latest(D \cup E)
  <2>1. \A y \in D \cup E : y.clock \in Int
    BY DEF Write
  <2>2. ASSUME NEW x \in Latest(D \cup Latest(E)) PROVE x \in Latest(D \cup E)
    <3>1. x \in D \cup E
      BY DEF Latest
    <3>2. ASSUME NEW y \in E, y.peer = x.peer PROVE y.clock <= x.clock
      <4>1. PICK z \in Latest(E) : z.peer = y.peer /\ y.clock <= z.clock
        BY LatestExists
      <4>2. z.clock <= x.clock /\ z \in E
        BY <3>2, <4>1 DEF Latest
      <4> QED BY <2>1, <3>1, <4>1, <4>2
    <3> QED BY <3>1, <3>2 DEF Latest
  <2>3. ASSUME NEW x \in Latest(D \cup E) PROVE x \in Latest(D \cup Latest(E))
    BY DEF Latest
  <2> QED BY <2>2, <2>3
<1> HIDE DEF taken
<1> QED BY <1>3, <1>7, <1>8, <1>9 DEF Represents

LEMMA SetRepresents ==
  ASSUME NEW E \in SUBSET Write, NEW w \in Write, NEW ws \in Seq(Write),
         ToSet(ws) \subseteq E, OnePerPeer(ws),
         \A x \in E : x.peer = w.peer => x.clock < w.clock
  PROVE  LET v == Append(WithoutOlder(ws, w), w)
         IN  /\ OnePerPeer(v)
             /\ Represents(ws, E) => Represents(v, E \cup {w})
<1> DEFINE u == WithoutOlder(ws, w)
           n == Len(u)
           v == Append(u, w)
<1>1. /\ u \in Seq(Write) /\ n \in Nat /\ DOMAIN u = 1 .. n
      /\ ToSet(u) = {x \in ToSet(ws) : ~Older(x, w)} /\ OnePerPeer(u)
  BY WithoutOlderKeeps
<1>2. ToSet(u) = {x \in ToSet(ws) : x.peer # w.peer}
  BY <1>1 DEF Older
<1> HIDE DEF u
<1>3. /\ v \in Seq(Write) /\ Len(v) = n + 1 /\ v[n + 1] = w /\ \A j \in 1 .. n : v[j] = u[j]
  BY <1>1, AppendProperties
<1>4. ToSet(v) = ToSet(u) \cup {w}
  BY <1>1, AppendedSet
<1> HIDE DEF v
<1>5. \A j \in 1 .. n : u[j].peer # w.peer
  <2>1. \A j \in 1 .. n : u[j] \in ToSet(u)
    BY <1>1 DEF ToSet
  <2> QED BY <1>2, <2>1
<1>6. OnePerPeer(v)
  <2> SUFFICES ASSUME NEW i \in 1 .. n + 1, NEW j \in 1 .. n + 1, v[i].peer = v[j].peer
               PROVE  i = j
    BY <1>3 DEF OnePerPeer
  <2>1. \A k \in 1 .. n + 1 : k \in 1 .. n \/ k = n + 1
    BY <1>1
  <2>2. CASE i \in 1 .. n /\ j \in 1 .. n
    BY <1>1, <1>3, <2>2 DEF OnePerPeer
  <2>3. CASE i = n + 1 /\ j \in 1 .. n
    BY <1>3, <1>5, <2>3
  <2>4. CASE i \in 1 .. n /\ j = n + 1
    BY <1>3, <1>5, <2>4
  <2> QED BY <2>1, <2>2, <2>3, <2>4
<1>7. ASSUME Represents(ws, E) PROVE ToSet(v) = Latest(E \cup {w})
  <2>1. ToSet(ws) = Latest(E)
    BY <1>7 DEF Represents
  <2>2. \A y \in E : y.peer = w.peer => y.clock <= w.clock /\ ~(w.clock <= y.clock)
    BY DEF Write
  <2>3. ASSUME NEW y
        PROVE  y \in Latest(E \cup {w}) <=> y = w \/ (y \in Latest(E) /\ y.peer # w.peer)
    <3>1. \A z \in Latest(E) : z \in E
      BY DEF Latest
    <3> QED BY <2>2, <3>1, LatestAdded
  <2> QED BY <1>2, <1>4, <2>1, <2>3
<1> QED BY <1>3, <1>6, <1>7 DEF Represents, v, u

-----------------------------------------------------------------------------
(* A register ws whose holder has seen the writes E, where h holds the      *)
(* writes each peer has seen and a says whether the clocks have advanced:   *)
(* what is in it was heard, and what was heard its own peer has seen.       *)
Recorded(ws, E, h, a) ==
  /\ ws \in Seq(Write) /\ E \in SUBSET Write /\ IsFiniteSet(PeersOf(E))
  /\ Len(ws) <= RegMax /\ ToSet(ws) \subseteq E
  /\ \A x \in E : x \in h[x.peer]
  /\ a => OnePerPeer(ws) /\ (Cardinality(PeersOf(E)) <= RegMax => Represents(ws, E))

RegInv ==
  /\ reg \in [Writer -> Seq(Write)] /\ seen \in [Writer -> SUBSET Write]
  /\ \A r \in Writer : Recorded(reg[r], seen[r], seen, advancing)
  /\ \A r \in Writer : OwnWrites(Latest(seen[r]), r) \subseteq ToSet(reg[r])
  /\ \A m \in posted : Recorded(m.reg, m.seen, seen, advancing)
  /\ advancing => \A r \in Writer : Ordered(OwnWrites(seen[r], r))

LEMMA RecordedLater ==
  ASSUME NEW ws, NEW E, NEW h, NEW a, NEW h2, NEW a2, Recorded(ws, E, h, a),
         \A s \in Writer : h[s] \subseteq h2[s], a2 => a
  PROVE  Recorded(ws, E, h2, a2)
<1>1. \A x \in E : x.peer \in Writer
  BY DEF Recorded, Write
<1> QED BY <1>1, Zenon DEF Recorded

LEMMA InitRegister == RegisterInit => RegInv
<1> SUFFICES ASSUME RegisterInit PROVE RegInv
  OBVIOUS
<1>1. << >> \in Seq(Write) /\ Len(<< >>) = 0 /\ ToSet(<< >>) = {} /\ OnePerPeer(<< >>)
  BY DEF OnePerPeer, ToSet
<1>2. /\ PeersOf({}) = {} /\ Latest({}) = {} /\ Ordered({})
      /\ \A r \in Writer : OwnWrites({}, r) = {}
  BY DEF PeersOf, Latest, Ordered, OwnWrites
<1>3. /\ reg \in [Writer -> Seq(Write)] /\ seen \in [Writer -> SUBSET Write]
      /\ posted = {} /\ \A r \in Writer : reg[r] = << >> /\ seen[r] = {}
  BY <1>1 DEF RegisterInit
<1>4. Recorded(<< >>, {}, seen, advancing)
  <2>1. IsFiniteSet(PeersOf({}))
    BY <1>2, FS_EmptySet, Zenon
  <2>2. Represents(<< >>, {})
    BY <1>1, <1>2, Zenon DEF Represents
  <2>3. Len(<< >>) <= RegMax
    BY <1>1, RegisterAssumption
  <2>4. {} \in SUBSET Write /\ ToSet(<< >>) \subseteq {}
    BY <1>1
  <2> QED BY <1>1, <2>1, <2>2, <2>3, <2>4, Zenon DEF Recorded
<1> QED BY <1>1, <1>2, <1>3, <1>4 DEF RegInv

LEMMA SetStep ==
  ASSUME RegInv, NEW r \in Writer, NEW w \in Write, Set(r, w)
  PROVE  RegInv'
<1> DEFINE u == WithoutOlder(reg[r], w)
           v == Append(u, w)
           E == seen[r] \cup {w}
<1>1. /\ w.peer = r /\ Len(u) < RegMax
      /\ reg' = [reg EXCEPT ![r] = v] /\ seen' = [seen EXCEPT ![r] = E]
      /\ advancing' = (advancing /\ \A x \in seen[r] : x.peer = r => x.clock < w.clock)
      /\ posted' = posted
  BY DEF Set
<1>2. /\ reg[r] \in Seq(Write) /\ seen[r] \in SUBSET Write
      /\ Recorded(reg[r], seen[r], seen, advancing)
      /\ ToSet(reg[r]) \subseteq seen[r]
  BY DEF RegInv, Recorded
<1>3. /\ u \in Seq(Write) /\ ToSet(u) = {x \in ToSet(reg[r]) : ~Older(x, w)}
  BY <1>2, WithoutOlderKeeps
<1>4. advancing' => /\ OnePerPeer(v)
                    /\ Represents(reg[r], seen[r]) => Represents(v, E)
  <2> SUFFICES ASSUME advancing'
               PROVE  OnePerPeer(v) /\ (Represents(reg[r], seen[r]) => Represents(v, E))
    OBVIOUS
  <2>1. \A x \in seen[r] : x.peer = w.peer => x.clock < w.clock
    BY <1>1
  <2>2. OnePerPeer(reg[r])
    BY <1>1, <1>2 DEF Recorded
  <2> QED BY <1>2, <2>1, <2>2, SetRepresents
<1> HIDE DEF u
<1>5. v \in Seq(Write) /\ Len(v) <= RegMax /\ ToSet(v) = ToSet(u) \cup {w}
  <2>1. Len(v) = Len(u) + 1 /\ Len(u) \in Nat /\ RegMax \in Nat /\ v \in Seq(Write)
    BY <1>3, AppendProperties, RegisterAssumption
  <2> QED BY <1>1, <1>3, <2>1, AppendedSet
<1> HIDE DEF v
<1>6. \A s \in Writer : seen[s] \subseteq seen'[s]
  BY <1>1, <1>2 DEF RegInv
<1>7. Recorded(v, E, seen', advancing')
  <2>1. E \in SUBSET Write /\ ToSet(v) \subseteq E
    BY <1>2, <1>3, <1>5
  <2>2. PeersOf(E) = PeersOf(seen[r]) \cup {r} /\ IsFiniteSet(PeersOf(seen[r]))
    BY <1>1, <1>2 DEF PeersOf, Recorded
  <2>3. IsFiniteSet(PeersOf(E))
    BY <2>2, FS_AddElement
  <2>4. \A x \in E : x \in seen'[x.peer]
    <3>1. \A x \in seen[r] : x.peer \in Writer /\ x \in seen[x.peer]
      BY <1>2 DEF Recorded, Write
    <3>2. w \in seen'[r]
      BY <1>1 DEF RegInv
    <3> QED BY <1>1, <1>6, <3>1, <3>2
  <2>5. Cardinality(PeersOf(E)) <= RegMax => Cardinality(PeersOf(seen[r])) <= RegMax
    <3>1. seen[r] \subseteq E
      OBVIOUS
    <3> QED BY <1>2, <2>1, <2>3, <3>1, SmallerPeers
  <2>6. advancing' => advancing
    BY <1>1
  <2> HIDE DEF E
  <2>7. advancing' => OnePerPeer(v) /\ (Cardinality(PeersOf(E)) <= RegMax => Represents(v, E))
    BY <1>2, <1>4, <2>5, <2>6 DEF Recorded
  <2> QED BY <1>5, <2>1, <2>3, <2>4, <2>7 DEF Recorded
<1>8. OwnWrites(Latest(E), r) \subseteq ToSet(v)
  <2> SUFFICES ASSUME NEW x \in Latest(E), x.peer = r, x # w PROVE x \in ToSet(u)
    BY <1>5 DEF OwnWrites
  <2>1. x \in Latest(seen[r]) /\ w.clock <= x.clock
    BY <1>1, <1>2, LatestAdded
  <2>2. x \in ToSet(reg[r])
    BY <2>1 DEF RegInv, OwnWrites
  <2>3. ~Older(x, w)
    <3>1. x \in Write
      BY <1>2, <2>2
    <3> QED BY <2>1, <3>1 DEF Older, Write
  <2> QED BY <1>3, <2>2, <2>3
<1>9. ASSUME advancing', NEW s \in Writer PROVE Ordered(OwnWrites(seen'[s], s))
  <2>1. CASE s # r
    BY <1>1, <1>9, <2>1 DEF RegInv
  <2>2. CASE s = r
    <3>1. seen'[s] = seen[r] \cup {w}
      BY <1>1, <2>2 DEF RegInv
    <3>2. Ordered(OwnWrites(seen[r], r))
      BY <1>1, <1>9 DEF RegInv
    <3>3. \A x \in seen[r] : x.peer = r => x.clock # w.clock
      <4>1. \A x \in seen[r] : x.clock \in Int
        BY <1>2 DEF Write
      <4>2. w.clock \in Int
        BY DEF Write
      <4>3. \A x \in seen[r] : x.peer = r => x.clock < w.clock
        BY <1>1, <1>9
      <4> QED BY <4>1, <4>2, <4>3
    <3> QED BY <2>2, <3>1, <3>2, <3>3 DEF Ordered, OwnWrites
  <2> QED BY <2>1, <2>2
<1> HIDE DEF E
<1>10. reg' \in [Writer -> Seq(Write)] /\ seen' \in [Writer -> SUBSET Write]
  BY <1>1, <1>5, <1>7 DEF RegInv, Recorded
<1>11. ASSUME NEW s \in Writer
       PROVE  /\ Recorded(reg'[s], seen'[s], seen', advancing')
              /\ OwnWrites(Latest(seen'[s]), s) \subseteq ToSet(reg'[s])
  <2>1. CASE s = r
    BY <1>1, <1>7, <1>8, <2>1 DEF RegInv
  <2>2. CASE s # r
    <3>1. reg'[s] = reg[s] /\ seen'[s] = seen[s]
      BY <1>1, <2>2 DEF RegInv
    <3>2. Recorded(reg[s], seen[s], seen, advancing) /\ (advancing' => advancing)
      BY <1>1 DEF RegInv
    <3>3. Recorded(reg[s], seen[s], seen', advancing')
      BY <1>6, <3>2, RecordedLater
    <3> QED BY <3>1, <3>3 DEF RegInv
  <2> QED BY <2>1, <2>2
<1>12. ASSUME NEW m \in posted' PROVE Recorded(m.reg, m.seen, seen', advancing')
  <2>1. Recorded(m.reg, m.seen, seen, advancing) /\ (advancing' => advancing)
    BY <1>1 DEF RegInv
  <2> QED BY <1>6, <2>1, RecordedLater
<1> QED BY <1>9, <1>10, <1>11, <1>12 DEF RegInv

LEMMA SendRegisterStep ==
  ASSUME RegInv, NEW r \in Writer, SendRegister(r)
  PROVE  RegInv'
<1> DEFINE m == [reg |-> reg[r], seen |-> seen[r]]
<1>1. posted' = posted \cup {m} /\ UNCHANGED <<reg, seen, advancing, rising>>
  BY DEF SendRegister
<1>2. Recorded(m.reg, m.seen, seen, advancing)
  BY DEF RegInv
<1> HIDE DEF m
<1>3. \A x \in posted' : Recorded(x.reg, x.seen, seen, advancing)
  BY <1>1, <1>2 DEF RegInv
<1> QED BY <1>1, <1>3 DEF RegInv

LEMMA LoseRegisterStep ==
  ASSUME RegInv, NEW m \in posted, LoseRegister(m)
  PROVE  RegInv'
BY DEF LoseRegister, RegInv

LEMMA MergeRegisterStep ==
  ASSUME RegInv, NEW r \in Writer, NEW m \in posted, MergeRegister(r, m)
  PROVE  RegInv'
<1> DEFINE v == MergedWrites(reg[r], m.reg)
           D == seen[r]
           H == m.seen
<1>1. /\ reg' = [reg EXCEPT ![r] = v] /\ seen' = [seen EXCEPT ![r] = D \cup H]
      /\ posted' = posted /\ advancing' = advancing /\ rising' = rising
  BY DEF MergeRegister
<1>2. Recorded(reg[r], D, seen, advancing) /\ Recorded(m.reg, H, seen, advancing)
  BY DEF RegInv
<1>3. /\ v \in Seq(Write) /\ Len(v) <= RegMax
      /\ ToSet(v) \subseteq ToSet(reg[r]) \cup ToSet(m.reg)
      /\ \A y \in ToSet(reg[r]) :
           y \in ToSet(v) \/ \E w \in ToSet(m.reg) : Overtakes(w, y)
      /\ OnePerPeer(reg[r]) => OnePerPeer(v)
  BY <1>2, MergedKeeps DEF Recorded
<1>4. /\ D \in SUBSET Write /\ H \in SUBSET Write /\ D \cup H \in SUBSET Write
      /\ \A x \in D \cup H : x.peer \in Writer /\ x \in seen[x.peer]
  BY <1>2 DEF Recorded, Write
<1>5. IsFiniteSet(PeersOf(D \cup H))
  <2>1. PeersOf(D \cup H) = PeersOf(D) \cup PeersOf(H)
    BY DEF PeersOf
  <2> QED BY <1>2, <2>1, FS_Union DEF Recorded
<1>6. ASSUME advancing, Cardinality(PeersOf(D \cup H)) <= RegMax
      PROVE  Represents(v, D \cup H)
  <2>1. Cardinality(PeersOf(D)) <= RegMax /\ Cardinality(PeersOf(H)) <= RegMax
    BY <1>4, <1>5, <1>6, SmallerPeers
  <2>2. Represents(reg[r], D) /\ Represents(m.reg, H)
    BY <1>2, <1>6, <2>1 DEF Recorded
  <2>3. Ordered(D \cup H)
    <3> SUFFICES ASSUME NEW x \in D \cup H, NEW y \in D \cup H,
                        x.peer = y.peer, x.clock = y.clock
                 PROVE  x = y
      BY DEF Ordered
    <3>1. x.peer \in Writer /\ x \in seen[x.peer] /\ y \in seen[x.peer]
      BY <1>4
    <3>2. Ordered(OwnWrites(seen[x.peer], x.peer))
      BY <1>6, <3>1 DEF RegInv
    <3> QED BY <3>1, <3>2 DEF Ordered, OwnWrites
  <2> HIDE DEF D, H
  <2> QED BY <1>4, <1>6, <2>2, <2>3, MergedRepresents
<1>7. \A x \in H : x.peer = r => x \in D
  BY <1>4
<1> HIDE DEF v
<1>8. OwnWrites(Latest(D \cup H), r) \subseteq ToSet(v)
  <2> SUFFICES ASSUME NEW x \in Latest(D \cup H), x.peer = r PROVE x \in ToSet(v)
    BY DEF OwnWrites
  <2>1. x \in Latest(D)
    BY <1>7 DEF Latest
  <2>2. x \in ToSet(reg[r])
    BY <2>1 DEF RegInv, OwnWrites
  <2>3. ASSUME NEW w \in ToSet(m.reg), Overtakes(w, x) PROVE FALSE
    <3>1. w \in H
      BY <1>2, <2>3 DEF Recorded
    <3>2. w.clock <= x.clock /\ x \in Write /\ w \in Write /\ w.clock > x.clock
      BY <1>4, <2>1, <2>3, <3>1 DEF Latest, Overtakes
    <3> QED BY <3>2 DEF Write
  <2> QED BY <1>3, <2>2, <2>3
<1> HIDE DEF D, H
<1>9. \A s \in Writer : seen[s] \subseteq seen'[s]
  BY <1>1 DEF RegInv, D
<1>10. Recorded(v, D \cup H, seen', advancing')
  <2>1. ToSet(v) \subseteq D \cup H
    BY <1>2, <1>3 DEF Recorded
  <2>2. \A x \in D \cup H : x \in seen'[x.peer]
    BY <1>4, <1>9
  <2>3. advancing' => OnePerPeer(v)
    BY <1>1, <1>2, <1>3 DEF Recorded
  <2>4. advancing' /\ Cardinality(PeersOf(D \cup H)) <= RegMax => Represents(v, D \cup H)
    BY <1>1, <1>6
  <2> QED BY <1>3, <1>4, <1>5, <2>1, <2>2, <2>3, <2>4, Zenon DEF Recorded
<1>11. ASSUME NEW s \in Writer
       PROVE  /\ Recorded(reg'[s], seen'[s], seen', advancing')
              /\ OwnWrites(Latest(seen'[s]), s) \subseteq ToSet(reg'[s])
  <2>1. CASE s = r
    BY <1>1, <1>8, <1>10, <2>1 DEF RegInv
  <2>2. CASE s # r
    <3>1. reg'[s] = reg[s] /\ seen'[s] = seen[s]
      BY <1>1, <2>2 DEF RegInv
    <3>2. Recorded(reg[s], seen[s], seen, advancing) /\ (advancing' => advancing)
      BY <1>1 DEF RegInv
    <3>3. Recorded(reg[s], seen[s], seen', advancing')
      BY <1>9, <3>2, RecordedLater
    <3> QED BY <3>1, <3>3 DEF RegInv
  <2> QED BY <2>1, <2>2
<1>12. ASSUME NEW x \in posted' PROVE Recorded(x.reg, x.seen, seen', advancing')
  <2>1. Recorded(x.reg, x.seen, seen, advancing) /\ (advancing' => advancing)
    BY <1>1 DEF RegInv
  <2> QED BY <1>9, <2>1, RecordedLater
<1>13. ASSUME advancing', NEW s \in Writer PROVE Ordered(OwnWrites(seen'[s], s))
  <2>1. OwnWrites(seen'[s], s) = OwnWrites(seen[s], s)
    <3>1. CASE s = r
      <4>1. seen'[s] = D \cup H /\ seen[s] = D
        BY <1>1, <3>1 DEF RegInv, D
      <4> QED BY <1>7, <3>1, <4>1 DEF OwnWrites
    <3>2. CASE s # r
      BY <1>1, <3>2 DEF RegInv
    <3> QED BY <3>1, <3>2
  <2> QED BY <1>1, <1>13, <2>1 DEF RegInv
<1>14. reg' \in [Writer -> Seq(Write)] /\ seen' \in [Writer -> SUBSET Write]
  BY <1>1, <1>3, <1>4 DEF RegInv
<1> QED BY <1>11, <1>12, <1>13, <1>14 DEF RegInv

LEMMA RegisterInvariant == RegisterSpec => []RegInv
<1>1. RegInv /\ [RegisterNext]_regVars => RegInv'
  <2> SUFFICES ASSUME RegInv, [RegisterNext]_regVars PROVE RegInv'
    OBVIOUS
  <2>1. CASE UNCHANGED regVars
    BY <2>1 DEF regVars, RegInv
  <2>2. ASSUME NEW r \in Writer, NEW w \in Write, Set(r, w) PROVE RegInv'
    BY <2>2, SetStep
  <2>3. ASSUME NEW r \in Writer, SendRegister(r) PROVE RegInv'
    BY <2>3, SendRegisterStep
  <2>4. ASSUME NEW m \in posted, LoseRegister(m) PROVE RegInv'
    BY <2>4, LoseRegisterStep
  <2>5. ASSUME NEW r \in Writer, NEW m \in posted, MergeRegister(r, m) PROVE RegInv'
    BY <2>5, MergeRegisterStep
  <2> QED BY <2>1, <2>2, <2>3, <2>4, <2>5 DEF RegisterNext
<1> QED BY <1>1, InitRegister, PTL DEF RegisterSpec

(* While no peer's clock goes back, a register has none of its own peer's   *)
(* writes but the latest.                                                  *)
OwnAreLatest(r) == OwnWrites(ToSet(reg[r]), r) \subseteq Latest(seen[r])

RisingInv == rising => \A r \in Writer : OwnAreLatest(r)

LEMMA SetKeepsRising ==
  ASSUME RegInv, RisingInv, NEW r \in Writer, NEW w \in Write, Set(r, w)
  PROVE  RisingInv'
<1> SUFFICES ASSUME rising', NEW s \in Writer PROVE OwnAreLatest(s)'
  BY DEF RisingInv
<1> DEFINE u == WithoutOlder(reg[r], w)
           v == Append(u, w)
           E == seen[r] \cup {w}
<1>1. /\ w.peer = r /\ reg' = [reg EXCEPT ![r] = v] /\ seen' = [seen EXCEPT ![r] = E]
      /\ rising /\ \A x \in seen[r] : x.peer = r => x.clock <= w.clock
  BY DEF Set
<1>2. reg[r] \in Seq(Write) /\ seen[r] \in SUBSET Write /\ OwnAreLatest(r)
  BY <1>1 DEF RegInv, RisingInv
<1>3. u \in Seq(Write) /\ ToSet(u) = {x \in ToSet(reg[r]) : ~Older(x, w)}
  BY <1>2, WithoutOlderKeeps
<1> HIDE DEF u
<1>4. ToSet(v) = ToSet(u) \cup {w}
  BY <1>3, AppendedSet
<1> HIDE DEF v
<1>5. OwnWrites(ToSet(v), r) \subseteq Latest(E)
  <2> SUFFICES ASSUME NEW x \in ToSet(u) \cup {w}, x.peer = r PROVE x \in Latest(E)
    BY <1>4 DEF OwnWrites
  <2>1. CASE x = w
    BY <1>1, <1>2, <2>1, LatestAdded
  <2>2. CASE x \in ToSet(u)
    <3>1. x \in Latest(seen[r]) /\ ~Older(x, w)
      BY <1>2, <1>3, <2>2 DEF OwnAreLatest, OwnWrites
    <3>2. x \in Write
      BY <1>2, <3>1 DEF Latest
    <3>3. w.clock <= x.clock
      BY <1>1, <3>1, <3>2 DEF Older, Write
    <3> QED BY <1>2, <3>1, <3>3, LatestAdded
  <2> QED BY <2>1, <2>2
<1> HIDE DEF E
<1>6. CASE s = r
  <2>1. reg'[s] = v /\ seen'[s] = E
    BY <1>1, <1>6 DEF RegInv
  <2> QED BY <1>5, <1>6, <2>1 DEF OwnAreLatest
<1>7. CASE s # r
  <2>1. reg'[s] = reg[s] /\ seen'[s] = seen[s]
    BY <1>1, <1>7 DEF RegInv
  <2> QED BY <1>1, <2>1 DEF OwnAreLatest, RisingInv
<1> QED BY <1>6, <1>7

LEMMA MergeKeepsRising ==
  ASSUME RegInv, RisingInv, NEW r \in Writer, NEW m \in posted, MergeRegister(r, m)
  PROVE  RisingInv'
<1> SUFFICES ASSUME rising', NEW s \in Writer PROVE OwnAreLatest(s)'
  BY DEF RisingInv
<1> DEFINE v == MergedWrites(reg[r], m.reg)
           D == seen[r]
           H == m.seen
<1>1. /\ reg' = [reg EXCEPT ![r] = v] /\ seen' = [seen EXCEPT ![r] = D \cup H] /\ rising
  BY DEF MergeRegister
<1>2. Recorded(reg[r], D, seen, advancing) /\ Recorded(m.reg, H, seen, advancing)
      /\ OwnAreLatest(r)
  BY <1>1 DEF RegInv, RisingInv
<1>3. /\ reg[r] \in Seq(Write) /\ m.reg \in Seq(Write) /\ Len(reg[r]) <= RegMax
      /\ D \in SUBSET Write /\ H \in SUBSET Write /\ ToSet(m.reg) \subseteq H
      /\ \A x \in H : x.peer = r => x \in D
  BY <1>2 DEF Recorded
<1>4. OwnWrites(ToSet(reg[r]), r) \subseteq Latest(D)
      /\ OwnWrites(Latest(D), r) \subseteq ToSet(reg[r])
  BY <1>2 DEF OwnAreLatest, RegInv
<1>5. ToSet(v) \subseteq ToSet(reg[r]) \cup ToSet(m.reg)
  BY <1>3, MergedKeeps
<1>6. OwnWrites(ToSet(v), r) \subseteq ToSet(reg[r])
  <2> SUFFICES ASSUME NEW z \in ToSet(v), z.peer = r, z \notin ToSet(reg[r]) PROVE FALSE
    BY DEF OwnWrites
  <2>1. z \in D
    BY <1>3, <1>5
  <2> HIDE DEF D, H
  <2>2. PICK x \in Latest(D) : x.peer = r
    BY <1>3, <2>1, LatestExists
  <2>3. x \in OwnWrites(ToSet(reg[r]), r)
    BY <1>4, <2>2 DEF OwnWrites
  <2>4. ASSUME NEW w \in OwnWrites(ToSet(m.reg), r), NEW y \in OwnWrites(ToSet(reg[r]), r)
        PROVE  ~Overtakes(w, y)
    <3>1. w \in D /\ w.peer = r /\ y \in Latest(D) /\ y.peer = r
      BY <1>3, <1>4, <2>4 DEF OwnWrites
    <3>2. w.clock <= y.clock /\ w \in Write /\ y \in Write
      BY <1>3, <3>1 DEF Latest
    <3> QED BY <3>2 DEF Overtakes, Write
  <2>5. OwnWrites(ToSet(v), r) \subseteq ToSet(reg[r])
    BY <1>3, <2>3, <2>4, MergedBringsNone
  <2> QED BY <2>5 DEF OwnWrites
<1>7. Latest(D) \cap {x \in D : x.peer = r} \subseteq Latest(D \cup H)
  BY <1>3 DEF Latest
<1>8. OwnWrites(ToSet(v), r) \subseteq Latest(D \cup H)
  <2> SUFFICES ASSUME NEW z \in OwnWrites(ToSet(v), r) PROVE z \in Latest(D \cup H)
    OBVIOUS
  <2>1. z \in Latest(D) /\ z.peer = r
    BY <1>4, <1>6 DEF OwnWrites
  <2>2. z \in D
    BY <2>1 DEF Latest
  <2> QED BY <1>7, <2>1, <2>2
<1>9. CASE s = r
  <2>1. reg'[s] = v /\ seen'[s] = D \cup H
    BY <1>1, <1>9 DEF RegInv
  <2> HIDE DEF v, D, H
  <2> QED BY <1>8, <1>9, <2>1 DEF OwnAreLatest
<1>10. CASE s # r
  <2>1. reg'[s] = reg[s] /\ seen'[s] = seen[s]
    BY <1>1, <1>10 DEF RegInv
  <2> QED BY <1>1, <2>1 DEF OwnAreLatest, RisingInv
<1> QED BY <1>9, <1>10

LEMMA RisingInvariant == RegisterSpec => []RisingInv
<1>1. RegisterInit => RisingInv
  BY DEF RegisterInit, RisingInv, OwnAreLatest, OwnWrites, ToSet
<1>2. RegInv /\ RisingInv /\ [RegisterNext]_regVars => RisingInv'
  <2> SUFFICES ASSUME RegInv, RisingInv, [RegisterNext]_regVars PROVE RisingInv'
    OBVIOUS
  <2>1. ASSUME UNCHANGED <<reg, seen, rising>> PROVE RisingInv'
    BY <2>1 DEF RisingInv, OwnAreLatest
  <2>2. ASSUME NEW r \in Writer, NEW w \in Write, Set(r, w) PROVE RisingInv'
    BY <2>2, SetKeepsRising
  <2>3. ASSUME NEW r \in Writer, NEW m \in posted, MergeRegister(r, m) PROVE RisingInv'
    BY <2>3, MergeKeepsRising
  <2>4. ASSUME NEW r \in Writer, SendRegister(r) PROVE RisingInv'
    BY <2>1, <2>4 DEF SendRegister
  <2>5. ASSUME NEW m \in posted, LoseRegister(m) PROVE RisingInv'
    BY <2>1, <2>5 DEF LoseRegister
  <2>6. CASE UNCHANGED regVars
    BY <2>1, <2>6 DEF regVars
  <2> QED BY <2>2, <2>3, <2>4, <2>5, <2>6 DEF RegisterNext
<1> QED BY <1>1, <1>2, RegisterInvariant, PTL DEF RegisterSpec

(* However full the registers are and whatever the clocks, no register runs *)
(* past its array and no merge takes a peer's own latest writes from it; and *)
(* while no clock goes back, it has no older writes of its own peer either.  *)
THEOREM OwnLatestSurvivesCorrect == RegisterSpec => []OwnLatestSurvives
<1>1. RegInv /\ RisingInv => OwnLatestSurvives
  BY DEF RegInv, Recorded, OwnLatestSurvives, OwnWrites, RisingInv, OwnAreLatest
<1> QED BY <1>1, RegisterInvariant, RisingInvariant, PTL

(* With advancing clocks, a register with room for every peer it has heard  *)
(* of holds the latest write of each and nothing else, in whatever order    *)
(* and however often copies were merged.                                   *)
THEOREM HoldsTheLatestCorrect == RegisterSpec => []HoldsTheLatest
<1>1. RegInv => HoldsTheLatest
  <2> SUFFICES ASSUME RegInv, NEW r \in Writer, advancing,
                      Cardinality(PeersOf(seen[r])) <= RegMax
               PROVE  /\ ToSet(reg[r]) = Latest(seen[r])
                      /\ Len(reg[r]) = Cardinality(PeersOf(seen[r]))
    BY DEF HoldsTheLatest
  <2>1. Represents(reg[r], seen[r]) /\ seen[r] \in SUBSET Write
    BY DEF RegInv, Recorded
  <2> QED BY <2>1, RepresentedLength DEF Represents
<1> QED BY <1>1, RegisterInvariant, PTL
=============================================================================
