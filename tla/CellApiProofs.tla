--------------------------- MODULE CellApiProofs ----------------------------
(***************************************************************************)
(* Proofs about CellApi.tla for every value of its constants.              *)
(***************************************************************************)
EXTENDS CellApi, TLAPS

-----------------------------------------------------------------------------
IsCell(c) ==
  /\ c = [dials |-> c.dials, neighbors |-> c.neighbors, version |-> c.version,
          version_key |-> c.version_key]
  /\ c.version \in Nat

(* No key is of a version to come ... *)
KeyInTime(c) ==
  c.version_key # NoKey => c.version_key.version \in Nat /\ c.version_key.version <= c.version

(* ... and the key of the version at hand has the digest at hand. *)
KeyTrue(c) ==
  c.version_key # NoKey /\ c.version_key.version = c.version =>
    HasDigest(c) /\ c.version_key.digest = StateDigest(c)

ApiInv ==
  \A a \in DOMAIN cells :
    /\ IsCell(cells[a]) /\ KeyInTime(cells[a])
    /\ a \notin torn => KeyTrue(cells[a])

(* The ways in which a call may treat a cell: it gives it another version,  *)
(* it gives it a key, or it tears it.                                       *)
Newer(c, d) == IsCell(d) /\ d.version_key = c.version_key /\ d.version > c.version

Keyed(d) == IsCell(d) /\ HasDigest(d) /\ d.version_key = VersionKey(d)

Torn(c, d) == IsCell(d) /\ d.version_key = c.version_key /\ d.version = c.version

Treated(a) ==
  \/ a \in DOMAIN cells /\ cells'[a] = cells[a] /\ (a \in torn => a \in torn')
  \/ a \in DOMAIN cells /\ Newer(cells[a], cells'[a])
  \/ Keyed(cells'[a])
  \/ IsCell(cells'[a]) /\ cells'[a].version_key = NoKey
  \/ a \in DOMAIN cells /\ Torn(cells[a], cells'[a]) /\ a \in torn'

LEMMA KeyedIsTrue ==
  ASSUME NEW d, Keyed(d)
  PROVE  KeyInTime(d) /\ KeyTrue(d)
<1>1. d.version \in Nat /\ HasDigest(d)
      /\ d.version_key = [version |-> d.version, digest |-> StateDigest(d)]
  BY DEF Keyed, IsCell, VersionKey
<1>2. d.version_key.version = d.version /\ d.version_key.digest = StateDigest(d)
  BY <1>1
<1>3. d.version_key.version <= d.version
  BY <1>1, <1>2
<1> QED BY <1>1, <1>2, <1>3 DEF KeyInTime, KeyTrue

LEMMA TreatedKeeps ==
  ASSUME ApiInv, \A a \in DOMAIN cells' : Treated(a)
  PROVE  ApiInv'
<1> SUFFICES ASSUME NEW a \in DOMAIN cells'
             PROVE  /\ IsCell(cells'[a]) /\ KeyInTime(cells'[a])
                    /\ a \notin torn' => KeyTrue(cells'[a])
  BY DEF ApiInv, IsCell, KeyInTime, KeyTrue, HasDigest, StateDigest, Digested
<1> DEFINE c == cells[a]
           d == cells'[a]
<1>1. a \in DOMAIN cells => IsCell(c) /\ KeyInTime(c) /\ (a \notin torn => KeyTrue(c))
  BY DEF ApiInv
<1>2. CASE a \in DOMAIN cells /\ d = c /\ (a \in torn => a \in torn')
  BY <1>1, <1>2
<1>3. CASE a \in DOMAIN cells /\ Newer(c, d)
  <2>1. /\ IsCell(d) /\ d.version_key = c.version_key /\ d.version > c.version
        /\ c.version \in Nat /\ d.version \in Nat
    BY <1>1, <1>3 DEF Newer, IsCell
  <2> QED BY <1>1, <1>3, <2>1 DEF KeyInTime, KeyTrue
<1>4. CASE Keyed(d)
  BY <1>4, KeyedIsTrue DEF Keyed
<1>5. CASE IsCell(d) /\ d.version_key = NoKey
  BY <1>5 DEF KeyInTime, KeyTrue
<1>6. CASE a \in DOMAIN cells /\ Torn(c, d) /\ a \in torn'
  BY <1>1, <1>6 DEF Torn, KeyInTime
<1> QED BY <1>2, <1>3, <1>4, <1>5, <1>6 DEF Treated

-----------------------------------------------------------------------------
(* What the fields of a changed cell are. *)
LEMMA FieldsOf ==
  ASSUME NEW c, IsCell(c), NEW x, NEW y
  PROVE  /\ IsCell([c EXCEPT !.dials = x])
         /\ [c EXCEPT !.dials = x].version = c.version
         /\ [c EXCEPT !.dials = x].version_key = c.version_key
         /\ [c EXCEPT !.dials = x].dials = x
         /\ IsCell([c EXCEPT !.version_key = x])
         /\ [c EXCEPT !.version_key = x].version = c.version
         /\ [c EXCEPT !.version_key = x].version_key = x
         /\ [c EXCEPT !.version_key = x].dials = c.dials
         /\ [c EXCEPT !.version_key = x].neighbors = c.neighbors
         /\ IsCell([c EXCEPT !.version = @ + 1])
         /\ [c EXCEPT !.version = @ + 1].version = c.version + 1
         /\ [c EXCEPT !.version = @ + 1].version_key = c.version_key
         /\ [c EXCEPT !.version = @ + 1].dials = c.dials
         /\ [c EXCEPT !.version = @ + 1].neighbors = c.neighbors
BY DEF IsCell

LEMMA Redialled ==
  ASSUME NEW c, IsCell(c), NEW x
  PROVE  LET d == [c EXCEPT !.dials = x] IN IsCell(d) /\ d.dials = x /\ Torn(c, d)
BY FieldsOf DEF Torn

(* The digest of a cell does not depend on its key. *)
LEMMA KeyedCell ==
  ASSUME NEW c, IsCell(c), HasDigest(c)
  PROVE  Keyed([c EXCEPT !.version_key = VersionKey(c)])
<1> DEFINE d == [c EXCEPT !.version_key = VersionKey(c)]
<1>1. /\ IsCell(d) /\ d.version = c.version /\ d.version_key = VersionKey(c)
      /\ d.dials = c.dials /\ d.neighbors = c.neighbors
  BY FieldsOf
<1> HIDE DEF d
<1>2. Digested(d) = Digested(c)
  BY <1>1 DEF Digested
<1>3. StateDigest(d) = StateDigest(c) /\ HasDigest(d)
  BY <1>1, <1>2 DEF StateDigest, HasDigest
<1>4. VersionKey(d) = VersionKey(c)
  BY <1>1, <1>3 DEF VersionKey
<1>5. Keyed(d)
  BY <1>1, <1>3, <1>4 DEF Keyed
<1> QED BY <1>5 DEF d

LEMMA NewerCell ==
  ASSUME NEW c, IsCell(c), NEW d, NEW x, NEW y, NEW n \in Nat,
         d = [dials |-> x, neighbors |-> y, version |-> n, version_key |-> c.version_key]
  PROVE  /\ n > c.version => Newer(c, d)
         /\ n = c.version => Torn(c, d)
<1>1. d.dials = x /\ d.neighbors = y /\ d.version = n /\ d.version_key = c.version_key
  OBVIOUS
<1>2. IsCell(d)
  BY <1>1 DEF IsCell
<1> QED BY <1>1, <1>2 DEF Newer, Torn

LEMMA Advance ==
  ASSUME NEW c, IsCell(c), NEW a, NEW dial
  PROVE  /\ Newer(c, [c EXCEPT !.version = @ + 1])
         /\ Newer(c, Joined(c, a)) /\ Newer(c, SetFirst(c, dial))
<1> DEFINE p == c.dials  q == c.neighbors  n == c.version  k == c.version_key
<1>1. /\ c = [dials |-> p, neighbors |-> q, version |-> n, version_key |-> k]
      /\ n \in Nat
  BY DEF IsCell
<1>2. c.version_key = k /\ c.version = n /\ c.neighbors = q /\ c.dials = p
  OBVIOUS
<1> DEFINE d == [c EXCEPT !.version = @ + 1]
           e == Joined(c, a)
           f == SetFirst(c, dial)
           v == With(q, a)
           w == [p EXCEPT ![1] = dial]
<1>3. d = [c EXCEPT !.version = n + 1]
  BY <1>1
<1>4. e = [c EXCEPT !.neighbors = v, !.version = n + 1]
  BY <1>2 DEF Joined
<1>5. f = [c EXCEPT !.dials = w, !.version = n + 1]
  BY <1>2 DEF SetFirst
<1> HIDE DEF p, q, n, k, v, w, d, e, f
<1>6. d = [dials |-> p, neighbors |-> q, version |-> n + 1, version_key |-> k]
  BY <1>1, <1>3
<1>7. e = [dials |-> p, neighbors |-> v, version |-> n + 1, version_key |-> k]
  BY <1>1, <1>4
<1>8. f = [dials |-> w, neighbors |-> q, version |-> n + 1, version_key |-> k]
  BY <1>1, <1>5
<1>9. n + 1 \in Nat /\ n + 1 > n
  BY <1>1
<1>10. Newer(c, d) /\ Newer(c, e) /\ Newer(c, f)
  BY <1>2, <1>6, <1>7, <1>8, <1>9, NewerCell
<1> QED BY <1>10 DEF d, e, f

LEMMA TickTreats ==
  ASSUME NEW c, IsCell(c)
  PROVE  /\ Whole(c) => Newer(c, Ticked(c))
         /\ ~Whole(c) => Torn(c, Ticked(c))
<1> DEFINE p == c.dials  q == c.neighbors  n == c.version  k == c.version_key
           d == Ticked(c)
           t == TickedDials(c.dials)
<1>1. /\ c = [dials |-> p, neighbors |-> q, version |-> n, version_key |-> k]
      /\ n \in Nat
  BY DEF IsCell
<1>2. c.version_key = k /\ c.version = n /\ c.neighbors = q /\ c.dials = p
  OBVIOUS
<1>3. d = [c EXCEPT !.dials = t, !.version = IF Whole(c) THEN n + 1 ELSE n]
  BY DEF Ticked
<1> HIDE DEF p, q, n, k, d, t
<1>4. Whole(c) => d = [dials |-> t, neighbors |-> q, version |-> n + 1, version_key |-> k]
  BY <1>1, <1>3
<1>5. ~Whole(c) => d = [dials |-> t, neighbors |-> q, version |-> n, version_key |-> k]
  BY <1>1, <1>3
<1>6. n + 1 \in Nat /\ n + 1 > n
  BY <1>1
<1>7. (Whole(c) => Newer(c, d)) /\ (~Whole(c) => Torn(c, d))
  BY <1>1, <1>2, <1>4, <1>5, <1>6, NewerCell
<1> QED BY <1>7 DEF d

-----------------------------------------------------------------------------
LEMMA BindNewTreats ==
  ASSUME ApiInv, NEW x \in Addr, NEW dials \in DialLists, BindNew(x, dials),
         NEW a \in DOMAIN cells'
  PROVE  Treated(a)
<1> DEFINE c == [dials |-> dials, neighbors |-> << >>, version |-> 1, version_key |-> NoKey]
           d == [c EXCEPT !.version_key = VersionKey(c)]
<1>1. IsCell(c) /\ c.version_key = NoKey
  BY DEF IsCell
<1>2. HasDigest(c) => Keyed(d)
  BY <1>1, KeyedCell
<1>3. \/ HasDigest(c) /\ cells' = WithCell(x, d) /\ Seal
      \/ cells' = WithCell(x, c) /\ Raise
  BY DEF BindNew
<1>4. x \notin DOMAIN cells
  BY DEF BindNew
<1> HIDE DEF c, d
<1>5. PICK new : /\ cells' = WithCell(x, new)
                 /\ Keyed(new) \/ (IsCell(new) /\ new.version_key = NoKey)
  BY <1>1, <1>2, <1>3
<1>6. a = x \/ a \in DOMAIN cells
  BY <1>5 DEF WithCell
<1>7. CASE a = x
  <2>1. cells'[a] = new
    BY <1>4, <1>5, <1>7 DEF WithCell
  <2> QED BY <1>5, <2>1 DEF Treated
<1>8. CASE a \in DOMAIN cells
  <2>1. cells'[a] = cells[a]
    BY <1>4, <1>5, <1>8 DEF WithCell
  <2>2. a \in torn => a \in torn'
    <3>1. Seal \/ Raise
      BY DEF BindNew
    <3> QED BY <1>8, <2>1, <3>1 DEF Seal, Raise
  <2> QED BY <1>8, <2>1, <2>2 DEF Treated
<1> QED BY <1>6, <1>7, <1>8

LEMMA BindAgainTreats ==
  ASSUME ApiInv, NEW x \in Addr, NEW dials \in DialLists, BindAgain(x, dials),
         NEW a \in DOMAIN cells'
  PROVE  Treated(a)
<1> DEFINE old == cells[x]
           new == [old EXCEPT !.dials = dials]
           c == Advanced(old, new)
           d == [c EXCEPT !.version_key = VersionKey(c)]
<1>1. x \in DOMAIN cells /\ IsCell(old)
  BY DEF BindAgain, ApiInv
<1>2. IsCell(new) /\ Torn(old, new)
  BY <1>1, Redialled
<1>3. \/ cells' = cells /\ Raise
      \/ cells' = [cells EXCEPT ![x] = new] /\ Raise
      \/ HasDigest(new) /\ cells' = [cells EXCEPT ![x] = d] /\ Seal
  BY DEF BindAgain
<1>4. HasDigest(new) => Keyed(d)
  <2> SUFFICES ASSUME HasDigest(new) PROVE Keyed(d)
    OBVIOUS
  <2>1. IsCell(c) /\ c.dials = new.dials
    BY <1>2, FieldsOf DEF Advanced
  <2> HIDE DEF new, c
  <2>2. HasDigest(c)
    BY <2>1 DEF HasDigest, Digested
  <2> QED BY <2>1, <2>2, KeyedCell
<1> HIDE DEF old, new, c, d
<1>5. DOMAIN cells' = DOMAIN cells
  BY <1>3
<1>6. CASE a # x
  <2>1. cells'[a] = cells[a] /\ a \in DOMAIN cells
    BY <1>3, <1>5, <1>6
  <2> QED BY <1>3, <2>1 DEF Treated, Seal, Raise
<1>7. CASE a = x /\ cells' = cells /\ Raise
  BY <1>1, <1>7 DEF Treated, Raise
<1>8. CASE a = x /\ cells' = [cells EXCEPT ![x] = new] /\ Raise
  <2>1. cells'[a] = new /\ a \in DOMAIN cells /\ Torn(cells[a], cells'[a])
    BY <1>1, <1>2, <1>8 DEF old
  <2>2. CASE a \in torn'
    BY <2>1, <2>2 DEF Treated
  <2>3. CASE a \notin torn'
    <3>1. a \notin torn /\ cells'[a].dials = cells[a].dials
      BY <1>8, <2>1, <2>3 DEF Raise, Torn
    <3>2. new = old
      BY <1>1, <1>8, <2>1, <3>1 DEF old, new, IsCell
    <3> QED BY <1>8, <2>1, <3>1, <3>2 DEF Treated, old
  <2> QED BY <2>2, <2>3
<1>9. CASE a = x /\ HasDigest(new) /\ cells' = [cells EXCEPT ![x] = d]
  <2>1. cells'[a] = d
    BY <1>1, <1>9
  <2> QED BY <1>4, <1>9, <2>1 DEF Treated
<1> QED BY <1>3, <1>6, <1>7, <1>8, <1>9

LEMMA LinkTreats ==
  ASSUME ApiInv, NEW x \in Addr, NEW y \in Addr, Link(x, y), NEW a \in DOMAIN cells'
  PROVE  Treated(a)
<1> DEFINE c == Joined(cells[x], y)
           one == [cells EXCEPT ![x] = c]
           d == Joined(one[y], x)
<1>1. x \in DOMAIN cells /\ y \in DOMAIN cells /\ IsCell(cells[x]) /\ IsCell(cells[y])
  BY DEF Link, ApiInv
<1>2. cells' = [one EXCEPT ![y] = d] /\ Seal
  BY DEF Link
<1>3. Newer(cells[x], c) /\ IsCell(c)
  BY <1>1, Advance DEF Newer
<1> HIDE DEF c
<1>4. DOMAIN one = DOMAIN cells /\ one[x] = c /\ \A z \in DOMAIN cells \ {x} : one[z] = cells[z]
  BY <1>1
<1> HIDE DEF one
<1>5. Newer(one[y], d) /\ IsCell(d)
  <2>1. IsCell(one[y])
    BY <1>1, <1>3, <1>4
  <2> QED BY <2>1, Advance DEF Newer
<1> HIDE DEF d
<1>6. Newer(cells[y], d)
  <2>1. CASE y = x
    <3>1. Newer(c, d) /\ Newer(cells[x], c)
      BY <1>3, <1>4, <1>5, <2>1
    <3>2. cells[x].version \in Nat /\ c.version \in Nat /\ d.version \in Nat
      BY <1>1, <1>3, <1>5 DEF IsCell
    <3> QED BY <2>1, <3>1, <3>2 DEF Newer
  <2>2. CASE y # x
    BY <1>1, <1>4, <1>5, <2>2
  <2> QED BY <2>1, <2>2
<1>7. DOMAIN cells' = DOMAIN cells /\ cells'[y] = d /\ \A z \in DOMAIN cells \ {y} : cells'[z] = one[z]
  BY <1>1, <1>2, <1>4
<1>8. CASE a = y
  BY <1>1, <1>6, <1>7, <1>8 DEF Treated
<1>9. CASE a = x /\ a # y
  BY <1>1, <1>3, <1>4, <1>7, <1>9 DEF Treated
<1>10. CASE a # x /\ a # y
  <2>1. cells'[a] = cells[a] /\ a \in DOMAIN cells
    BY <1>4, <1>7, <1>10
  <2> QED BY <1>2, <2>1 DEF Treated, Seal
<1> QED BY <1>8, <1>9, <1>10

LEMMA EffectTreats ==
  ASSUME ApiInv, NEW x \in Addr, Effect(x), NEW a \in DOMAIN cells'
  PROVE  Treated(a)
<1>1. /\ a \in DOMAIN cells /\ Seal
      /\ \/ cells'[a] = SetFirst(cells[a], cells[x].dials[1])
         \/ cells'[a] = [cells[a] EXCEPT !.version = @ + 1]
         \/ cells'[a] = cells[a]
  BY DEF Effect
<1>2. IsCell(cells[a])
  BY <1>1 DEF ApiInv
<1>3. CASE cells'[a] = cells[a]
  BY <1>1, <1>3 DEF Treated, Seal
<1>4. CASE cells'[a] = SetFirst(cells[a], cells[x].dials[1])
  BY <1>1, <1>2, <1>4, Advance DEF Treated
<1>5. CASE cells'[a] = [cells[a] EXCEPT !.version = @ + 1]
  BY <1>1, <1>2, <1>5, Advance DEF Treated
<1> QED BY <1>1, <1>3, <1>4, <1>5

LEMMA TickTreatsAll ==
  ASSUME ApiInv, Tick, NEW a \in DOMAIN cells'
  PROVE  Treated(a)
<1>1. a \in DOMAIN cells /\ (cells'[a] = Ticked(cells[a]) \/ cells'[a] = cells[a])
  BY DEF Tick
<1>2. IsCell(cells[a])
  BY <1>1 DEF ApiInv
<1>3. \/ Seal /\ Whole(cells[a])
      \/ Raise
  BY <1>1 DEF Tick
<1>4. CASE cells'[a] = cells[a]
  BY <1>1, <1>3, <1>4 DEF Treated, Seal, Raise
<1>5. CASE cells'[a] = Ticked(cells[a]) /\ Whole(cells[a])
  BY <1>1, <1>2, <1>5, TickTreats DEF Treated
<1>6. CASE cells'[a] = Ticked(cells[a]) /\ ~Whole(cells[a])
  <2>1. Raise /\ Torn(cells[a], cells'[a])
    BY <1>2, <1>3, <1>6, TickTreats
  <2>2. CASE a \in torn'
    BY <1>1, <2>1, <2>2 DEF Treated
  <2>3. CASE a \notin torn'
    <3>1. a \notin torn /\ cells'[a].dials = cells[a].dials
      BY <1>1, <2>1, <2>3 DEF Raise, Torn
    <3>2. cells'[a].neighbors = cells[a].neighbors
      BY <1>2, <1>6 DEF Ticked, IsCell
    <3>3. cells'[a] = cells[a]
      BY <1>2, <2>1, <3>1, <3>2 DEF Torn, IsCell
    <3> QED BY <1>1, <3>1, <3>3 DEF Treated
  <2> QED BY <2>2, <2>3
<1> QED BY <1>1, <1>4, <1>5, <1>6

LEMMA ApiInvStep == ApiInv /\ [ApiNext]_apiVars => ApiInv'
<1> SUFFICES ASSUME ApiInv, [ApiNext]_apiVars, NEW a \in DOMAIN cells' PROVE Treated(a)
  BY TreatedKeeps
<1>1. ASSUME NEW x \in Addr, View(x) PROVE Treated(a)
  BY <1>1 DEF View, Treated, Seal, Raise
<1>2. CASE UNCHANGED apiVars
  BY <1>2 DEF apiVars, Treated
<1> QED BY <1>1, <1>2, BindNewTreats, BindAgainTreats, LinkTreats, EffectTreats, TickTreatsAll
        DEF ApiNext

-----------------------------------------------------------------------------
(* A version key tells whether it is still the cell's: for any graph, any    *)
(* dials and digests of any width.                                          *)
THEOREM KeyTellsAgeCorrect == ApiSpec => []KeyTellsAge
<1>1. ApiInit => ApiInv
  BY DEF ApiInit, ApiInv
<1>2. ApiInv => KeyTellsAge
  BY DEF ApiInv, KeyTrue, KeyTellsAge
<1> QED BY <1>1, <1>2, ApiInvStep, PTL DEF ApiSpec

-----------------------------------------------------------------------------
(* The cell bound last is still as that BIND left it. *)
BoundInv ==
  /\ cells = [a \in DOMAIN cells |-> cells[a]]
  /\ bound # NotBound =>
       /\ bound[1] \in DOMAIN cells
       /\ cells[bound[1]].dials = bound[2] /\ Keyed(cells[bound[1]])

LEMMA BindNewSets ==
  ASSUME NEW x \in Addr, NEW dials \in DialLists, BindNew(x, dials)
  PROVE  /\ Changed /\ cells' = [a \in DOMAIN cells' |-> cells'[a]]
         /\ \/ /\ bound' = <<x, dials>> /\ x \in DOMAIN cells' /\ x \notin DOMAIN cells
               /\ cells'[x].dials = dials /\ Keyed(cells'[x])
            \/ Unbinds
<1> DEFINE c == [dials |-> dials, neighbors |-> << >>, version |-> 1, version_key |-> NoKey]
           d == [c EXCEPT !.version_key = VersionKey(c)]
<1>1. IsCell(c) /\ c.dials = dials
  BY DEF IsCell
<1>2. HasDigest(c) => Keyed(d) /\ d.dials = dials
  BY <1>1, KeyedCell, FieldsOf
<1>3. \/ HasDigest(c) /\ cells' = WithCell(x, d) /\ bound' = <<x, dials>>
      \/ cells' = WithCell(x, c) /\ Unbinds
  BY DEF BindNew
<1>4. x \notin DOMAIN cells
  BY DEF BindNew
<1> HIDE DEF c, d
<1>5. \A e : /\ DOMAIN WithCell(x, e) = DOMAIN cells \cup {x} /\ WithCell(x, e)[x] = e
             /\ WithCell(x, e) = [a \in DOMAIN WithCell(x, e) |-> WithCell(x, e)[a]]
  BY DEF WithCell
<1>6. \E e : cells' = WithCell(x, e)
  BY <1>3
<1>7. /\ DOMAIN cells' = DOMAIN cells \cup {x}
      /\ cells' = [a \in DOMAIN cells' |-> cells'[a]]
  BY <1>5, <1>6
<1>8. Changed
  BY <1>4, <1>7 DEF Changed
<1>9. CASE HasDigest(c) /\ cells' = WithCell(x, d) /\ bound' = <<x, dials>>
  BY <1>2, <1>4, <1>5, <1>7, <1>8, <1>9
<1>10. CASE Unbinds
  BY <1>7, <1>8, <1>10
<1> QED BY <1>3, <1>9, <1>10

LEMMA BindAgainSets ==
  ASSUME ApiInv, BoundInv, NEW x \in Addr, NEW dials \in DialLists, BindAgain(x, dials)
  PROVE  \/ /\ bound' = <<x, dials>> /\ x \in DOMAIN cells'
            /\ cells'[x].dials = dials /\ Keyed(cells'[x])
            /\ (cells[x].dials = dials /\ Keyed(cells[x]) => cells' = cells)
         \/ Unbinds
<1> DEFINE old == cells[x]
           new == [old EXCEPT !.dials = dials]
           c == Advanced(old, new)
           d == [c EXCEPT !.version_key = VersionKey(c)]
<1>1. x \in DOMAIN cells /\ IsCell(old)
  BY DEF BindAgain, ApiInv
<1>2. \/ HasDigest(new) /\ cells' = [cells EXCEPT ![x] = d] /\ bound' = <<x, dials>>
      \/ Unbinds
  BY DEF BindAgain
<1>3. HasDigest(new) => Keyed(d) /\ d.dials = dials
  <2> SUFFICES ASSUME HasDigest(new) PROVE Keyed(d) /\ d.dials = dials
    OBVIOUS
  <2>1. IsCell(new) /\ new.dials = dials
    BY <1>1, Redialled
  <2>2. IsCell(c) /\ c.dials = dials
    BY <2>1, FieldsOf DEF Advanced
  <2> HIDE DEF new, c
  <2>3. HasDigest(c)
    BY <2>1, <2>2 DEF HasDigest, Digested
  <2> QED BY <2>2, <2>3, KeyedCell, FieldsOf
<1>4. old.dials = dials /\ Keyed(old) => d = old
  <2> SUFFICES ASSUME old.dials = dials, Keyed(old) PROVE d = old
    OBVIOUS
  <2>1. new = old
    BY <1>1 DEF IsCell
  <2>2. c = old
    BY <2>1 DEF Advanced
  <2>3. VersionKey(c) = old.version_key
    BY <2>2 DEF Keyed
  <2> HIDE DEF c, new
  <2>4. [old EXCEPT !.version_key = old.version_key] = old
    BY <1>1 DEF IsCell
  <2> QED BY <2>2, <2>3, <2>4
<1> HIDE DEF old, new, c, d
<1>5. ASSUME HasDigest(new), cells' = [cells EXCEPT ![x] = d], bound' = <<x, dials>>
      PROVE  /\ x \in DOMAIN cells' /\ cells'[x].dials = dials /\ Keyed(cells'[x])
             /\ (cells[x].dials = dials /\ Keyed(cells[x]) => cells' = cells)
  <2>1. x \in DOMAIN cells' /\ cells'[x] = d
    BY <1>1, <1>5
  <2>2. cells = [a \in DOMAIN cells |-> cells[a]]
    BY DEF BoundInv
  <2>3. d = cells[x] => cells' = cells
    BY <1>1, <1>5, <2>2
  <2> QED BY <1>3, <1>4, <1>5, <2>1, <2>3 DEF old
<1> QED BY <1>2, <1>5

(* All other calls end with Unbinds. *)
LEMMA OthersUnbind ==
  ASSUME NEW x, NEW y, BoundInv,
         Link(x, y) \/ Effect(x) \/ View(x) \/ Tick
  PROVE  Unbinds /\ UNCHANGED order /\ cells' = [a \in DOMAIN cells' |-> cells'[a]]
<1>1. CASE Link(x, y)
  BY <1>1 DEF Link
<1>2. CASE Effect(x)
  BY <1>2 DEF Effect
<1>3. CASE View(x)
  BY <1>3 DEF View, BoundInv
<1>4. CASE Tick
  BY <1>4 DEF Tick
<1> QED BY <1>1, <1>2, <1>3, <1>4

LEMMA BoundStep ==
  ApiInv /\ BoundInv /\ [ApiNext]_apiVars =>
    /\ BoundInv'
    /\ bound # NotBound /\ bound' = bound => UNCHANGED <<order, cells, tick>>
<1> SUFFICES ASSUME ApiInv, BoundInv, [ApiNext]_apiVars
             PROVE  /\ BoundInv'
                    /\ bound # NotBound /\ bound' = bound => UNCHANGED <<order, cells, tick>>
  OBVIOUS
<1>1. ASSUME Unbinds, cells' = [a \in DOMAIN cells' |-> cells'[a]] PROVE BoundInv'
  <2>1. CASE bound' = NotBound
    BY <1>1, <2>1 DEF BoundInv
  <2>2. CASE bound' # NotBound
    <3>1. cells' = cells /\ bound' = bound
      BY <1>1, <2>2 DEF Unbinds, Changed
    <3> QED BY <2>2, <3>1 DEF BoundInv, Keyed, IsCell, HasDigest, Digested, VersionKey, StateDigest
  <2> QED BY <2>1, <2>2
<1>2. ASSUME Unbinds, bound # NotBound, bound' = bound PROVE UNCHANGED <<cells, tick>>
  BY <1>2 DEF Unbinds, Changed
<1>3. ASSUME NEW x, NEW dials, bound' = <<x, dials>>, x \in DOMAIN cells',
             cells'[x].dials = dials, Keyed(cells'[x]),
             cells' = [a \in DOMAIN cells' |-> cells'[a]]
      PROVE  BoundInv'
  <2>1. bound'[1] = x /\ bound'[2] = dials
    BY <1>3
  <2> QED BY <1>3, <2>1 DEF BoundInv, Keyed, IsCell, HasDigest, Digested, VersionKey, StateDigest
<1>4. ASSUME NEW x \in Addr, NEW dials \in DialLists, BindNew(x, dials)
      PROVE  /\ BoundInv'
             /\ bound # NotBound => bound' # bound
  <2>1. CASE Unbinds
    BY <1>1, <1>4, <2>1, BindNewSets DEF Unbinds
  <2>2. CASE ~Unbinds
    <3>1. /\ bound' = <<x, dials>> /\ x \in DOMAIN cells' /\ x \notin DOMAIN cells
          /\ cells'[x].dials = dials /\ Keyed(cells'[x])
          /\ cells' = [a \in DOMAIN cells' |-> cells'[a]]
      BY <1>4, <2>2, BindNewSets
    <3>2. BoundInv'
      BY <1>3, <3>1
    <3>3. bound # NotBound => bound' # bound
      BY <3>1 DEF BoundInv
    <3> QED BY <3>2, <3>3
  <2> QED BY <2>1, <2>2
<1>5. ASSUME NEW x \in Addr, NEW dials \in DialLists, BindAgain(x, dials)
      PROVE  /\ BoundInv'
             /\ bound # NotBound /\ bound' = bound => UNCHANGED <<order, cells, tick>>
  <2>1. UNCHANGED <<order, tick>> /\ cells' = [a \in DOMAIN cells' |-> cells'[a]]
    BY <1>5 DEF BindAgain, BoundInv
  <2>2. CASE Unbinds
    BY <1>1, <1>2, <2>1, <2>2
  <2>3. CASE ~Unbinds
    <3>1. /\ bound' = <<x, dials>> /\ x \in DOMAIN cells'
          /\ cells'[x].dials = dials /\ Keyed(cells'[x])
          /\ (cells[x].dials = dials /\ Keyed(cells[x]) => cells' = cells)
      BY <1>5, <2>3, BindAgainSets
    <3>2. BoundInv'
      BY <1>3, <2>1, <3>1
    <3>3. ASSUME bound # NotBound, bound' = bound PROVE cells' = cells
      <4>1. bound[1] = x /\ bound[2] = dials
        BY <3>1, <3>3
      <4> QED BY <3>1, <3>3, <4>1 DEF BoundInv
    <3> QED BY <2>1, <3>2, <3>3
  <2> QED BY <2>2, <2>3
<1>6. ASSUME NEW x, NEW y, Link(x, y) \/ Effect(x) \/ View(x) \/ Tick
      PROVE  /\ BoundInv'
             /\ bound # NotBound /\ bound' = bound => UNCHANGED <<order, cells, tick>>
  BY <1>1, <1>2, <1>6, OthersUnbind
<1>7. CASE UNCHANGED apiVars
  <2>1. cells' = cells /\ bound' = bound /\ order' = order /\ tick' = tick
    BY <1>7 DEF apiVars
  <2>2. BoundInv'
    BY <2>1 DEF BoundInv, Keyed, IsCell, HasDigest, Digested, VersionKey, StateDigest
  <2> QED BY <2>1, <2>2
<1> QED BY <1>4, <1>5, <1>6, <1>7 DEF ApiNext

(* BIND is idempotent, for any dials. *)
THEOREM BindIsIdempotentCorrect == ApiSpec => BindIsIdempotent
<1>1. ApiInit => ApiInv /\ BoundInv
  BY DEF ApiInit, ApiInv, BoundInv
<1>2. ApiInv /\ BoundInv /\ [ApiNext]_apiVars =>
        [bound # NotBound /\ bound' = bound => UNCHANGED <<order, cells, tick>>]_apiVars
  BY BoundStep
<1> QED BY <1>1, <1>2, ApiInvStep, BoundStep, PTL DEF ApiSpec, BindIsIdempotent

-----------------------------------------------------------------------------
(* Dials that hold no negative number but of a set ... *)
Known(dials, set) ==
  /\ dials \in Seq(Int \cup {Text})
  /\ \A i \in DOMAIN dials : dials[i] = Text \/ dials[i] \in Nat \/ dials[i] \in set

(* ... which for the dials of cells is what BINDs were given. *)
DialsInv == \A a \in DOMAIN cells : Known(cells[a].dials, given)

LEMMA KnownGrows ==
  ASSUME NEW dials, NEW set, NEW larger, set \subseteq larger, Known(dials, set)
  PROVE  Known(dials, larger)
BY DEF Known

LEMMA GivenIsKnown ==
  ASSUME NEW dials \in DialLists, NEW set
  PROVE  Known(dials, set \cup Negatives(dials))
<1>1. dials \in Seq(Int \cup {Text})
  BY ApiAssumption
<1>2. ASSUME NEW i \in DOMAIN dials
      PROVE  dials[i] = Text \/ dials[i] \in Nat \/ dials[i] \in Negatives(dials)
  <2>1. dials[i] \in Int \cup {Text} /\ dials[i] \in ToSet(dials)
    BY <1>1 DEF ToSet
  <2>2. dials[i] # Text /\ dials[i] \notin Nat => dials[i] < 0
    BY <2>1
  <2> QED BY <2>1, <2>2 DEF Negatives
<1> QED BY <1>1, <1>2 DEF Known

LEMMA TickedDialsKnown ==
  ASSUME NEW dials, NEW set, Known(dials, set)
  PROVE  Known(TickedDials(dials), set)
<1>1. /\ DOMAIN dials = 1 .. Len(dials) /\ Len(dials) \in Nat
      /\ \A i \in DOMAIN dials : dials[i] \in Int \cup {Text}
  BY DEF Known
<1>2. ASSUME NEW i \in DOMAIN dials
      PROVE  /\ TickedDials(dials)[i] \in Int \cup {Text}
             /\ TickedDials(dials)[i] = dials[i] \/ TickedDials(dials)[i] \in Nat
  <2>1. CASE i \in TurnedUpTo(dials)
    <3>1. i \in 1 .. i
      BY <1>1
    <3>2. dials[i] \in Int
      BY <1>1, <2>1, <3>1 DEF TurnedUpTo
    <3>3. Turned(dials[i], i) \in Nat
      BY <3>2 DEF Turned
    <3> QED BY <2>1, <3>3 DEF TickedDials
  <2>2. CASE i \notin TurnedUpTo(dials)
    BY <1>1, <2>2 DEF TickedDials
  <2> QED BY <2>1, <2>2
<1>3. DOMAIN TickedDials(dials) = DOMAIN dials
  BY DEF TickedDials
<1>4. TickedDials(dials) \in Seq(Int \cup {Text})
  <2>1. TickedDials(dials) \in [1 .. Len(dials) -> Int \cup {Text}]
    BY <1>1, <1>2 DEF TickedDials
  <2> QED BY <1>1, <2>1
<1> QED BY <1>2, <1>3, <1>4 DEF Known

LEMMA FirstKnown ==
  ASSUME NEW dials, NEW other, NEW set, Known(dials, set), Known(other, set),
         dials # << >>, other # << >>
  PROVE  Known([dials EXCEPT ![1] = other[1]], set)
<1> DEFINE first == other[1]
           T == [dials EXCEPT ![1] = first]
<1>1. /\ first \in Int \cup {Text}
      /\ first = Text \/ first \in Nat \/ first \in set
  BY DEF Known
<1> HIDE DEF first
<1>2. /\ T \in Seq(Int \cup {Text}) /\ DOMAIN T = DOMAIN dials
      /\ \A i \in DOMAIN dials : T[i] = first \/ T[i] = dials[i]
  BY <1>1 DEF Known
<1> HIDE DEF T
<1>3. Known(T, set)
  BY <1>1, <1>2 DEF Known
<1> QED BY <1>3 DEF T, first

LEMMA JoinedFields ==
  ASSUME NEW c, IsCell(c), NEW a
  PROVE  Joined(c, a).dials = c.dials /\ IsCell(Joined(c, a))
<1> DEFINE d == Joined(c, a)
           v == With(c.neighbors, a)
           m == c.version + 1
<1>1. d = [c EXCEPT !.neighbors = v, !.version = m]
  BY DEF Joined
<1>2. IsCell(d)
  BY Advance DEF Newer
<1> HIDE DEF d, v, m
<1>3. d.dials = c.dials
  BY <1>1 DEF IsCell
<1> QED BY <1>2, <1>3 DEF d

LEMMA DialsStep == ApiInv /\ DialsInv /\ [ApiNext]_apiVars => DialsInv'
<1> SUFFICES ASSUME ApiInv, DialsInv, [ApiNext]_apiVars, NEW a \in DOMAIN cells'
             PROVE  Known(cells'[a].dials, given')
  BY DEF DialsInv, Known
<1>1. a \in DOMAIN cells => IsCell(cells[a]) /\ Known(cells[a].dials, given)
  BY DEF ApiInv, DialsInv
<1>2. a \in DOMAIN cells /\ given \subseteq given' => Known(cells[a].dials, given')
  BY <1>1, KnownGrows
<1>3. ASSUME NEW x \in Addr, NEW dials \in DialLists, BindNew(x, dials)
      PROVE  Known(cells'[a].dials, given')
  <2> DEFINE c == [dials |-> dials, neighbors |-> << >>, version |-> 1, version_key |-> NoKey]
             d == [c EXCEPT !.version_key = VersionKey(c)]
  <2>1. c.dials = dials /\ d.dials = dials
    OBVIOUS
  <2>2. /\ cells' = WithCell(x, c) \/ cells' = WithCell(x, d)
        /\ given' = given \cup Negatives(dials)
    BY <1>3 DEF BindNew
  <2> HIDE DEF c, d
  <2>3. cells'[a] = c \/ cells'[a] = d \/ (a \in DOMAIN cells /\ cells'[a] = cells[a])
    BY <2>2 DEF WithCell
  <2>4. Known(dials, given')
    BY <2>2, GivenIsKnown
  <2> QED BY <1>2, <2>1, <2>2, <2>3, <2>4
<1>4. ASSUME NEW x \in Addr, NEW dials \in DialLists, BindAgain(x, dials)
      PROVE  Known(cells'[a].dials, given')
  <2> DEFINE new == [cells[x] EXCEPT !.dials = dials]
             c == Advanced(cells[x], new)
             d == [c EXCEPT !.version_key = VersionKey(c)]
  <2>1. x \in DOMAIN cells /\ IsCell(cells[x])
    BY <1>4 DEF BindAgain, ApiInv
  <2>2. \/ cells' = cells /\ given' = given
        \/ /\ cells' = [cells EXCEPT ![x] = new] \/ cells' = [cells EXCEPT ![x] = d]
           /\ given' = given \cup Negatives(dials)
    BY <1>4 DEF BindAgain
  <2>3. IsCell(new) /\ new.dials = dials
    BY <2>1, Redialled
  <2>4. IsCell(c) /\ c.dials = dials
    BY <2>3, FieldsOf DEF Advanced
  <2> HIDE DEF new, c
  <2>5. d.dials = dials
    BY <2>4, FieldsOf
  <2> HIDE DEF d
  <2>6. CASE cells' = cells /\ given' = given
    BY <1>2, <2>6
  <2>7. CASE /\ cells' = [cells EXCEPT ![x] = new] \/ cells' = [cells EXCEPT ![x] = d]
             /\ given' = given \cup Negatives(dials)
    <3>1. a \in DOMAIN cells /\ (cells'[a] = cells[a] \/ cells'[a] = new \/ cells'[a] = d)
      BY <2>7
    <3>2. Known(dials, given')
      BY <2>7, GivenIsKnown
    <3> QED BY <1>2, <2>3, <2>5, <2>7, <3>1, <3>2
  <2> QED BY <2>2, <2>6, <2>7
<1>5. ASSUME NEW x \in Addr, NEW y \in Addr, Link(x, y) PROVE Known(cells'[a].dials, given')
  <2> DEFINE c == Joined(cells[x], y)
             one == [cells EXCEPT ![x] = c]
             d == Joined(one[y], x)
  <2>1. x \in DOMAIN cells /\ y \in DOMAIN cells /\ IsCell(cells[x]) /\ IsCell(cells[y])
    BY <1>5 DEF Link, ApiInv
  <2>2. cells' = [one EXCEPT ![y] = d] /\ given' = given
    BY <1>5 DEF Link
  <2>3. c.dials = cells[x].dials /\ IsCell(c)
    BY <2>1, JoinedFields
  <2> HIDE DEF c
  <2>4. one[x] = c /\ DOMAIN one = DOMAIN cells /\ \A z \in DOMAIN cells \ {x} : one[z] = cells[z]
    BY <2>1
  <2>5. \A z \in DOMAIN one : Known(one[z].dials, given)
    BY <2>1, <2>3, <2>4 DEF DialsInv
  <2>6. IsCell(one[y])
    BY <2>1, <2>3, <2>4
  <2> HIDE DEF one
  <2>7. d.dials = one[y].dials
    BY <2>6, JoinedFields
  <2> HIDE DEF d
  <2>8. a \in DOMAIN one /\ (cells'[a] = d \/ cells'[a] = one[a])
    BY <2>2
  <2> QED BY <2>1, <2>2, <2>4, <2>5, <2>7, <2>8
<1>6. ASSUME NEW x \in Addr, Effect(x) PROVE Known(cells'[a].dials, given')
  <2> DEFINE first == cells[x].dials[1]
  <2>1. /\ x \in DOMAIN cells /\ a \in DOMAIN cells /\ given' = given
        /\ \/ cells'[a] = SetFirst(cells[a], first) /\ a \in Reached(x)
           \/ cells'[a] = [cells[a] EXCEPT !.version = @ + 1]
           \/ cells'[a] = cells[a]
    BY <1>6 DEF Effect
  <2>2. CASE cells'[a] = SetFirst(cells[a], first) /\ a \in Reached(x)
    <3>1. /\ Known(cells[a].dials, given) /\ Known(cells[x].dials, given)
          /\ cells[a].dials # << >> /\ cells[x].dials # << >>
      BY <2>1, <2>2 DEF DialsInv, Reached
    <3>2. Known([cells[a].dials EXCEPT ![1] = first], given)
      BY <3>1, FirstKnown
    <3>3. cells'[a].dials = [cells[a].dials EXCEPT ![1] = first]
      BY <1>1, <2>1, <2>2 DEF SetFirst, IsCell
    <3> QED BY <2>1, <3>2, <3>3
  <2>3. CASE cells'[a] = [cells[a] EXCEPT !.version = @ + 1]
    BY <1>1, <2>1, <2>3, FieldsOf
  <2> QED BY <1>1, <2>1, <2>2, <2>3
<1>7. CASE Tick
  <2>1. /\ a \in DOMAIN cells /\ (cells'[a] = Ticked(cells[a]) \/ cells'[a] = cells[a])
        /\ given' = given
    BY <1>7 DEF Tick
  <2>2. Ticked(cells[a]).dials = TickedDials(cells[a].dials)
    BY <1>1, <2>1 DEF Ticked, IsCell
  <2>3. Known(TickedDials(cells[a].dials), given)
    BY <1>1, <2>1, TickedDialsKnown
  <2> QED BY <1>1, <2>1, <2>2, <2>3
<1>8. ASSUME NEW x, View(x) PROVE Known(cells'[a].dials, given')
  BY <1>1, <1>8 DEF View
<1>9. CASE UNCHANGED apiVars
  BY <1>1, <1>9 DEF apiVars
<1> QED BY <1>3, <1>4, <1>5, <1>6, <1>7, <1>8, <1>9 DEF ApiNext

(* A lost digest has its cause in what BINDs were given or in a number       *)
(* over the top, for any dials of either sign and any number of TICKs: that  *)
(* TICK stops at zero is enough at the lower end.                            *)
THEOREM LostDigestHasACauseCorrect == ApiSpec => []LostDigestHasACause
<1>1. ApiInit => ApiInv /\ DialsInv
  BY DEF ApiInit, ApiInv, DialsInv
<1>2. DialsInv => LostDigestHasACause
  <2> SUFFICES ASSUME DialsInv, NEW a \in DOMAIN cells, ~HasDigest(cells[a])
               PROVE  \E i \in Digested(cells[a]) :
                        /\ cells[a].dials[i] # Text
                        /\ cells[a].dials[i] > TopDial \/ cells[a].dials[i] \in given
    BY DEF LostDigestHasACause
  <2>1. PICK i \in Digested(cells[a]) :
          cells[a].dials[i] # Text /\ cells[a].dials[i] \notin 0 .. TopDial
    BY DEF HasDigest
  <2>2. /\ Known(cells[a].dials, given) /\ Len(cells[a].dials) \in Nat
        /\ TopDial \in Nat /\ DigestDials \in Nat
    BY ApiAssumption DEF DialsInv, Known
  <2>3. i \in 1 .. Len(cells[a].dials)
    BY <2>1, <2>2 DEF Digested
  <2>4. cells[a].dials[i] \in Nat \/ cells[a].dials[i] \in given
    BY <2>1, <2>2, <2>3 DEF Known
  <2>5. cells[a].dials[i] \in Nat => cells[a].dials[i] > TopDial
    BY <2>1, <2>2
  <2> QED BY <2>1, <2>4, <2>5
<1> QED BY <1>1, <1>2, ApiInvStep, DialsStep, PTL DEF ApiSpec
=============================================================================
