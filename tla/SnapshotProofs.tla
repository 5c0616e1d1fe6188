--------------------------- MODULE SnapshotProofs ---------------------------
(***************************************************************************)
(* Proofs about the snapshots of src/quf.c, for every value of the         *)
(* constants: the rows of a live engine (EngineSnapshot.tla) and the file   *)
(* they travel in (Quf.tla).                                               *)
(***************************************************************************)
EXTENDS EngineSnapshot, Quf, EngineProofs, Induction

-----------------------------------------------------------------------------
(* Reduction to 16 bits lands in the range, and leaves what is there alone. *)
LEMMA Reduced ==
  ASSUME NEW i \in Int
  PROVE  Signed16(i) \in Int16 /\ (i \in Int16 => Signed16(i) = i)
<1> DEFINE m == (i + Half) % (2 * Half)
<1>1. 2 * Half \in Nat \ {0} /\ Half \in Nat \ {0}
  BY DialAssumption
<1>2. m \in 0 .. 2 * Half - 1
  BY <1>1
<1>3. ASSUME i \in Int16 PROVE m = i + Half
  <2>1. i + Half \in 0 .. 2 * Half - 1
    BY <1>1, <1>3 DEF Int16
  <2> QED BY <1>1, <2>1
<1> QED BY <1>1, <1>2, <1>3 DEF Signed16, Int16

LEMMA Halved ==
  ASSUME NEW n \in Int
  PROVE  /\ Toward0(n, 2) \in Int /\ Toward0(2 * n, 2) = n
         /\ n >= 0 => n - 2 * Toward0(n, 2) \in {0, 1} /\ Toward0(n, 2) >= 0
         /\ n < 0 => 2 * Toward0(n, 2) - n \in {0, 1} /\ Toward0(n, 2) <= 0
BY DEF Toward0

(* The conversion of a FLOAT to Q1.15 and back. *)
LEMMA FloatRoundTrip ==
  ASSUME NEW u \in Int, NEW q \in ToQ115(u)
  PROVE  /\ q \in Int16
         /\ u \in -2 * Half .. 2 * Half - 1 =>
              (IF u < 0 THEN 2 * q - u ELSE u - 2 * q) \in {0, 1}
         /\ u < -2 * Half => 2 * q = -2 * Half
<1> DEFINE h == Toward0(u, 2)
<1>0. Half \in Nat \ {0}
  BY DialAssumption
<1>1. /\ h \in Int
      /\ u >= 0 => u - 2 * h \in {0, 1} /\ h >= 0
      /\ u < 0 => 2 * h - u \in {0, 1} /\ h <= 0
  BY Halved
<1>2. q \in IF u >= 2 * Half THEN Int16 ELSE IF u < -2 * Half THEN {-Half} ELSE {h}
  BY DEF ToQ115
<1> HIDE DEF h
<1>3. CASE u >= 2 * Half
  BY <1>0, <1>2, <1>3 DEF Int16
<1>4. CASE u < -2 * Half
  BY <1>0, <1>2, <1>4 DEF Int16
<1>5. CASE u < 2 * Half /\ u >= -2 * Half
  <2>1. q = h
    BY <1>0, <1>2, <1>5
  <2> QED BY <1>0, <1>1, <1>5, <2>1 DEF Int16
<1> QED BY <1>0, <1>3, <1>4, <1>5

LEMMA FloatOfRow ==
  ASSUME NEW q \in Int16
  PROVE  ToQ115(FromQ115(q)) = {q}
<1>1. Half \in Nat \ {0} /\ q \in Int /\ q < Half /\ q >= -Half
  BY DialAssumption DEF Int16
<1>2. FromQ115(q) = 2 * q /\ ~(2 * q >= 2 * Half) /\ ~(2 * q < -2 * Half)
  BY <1>1 DEF FromQ115
<1> QED BY <1>1, <1>2, Halved DEF ToQ115

(* A value that went to a row and back is what a row can tell of it, and    *)
(* gives that row again.                                                   *)
LEMMA RoundTrip ==
  ASSUME NEW v \in DialValue, NEW r \in DialFromValue(v)
  PROVE  Restored(v, DialToValue(r)) /\ DialFromValue(DialToValue(r)) = {r}
<1>1. CASE v.t = "BOOL"
  <2>1. v.u \in {0, 1}
    BY <1>1 DEF DialValue
  <2>2. r = [tag |-> "BOOL", i16 |-> v.u]
    BY <1>1 DEF DialFromValue
  <2>3. DialToValue(r) = [t |-> "BOOL", u |-> v.u]
    BY <2>1, <2>2 DEF DialToValue
  <2> QED BY <1>1, <2>2, <2>3 DEF Restored, DialFromValue
<1>2. CASE v.t = "INT"
  <2>1. v.u \in Int
    BY <1>2 DEF DialValue
  <2>2. r = [tag |-> "INT", i16 |-> Signed16(v.u)]
    BY <1>2 DEF DialFromValue
  <2>3. DialToValue(r) = [t |-> "INT", u |-> Signed16(v.u)]
    BY <2>2 DEF DialToValue
  <2>4. Signed16(v.u) \in Int16 /\ Signed16(v.u) \in Int
        /\ (v.u \in Int16 => Signed16(v.u) = v.u)
    BY <2>1, Reduced, DialAssumption DEF Int16
  <2>5. Signed16(Signed16(v.u)) = Signed16(v.u)
    BY <2>4, Reduced
  <2>6. Restored(v, DialToValue(r))
    BY <1>2, <2>3, <2>4 DEF Restored
  <2>7. DialFromValue(DialToValue(r)) = {[tag |-> "INT", i16 |-> Signed16(Signed16(v.u))]}
    BY <2>3 DEF DialFromValue
  <2> QED BY <2>2, <2>5, <2>6, <2>7
<1>3. ASSUME v.t \in {"FLOAT", "NAN"},
             NEW q \in Int16, r = [tag |-> "FLOAT", i16 |-> q]
      PROVE  /\ DialToValue(r) = [t |-> "FLOAT", u |-> 2 * q]
             /\ DialFromValue(DialToValue(r)) = {r}
  <2>1. DialToValue(r) = [t |-> "FLOAT", u |-> FromQ115(q)]
    BY <1>3 DEF DialToValue
  <2>2. DialFromValue(DialToValue(r))
          = {[tag |-> "FLOAT", i16 |-> x] : x \in ToQ115(FromQ115(q))}
    BY <2>1 DEF DialFromValue
  <2>3. ToQ115(FromQ115(q)) = {q}
    BY <1>3, FloatOfRow
  <2> QED BY <1>3, <2>1, <2>2, <2>3 DEF FromQ115
<1>4. CASE v.t = "FLOAT"
  <2>1. v.u \in Int
    BY <1>4 DEF DialValue
  <2>2. PICK q \in ToQ115(v.u) : r = [tag |-> "FLOAT", i16 |-> q]
    BY <1>4 DEF DialFromValue
  <2>3. /\ q \in Int16
        /\ v.u \in -2 * Half .. 2 * Half - 1 =>
              (IF v.u < 0 THEN 2 * q - v.u ELSE v.u - 2 * q) \in {0, 1}
        /\ v.u < -2 * Half => 2 * q = -2 * Half
    BY <2>1, FloatRoundTrip
  <2>4. /\ DialToValue(r) = [t |-> "FLOAT", u |-> 2 * q]
        /\ DialFromValue(DialToValue(r)) = {r}
    BY <1>3, <1>4, <2>2, <2>3
  <2>5. DialToValue(r).t = "FLOAT" /\ DialToValue(r).u = 2 * q
    BY <2>4
  <2>6. Restored(v, DialToValue(r))
    BY <1>4, <2>3, <2>5 DEF Restored
  <2> QED BY <2>4, <2>6
<1>5. CASE v.t = "NAN"
  <2>1. PICK q \in Int16 : r = [tag |-> "FLOAT", i16 |-> q]
    BY <1>5 DEF DialFromValue
  <2>2. /\ DialToValue(r) = [t |-> "FLOAT", u |-> 2 * q]
        /\ DialFromValue(DialToValue(r)) = {r}
    BY <1>3, <1>5, <2>1
  <2> QED BY <1>5, <2>2 DEF Restored
<1>6. CASE v.t \in {"NULL", "STR"}
  <2>1. r = [tag |-> v.t, i16 |-> 0]
    BY <1>6 DEF DialFromValue
  <2>2. DialToValue(r) = [t |-> v.t, u |-> 0]
    BY <1>6, <2>1 DEF DialToValue
  <2> QED BY <1>6, <2>1, <2>2 DEF Restored, DialFromValue
<1>7. v.t \in {"BOOL", "INT", "FLOAT", "NAN", "NULL", "STR"}
  BY DEF DialValue
<1> QED BY <1>1, <1>2, <1>4, <1>5, <1>6, <1>7

-----------------------------------------------------------------------------
(* The invariant: the rows are those of the saved values; the ids of        *)
(* `restored` are live, and their cells hold what some row gave back; and   *)
(* while no cell is forgotten the rows keep their places, a restored cell   *)
(* with a row holding what that row gives back.                            *)
RowsOfSaved ==
  /\ rows \in Seq(UNION {DialFromValue(v) : v \in Value})
  /\ DOMAIN saved = DOMAIN rows
  /\ \A i \in DOMAIN rows :
       saved[i].value \in Value /\ rows[i] \in DialFromValue(saved[i].value)

Given(value) == \E v \in Value : \E r \in DialFromValue(v) : value = DialToValue(r)

RestoredHold ==
  /\ restored \subseteq Live
  /\ \A i \in DOMAIN cells : cells[i].id \in restored => Given(cells[i].value)

InPlace ==
  steady =>
    /\ Len(rows) <= Len(cells)
    /\ \A i \in DOMAIN rows :
         /\ cells[i].id = saved[i].id
         /\ saved[i].id \in restored => cells[i].value = DialToValue(rows[i])

SnapInv == EngineInv /\ RowsOfSaved /\ RestoredHold /\ InPlace

LEMMA SnapInvRestores == SnapInv => RestoresTheSaved
<1> SUFFICES ASSUME SnapInv, steady, NEW i \in DOMAIN saved, saved[i].id \in restored
             PROVE  /\ cells[i].id = saved[i].id
                    /\ Restored(saved[i].value, cells[i].value)
                    /\ DialFromValue(cells[i].value) = {rows[i]}
  BY DEF RestoresTheSaved
<1>1. /\ i \in DOMAIN rows /\ saved[i].value \in DialValue
      /\ rows[i] \in DialFromValue(saved[i].value)
  BY SnapshotAssumption DEF SnapInv, RowsOfSaved
<1>2. cells[i].id = saved[i].id /\ cells[i].value = DialToValue(rows[i])
  BY <1>1 DEF SnapInv, InPlace
<1>3. /\ Restored(saved[i].value, DialToValue(rows[i]))
      /\ DialFromValue(DialToValue(rows[i])) = {rows[i]}
  BY <1>1, RoundTrip
<1> QED BY <1>2, <1>3

LEMMA RowPlaces ==
  ASSUME SnapInv
  PROVE  /\ DOMAIN rows = 1 .. Len(rows) /\ Len(rows) \in Nat
         /\ DOMAIN cells = 1 .. Len(cells) /\ Len(cells) \in 0 .. Cap
  BY LenProperties, ConstantsAssumption DEF SnapInv, RowsOfSaved, EngineInv, TypeOK

(* A host saves: each cell that was restored gives back its old row. *)
LEMMA SaveKeeps ==
  ASSUME SnapInv, Save
  PROVE  SnapInv'
<1> DEFINE Possible(i) == DialFromValue(cells[i].value)
           Fitting == UNION {Possible(i) : i \in DOMAIN cells}
<1>1. /\ rows' \in [DOMAIN cells -> Fitting] /\ \A i \in DOMAIN cells : rows'[i] \in Possible(i)
      /\ saved' = [i \in DOMAIN cells |-> [id |-> cells[i].id, value |-> cells[i].value]]
      /\ steady' = TRUE /\ UNCHANGED <<vars, restored>>
  BY DEF Save
<1>2. DOMAIN cells = 1 .. Len(cells) /\ Len(cells) \in Nat
  BY RowPlaces
<1>3. \A i \in DOMAIN cells : cells[i].value \in Value
  BY CellInArray DEF SnapInv, EngineInv, Cell
<1>4. EngineInv' /\ RestoredHold'
  BY <1>1 DEF SnapInv, vars, EngineInv, TypeOK, UniqueIds, RestoredHold, Live
<1>5. rows' \in Seq(UNION {DialFromValue(v) : v \in Value})
  <2>1. rows' \in [1 .. Len(cells) -> UNION {DialFromValue(v) : v \in Value}]
    BY <1>1, <1>2, <1>3
  <2> QED BY <1>2, <2>1, SeqDef
<1>6. RowsOfSaved'
  BY <1>1, <1>3, <1>5 DEF RowsOfSaved
<1>7. Len(rows') = Len(cells)
  <2>1. /\ DOMAIN rows' = 1 .. Len(rows') /\ Len(rows') \in Nat
    BY <1>5, LenProperties
  <2>2. 1 .. Len(rows') = 1 .. Len(cells)
    BY <1>1, <1>2, <2>1, Zenon
  <2> QED BY <1>2, <2>1, <2>2, IntervalEnd
<1>8. ASSUME NEW i \in DOMAIN rows', saved'[i].id \in restored'
      PROVE  cells'[i].value = DialToValue(rows'[i])
  <2>1. i \in DOMAIN cells /\ saved'[i].id = cells[i].id /\ cells' = cells
        /\ rows'[i] \in DialFromValue(cells[i].value)
    BY <1>1, <1>8 DEF vars
  <2>2. PICK v \in Value : \E r \in DialFromValue(v) : cells[i].value = DialToValue(r)
    BY <1>1, <1>8, <2>1 DEF SnapInv, RestoredHold, Given
  <2>3. PICK r \in DialFromValue(v) : cells[i].value = DialToValue(r)
    BY <2>2
  <2>4. DialFromValue(DialToValue(r)) = {r}
    BY RoundTrip, SnapshotAssumption
  <2> QED BY <2>1, <2>3, <2>4
<1>9. InPlace'
  <2>1. Len(rows') <= Len(cells') /\ DOMAIN rows' = DOMAIN cells
    BY <1>1, <1>2, <1>7 DEF vars
  <2>2. ASSUME NEW i \in DOMAIN rows' PROVE cells'[i].id = saved'[i].id
    BY <1>1, <2>1, <2>2 DEF vars
  <2> QED BY <1>8, <2>1, <2>2 DEF InPlace
<1> QED BY <1>4, <1>6, <1>9 DEF SnapInv

-----------------------------------------------------------------------------
(* op_bind rewrites the cells that have a row. *)
LEMMA OpBindCells ==
  ASSUME SnapInv, OpBind
  PROVE  /\ EngineInv' /\ DOMAIN cells' = DOMAIN cells /\ Len(cells') = Len(cells)
         /\ Live' = Live
         /\ \A i \in DOMAIN cells : cells'[i].id = cells[i].id
         /\ \A i \in DOMAIN rows :
              /\ i \in DOMAIN cells /\ Given(DialToValue(rows[i]))
              /\ cells'[i].value = DialToValue(rows[i])
              /\ cells'[i].version = cells[i].version + 1
         /\ \A i \in DOMAIN cells \ DOMAIN rows : cells'[i] = cells[i]
<1>1. /\ Len(rows) <= Len(cells)
      /\ cells' = [i \in DOMAIN cells |-> IF i \in DOMAIN rows THEN Bound(i) ELSE cells[i]]
      /\ UNCHANGED <<links, tick, journal, journal_len, pos>>
  BY DEF OpBind
<1>2. /\ DOMAIN rows = 1 .. Len(rows) /\ Len(rows) \in Nat
      /\ DOMAIN cells = 1 .. Len(cells) /\ Len(cells) \in Nat
  BY RowPlaces
<1>3. DOMAIN rows \subseteq DOMAIN cells
  BY <1>1, <1>2
<1>4. \A i \in DOMAIN cells : cells[i] \in Cell
  BY CellInArray DEF SnapInv, EngineInv
<1>5. ASSUME NEW i \in DOMAIN rows
      PROVE  DialToValue(rows[i]) \in Value /\ Given(DialToValue(rows[i]))
  BY SnapshotAssumption DEF SnapInv, RowsOfSaved, Given
<1>6. ASSUME NEW i \in DOMAIN rows
      PROVE  /\ Bound(i) \in Cell /\ Bound(i).id = cells[i].id
             /\ Bound(i).value = DialToValue(rows[i])
             /\ Bound(i).version = cells[i].version + 1
  BY <1>3, <1>4, <1>5, RewrittenCell DEF Bound
<1>7. cells' \in [1 .. Len(cells) -> Cell]
  BY <1>1, <1>2, <1>4, <1>6
<1>8. cells' \in Seq(Cell) /\ DOMAIN cells' = DOMAIN cells
  BY <1>1, <1>2, <1>7, SeqDef
<1>9. Len(cells') = Len(cells)
  <2>1. DOMAIN cells' = 1 .. Len(cells') /\ Len(cells') \in Nat
    BY <1>8, LenProperties
  <2>2. 1 .. Len(cells') = 1 .. Len(cells)
    BY <1>2, <1>8, <2>1, Zenon
  <2> QED BY <1>2, <2>1, <2>2, IntervalEnd
<1>10. /\ \A i \in DOMAIN cells : cells'[i].id = cells[i].id
       /\ \A i \in DOMAIN cells \ DOMAIN rows : cells'[i] = cells[i]
       /\ \A i \in DOMAIN rows :
            cells'[i].value = DialToValue(rows[i]) /\ cells'[i].version = cells[i].version + 1
  BY <1>1, <1>3, <1>6
<1>11. Live' = Live /\ UniqueIds'
  BY <1>8, <1>10 DEF Live, UniqueIds, SnapInv, EngineInv
<1>12. TypeOK'
  BY <1>1, <1>8, <1>9 DEF SnapInv, EngineInv, TypeOK
<1> QED BY <1>3, <1>5, <1>8, <1>9, <1>10, <1>11, <1>12 DEF EngineInv

LEMMA OpBindKeeps ==
  ASSUME SnapInv, OpBind
  PROVE  SnapInv'
<1>1. /\ EngineInv' /\ DOMAIN cells' = DOMAIN cells /\ Len(cells') = Len(cells)
      /\ Live' = Live
      /\ \A i \in DOMAIN cells : cells'[i].id = cells[i].id
      /\ \A i \in DOMAIN rows :
              /\ i \in DOMAIN cells /\ Given(DialToValue(rows[i]))
              /\ cells'[i].value = DialToValue(rows[i])
      /\ \A i \in DOMAIN cells \ DOMAIN rows : cells'[i] = cells[i]
  BY OpBindCells
<1>2. /\ restored' = {cells[i].id : i \in DOMAIN rows}
                       \cup {id \in restored : IndexOf(id) > Len(rows)}
      /\ UNCHANGED <<rows, saved, steady>>
  BY DEF OpBind
<1>3. RowsOfSaved'
  BY <1>2 DEF SnapInv, RowsOfSaved
<1>4. RestoredHold'
  <2>1. restored' \subseteq Live'
    BY <1>1, <1>2 DEF SnapInv, RestoredHold, Live
  <2>2. ASSUME NEW i \in DOMAIN cells', cells'[i].id \in restored'
        PROVE  Given(cells'[i].value)
    <3>1. CASE i \in DOMAIN rows
      BY <1>1, <3>1
    <3>2. CASE i \notin DOMAIN rows
      <4>1. i \in DOMAIN cells /\ cells'[i] = cells[i]
        BY <1>1, <3>2
      <4>2. cells[i].id \notin {cells[k].id : k \in DOMAIN rows}
        BY <1>1, <3>2, <4>1 DEF SnapInv, EngineInv, UniqueIds
      <4>3. cells[i].id \in restored
        BY <1>2, <2>2, <4>1, <4>2
      <4> QED BY <4>1, <4>3 DEF SnapInv, RestoredHold
    <3> QED BY <3>1, <3>2
  <2> QED BY <2>1, <2>2 DEF RestoredHold, Given
<1>5. InPlace'
  <2> SUFFICES ASSUME steady
               PROVE  /\ Len(rows) <= Len(cells)
                      /\ \A i \in DOMAIN rows :
                           /\ cells'[i].id = saved[i].id
                           /\ cells'[i].value = DialToValue(rows[i])
    BY <1>1, <1>2 DEF InPlace
  <2> QED BY <1>1 DEF SnapInv, InPlace
<1> QED BY <1>1, <1>3, <1>4, <1>5 DEF SnapInv

-----------------------------------------------------------------------------
(* A change of one cell by the engine itself. *)
LEMMA ElsewhereHolds ==
  ASSUME SnapInv, NEW touched, Elsewhere(touched), Live \ {touched} \subseteq Live',
         \A k \in DOMAIN cells' :
           cells'[k].id = touched \/ \E m \in DOMAIN cells : cells'[k] = cells[m]
  PROVE  RowsOfSaved' /\ RestoredHold'
<1>1. restored' = restored \ {touched} /\ UNCHANGED <<rows, saved>>
  BY DEF Elsewhere, Host
<1>2. RowsOfSaved'
  BY <1>1 DEF SnapInv, RowsOfSaved
<1>3. restored' \subseteq Live'
  BY <1>1 DEF SnapInv, RestoredHold
<1>4. ASSUME NEW k \in DOMAIN cells', cells'[k].id \in restored'
      PROVE  Given(cells'[k].value)
  <2>1. PICK m \in DOMAIN cells : cells'[k] = cells[m]
    BY <1>1, <1>4
  <2> QED BY <1>1, <1>4, <2>1 DEF SnapInv, RestoredHold
<1> QED BY <1>2, <1>3, <1>4 DEF RestoredHold, Given

LEMMA BindNewKeeps ==
  ASSUME SnapInv, NEW id \in Id, NEW v \in Value, BindNew(id, v), Elsewhere(id),
         UNCHANGED steady
  PROVE  SnapInv'
<1> DEFINE c == [id |-> id, value |-> v, version |-> 1,
                 eval |-> NoFormula, reads |-> << >>]
<1>1. c \in Cell /\ c.id = id
  BY DEF Cell
<1>2. cells' = Append(cells, c) /\ id \notin Live /\ Len(cells) < Cap
  BY DEF BindNew
<1> HIDE DEF c
<1>3. /\ Len(cells') = Len(cells) + 1
      /\ cells' \in Seq(Cell)
      /\ \A i \in DOMAIN cells : i \in DOMAIN cells' /\ cells'[i] = cells[i]
      /\ Live' = Live \cup {id}
  BY <1>1, <1>2, AppendCell DEF SnapInv, EngineInv
<1>4. EngineInv'
  BY ShapeStep DEF SnapInv, Next
<1>5. /\ DOMAIN rows = 1 .. Len(rows) /\ Len(rows) \in Nat
      /\ DOMAIN cells = 1 .. Len(cells) /\ Len(cells) \in Nat
      /\ DOMAIN cells' = 1 .. Len(cells) + 1
  BY <1>3, RowPlaces, LenProperties
<1>6. cells'[Len(cells) + 1] = c
  BY <1>2, <1>5 DEF SnapInv, EngineInv, TypeOK
<1>7. ASSUME NEW k \in DOMAIN cells'
      PROVE  cells'[k].id = id \/ \E m \in DOMAIN cells : cells'[k] = cells[m]
  <2>1. CASE k = Len(cells) + 1
    BY <1>1, <1>6, <2>1
  <2>2. CASE k # Len(cells) + 1
    BY <1>3, <1>5, <2>2
  <2> QED BY <2>1, <2>2
<1>8. RowsOfSaved' /\ RestoredHold'
  BY <1>3, <1>7, ElsewhereHolds
<1>9. InPlace'
  <2>1. restored' \subseteq restored /\ UNCHANGED <<rows, saved, steady>>
    BY DEF Elsewhere, Host
  <2> SUFFICES ASSUME steady
               PROVE  /\ Len(rows) <= Len(cells')
                      /\ \A i \in DOMAIN rows :
                           /\ cells'[i].id = saved[i].id
                           /\ saved[i].id \in restored => cells'[i].value = DialToValue(rows[i])
    BY <2>1 DEF InPlace
  <2>2. Len(rows) <= Len(cells)
    BY DEF SnapInv, InPlace
  <2>3. ASSUME NEW i \in DOMAIN rows PROVE i \in DOMAIN cells /\ cells'[i] = cells[i]
    BY <1>3, <1>5, <2>2
  <2> QED BY <1>3, <1>5, <2>2, <2>3 DEF SnapInv, InPlace
<1> QED BY <1>4, <1>8, <1>9 DEF SnapInv

LEMMA RebindKeeps ==
  ASSUME SnapInv, NEW i \in DOMAIN cells, NEW v \in Value, Rebind(i, v),
         Elsewhere(cells[i].id), UNCHANGED steady
  PROVE  SnapInv'
<1>1. /\ Len(cells') = Len(cells) /\ DOMAIN cells' = DOMAIN cells /\ Live' = Live
      /\ \A k \in DOMAIN cells : cells'[k].id = cells[k].id
      /\ \A k \in DOMAIN cells \ {i} : cells'[k] = cells[k]
  BY UpdateCell DEF SnapInv, EngineInv, Rebind
<1>2. EngineInv'
  BY ShapeStep DEF SnapInv, Next
<1>3. RowsOfSaved' /\ RestoredHold'
  BY <1>1, ElsewhereHolds
<1>4. InPlace'
  <2>1. restored' = restored \ {cells[i].id} /\ UNCHANGED <<rows, saved, steady>>
    BY DEF Elsewhere, Host
  <2> SUFFICES ASSUME steady
               PROVE  /\ Len(rows) <= Len(cells')
                      /\ \A k \in DOMAIN rows :
                           /\ cells'[k].id = saved[k].id
                           /\ saved[k].id \in restored' => cells'[k].value = DialToValue(rows[k])
    BY <2>1 DEF InPlace
  <2>2. DOMAIN rows \subseteq DOMAIN cells
    BY RowPlaces DEF SnapInv, InPlace
  <2>3. ASSUME NEW k \in DOMAIN rows, saved[k].id \in restored'
        PROVE  cells'[k].value = DialToValue(rows[k])
    <3>1. k # i
      BY <2>1, <2>3 DEF SnapInv, InPlace
    <3> QED BY <1>1, <2>1, <2>2, <2>3, <3>1 DEF SnapInv, InPlace
  <2> QED BY <1>1, <2>2, <2>3 DEF SnapInv, InPlace
<1> QED BY <1>2, <1>3, <1>4 DEF SnapInv

LEMMA ForgetKeeps ==
  ASSUME SnapInv, NEW i \in DOMAIN cells, Forget(i), Elsewhere(cells[i].id), steady' = FALSE
  PROVE  SnapInv'
<1>1. /\ DOMAIN cells' = 1 .. Len(cells) - 1
      /\ \A k \in DOMAIN cells' : cells'[k] = IF k < i THEN cells[k] ELSE cells[k + 1]
      /\ Live' = Live \ {cells[i].id}
  BY RemoveCell DEF SnapInv, EngineInv, Forget
<1>2. EngineInv'
  BY ShapeStep DEF SnapInv, Next
<1>3. DOMAIN cells = 1 .. Len(cells) /\ Len(cells) \in Nat
  BY RowPlaces
<1>4. ASSUME NEW k \in DOMAIN cells'
      PROVE  \E m \in DOMAIN cells : cells'[k] = cells[m]
  <2>1. k \in DOMAIN cells /\ k + 1 \in DOMAIN cells
    BY <1>1, <1>3
  <2> QED BY <1>1, <2>1
<1>5. RowsOfSaved' /\ RestoredHold'
  BY <1>1, <1>4, ElsewhereHolds
<1>6. InPlace'
  BY DEF InPlace
<1> QED BY <1>2, <1>5, <1>6 DEF SnapInv

LEMMA SnapInvInit == SnapshotInit => SnapInv
<1> SUFFICES ASSUME SnapshotInit PROVE SnapInv
  OBVIOUS
<1>1. EngineInv
  BY ShapeInit DEF SnapshotInit
<1>2. rows = << >> /\ saved = << >> /\ restored = {} /\ cells = << >>
  BY DEF SnapshotInit, Init
<1>3. RowsOfSaved /\ RestoredHold /\ InPlace
  BY <1>2 DEF RowsOfSaved, RestoredHold, InPlace
<1> QED BY <1>1, <1>3 DEF SnapInv

LEMMA SnapInvStep == SnapInv /\ [SnapshotNext]_snapshotVars => SnapInv'
<1> SUFFICES ASSUME SnapInv, [SnapshotNext]_snapshotVars PROVE SnapInv'
  OBVIOUS
<1>0. Bindable \subseteq Value
  BY SnapshotAssumption
<1>1. ASSUME NEW id \in Id, NEW v \in Bindable, BindNew(id, v), Elsewhere(id), UNCHANGED steady
      PROVE  SnapInv'
  BY <1>0, <1>1, BindNewKeeps
<1>2. ASSUME NEW i \in DOMAIN cells, NEW v \in Bindable, Rebind(i, v),
             Elsewhere(cells[i].id), UNCHANGED steady
      PROVE  SnapInv'
  BY <1>0, <1>2, RebindKeeps
<1>3. ASSUME NEW i \in DOMAIN cells, Forget(i), Elsewhere(cells[i].id), steady' = FALSE
      PROVE  SnapInv'
  BY <1>3, ForgetKeeps
<1>4. CASE UNCHANGED snapshotVars
  BY <1>4 DEF SnapInv, snapshotVars, vars, EngineInv, TypeOK, UniqueIds, RowsOfSaved,
              RestoredHold, InPlace, Live
<1> QED BY <1>1, <1>2, <1>3, <1>4, SaveKeeps, OpBindKeeps DEF SnapshotNext

LEMMA SnapInvAlways == SnapshotSpec => []SnapInv
BY SnapInvInit, SnapInvStep, PTL DEF SnapshotSpec

(* As long as nothing was forgotten since the save, a cell op_bind restored *)
(* and nobody changed since is the one the row was saved from, holds what a *)
(* row can tell of the saved value, and would be saved as the same row.     *)
THEOREM RestoresTheSavedCorrect == SnapshotSpec => []RestoresTheSaved
BY SnapInvAlways, SnapInvRestores, PTL

-----------------------------------------------------------------------------
(* The journal and op_bind.  An entry about a cell says its version; each   *)
(* op_bind adds one to the version and one to what the journal is behind.   *)
JournalInv == unlogged \in [Id -> Nat] /\ JournalTrailsRestores

Behind(id) == VersionOf(id) - unlogged[id]

LEMMA TrailStep ==
  ASSUME TypeOK, JournalTrailsRestores,
         NEW op \in {"BIND", "FORGET"}, NEW who \in Id, NEW arg \in Nat,
         JournalAppend(op, who, arg),
         \A id \in Id : Behind(id)' = IF id = who THEN arg ELSE Behind(id)
  PROVE  JournalTrailsRestores'
<1> SUFFICES ASSUME JournalHasRoom', NEW id \in Id
             PROVE  LastSays(journal', About(journal', id), Behind(id)')
  BY DEF JournalTrailsRestores, Behind
<1> DEFINE e == [op |-> op, id |-> who, arg |-> arg]
<1>1. JournalHasRoom /\ journal' = Append(journal, e)
  BY RoomTaken
<1>2. e \in Entry /\ journal \in Seq(Entry) /\ e.op = op /\ e.id = who /\ e.arg = arg
  BY DEF Entry, TypeOK
<1>3. LastSays(journal, About(journal, id), Behind(id))
  BY <1>1 DEF JournalTrailsRestores, Behind
<1> HIDE DEF e
<1>4. /\ e.id = id /\ e.op # "LINK" => LastSays(journal', About(journal', id), e.arg)
      /\ \A v : ~(e.id = id /\ e.op # "LINK") /\ LastSays(journal, About(journal, id), v)
                  => LastSays(journal', About(journal', id), v)
  BY <1>1, <1>2, AppendedReplay
<1>5. CASE id = who
  BY <1>2, <1>4, <1>5
<1>6. CASE id # who
  <2>1. Behind(id)' = Behind(id)
    BY <1>6
  <2>2. e.id # id
    BY <1>2, <1>6
  <2> QED BY <1>3, <1>4, <2>1, <2>2
<1> QED BY <1>5, <1>6

(* The engine's own changes of a cell: the entry gives the new version. *)
LEMMA LoggedChange ==
  ASSUME SnapInv, JournalInv, NEW op \in {"BIND", "FORGET"}, NEW who \in Id, NEW arg \in Nat,
         JournalAppend(op, who, arg), Elsewhere(who),
         \A id \in Id : VersionOf(id)' = IF id = who THEN arg ELSE VersionOf(id)
  PROVE  JournalInv'
<1>1. unlogged' = [unlogged EXCEPT ![who] = 0] /\ unlogged \in [Id -> Nat]
  BY DEF Elsewhere, JournalInv
<1>2. unlogged' \in [Id -> Nat]
  BY <1>1
<1>3. ASSUME NEW id \in Id PROVE Behind(id)' = IF id = who THEN arg ELSE Behind(id)
  <2>1. CASE id = who
    <3>1. VersionOf(id)' = arg /\ unlogged'[id] = 0
      BY <1>1, <2>1
    <3> QED BY <2>1, <3>1 DEF Behind
  <2>2. CASE id # who
    <3>1. VersionOf(id)' = VersionOf(id) /\ unlogged'[id] = unlogged[id]
      BY <1>1, <2>2
    <3> QED BY <2>2, <3>1 DEF Behind
  <2> QED BY <2>1, <2>2
<1> QED BY <1>2, <1>3, TrailStep DEF SnapInv, EngineInv, JournalInv

(* op_bind itself: the journal stays as far behind as it was, plus one. *)
LEMMA OpBindTrails ==
  ASSUME SnapInv, JournalInv, OpBind
  PROVE  JournalInv'
<1>1. /\ UniqueIds /\ UniqueIds' /\ DOMAIN cells' = DOMAIN cells
      /\ Live' = Live
      /\ \A i \in DOMAIN cells : cells'[i].id = cells[i].id
      /\ \A i \in DOMAIN rows : cells'[i].version = cells[i].version + 1
      /\ \A i \in DOMAIN cells \ DOMAIN rows : cells'[i] = cells[i]
  BY OpBindCells DEF EngineInv, SnapInv
<1>2. /\ unlogged' = [id \in Id |->
           unlogged[id] + IF id \in Live /\ IndexOf(id) \in DOMAIN rows THEN 1 ELSE 0]
      /\ UNCHANGED <<journal, journal_len>>
  BY DEF OpBind
<1>3. unlogged \in [Id -> Nat] /\ unlogged' \in [Id -> Nat]
  BY <1>2 DEF JournalInv
<1>4. ASSUME NEW id \in Id PROVE Behind(id)' = Behind(id)
  <2>1. CASE id \in Live
    <3>1. PICK i \in DOMAIN cells : cells[i].id = id
      BY <2>1 DEF Live
    <3>2. IndexOf(id) = i /\ IndexOf(id)' = i
      BY <1>1, <3>1 DEF IndexOf, UniqueIds
    <3>3. VersionOf(id) = cells[i].version /\ VersionOf(id)' = cells'[i].version
      BY <1>1, <2>1, <3>2 DEF VersionOf
    <3>4. cells[i].version \in Nat /\ unlogged[id] \in Nat
      BY <1>3, CellInArray DEF SnapInv, EngineInv, Cell
    <3>5. CASE i \in DOMAIN rows
      <4>1. cells'[i].version = cells[i].version + 1 /\ unlogged'[id] = unlogged[id] + 1
        BY <1>1, <1>2, <2>1, <3>2, <3>5
      <4> QED BY <3>3, <3>4, <4>1 DEF Behind
    <3>6. CASE i \notin DOMAIN rows
      <4>1. cells'[i].version = cells[i].version /\ unlogged'[id] = unlogged[id]
        BY <1>1, <1>2, <2>1, <3>2, <3>4, <3>6
      <4> QED BY <3>3, <4>1 DEF Behind
    <3> QED BY <3>5, <3>6
  <2>2. CASE id \notin Live
    <3>1. unlogged'[id] = unlogged[id]
      BY <1>2, <1>3, <2>2
    <3> QED BY <1>1, <2>2, <3>1 DEF Behind, VersionOf
  <2> QED BY <2>1, <2>2
<1>5. JournalTrailsRestores'
  BY <1>2, <1>4 DEF JournalInv, JournalTrailsRestores, JournalHasRoom, Behind
<1> QED BY <1>3, <1>5 DEF JournalInv

LEMMA SilentTrails ==
  ASSUME JournalInv, UNCHANGED <<vars, unlogged>>
  PROVE  JournalInv'
BY DEF vars, JournalInv, JournalTrailsRestores, JournalHasRoom, VersionOf, Live, IndexOf

LEMMA JournalInvStep == SnapInv /\ JournalInv /\ [SnapshotNext]_snapshotVars => JournalInv'
<1> SUFFICES ASSUME SnapInv, JournalInv, [SnapshotNext]_snapshotVars PROVE JournalInv'
  OBVIOUS
<1>0. Bindable \subseteq Value /\ EngineInv
  BY SnapshotAssumption DEF SnapInv
<1>1. ASSUME NEW id \in Id, NEW v \in Value, BindNew(id, v), Elsewhere(id)
      PROVE  JournalInv'
  <2> DEFINE c == [id |-> id, value |-> v, version |-> 1,
                   eval |-> NoFormula, reads |-> << >>]
  <2>1. c \in Cell /\ c.id = id /\ c.value = v /\ c.version = 1
    BY DEF Cell
  <2>2. /\ cells' = Append(cells, c) /\ id \notin Live /\ Len(cells) < Cap
        /\ UNCHANGED tick /\ JournalAppend("BIND", id, 1)
    BY <1>1 DEF BindNew
  <2> HIDE DEF c
  <2>3. CS!Create(id, v, 1)
    BY <1>0, <2>1, <2>2, AppendMapsToCreate
  <2>4. \A x \in Id : VersionOf(x)' = IF x = id THEN 1 ELSE VersionOf(x)
    BY <2>3, CreateVersion
  <2> QED BY <1>1, <2>2, <2>4, LoggedChange
<1>2. ASSUME NEW i \in DOMAIN cells, NEW v \in Value, Rebind(i, v), Elsewhere(cells[i].id)
      PROVE  JournalInv'
  <2>1. /\ cells[i].id \in Id /\ cells[i].version + 1 \in Nat
        /\ cells[i].id \in DOMAIN Store /\ VersionOf(cells[i].id) = cells[i].version
    BY <1>0, CellVersion
  <2>2. CS!Update(cells[i].id, v)
    BY <1>0, <1>2, RewriteMapsToUpdate DEF Rebind
  <2>3. \A x \in Id : VersionOf(x)' = IF x = cells[i].id THEN cells[i].version + 1
                                      ELSE VersionOf(x)
    BY <2>1, <2>2, UpdateVersion
  <2>4. JournalAppend("BIND", cells[i].id, cells[i].version + 1)
    BY <1>2 DEF Rebind
  <2> QED BY <1>2, <2>1, <2>3, <2>4, LoggedChange
<1>3. ASSUME NEW i \in DOMAIN cells, Forget(i), Elsewhere(cells[i].id)
      PROVE  JournalInv'
  <2>1. /\ cells' = Without(i) /\ UNCHANGED tick /\ JournalAppend("FORGET", cells[i].id, 0)
    BY <1>3 DEF Forget
  <2>2. cells[i].id \in Id
    BY <1>0, CellVersion
  <2>3. CS!Remove(cells[i].id)
    BY <1>0, <2>1, WithoutMapsToRemove
  <2>4. \A x \in Id : VersionOf(x)' = IF x = cells[i].id THEN 0 ELSE VersionOf(x)
    BY <2>2, <2>3, RemoveVersion
  <2> QED BY <1>3, <2>1, <2>2, <2>4, LoggedChange
<1>4. CASE Save
  BY <1>4, SilentTrails DEF Save
<1>5. CASE UNCHANGED snapshotVars
  BY <1>5, SilentTrails DEF snapshotVars
<1> QED BY <1>0, <1>1, <1>2, <1>3, <1>4, <1>5, OpBindTrails DEF SnapshotNext

(* A journal that has dropped nothing is wrong about a version by exactly   *)
(* the op_binds since its last entry about the cell.                       *)
THEOREM JournalTrailsRestoresCorrect == SnapshotSpec => []JournalTrailsRestores
<1>1. SnapshotInit => JournalInv
  <2> SUFFICES ASSUME SnapshotInit PROVE JournalInv
    OBVIOUS
  <2>1. cells = << >> /\ journal = << >> /\ unlogged = [id \in Id |-> 0]
    BY DEF SnapshotInit, Init
  <2>2. Live = {} /\ \A id : About(journal, id) = {}
    BY <2>1 DEF Live, About
  <2> QED BY <2>1, <2>2 DEF JournalInv, JournalTrailsRestores, LastSays, VersionOf
<1>2. JournalInv => JournalTrailsRestores
  BY DEF JournalInv
<1> QED BY <1>1, <1>2, SnapInvAlways, JournalInvStep, PTL DEF SnapshotSpec

-----------------------------------------------------------------------------
(* The layout of a file.  Padding is what makes the offsets add up.         *)
LEMMA Padding ==
  ASSUME NEW n \in Nat
  PROVE  /\ AlignUp(n) \in Nat /\ AlignUp(n) % Align = 0
         /\ n <= AlignUp(n) /\ AlignUp(n) < n + Align
         /\ (AlignUp(n) = 0 <=> n = 0)
         /\ n % Align = 0 => AlignUp(n) = n
BY DEF AlignUp, Align

LEMMA PaddingAfter ==
  ASSUME NEW n \in Nat, NEW m \in Nat, n % Align = 0
  PROVE  AlignUp(n + m) = n + AlignUp(m) /\ (n + AlignUp(m)) % Align = 0
BY DEF AlignUp, Align

LEMMA Products ==
  ASSUME NEW m \in Nat, NEW n \in Nat
  PROVE  m * n \in Nat /\ (n # 0 => (m * n = 0 <=> m = 0))
OBVIOUS

(* The sections of a file: three or four, of different names. *)
LEMMA SectionList ==
  ASSUME NEW s \in ShapeType
  PROVE  LET names == SectionNames(s) IN
         /\ names \in Seq(Name) /\ DOMAIN names = 1 .. Len(names)
         /\ Len(names) = IF s.proof = Null THEN 3 ELSE 4
         /\ names[1] = "dials" /\ names[2] = "edges" /\ names[3] = "ticks"
         /\ s.proof # Null => names[4] = "proof"
<1>1. CASE s.proof = Null
  BY <1>1 DEF SectionNames, Name
<1>2. CASE s.proof # Null
  BY <1>2 DEF SectionNames, Name
<1> QED BY <1>1, <1>2

LEMMA SectionNameSet ==
  ASSUME NEW s \in ShapeType
  PROVE  ToSet(SectionNames(s))
           = {"dials", "edges", "ticks"} \cup IF s.proof = Null THEN {} ELSE {"proof"}
<1> DEFINE names == SectionNames(s)
<1>1. /\ DOMAIN names = IF s.proof = Null THEN 1 .. 3 ELSE 1 .. 4
      /\ names[1] = "dials" /\ names[2] = "edges" /\ names[3] = "ticks"
      /\ s.proof # Null => names[4] = "proof"
  BY SectionList
<1> HIDE DEF names
<1>2. CASE s.proof = Null
  <2>1. DOMAIN names = {1, 2, 3}
    BY <1>1, <1>2
  <2> QED BY <1>1, <1>2, <2>1 DEF ToSet, names
<1>3. CASE s.proof # Null
  <2>1. DOMAIN names = {1, 2, 3, 4}
    BY <1>1, <1>3
  <2> QED BY <1>1, <1>3, <2>1 DEF ToSet, names
<1> QED BY <1>2, <1>3

Idle(s) == s.cells = 0 /\ s.edges = 0 /\ s.proof \in {Null, 0}

LEMMA SectionSizes ==
  ASSUME NEW s \in ShapeType
  PROVE  /\ Size(s, "dials") \in Nat /\ Size(s, "edges") \in Nat /\ Size(s, "ticks") \in Nat
         /\ s.proof # Null => Size(s, "proof") \in Nat
         /\ \A name \in ToSet(SectionNames(s)) : name \in Name /\ Size(s, name) \in Nat
         /\ Idle(s) <=> \A name \in ToSet(SectionNames(s)) : Size(s, name) = 0
<1> DEFINE names == SectionNames(s)
<1>1. /\ s.cells \in Nat /\ s.edges \in Nat /\ EdgeRow(s.k) \in Nat /\ EdgeRow(s.k) # 0
      /\ (s.proof = Null \/ s.proof \in Nat)
  BY QufAssumption DEF ShapeType, EdgeRow, EdgeFixed
<1>2. /\ Size(s, "dials") = s.cells * 32 /\ Size(s, "edges") = s.edges * EdgeRow(s.k)
      /\ Size(s, "ticks") = s.cells * 4 /\ Size(s, "proof") = s.proof
  BY DEF Size, DialRow
<1>3. s.edges * EdgeRow(s.k) \in Nat /\ (s.edges * EdgeRow(s.k) = 0 <=> s.edges = 0)
  BY <1>1, Products
<1>4. ToSet(names) = {"dials", "edges", "ticks"} \cup IF s.proof = Null THEN {} ELSE {"proof"}
  BY SectionNameSet
<1> HIDE DEF names
<1>5. /\ Size(s, "dials") \in Nat /\ Size(s, "ticks") \in Nat /\ Size(s, "edges") \in Nat
      /\ s.proof # Null => Size(s, "proof") \in Nat
      /\ (Size(s, "dials") = 0 /\ Size(s, "ticks") = 0 <=> s.cells = 0)
      /\ (Size(s, "edges") = 0 <=> s.edges = 0)
  BY <1>1, <1>2, <1>3
<1>6. Idle(s) <=> \A name \in ToSet(names) : Size(s, name) = 0
  BY <1>1, <1>2, <1>4, <1>5 DEF Idle
<1>7. \A name \in ToSet(names) : name \in Name /\ Size(s, name) \in Nat
  BY <1>4, <1>5 DEF Name
<1> QED BY <1>5, <1>6, <1>7 DEF names

(* The recursive definition of the offsets: the array exists. *)
LEMMA OffsetsAre ==
  ASSUME NEW s \in ShapeType, NEW i \in 1 .. Len(SectionNames(s))
  PROVE  Offsets(s)[i] = IF i = 1 THEN Payload(s)
                         ELSE AlignUp(Offsets(s)[i - 1] + Size(s, SectionNames(s)[i - 1]))
<1> DEFINE names == SectionNames(s)
           n == Len(names)
           Rule(f) == f = [j \in 1 .. n |->
             IF j = 1 THEN Payload(s) ELSE AlignUp(f[j - 1] + Size(s, names[j - 1]))]
           x1 == Payload(s)
           x2 == AlignUp(x1 + Size(s, names[1]))
           x3 == AlignUp(x2 + Size(s, names[2]))
           x4 == AlignUp(x3 + Size(s, names[3]))
           g == [j \in 1 .. n |-> IF j = 1 THEN x1 ELSE IF j = 2 THEN x2
                                  ELSE IF j = 3 THEN x3 ELSE x4]
<1>1. n \in {3, 4}
  BY SectionList
<1>2. Rule(g)
  <2> DEFINE h == [j \in 1 .. n |->
               IF j = 1 THEN Payload(s) ELSE AlignUp(g[j - 1] + Size(s, names[j - 1]))]
  <2>0. \A m \in {3, 4} : \A j \in 1 .. m : j \in {1, 2, 3, 4}
    OBVIOUS
  <2>1. ASSUME NEW j \in 1 .. n PROVE g[j] = h[j]
    <3>1. j \in {1, 2, 3, 4}
      BY <1>1, <2>0
    <3>2. CASE j = 1
      BY <3>2
    <3>3. CASE j = 2
      <4>1. g[j] = x2 /\ g[j - 1] = x1
        BY <3>3, <1>1
      <4> HIDE DEF g
      <4> QED BY <3>3, <4>1
    <3>4. CASE j = 3
      <4>1. g[j] = x3 /\ g[j - 1] = x2
        BY <3>4, <1>1
      <4> HIDE DEF g, x2
      <4> QED BY <3>4, <4>1
    <3>5. CASE j = 4
      <4>1. g[j] = x4 /\ g[j - 1] = x3
        BY <3>5, <1>1
      <4> HIDE DEF g, x3
      <4> QED BY <3>5, <4>1
    <3> QED BY <3>1, <3>2, <3>3, <3>4, <3>5
  <2>2. g = h
    BY <2>1
  <2> QED BY <2>2
<1>3. Offsets(s) = CHOOSE f : Rule(f)
  BY DEF Offsets
<1> HIDE DEF g
<1>4. Rule(Offsets(s))
  <2> HIDE DEF Rule
  <2> QED BY <1>2, <1>3
<1> QED BY <1>4

(* sizeof adds up the padded sizes. *)
LEMMA PaddedIs ==
  ASSUME NEW s \in ShapeType
  PROVE  Padded(s) = AlignUp(Size(s, "dials")) + AlignUp(Size(s, "edges"))
                       + AlignUp(Size(s, "ticks"))
                       + IF s.proof = Null THEN 0 ELSE AlignUp(Size(s, "proof"))
<1> DEFINE names == SectionNames(s)
           n == Len(names)
           a(name) == AlignUp(Size(s, name))
           step == [k \in 1 .. n |-> [x \in Nat |-> x + a(names[k])]]
           Folds(f) == f = [t \in SUBSET (1 .. n) |->
             IF t = {} THEN 0 ELSE f[t \ {Max(t)}] + a(names[Max(t)])]
<1>1. /\ n \in Nat /\ DOMAIN names = 1 .. n /\ n = IF s.proof = Null THEN 3 ELSE 4
      /\ names[1] = "dials" /\ names[2] = "edges" /\ names[3] = "ticks"
      /\ s.proof # Null => names[4] = "proof"
  BY SectionList
<1>2. /\ a("dials") \in Nat /\ a("edges") \in Nat /\ a("ticks") \in Nat
      /\ s.proof # Null => a("proof") \in Nat
      /\ \A k \in 1 .. n : a(names[k]) \in Nat
  <2>1. \A k \in 1 .. n : names[k] \in ToSet(names)
    BY <1>1 DEF ToSet
  <2> QED BY <2>1, SectionSizes, Padding
<1>3. step \in [1 .. n -> [Nat -> Nat]]
  <2> HIDE DEF n, names, a
  <2> QED BY <1>2
<1>4. \E f : Folds(f)
  <2> HIDE DEF step, n, names, a
  <2>1. PICK f \in [SUBSET (1 .. n) -> Nat] : Iterates(n, 0, step, f)
    BY <1>1, <1>3, IterationExists
  <2>2. ASSUME NEW t \in SUBSET (1 .. n), t # {}
        PROVE  step[Max(t)][f[t \ {Max(t)}]] = f[t \ {Max(t)}] + a(names[Max(t)])
    <3>1. Max(t) \in 1 .. n
      BY <1>1, <2>2, LargestOfSet
    <3>2. t \ {Max(t)} \in SUBSET (1 .. n)
      OBVIOUS
    <3>3. f[t \ {Max(t)}] \in Nat
      BY <3>2
    <3> QED BY <3>1, <3>3 DEF step
  <2>3. Folds(f)
    BY <2>1, <2>2 DEF Iterates
  <2> QED BY <2>3
<1>5. PICK f : Folds(f) /\ Padded(s) = f[1 .. n]
  <2>1. Padded(s) = (CHOOSE f : Folds(f))[1 .. n]
    BY <1>1 DEF Padded, FoldLeft, MapThenFoldSet
  <2> QED BY <1>4, <2>1
<1> HIDE DEF n, names, a, step
<1>6. ASSUME NEW k \in 1 .. n PROVE f[1 .. k] = f[1 .. k - 1] + a(names[k])
  <2>1. Max(1 .. k) = k /\ (1 .. k) \ {k} = 1 .. k - 1 /\ 1 .. k # {}
    BY LargestIndex
  <2>2. 1 .. k \in SUBSET (1 .. n)
    BY <1>1
  <2> QED BY <1>5, <2>1, <2>2
<1>7. f[1 .. 0] = 0
  <2>1. 1 .. 0 = {}
    OBVIOUS
  <2> QED BY <1>5, <2>1
<1>8. 1 \in 1 .. n /\ 2 \in 1 .. n /\ 3 \in 1 .. n /\ (s.proof # Null => 4 \in 1 .. n)
  BY <1>1
<1>9. /\ f[1 .. 1] = f[1 .. 0] + a("dials")
      /\ f[1 .. 2] = f[1 .. 1] + a("edges")
      /\ f[1 .. 3] = f[1 .. 2] + a("ticks")
      /\ s.proof # Null => f[1 .. 4] = f[1 .. 3] + a("proof")
  <2>1. f[1 .. 1] = f[1 .. 1 - 1] + a(names[1])
    BY <1>6, <1>8
  <2>2. f[1 .. 2] = f[1 .. 2 - 1] + a(names[2])
    BY <1>6, <1>8
  <2>3. f[1 .. 3] = f[1 .. 3 - 1] + a(names[3])
    BY <1>6, <1>8
  <2>4. s.proof # Null => f[1 .. 4] = f[1 .. 4 - 1] + a(names[4])
    BY <1>6, <1>8
  <2> QED BY <1>1, <2>1, <2>2, <2>3, <2>4
<1>10. f[1 .. 3] = a("dials") + a("edges") + a("ticks")
  BY <1>2, <1>7, <1>9
<1>11. CASE s.proof = Null
  <2>1. Padded(s) = f[1 .. 3]
    BY <1>1, <1>5, <1>11
  <2> QED BY <1>2, <1>10, <1>11, <2>1 DEF a
<1>12. CASE s.proof # Null
  <2>1. Padded(s) = f[1 .. 4]
    BY <1>1, <1>5, <1>12
  <2> QED BY <1>2, <1>9, <1>10, <1>12, <2>1 DEF a
<1> QED BY <1>11, <1>12

(* Each section starts where the one before it ends, padded. *)
LEMMA OffsetSteps ==
  ASSUME NEW s \in ShapeType
  PROVE  LET n    == Len(SectionNames(s))
             o    == Offsets(s)
             z(i) == Size(s, SectionNames(s)[i])
         IN  /\ o[1] = Payload(s)
             /\ \A i \in 1 .. n : o[i] \in Nat /\ z(i) \in Nat /\ o[i] % Align = 0
             /\ \A i \in 1 .. n - 1 : o[i + 1] = o[i] + AlignUp(z(i))
<1> DEFINE n    == Len(SectionNames(s))
           o    == Offsets(s)
           z(i) == Size(s, SectionNames(s)[i])
           Good(i) == i \in 1 .. n => o[i] \in Nat /\ o[i] % Align = 0
           S == {i \in 0 .. n : Good(i)}
<1>1. n \in {3, 4} /\ DOMAIN SectionNames(s) = 1 .. n
  BY SectionList
<1>2. ASSUME NEW i \in 1 .. n PROVE z(i) \in Nat
  <2>1. SectionNames(s)[i] \in ToSet(SectionNames(s))
    BY <1>1 DEF ToSet
  <2> QED BY <2>1, SectionSizes
<1>3. o[1] = Payload(s) /\ o[1] \in Nat /\ o[1] % Align = 0
  <2>1. 1 \in 1 .. n
    BY <1>1
  <2>2. o[1] = Payload(s)
    BY <2>1, OffsetsAre
  <2>3. ReservedBytes(Len(SectionNames(s))) \in Nat
    BY <1>1 DEF ReservedBytes, HeaderBytes
  <2> QED BY <2>2, <2>3, Padding DEF Payload
<1>4. ASSUME NEW i \in 1 .. n - 1 PROVE o[i + 1] = AlignUp(o[i] + z(i))
  <2>1. i + 1 \in 1 .. n /\ i + 1 # 1 /\ (i + 1) - 1 = i
    BY <1>1
  <2> QED BY <2>1, OffsetsAre
<1> HIDE DEF n, o, z
<1>5. ASSUME NEW i \in 0 .. n - 1, i \in S PROVE i + 1 \in S
  <2>1. CASE i = 0
    BY <1>1, <1>3, <2>1
  <2>2. CASE i # 0
    <3>1. i \in 1 .. n - 1 /\ i \in 1 .. n /\ i + 1 \in 0 .. n
      BY <1>1, <2>2
    <3>2. o[i] + z(i) \in Nat
      BY <1>2, <1>5, <3>1
    <3> QED BY <1>4, <3>1, <3>2, Padding
  <2> QED BY <2>1, <2>2
<1>6. 0 .. n \subseteq S
  <2>1. 0 \in S /\ n \in Nat
    BY <1>1
  <2> HIDE DEF S
  <2>2. \A i \in 0 .. n - 1 : i \in S => i + 1 \in S
    BY <1>5
  <2> QED BY <2>1, <2>2, BoundedInduction
<1>7. \A i \in 1 .. n : o[i] \in Nat /\ o[i] % Align = 0
  BY <1>1, <1>6
<1>8. ASSUME NEW i \in 1 .. n - 1 PROVE o[i + 1] = o[i] + AlignUp(z(i))
  <2>1. i \in 1 .. n
    BY <1>1
  <2>2. AlignUp(o[i] + z(i)) = o[i] + AlignUp(z(i))
    BY <1>2, <1>7, <2>1, PaddingAfter
  <2> QED BY <1>4, <2>2
<1> QED BY <1>2, <1>3, <1>7, <1>8 DEF n, o, z

Section == [name : Name, offset : Nat, size : Nat]

LEMMA SectionTable ==
  ASSUME NEW s \in ShapeType
  PROVE  LET names == SectionNames(s)
             S     == Sections(s)
         IN  /\ S \in Seq(Section) /\ DOMAIN S = 1 .. Len(names) /\ Len(S) = Len(names)
             /\ \A i \in 1 .. Len(names) :
                  /\ S[i].name = names[i] /\ S[i].offset = Offsets(s)[i]
                  /\ S[i].size = Size(s, names[i])
<1> DEFINE names == SectionNames(s)
           n == Len(names)
           S == Sections(s)
           o == Offsets(s)
<1>1. n \in Nat /\ \A i \in 1 .. n : names[i] \in Name
  BY SectionList
<1>2. \A i \in 1 .. n : o[i] \in Nat /\ Size(s, names[i]) \in Nat
  BY OffsetSteps
<1>3. S = [i \in 1 .. n |-> [name |-> names[i], offset |-> o[i], size |-> Size(s, names[i])]]
  BY DEF Sections
<1> HIDE DEF n, names, o, S
<1>4. S \in [1 .. n -> Section]
  BY <1>1, <1>2, <1>3 DEF Section
<1>5. S \in Seq(Section) /\ DOMAIN S = 1 .. n
  BY <1>1, <1>4, SeqDef
<1>6. Len(S) = n
  <2>1. Len(S) \in Nat /\ 1 .. Len(S) = 1 .. n
    BY <1>5, LenProperties, Zenon
  <2> QED BY <1>1, <2>1, IntervalEnd
<1> QED BY <1>3, <1>5, <1>6 DEF S, n, names, o

(* The file is as long as sizeof says, but for the block sizeof asks for    *)
(* when every section is empty.                                            *)
LEMMA FileLength ==
  ASSUME NEW s \in ShapeType
  PROVE  LET n == Len(SectionNames(s))
             S == Sections(s)
         IN  /\ FileLen(s) = S[n].offset + AlignUp(S[n].size)
             /\ FileLen(s) = Payload(s) + Padded(s)
             /\ FileLen(s) \in Nat /\ FileLen(s) % Align = 0
             /\ SizeOf(s) = FileLen(s) + IF Idle(s) THEN Align ELSE 0
<1> DEFINE names == SectionNames(s)
           n == Len(names)
           S == Sections(s)
           o == Offsets(s)
           a(name) == AlignUp(Size(s, name))
           P == Payload(s)
           T == Padded(s)
           F == FileLen(s)
<1>1. /\ n = IF s.proof = Null THEN 3 ELSE 4
      /\ names[1] = "dials" /\ names[2] = "edges" /\ names[3] = "ticks"
      /\ s.proof # Null => names[4] = "proof"
  BY SectionList
<1>2. /\ o[1] = P
      /\ \A i \in 1 .. n : o[i] \in Nat /\ Size(s, names[i]) \in Nat /\ o[i] % Align = 0
      /\ \A i \in 1 .. n - 1 : o[i + 1] = o[i] + a(names[i])
  BY OffsetSteps
<1>3. /\ S \in Seq(Section) /\ Len(S) = n /\ n \in 1 .. n
      /\ \A i \in 1 .. n : S[i].offset = o[i] /\ S[i].size = Size(s, names[i])
  BY <1>1, SectionTable
<1>4. Last(S) = S[n]
  BY <1>3 DEF Last
<1>5. F = o[n] + a(names[n]) /\ F % Align = 0
  <2>1. F = AlignUp(o[n] + Size(s, names[n]))
    BY <1>3, <1>4 DEF FileLen
  <2>2. o[n] \in Nat /\ Size(s, names[n]) \in Nat /\ o[n] % Align = 0
    BY <1>2, <1>3
  <2>3. /\ AlignUp(o[n] + Size(s, names[n])) = o[n] + AlignUp(Size(s, names[n]))
        /\ (o[n] + AlignUp(Size(s, names[n]))) % Align = 0
    BY <2>2, PaddingAfter
  <2> HIDE DEF F, o, n, names, S
  <2> QED BY <2>1, <2>3
<1>6. T = a("dials") + a("edges") + a("ticks") + IF s.proof = Null THEN 0 ELSE a("proof")
  BY PaddedIs
<1>7. /\ Size(s, "dials") \in Nat /\ Size(s, "edges") \in Nat /\ Size(s, "ticks") \in Nat
      /\ s.proof # Null => Size(s, "proof") \in Nat
  BY SectionSizes
<1>8. /\ a("dials") \in Nat /\ a("edges") \in Nat /\ a("ticks") \in Nat
      /\ s.proof # Null => a("proof") \in Nat
  BY <1>7, Padding
<1>9. F = P + T /\ P \in Nat
  <2> HIDE DEF n, names, o, a, P, T, F
  <2>1. P \in Nat
    BY <1>2, <1>3
  <2>2. CASE s.proof = Null
    <3>1. o[2] = o[1] + a("dials") /\ o[3] = o[2] + a("edges")
      <4>1. 1 \in 1 .. n - 1 /\ 2 \in 1 .. n - 1
        BY <1>1, <2>2
      <4>2. o[1 + 1] = o[1] + a(names[1]) /\ o[2 + 1] = o[2] + a(names[2])
        BY <1>2, <4>1
      <4> QED BY <1>1, <4>2
    <3>2. F = o[3] + a("ticks")
      BY <1>1, <1>5, <2>2
    <3> QED BY <1>2, <1>6, <1>8, <2>1, <2>2, <3>1, <3>2
  <2>3. CASE s.proof # Null
    <3>1. o[2] = o[1] + a("dials") /\ o[3] = o[2] + a("edges") /\ o[4] = o[3] + a("ticks")
      <4>1. 1 \in 1 .. n - 1 /\ 2 \in 1 .. n - 1 /\ 3 \in 1 .. n - 1
        BY <1>1, <2>3
      <4>2. /\ o[1 + 1] = o[1] + a(names[1]) /\ o[2 + 1] = o[2] + a(names[2])
            /\ o[3 + 1] = o[3] + a(names[3])
        BY <1>2, <4>1
      <4> QED BY <1>1, <4>2
    <3>2. F = o[4] + a("proof")
      BY <1>1, <1>5, <2>3
    <3> QED BY <1>2, <1>6, <1>8, <2>1, <2>3, <3>1, <3>2
  <2> QED BY <2>2, <2>3
<1>10. T \in Nat /\ F \in Nat
  <2> HIDE DEF a, P, T, F
  <2>1. T \in Nat
    BY <1>6, <1>8
  <2> QED BY <1>9, <2>1
<1>11. T = 0 <=> Idle(s)
  <2>1. Idle(s) <=> /\ Size(s, "dials") = 0 /\ Size(s, "edges") = 0 /\ Size(s, "ticks") = 0
                    /\ s.proof # Null => Size(s, "proof") = 0
    <3>1. ToSet(names) = {"dials", "edges", "ticks"} \cup IF s.proof = Null THEN {} ELSE {"proof"}
      BY SectionNameSet
    <3> QED BY <3>1, SectionSizes
  <2>2. /\ (a("dials") = 0 <=> Size(s, "dials") = 0) /\ (a("edges") = 0 <=> Size(s, "edges") = 0)
        /\ (a("ticks") = 0 <=> Size(s, "ticks") = 0)
        /\ s.proof # Null => (a("proof") = 0 <=> Size(s, "proof") = 0)
    BY <1>7, Padding
  <2> HIDE DEF a, T
  <2>3. T = 0 <=> /\ a("dials") = 0 /\ a("edges") = 0 /\ a("ticks") = 0
                  /\ s.proof # Null => a("proof") = 0
    <3> DEFINE d == a("dials")
               e == a("edges")
               t == a("ticks")
               p == a("proof")
    <3>1. CASE s.proof = Null
      <4>1. T = d + e + t /\ d \in Nat /\ e \in Nat /\ t \in Nat
        BY <1>6, <1>8, <3>1
      <4> HIDE DEF d, e, t, p
      <4>2. T = 0 <=> d = 0 /\ e = 0 /\ t = 0
        BY <4>1
      <4> QED BY <3>1, <4>2 DEF d, e, t
    <3>2. CASE s.proof # Null
      <4>1. T = d + e + t + p /\ d \in Nat /\ e \in Nat /\ t \in Nat /\ p \in Nat
        BY <1>6, <1>8, <3>2
      <4> HIDE DEF d, e, t, p
      <4>2. T = 0 <=> d = 0 /\ e = 0 /\ t = 0 /\ p = 0
        BY <4>1
      <4> QED BY <3>2, <4>2 DEF d, e, t, p
    <3> QED BY <3>1, <3>2
  <2> QED BY <2>1, <2>2, <2>3
<1>12. SizeOf(s) = F + IF Idle(s) THEN Align ELSE 0
  <2>1. SizeOf(s) = AlignUp(P + IF T = 0 THEN Align ELSE T)
    BY DEF SizeOf
  <2> HIDE DEF P, T, F
  <2>2. CASE T = 0
    <3>1. F + Align \in Nat /\ (F + Align) % Align = 0 /\ P + Align = F + Align
      BY <1>5, <1>9, <1>10, <2>2 DEF Align
    <3> QED BY <1>11, <2>1, <2>2, <3>1, Padding
  <2>3. CASE T # 0
    <3>1. SizeOf(s) = AlignUp(F)
      BY <1>9, <2>1, <2>3
    <3>2. SizeOf(s) = F
      BY <1>5, <1>10, <3>1, Padding
    <3> QED BY <1>10, <1>11, <2>3, <3>2
  <2> QED BY <2>2, <2>3
<1> QED BY <1>3, <1>5, <1>9, <1>10, <1>12

(* No two sections share a block, and all lie behind the table and inside   *)
(* the file.                                                               *)
LEMMA SectionPlaces ==
  ASSUME NEW s \in ShapeType
  PROVE  LET n == Len(SectionNames(s))
             S == Sections(s)
         IN  \A i \in 1 .. n :
               /\ S[i].offset \in Nat /\ S[i].size \in Nat /\ S[i].offset % Align = 0
               /\ FrontBytes(n) <= S[i].offset /\ Align <= S[i].offset
               /\ S[i].offset + S[i].size <= FileLen(s)
               /\ \A j \in 1 .. n : i < j => S[i].offset + S[i].size <= S[j].offset
<1> DEFINE n == Len(SectionNames(s))
           S == Sections(s)
           o(i) == S[i].offset
           z(i) == S[i].size
           a(i) == AlignUp(z(i))
           F == FileLen(s)
           P == Payload(s)
<1>1. /\ n \in {3, 4} /\ n \in 1 .. n
      /\ \A i \in 1 .. n : S[i].offset = Offsets(s)[i] /\ S[i].size = Size(s, SectionNames(s)[i])
  BY SectionList, SectionTable
<1>2. /\ o(1) = P /\ F = o(n) + a(n)
      /\ \A i \in 1 .. n : o(i) \in Nat /\ z(i) \in Nat /\ o(i) % Align = 0
      /\ \A i \in 1 .. n - 1 : o(i + 1) = o(i) + a(i)
  <2>1. \A i \in 1 .. n - 1 : i \in 1 .. n /\ i + 1 \in 1 .. n
    BY <1>1
  <2>2. 1 \in 1 .. n
    BY <1>1
  <2> QED BY <1>1, <2>1, <2>2, OffsetSteps, FileLength
<1>3. \A i \in 1 .. n : a(i) \in Nat /\ z(i) <= a(i)
  BY <1>2, Padding
<1>4. FrontBytes(n) <= P /\ Align <= P /\ P \in Nat
  <2>1. ReservedBytes(n) \in Nat /\ FrontBytes(n) <= ReservedBytes(n) /\ Align <= ReservedBytes(n)
        /\ FrontBytes(n) \in Nat
    BY <1>1 DEF ReservedBytes, FrontBytes, HeaderBytes, Align
  <2>2. P \in Nat /\ ReservedBytes(n) <= P
    BY <2>1, Padding DEF Payload
  <2> QED BY <2>1, <2>2 DEF Align, FrontBytes
<1> HIDE DEF n, S, o, z, a, F, P
<1>5. /\ 1 \in 1 .. n - 1 /\ 2 \in 1 .. n - 1 /\ (n = 4 => 3 \in 1 .. n - 1)
      /\ 1 \in 1 .. n /\ 2 \in 1 .. n /\ 3 \in 1 .. n /\ (n = 4 => 4 \in 1 .. n)
      /\ \A i \in 1 .. n : i \in {1, 2, 3} \/ (n = 4 /\ i = 4)
  BY <1>1
<1>6. /\ o(2) = o(1) + a(1) /\ o(3) = o(2) + a(2) /\ (n = 4 => o(4) = o(3) + a(3))
      /\ (n = 3 => F = o(3) + a(3)) /\ (n = 4 => F = o(4) + a(4))
  <2>1. o(1 + 1) = o(1) + a(1) /\ o(2 + 1) = o(2) + a(2)
    BY <1>2, <1>5
  <2>2. ASSUME n = 4 PROVE o(3 + 1) = o(3) + a(3)
    BY <1>2, <1>5, <2>2
  <2> QED BY <1>2, <2>1, <2>2
<1>7. ASSUME NEW i \in 1 .. n
      PROVE  /\ P <= o(i) /\ o(i) + a(i) <= F
             /\ \A j \in 1 .. n : i < j => o(i) + a(i) <= o(j)
  <2>1. /\ o(1) \in Nat /\ a(1) \in Nat /\ o(2) \in Nat /\ a(2) \in Nat
        /\ o(3) \in Nat /\ a(3) \in Nat /\ (n = 4 => o(4) \in Nat /\ a(4) \in Nat)
    BY <1>2, <1>3, <1>5
  <2>2. CASE n = 3
    <3>1. P = o(1) /\ o(1) <= o(2) /\ o(2) <= o(3) /\ o(1) + a(1) <= o(2) /\ o(1) + a(1) <= o(3)
          /\ o(2) + a(2) <= o(3) /\ o(1) + a(1) <= F /\ o(2) + a(2) <= F /\ o(3) + a(3) <= F
          /\ o(1) <= o(3)
      BY <1>1, <1>2, <1>6, <2>1, <2>2
    <3>2. \A k \in 1 .. n : k \in {1, 2, 3}
      BY <1>5, <2>2
    <3> QED BY <2>1, <3>1, <3>2
  <2>3. CASE n = 4
    <3>1. P = o(1) /\ o(1) <= o(2) /\ o(1) <= o(3) /\ o(1) <= o(4)
          /\ o(1) + a(1) <= o(2) /\ o(1) + a(1) <= o(3) /\ o(1) + a(1) <= o(4)
          /\ o(2) + a(2) <= o(3) /\ o(2) + a(2) <= o(4) /\ o(3) + a(3) <= o(4)
          /\ o(1) + a(1) <= F /\ o(2) + a(2) <= F /\ o(3) + a(3) <= F /\ o(4) + a(4) <= F
      BY <1>1, <1>2, <1>6, <2>1, <2>3
    <3>2. \A k \in 1 .. n : k \in {1, 2, 3, 4}
      BY <1>5, <2>3
    <3> QED BY <2>1, <3>1, <3>2
  <2> QED BY <1>1, <2>2, <2>3
<1>8. ASSUME NEW i \in 1 .. n
      PROVE  /\ o(i) \in Nat /\ z(i) \in Nat /\ o(i) % Align = 0
             /\ FrontBytes(n) <= o(i) /\ Align <= o(i)
             /\ o(i) + z(i) <= F
             /\ \A j \in 1 .. n : i < j => o(i) + z(i) <= o(j)
  <2>1. FrontBytes(n) \in Nat /\ F \in Nat
    BY <1>1, FileLength DEF FrontBytes, HeaderBytes, F
  <2>2. \A j \in 1 .. n : o(j) \in Nat
    BY <1>2
  <2>3. o(i) \in Nat /\ z(i) \in Nat /\ a(i) \in Nat /\ z(i) <= a(i) /\ P <= o(i)
        /\ o(i) + a(i) <= F /\ o(i) % Align = 0
    BY <1>2, <1>3, <1>7
  <2>4. FrontBytes(n) <= o(i) /\ Align <= o(i) /\ o(i) + z(i) <= F
    BY <1>4, <2>1, <2>3 DEF Align
  <2>5. ASSUME NEW j \in 1 .. n, i < j PROVE o(i) + z(i) <= o(j)
    <3>1. o(i) + a(i) <= o(j)
      BY <1>7, <2>5
    <3> QED BY <2>2, <2>3, <3>1
  <2> QED BY <2>3, <2>4, <2>5
<1> QED BY <1>8 DEF n, S, o, z, F

-----------------------------------------------------------------------------
(* The invariant: an undamaged file is the one that was written, block by   *)
(* block; a damaged header still is one; and what the last reader found is  *)
(* inside the file.                                                         *)
Listed == [name : Name \cup {"other"}, offset : Nat, size : Nat]

HeaderType ==
  [sound : BOOLEAN, cells : Nat, edges : Nat, k : Nat, front : Nat, sections : Seq(Listed)]

Untouched ==
  /\ written.shape \in Shape /\ buf_len = FileLen(written.shape)
  /\ buf_len <= (LastBlock + 1) * Align
  /\ \A b \in 0 .. LastBlock : b * Align < buf_len =>
       mem[b] = Image(written.shape, ToSet(Sections(written.shape)), written.version, b)

QufInv ==
  /\ DOMAIN mem = 0 .. LastBlock
  /\ buf_len \in Nat /\ damage \in 0 .. MaxDamage
  /\ written # Null => buf_len # 0
  /\ buf_len # 0 => mem[0] \in HeaderType
  /\ buf_len # 0 /\ damage = 0 => Untouched
  /\ RowsAreInside

(* What a section of an accepted header says of its place. *)
LEMMA AcceptedSection ==
  ASSUME NEW h \in HeaderType, NEW len \in Int, Accepts(h, len), NEW i \in DOMAIN h.sections
  PROVE  LET s == h.sections[i]
         IN  /\ h.front <= s.offset
             /\ s.offset + s.size < SizeMod => s.offset + s.size <= len
             /\ s.size = Expected(h, s)
             /\ s.offset \in Nat /\ s.size \in Nat
<1> DEFINE s == h.sections[i]
<1>1. h.sections \in Seq(Listed) /\ s \in Listed
  BY ElementOfSeq DEF HeaderType
<1>2. s.offset \in Nat /\ s.size \in Nat /\ h.front \in Nat
  BY <1>1 DEF Listed, HeaderType
<1>3. s \in ToSet(h.sections)
  BY DEF ToSet
<1>4. /\ h.front <= s.offset /\ (s.offset + s.size) % SizeMod <= len
      /\ s.size = Expected(h, s)
  BY <1>2, <1>3 DEF Accepts
<1> HIDE DEF s
<1>5. s.offset + s.size < SizeMod => (s.offset + s.size) % SizeMod = s.offset + s.size
  BY <1>2, QufAssumption
<1> QED BY <1>2, <1>4, <1>5 DEF s

LEMMA LargerProduct ==
  ASSUME NEW m \in Nat, NEW n \in Nat, NEW k \in Nat, m <= n
  PROVE  m * k <= n * k /\ m * k \in Nat /\ n * k \in Nat
<1>1. PICK d \in Nat : n = m + d
  <2>1. n - m \in Nat /\ n = m + (n - m)
    OBVIOUS
  <2> QED BY <2>1
<1>2. (m + d) * k = m * k + d * k
  OBVIOUS
<1>3. m * k \in Nat /\ d * k \in Nat
  BY Products
<1> QED BY <1>1, <1>2, <1>3

(* A load: the counts of the reader are cut to their width, never rounded   *)
(* up, so that its rows take no more than the section that was checked.     *)
LEMMA DeserializeInside ==
  ASSUME QufInv, NEW len \in Int, Deserialize(len)
  PROVE  RowsAreInside'
<1> DEFINE h == mem[0]
           front == h.front
           shape == [cells |-> h.cells % CountMod, edges |-> h.edges % CountMod,
                     k |-> KOf(h), proof |-> Announced(h, "proof")]
           sizes == [name \in Name |-> Announced(h, name)]
<1>1. h \in HeaderType /\ Accepts(h, len)
  BY DEF Deserialize, QufInv
<1>2. reader' = [shape |-> shape, at |-> [name \in Name |-> Pointer(h, name)],
                 size |-> sizes, front |-> front, len |-> len]
  BY DEF Deserialize
<1>3. /\ h.cells \in Nat /\ h.edges \in Nat /\ h.k \in Nat
      /\ h.sections \in Seq(Listed)
  BY <1>1 DEF HeaderType
<1>4. /\ h.cells % CountMod \in Nat /\ h.cells % CountMod <= h.cells
      /\ h.edges % CountMod \in Nat /\ h.edges % CountMod <= h.edges
      /\ EdgeRow(KOf(h)) \in Nat
  <2>1. \A m \in Nat : m % CountMod \in Nat /\ m % CountMod <= m
    BY QufAssumption
  <2>2. KOf(h) \in Nat
    <3>1. KMod \in Nat \ {0}
      BY QufAssumption DEF KDefault
    <3>2. h.k % KMod \in Nat
      BY <1>3, <3>1
    <3> QED BY <3>2 DEF KOf, KDefault
  <2>3. EdgeRow(KOf(h)) \in Nat
    BY <2>2 DEF EdgeRow, EdgeFixed
  <2> HIDE DEF h
  <2> QED BY <1>3, <2>1, <2>3
<1> SUFFICES ASSUME NEW name \in Name, Pointer(h, name) # Null
             PROVE  /\ Pointer(h, name) >= front
                    /\ \/ Pointer(h, name) + Size(shape, name) <= len
                       \/ Pointer(h, name) + Announced(h, name) >= SizeMod
  <2>1. /\ reader'.at = [name \in Name |-> Pointer(h, name)]
        /\ reader'.front = front /\ reader'.len = len /\ reader'.shape = shape
        /\ reader'.size = sizes
    BY <1>2
  <2> HIDE DEF h, front, shape
  <2>2. ASSUME NEW name \in Name, reader'.at[name] # Null
        PROVE  /\ reader'.at[name] >= front
               /\ \/ reader'.at[name] + Size(shape, name) <= len
                  \/ reader'.at[name] + reader'.size[name] >= SizeMod
    <3>1. reader'.at[name] = Pointer(h, name) /\ reader'.size[name] = Announced(h, name)
      BY <2>1
    <3> QED BY <2>2, <3>1
  <2> QED BY <2>1, <2>2 DEF RowsAreInside
<1>5. PICK i \in DOMAIN h.sections :
        /\ h.sections[i].name = name /\ Pointer(h, name) = h.sections[i].offset
        /\ Announced(h, name) = h.sections[i].size
  <2>1. Counted(h, name) # {}
    BY DEF Pointer
  <2>2. DOMAIN h.sections = 1 .. Len(h.sections) /\ Len(h.sections) \in Nat
    BY <1>3
  <2>3. Max(Counted(h, name)) \in Counted(h, name)
    <3>1. Counted(h, name) \in SUBSET (1 .. Len(h.sections))
      BY <2>2 DEF Counted
    <3> QED BY <2>1, <2>2, <3>1, LargestOfSet
  <2>4. /\ Pointer(h, name) = h.sections[Max(Counted(h, name))].offset
        /\ Announced(h, name) = h.sections[Max(Counted(h, name))].size
    BY <2>1 DEF Pointer, Announced
  <2>5. \A i \in Counted(h, name) : i \in DOMAIN h.sections /\ h.sections[i].name = name
    BY DEF Counted
  <2> QED BY <2>3, <2>4, <2>5
<1> DEFINE s == h.sections[i]
<1>6. /\ front <= s.offset /\ s.size = Expected(h, s)
      /\ s.offset + s.size < SizeMod => s.offset + s.size <= len
      /\ s.offset \in Nat /\ s.size \in Nat /\ s.name = name
  BY <1>1, <1>5, AcceptedSection
<1>7. Size(shape, name) \in Nat /\ Size(shape, name) <= s.size
  <2>1. CASE name = "dials"
    <3>1. Size(shape, name) = (h.cells % CountMod) * 32 /\ s.size = h.cells * 32
      BY <1>6, <2>1 DEF Size, Expected, DialRow
    <3> QED BY <1>3, <1>4, <3>1
  <2>2. CASE name = "edges"
    <3>1. /\ Size(shape, name) = (h.edges % CountMod) * EdgeRow(KOf(h))
          /\ s.size = h.edges * EdgeRow(KOf(h))
      BY <1>6, <2>2 DEF Size, Expected
    <3>2. /\ (h.edges % CountMod) * EdgeRow(KOf(h)) <= h.edges * EdgeRow(KOf(h))
          /\ (h.edges % CountMod) * EdgeRow(KOf(h)) \in Nat
      BY <1>3, <1>4, LargerProduct
    <3> QED BY <3>1, <3>2
  <2>3. CASE name = "ticks"
    <3>1. Size(shape, name) = (h.cells % CountMod) * 4 /\ s.size = h.cells * 4
      BY <1>6, <2>3 DEF Size, Expected
    <3> QED BY <1>3, <1>4, <3>1
  <2>4. CASE name = "proof"
    <3>1. Size(shape, name) = s.size
      BY <1>5, <2>4 DEF Size
    <3> QED BY <1>6, <3>1
  <2> QED BY <2>1, <2>2, <2>3, <2>4 DEF Name
<1>8. Pointer(h, name) = s.offset /\ Announced(h, name) = s.size
  BY <1>5
<1> HIDE DEF s, h, shape, front
<1> QED BY <1>6, <1>7, <1>8, QufAssumption

(* A damaged header is one. *)
LEMMA DamagedHeader ==
  ASSUME NEW h \in HeaderType, NEW g \in Damaged(h)
  PROVE  g \in HeaderType
<1>1. /\ h.sections \in Seq(Listed) /\ h.cells \in Nat /\ h.edges \in Nat /\ h.k \in Nat
      /\ h.front \in Nat /\ Len(h.sections) \in Nat
      /\ \A i \in DOMAIN h.sections : h.sections[i] \in Listed
  BY ElementOfSeq DEF HeaderType
<1>2. \A n \in Nat : FrontBytes(n) \in Nat
  BY DEF FrontBytes, HeaderBytes
<1>3. /\ Garbage \subseteq Nat
      /\ \A n \in Garbage : n % KvMod \in Nat /\ n % SizeMod \in Nat
  <2>1. KvMod \in Nat \ {0} /\ SizeMod \in Nat \ {0} /\ Garbage \subseteq Nat
    BY QufAssumption DEF Align
  <2> QED BY <2>1
<1>4. ASSUME NEW n \in Nat,
             \/ g = [h EXCEPT !.sound = FALSE]
             \/ g = [h EXCEPT !.front = n]
             \/ g = [h EXCEPT !.cells = n]
             \/ g = [h EXCEPT !.edges = n]
             \/ g = [h EXCEPT !.k = n]
      PROVE  g \in HeaderType
  BY <1>4 DEF HeaderType
<1>5. ASSUME NEW T \in Seq(Listed), NEW n \in Nat,
             g = [h EXCEPT !.front = n, !.sections = T] \/ g = [h EXCEPT !.sections = T]
      PROVE  g \in HeaderType
  BY <1>5 DEF HeaderType
<1>6. CASE g = Grown(h)
  <2> DEFINE new == [name |-> "other", offset |-> 0, size |-> 0]
             T == Append(h.sections, new)
  <2>1. T \in Seq(Listed)
    <3>1. new \in Listed
      BY DEF Listed
    <3> HIDE DEF new
    <3> QED BY <1>1, <3>1
  <2>2. FrontBytes(Len(h.sections) + 1) \in Nat
    <3> DEFINE m == Len(h.sections)
    <3>1. m \in Nat
      BY <1>1
    <3> HIDE DEF m
    <3>2. m + 1 \in Nat
      BY <3>1
    <3>3. FrontBytes(m + 1) \in Nat
      BY <1>2, <3>2
    <3> QED BY <3>3 DEF m
  <2>3. g = [h EXCEPT !.front = FrontBytes(Len(h.sections) + 1), !.sections = T]
    BY <1>6 DEF Grown
  <2> HIDE DEF T
  <2> QED BY <1>5, <2>1, <2>2, <2>3
<1>7. ASSUME NEW n \in 0 .. Len(h.sections), g = Cut(h, n) PROVE g \in HeaderType
  <2> DEFINE T == SubSeq(h.sections, 1, n)
  <2>1. T \in Seq(Listed)
    BY <1>1
  <2>2. FrontBytes(n) \in Nat
    BY <1>1, <1>2
  <2>3. g = [h EXCEPT !.front = FrontBytes(n), !.sections = T]
    BY <1>7 DEF Cut
  <2> HIDE DEF T
  <2> QED BY <1>5, <2>1, <2>2, <2>3
<1>8. ASSUME NEW i \in DOMAIN h.sections, NEW s \in Listed,
             g = [h EXCEPT !.sections = [h.sections EXCEPT ![i] = s]]
      PROVE  g \in HeaderType
  <2> DEFINE T == [h.sections EXCEPT ![i] = s]
  <2>1. T \in Seq(Listed)
    <3>1. i \in 1 .. Len(h.sections)
      BY <1>1
    <3> QED BY <1>1, <3>1, ExceptSeq
  <2>2. g = [h EXCEPT !.sections = T]
    BY <1>8
  <2> HIDE DEF T
  <2> QED BY <1>5, <2>1, <2>2
<1>9. ASSUME NEW i \in DOMAIN h.sections,
             \/ \E n \in Nat : g = [h EXCEPT !.sections[i].offset = n]
             \/ \E n \in Nat : g = [h EXCEPT !.sections[i].size = n]
             \/ \E n \in Name \cup {"other"} : g = [h EXCEPT !.sections[i].name = n]
      PROVE  g \in HeaderType
  <2> DEFINE c == h.sections[i]
  <2>1. c \in Listed
    BY <1>1
  <2>2. ASSUME NEW n \in Nat, g = [h EXCEPT !.sections[i].offset = n] PROVE g \in HeaderType
    <3> DEFINE s == [c EXCEPT !.offset = n]
    <3>1. s \in Listed
      BY <2>1 DEF Listed
    <3>2. g = [h EXCEPT !.sections = [h.sections EXCEPT ![i] = s]]
      BY <2>2
    <3> HIDE DEF s
    <3> QED BY <1>8, <3>1, <3>2
  <2>3. ASSUME NEW n \in Nat, g = [h EXCEPT !.sections[i].size = n] PROVE g \in HeaderType
    <3> DEFINE s == [c EXCEPT !.size = n]
    <3>1. s \in Listed
      BY <2>1 DEF Listed
    <3>2. g = [h EXCEPT !.sections = [h.sections EXCEPT ![i] = s]]
      BY <2>3
    <3> HIDE DEF s
    <3> QED BY <1>8, <3>1, <3>2
  <2>4. ASSUME NEW n \in Name \cup {"other"}, g = [h EXCEPT !.sections[i].name = n]
        PROVE  g \in HeaderType
    <3> DEFINE s == [c EXCEPT !.name = n]
    <3>1. s \in Listed
      BY <2>1 DEF Listed
    <3>2. g = [h EXCEPT !.sections = [h.sections EXCEPT ![i] = s]]
      BY <2>4
    <3> HIDE DEF s
    <3> QED BY <1>8, <3>1, <3>2
  <2> QED BY <1>9, <2>2, <2>3, <2>4
<1>10. \/ g = [h EXCEPT !.sound = FALSE] \/ g = Grown(h)
       \/ \E n \in 0 .. Len(h.sections) : g = Cut(h, n)
       \/ \E n \in Nat : \/ g = [h EXCEPT !.front = n]
                        \/ g = [h EXCEPT !.cells = n]
                        \/ g = [h EXCEPT !.edges = n]
                        \/ g = [h EXCEPT !.k = n]
       \/ \E i \in DOMAIN h.sections :
            \/ \E n \in Nat : g = [h EXCEPT !.sections[i].offset = n]
            \/ \E n \in Nat : g = [h EXCEPT !.sections[i].size = n]
            \/ \E n \in Name \cup {"other"} : g = [h EXCEPT !.sections[i].name = n]
  <2>1. \/ g = [h EXCEPT !.sound = FALSE] \/ g = Grown(h)
        \/ \E n \in 0 .. Len(h.sections) : g = Cut(h, n)
        \/ \E n \in Garbage : \/ g = [h EXCEPT !.front = n]
                             \/ g = [h EXCEPT !.cells = n % KvMod]
                             \/ g = [h EXCEPT !.edges = n % KvMod]
                             \/ g = [h EXCEPT !.k = n % KvMod]
        \/ \E i \in DOMAIN h.sections :
             \/ \E n \in Garbage : g = [h EXCEPT !.sections[i].offset = n % SizeMod]
             \/ \E n \in Garbage : g = [h EXCEPT !.sections[i].size = n % SizeMod]
             \/ \E n \in Name \cup {"other"} : g = [h EXCEPT !.sections[i].name = n]
    <3>1. \/ g = [h EXCEPT !.sound = FALSE] \/ g = Grown(h)
          \/ \E n \in 0 .. Len(h.sections) : g = Cut(h, n)
          \/ \E n \in Garbage : g = [h EXCEPT !.front = n]
          \/ g \in DamagedValue(h)
          \/ \E i \in DOMAIN h.sections : g \in DamagedSection(h, i)
      BY DEF Damaged
    <3>2. g \in DamagedValue(h) =>
            \E n \in Garbage : \/ g = [h EXCEPT !.cells = n % KvMod]
                              \/ g = [h EXCEPT !.edges = n % KvMod]
                              \/ g = [h EXCEPT !.k = n % KvMod]
      BY Zenon DEF DamagedValue
    <3>3. ASSUME NEW i \in DOMAIN h.sections, g \in DamagedSection(h, i)
          PROVE  \/ \E n \in Garbage : g = [h EXCEPT !.sections[i].offset = n % SizeMod]
                 \/ \E n \in Garbage : g = [h EXCEPT !.sections[i].size = n % SizeMod]
                 \/ \E n \in Name \cup {"other"} : g = [h EXCEPT !.sections[i].name = n]
      BY <3>3, Zenon DEF DamagedSection
    <3> QED BY <3>1, <3>2, <3>3, Zenon
  <2>2. ASSUME NEW n \in Garbage,
               \/ g = [h EXCEPT !.front = n]
               \/ g = [h EXCEPT !.cells = n % KvMod]
               \/ g = [h EXCEPT !.edges = n % KvMod]
               \/ g = [h EXCEPT !.k = n % KvMod]
        PROVE  \E m \in Nat : \/ g = [h EXCEPT !.front = m]
                              \/ g = [h EXCEPT !.cells = m]
                              \/ g = [h EXCEPT !.edges = m]
                              \/ g = [h EXCEPT !.k = m]
    <3>1. n \in Nat /\ n % KvMod \in Nat
      BY <1>3
    <3> QED BY <2>2, <3>1, Zenon
  <2>3. ASSUME NEW i \in DOMAIN h.sections, NEW n \in Garbage,
               \/ g = [h EXCEPT !.sections[i].offset = n % SizeMod]
               \/ g = [h EXCEPT !.sections[i].size = n % SizeMod]
        PROVE  \/ \E m \in Nat : g = [h EXCEPT !.sections[i].offset = m]
               \/ \E m \in Nat : g = [h EXCEPT !.sections[i].size = m]
    <3>1. n % SizeMod \in Nat
      BY <1>3
    <3> QED BY <2>3, <3>1, Zenon
  <2> QED BY <2>1, <2>2, <2>3, Zenon
<1>11. 0 \in Nat
  OBVIOUS
<1> QED BY <1>4, <1>6, <1>7, <1>9, <1>10, <1>11

(* A new file. *)
LEMMA HeaderOfFile ==
  ASSUME NEW s \in Shape, SizeOf(s) <= (LastBlock + 1) * Align
  PROVE  /\ Header(s) \in HeaderType
         /\ FileLen(s) \in Nat /\ FileLen(s) # 0 /\ FileLen(s) <= (LastBlock + 1) * Align
<1> DEFINE n == Len(SectionNames(s))
           S == Sections(s)
<1>0. s \in ShapeType
  BY QufAssumption
<1>1. /\ n \in Nat /\ 1 \in 1 .. n
      /\ S \in Seq(Section) /\ DOMAIN S = 1 .. n /\ \A i \in 1 .. n : S[i].name \in Name
  BY <1>0, SectionList, SectionTable
<1>2. /\ FileLen(s) \in Nat /\ FileLen(s) <= (LastBlock + 1) * Align
  <2>1. FileLen(s) \in Nat /\ SizeOf(s) = FileLen(s) + IF Idle(s) THEN Align ELSE 0
    BY <1>0, FileLength
  <2> QED BY <2>1, QufAssumption DEF Align
<1>3. \A i \in 1 .. n : /\ S[i].offset \in Nat /\ S[i].size \in Nat /\ Align <= S[i].offset
                        /\ S[i].offset + S[i].size <= FileLen(s)
  BY <1>0, SectionPlaces
<1> HIDE DEF n, S
<1>4. FileLen(s) # 0
  BY <1>1, <1>2, <1>3 DEF Align
<1>5. S \in Seq(Listed)
  <2>1. \A i \in 1 .. n : S[i] \in Listed
    <3>1. \A i \in 1 .. n : S[i] \in Section
      BY <1>1, ElementOfSeq
    <3> QED BY <3>1 DEF Section, Listed
  <2>2. S \in [1 .. n -> Listed]
    BY <1>1, <2>1
  <2> QED BY <1>1, <2>2, SeqDef
<1>6. Header(s) \in HeaderType
  <2>1. FrontBytes(n) \in Nat
    BY <1>1 DEF FrontBytes, HeaderBytes
  <2> QED BY <1>0, <1>5, <2>1, QufAssumption DEF Header, HeaderType, ShapeType, S, n
<1> QED BY <1>2, <1>4, <1>6

LEMMA SerializeKeeps ==
  ASSUME QufInv, NEW s \in Shape, NEW v \in Version,
         Serialize(s, v, (LastBlock + 1) * Align)
  PROVE  QufInv'
<1> DEFINE sections == ToSet(Sections(s))
<1>1. /\ SizeOf(s) <= (LastBlock + 1) * Align
      /\ mem' = [b \in 0 .. LastBlock |->
                   IF b * Align < FileLen(s) THEN Image(s, sections, v, b) ELSE mem[b]]
      /\ buf_len' = FileLen(s) /\ written' = [shape |-> s, version |-> v]
      /\ damage' = 0 /\ UNCHANGED reader
  BY DEF Serialize
<1>2. /\ Header(s) \in HeaderType
      /\ FileLen(s) \in Nat /\ FileLen(s) # 0 /\ FileLen(s) <= (LastBlock + 1) * Align
  BY <1>1, HeaderOfFile
<1> HIDE DEF sections
<1>3. mem'[0] = Header(s)
  <2>1. 0 \in 0 .. LastBlock /\ 0 * Align < FileLen(s)
    BY <1>2, QufAssumption DEF Align
  <2>2. mem'[0] = Image(s, sections, v, 0)
    BY <1>1, <2>1
  <2> QED BY <2>2 DEF Image
<1>4. Untouched'
  <2>1. /\ written'.shape = s /\ written'.version = v
    BY <1>1
  <2>2. \A b \in 0 .. LastBlock : b * Align < FileLen(s) => mem'[b] = Image(s, sections, v, b)
    BY <1>1
  <2> QED BY <1>1, <1>2, <2>1, <2>2 DEF Untouched, sections
<1>5. RowsAreInside'
  BY <1>1 DEF QufInv, RowsAreInside
<1>6. DOMAIN mem' = 0 .. LastBlock /\ damage' \in 0 .. MaxDamage
  BY <1>1, QufAssumption
<1> QED BY <1>1, <1>2, <1>3, <1>4, <1>5, <1>6 DEF QufInv

LEMMA DamageKeeps ==
  ASSUME QufInv, Damage
  PROVE  QufInv'
<1>1. /\ buf_len # 0 /\ damage < MaxDamage /\ damage' = damage + 1
      /\ UNCHANGED <<buf_len, written, reader>>
  BY DEF Damage
<1>2. PICK h \in Damaged(mem[0]) : mem' = [mem EXCEPT ![0] = h]
  BY DEF Damage
<1>3. damage \in Nat /\ mem[0] \in HeaderType
      /\ DOMAIN mem = 0 .. LastBlock /\ 0 \in 0 .. LastBlock
  BY <1>1, QufAssumption DEF QufInv
<1>4. h \in HeaderType
  BY <1>3, DamagedHeader
<1>5. DOMAIN mem' = 0 .. LastBlock /\ mem'[0] = h
  BY <1>2, <1>3
<1>6. damage' \in 0 .. MaxDamage /\ damage' # 0
  BY <1>1, <1>3, QufAssumption
<1>7. RowsAreInside'
  BY <1>1 DEF QufInv, RowsAreInside
<1> QED BY <1>1, <1>4, <1>5, <1>6, <1>7 DEF QufInv

LEMMA QufInvInit == QufInit => QufInv
<1> SUFFICES ASSUME QufInit PROVE QufInv
  OBVIOUS
<1>1. DOMAIN mem = 0 .. LastBlock /\ buf_len = 0 /\ damage = 0 /\ written = Null /\ reader = Null
  BY DEF QufInit
<1> QED BY <1>1, QufAssumption DEF QufInv, RowsAreInside

LEMMA QufInvStep == QufInv /\ [QufNext]_qufVars => QufInv'
<1> SUFFICES ASSUME QufInv, [QufNext]_qufVars PROVE QufInv'
  OBVIOUS
<1>1. ASSUME UNCHANGED <<mem, buf_len, written, damage>>, RowsAreInside' PROVE QufInv'
  BY <1>1 DEF QufInv, Untouched
<1>2. ASSUME NEW blocks \in 1 .. LastBlock + 1, NEW odd \in {0, 1},
             Deserialize(blocks * Align - odd)
      PROVE  QufInv'
  <2>1. blocks * Align - odd \in Int
    BY QufAssumption DEF Align
  <2>2. RowsAreInside'
    BY <1>2, <2>1, DeserializeInside
  <2> QED BY <1>1, <1>2, <2>2 DEF Deserialize
<1>3. CASE FreeReader
  <2>1. RowsAreInside'
    BY <1>3 DEF FreeReader, RowsAreInside
  <2> QED BY <1>1, <1>3, <2>1 DEF FreeReader
<1>4. CASE UNCHANGED qufVars
  <2>1. RowsAreInside'
    BY <1>4 DEF qufVars, QufInv, RowsAreInside
  <2> QED BY <1>1, <1>4, <2>1 DEF qufVars
<1> QED BY <1>2, <1>3, <1>4, SerializeKeeps, DamageKeeps DEF QufNext

LEMMA QufInvAlways == QufSpec => []QufInv
BY QufInvInit, QufInvStep, PTL DEF QufSpec

(* Whatever the fields of the header were damaged to, and however many of   *)
(* them, and whatever was cut off or left over: deserialize points only at  *)
(* rows that lie behind what it parsed and inside the bytes passed in, but  *)
(* for a section announced to run past the end of the address space, whose  *)
(* end wraps at quf.c:390.                                                  *)
THEOREM RowsAreInsideCorrect == QufSpec => []RowsAreInside
<1>1. QufInv => RowsAreInside
  BY DEF QufInv
<1> QED BY <1>1, QufInvAlways, PTL

-----------------------------------------------------------------------------
(* The writer's own header passes every check of the reader. *)
LEMMA OwnHeaderAccepted ==
  ASSUME NEW s \in Shape
  PROVE  Accepts(Header(s), FileLen(s))
<1> DEFINE n == Len(SectionNames(s))
           S == Sections(s)
           h == Header(s)
           F == FileLen(s)
<1>0. s \in ShapeType
  BY QufAssumption
<1>1. /\ n \in Nat /\ 1 \in 1 .. n /\ DOMAIN SectionNames(s) = 1 .. n
      /\ S \in Seq(Section) /\ DOMAIN S = 1 .. n /\ Len(S) = n
      /\ \A i \in 1 .. n : /\ S[i].name = SectionNames(s)[i] /\ S[i].name \in Name
                           /\ S[i].size = Size(s, S[i].name)
  BY <1>0, SectionList, SectionTable
<1>2. F \in Nat /\ F % Align = 0
  BY <1>0, FileLength
<1>3. \A i \in 1 .. n : /\ S[i].offset \in Nat /\ S[i].size \in Nat
                        /\ S[i].offset % Align = 0 /\ FrontBytes(n) <= S[i].offset
                        /\ S[i].offset + S[i].size <= F
  BY <1>0, SectionPlaces
<1>4. /\ h.sound = TRUE /\ h.sections = S /\ h.front = FrontBytes(n)
      /\ h.cells = s.cells /\ h.edges = s.edges /\ h.k = s.k
  BY DEF Header
<1> HIDE DEF n, S, h, F
<1>5. FrontBytes(n) <= F /\ FrontBytes(n) \in Nat
  <2>1. FrontBytes(n) \in Nat
    BY <1>1 DEF FrontBytes, HeaderBytes
  <2> QED BY <1>1, <1>2, <1>3, <2>1
<1>6. KOf(h) = s.k
  <2>1. s.k \in 1 .. KMod - 1 /\ KMod \in Nat
    BY <1>0, QufAssumption DEF ShapeType
  <2>2. s.k # 0 /\ s.k % KMod = s.k
    BY <2>1
  <2> QED BY <1>4, <2>2 DEF KOf
<1>7. ASSUME NEW i \in 1 .. n
      PROVE  /\ S[i].offset % Align = 0 /\ S[i].offset >= FrontBytes(n)
             /\ (S[i].offset + S[i].size) % SizeMod <= F
             /\ S[i].size = Expected(h, S[i])
  <2>1. \A m \in Nat : m % SizeMod <= m /\ m % SizeMod \in Nat
    BY QufAssumption DEF Align
  <2>2. S[i].offset + S[i].size \in Nat
    BY <1>3
  <2>3. (S[i].offset + S[i].size) % SizeMod <= F
    BY <1>2, <1>3, <2>1, <2>2
  <2>4. S[i].size = Expected(h, S[i])
    BY <1>1, <1>4, <1>6 DEF Expected, Size, Name
  <2> QED BY <1>3, <1>5, <2>3, <2>4
<1>8. \A s1 \in ToSet(S) : \E i \in 1 .. n : s1 = S[i]
  BY <1>1 DEF ToSet
<1>9. Len(S) <= MaxSections
  BY <1>1 DEF n, SectionNames, MaxSections
<1> QED BY <1>2, <1>4, <1>5, <1>7, <1>8, <1>9 DEF Accepts, F, h

(* Every file the writer leaves is accepted by the reader, and is as long   *)
(* as sizeof announced, but for one block when there is nothing to write.   *)
THEOREM WrittenIsAcceptedCorrect == QufSpec => []WrittenIsAccepted
<1>1. QufInv => WrittenIsAccepted
  <2> SUFFICES ASSUME QufInv, buf_len # 0, damage = 0
               PROVE  /\ Accepts(mem[0], buf_len)
                      /\ buf_len = SizeOf(written.shape)
                                     - IF Idle(written.shape) THEN Align ELSE 0
    BY DEF WrittenIsAccepted, Idle
  <2> DEFINE s == written.shape
  <2>1. /\ s \in Shape /\ buf_len = FileLen(s) /\ buf_len \in Nat
        /\ \A b \in 0 .. LastBlock : b * Align < buf_len =>
             mem[b] = Image(s, ToSet(Sections(s)), written.version, b)
    BY DEF QufInv, Untouched
  <2>2. mem[0] = Header(s)
    <3>1. 0 \in 0 .. LastBlock /\ 0 * Align < buf_len
      BY <2>1, QufAssumption DEF Align
    <3>2. mem[0] = Image(s, ToSet(Sections(s)), written.version, 0)
      BY <2>1, <3>1
    <3> QED BY <3>2 DEF Image
  <2>3. SizeOf(s) = FileLen(s) + IF Idle(s) THEN Align ELSE 0
    BY <2>1, FileLength, QufAssumption
  <2> HIDE DEF s
  <2>4. buf_len = SizeOf(s) - IF Idle(s) THEN Align ELSE 0
    BY <2>1, <2>3 DEF Align
  <2> QED BY <2>1, <2>2, <2>4, OwnHeaderAccepted DEF s
<1> QED BY <1>1, QufInvAlways, PTL

-----------------------------------------------------------------------------
(* A block of a written section holds that part of that section. *)
HoldsPart(s, version, i, part, b) ==
  /\ b \in Nat /\ b * Align < FileLen(s)
  /\ Image(s, ToSet(Sections(s)), version, b)
       = [name |-> Sections(s)[i].name, version |-> version, part |-> part,
          size |-> Sections(s)[i].size]

LEMMA PartOfSection ==
  ASSUME NEW s \in ShapeType, NEW version, NEW i \in 1 .. Len(SectionNames(s)),
         NEW part \in Nat, Align * part < Sections(s)[i].size
  PROVE  HoldsPart(s, version, i, part, Sections(s)[i].offset \div Align + part)
<1> DEFINE n == Len(SectionNames(s))
           S == Sections(s)
           off == S[i].offset
           size == S[i].size
           q == off \div Align
           b == q + part
           at == {x \in ToSet(S) : x.offset <= b * Align /\ b * Align < x.offset + x.size}
<1>1. /\ n \in Nat /\ DOMAIN S = 1 .. n /\ i \in 1 .. n
  BY SectionList, SectionTable
<1>2. /\ off \in Nat /\ size \in Nat /\ off % Align = 0 /\ Align <= off
      /\ off + size <= FileLen(s) /\ FileLen(s) \in Nat
      /\ \A j \in 1 .. n : S[j].offset \in Nat /\ S[j].size \in Nat
      /\ \A j, k \in 1 .. n : j < k => S[j].offset + S[j].size <= S[k].offset
  BY <1>1, SectionPlaces, FileLength
<1>3. q \in Nat /\ q # 0 /\ q * Align = off
  <2> HIDE DEF off
  <2> QED BY <1>2 DEF Align
<1>4. b \in Nat /\ b # 0 /\ b * Align = off + Align * part /\ b - q = part
  <2> HIDE DEF q, off
  <2> QED BY <1>2, <1>3 DEF Align
<1>5. off <= b * Align /\ b * Align < off + size /\ b * Align < FileLen(s) /\ b * Align \in Nat
  <2>1. Align * part < size
    OBVIOUS
  <2> HIDE DEF b, off, size
  <2> QED BY <1>2, <1>4, <2>1 DEF Align
<1>6. at = {S[i]}
  <2>1. S[i] \in at
    BY <1>1, <1>5 DEF ToSet
  <2>2. ASSUME NEW x \in at PROVE x = S[i]
    <3>1. PICK j \in 1 .. n : x = S[j]
      BY <1>1 DEF ToSet
    <3>2. S[j].offset <= b * Align /\ b * Align < S[j].offset + S[j].size
      BY <3>1
    <3>3. S[j].offset \in Nat /\ S[j].size \in Nat
      BY <1>2
    <3>4. ~(j < i)
      <4>1. j < i => S[j].offset + S[j].size <= off
        BY <1>1, <1>2
      <4> HIDE DEF b, off
      <4> QED BY <1>2, <1>5, <3>2, <3>3, <4>1
    <3>5. ~(i < j)
      <4>1. i < j => off + size <= S[j].offset
        BY <1>1, <1>2
      <4> HIDE DEF b, off, size
      <4> QED BY <1>2, <1>5, <3>2, <3>3, <4>1
    <3>6. j = i
      BY <1>1, <3>4, <3>5
    <3> QED BY <3>1, <3>6
  <2> HIDE DEF at
  <2> QED BY <2>1, <2>2
<1>7. Image(s, ToSet(S), version, b)
        = LET x == CHOOSE x \in at : TRUE
          IN  [name |-> x.name, version |-> version, part |-> b - x.offset \div Align,
               size |-> x.size]
  <2>1. at # {}
    BY <1>6
  <2> QED BY <1>4, <2>1 DEF Image
<1>8. (CHOOSE x \in at : TRUE) = S[i]
  <2> HIDE DEF at
  <2> QED BY <1>6
<1>9. Image(s, ToSet(S), version, b)
        = [name |-> S[i].name, version |-> version, part |-> b - q, size |-> size]
  <2> HIDE DEF at, b, S
  <2> QED BY <1>7, <1>8
<1> HIDE DEF b, S, q
<1> QED BY <1>4, <1>5, <1>9 DEF b, S, q, HoldsPart

(* The writer's own pointers. *)
LEMMA OwnPointer ==
  ASSUME NEW s \in ShapeType, NEW i \in 1 .. Len(SectionNames(s))
  PROVE  Pointer(Header(s), SectionNames(s)[i]) = Sections(s)[i].offset
<1> DEFINE names == SectionNames(s)
           n == Len(names)
           S == Sections(s)
           named == Counted(Header(s), names[i])
<1>1. /\ n = IF s.proof = Null THEN 3 ELSE 4
      /\ names[1] = "dials" /\ names[2] = "edges" /\ names[3] = "ticks"
      /\ s.proof # Null => names[4] = "proof"
  BY SectionList
<1>2. n \in Nat /\ DOMAIN S = 1 .. n /\ i \in 1 .. n /\ \A j \in 1 .. n : S[j].name = names[j]
  BY <1>1, SectionTable
<1>3. \A j \in 1 .. n : names[j] = names[i] => j = i
  <2> HIDE DEF names, n, S
  <2>1. CASE s.proof = Null
    <3>1. \A j \in 1 .. n : j \in {1, 2, 3}
      BY <1>1, <2>1
    <3> QED BY <1>1, <1>2, <3>1
  <2>2. CASE s.proof # Null
    <3>1. \A j \in 1 .. n : j \in {1, 2, 3, 4}
      BY <1>1, <2>2
    <3> QED BY <1>1, <1>2, <2>2, <3>1
  <2> QED BY <2>1, <2>2
<1>6. Header(s).sections = S
  BY DEF Header
<1>4. named = {i}
  BY <1>2, <1>3, <1>6 DEF Counted
<1>5. Max(named) = i /\ named # {}
  <2>1. {i} \in SUBSET (1 .. n)
    BY <1>2
  <2>2. Max({i}) \in {i}
    BY <1>2, <2>1, LargestOfSet
  <2> QED BY <1>4, <2>2
<1>7. Pointer(Header(s), names[i]) = IF named = {} THEN Null ELSE S[Max(named)].offset
  BY <1>6 DEF Pointer
<1> QED BY <1>5, <1>7

(* The rows of the structs take no more than the section, if every edge     *)
(* has as many buckets as the struct.                                      *)
LEMMA RowsFit ==
  ASSUME NEW s \in ShapeType, s.k >= KDefault, NEW r, r.shape = s,
         NEW i \in 1 .. Len(SectionNames(s))
  PROVE  /\ RowBytes(r, SectionNames(s)[i]) \in Nat
         /\ RowBytes(r, SectionNames(s)[i]) <= Sections(s)[i].size
<1> DEFINE name == SectionNames(s)[i]
           z == Sections(s)[i].size
<1>1. /\ z = Size(s, name) /\ z \in Nat
  BY SectionTable, SectionPlaces
<1>2. CASE name = "edges"
  <2>1. s.edges \in Nat /\ EdgeRow(s.k) \in Nat /\ EdgeStruct <= EdgeRow(s.k)
    BY QufAssumption DEF ShapeType, EdgeRow, EdgeFixed, EdgeStruct, KDefault
  <2>2. RowBytes(r, name) = s.edges * 28 /\ z = s.edges * EdgeRow(s.k)
    BY <1>1, <1>2 DEF RowBytes, Size, EdgeStruct
  <2>3. 28 * s.edges <= EdgeRow(s.k) * s.edges /\ 28 * s.edges \in Nat
    BY <2>1, LargerProduct DEF EdgeStruct
  <2>4. 28 * s.edges = s.edges * 28 /\ EdgeRow(s.k) * s.edges = s.edges * EdgeRow(s.k)
    BY <2>1
  <2> QED BY <2>2, <2>3, <2>4
<1>3. CASE name # "edges"
  <2>1. RowBytes(r, name) = z
    BY <1>1, <1>3 DEF RowBytes
  <2> QED BY <1>1, <2>1
<1> QED BY <1>2, <1>3

(* With as many buckets in a file as in the struct, or more, a reader whose *)
(* counts are those of the intact file sees what the writer last put there, *)
(* also when that happened after it loaded.                                *)
THEOREM ReaderSeesWrittenCorrect ==
  ASSUME \A s \in Shape : s.k >= KDefault
  PROVE  QufSpec => []ReaderSeesWritten
<1>1. QufInv => ReaderSeesWritten
  <2> SUFFICES ASSUME QufInv, reader # Null, written # Null, damage = 0,
                      reader.shape = written.shape,
                      reader.at = [name \in Name |-> Pointer(mem[0], name)],
                      NEW name \in ToSet(SectionNames(written.shape))
               PROVE  Shows(reader, name, written.version)
    BY DEF ReaderSeesWritten
  <2> DEFINE s == written.shape
             n == Len(SectionNames(s))
             S == Sections(s)
             rb == RowBytes(reader, name)
  <2>1. /\ s \in Shape /\ s \in ShapeType /\ s.k >= KDefault /\ buf_len = FileLen(s)
        /\ buf_len <= (LastBlock + 1) * Align /\ buf_len # 0 /\ buf_len \in Nat
        /\ \A b \in 0 .. LastBlock : b * Align < buf_len =>
             mem[b] = Image(s, ToSet(S), written.version, b)
    BY QufAssumption DEF QufInv, Untouched
  <2>2. mem[0] = Header(s)
    <3>1. 0 \in 0 .. LastBlock /\ 0 * Align < buf_len
      BY <2>1, QufAssumption DEF Align
    <3>2. mem[0] = Image(s, ToSet(S), written.version, 0)
      BY <2>1, <3>1
    <3> QED BY <3>2 DEF Image
  <2>3. PICK i \in 1 .. n : name = SectionNames(s)[i]
    <3>1. DOMAIN SectionNames(s) = 1 .. n
      BY <2>1, SectionList
    <3> QED BY <3>1 DEF ToSet
  <2>4. name \in Name /\ S[i].name = name /\ S[i].offset \in Nat /\ S[i].size \in Nat
    BY <2>1, <2>3, SectionSizes, SectionTable, SectionPlaces
  <2>5. reader.at[name] = S[i].offset
    BY <2>1, <2>2, <2>3, <2>4, OwnPointer
  <2>6. rb \in Nat /\ rb <= S[i].size
    BY <2>1, <2>3, RowsFit
  <2>7. ASSUME rb # 0, NEW part \in 0 .. (rb - 1) \div Align
        PROVE  LET b == reader.at[name] \div Align + part
               IN  /\ b <= LastBlock
                   /\ mem[b].name = name /\ mem[b].version = written.version
                   /\ mem[b].part = part /\ rb <= mem[b].size
    <3> DEFINE b == S[i].offset \div Align + part
    <3>1. part \in Nat /\ Align * part < S[i].size
      <4> DEFINE z == S[i].size
      <4>1. z \in Nat /\ rb <= z /\ part \in Nat /\ part <= (rb - 1) \div 32
        BY <2>4, <2>6, <2>7 DEF Align
      <4> HIDE DEF z, rb
      <4>2. 32 * part < z
        BY <2>6, <2>7, <4>1
      <4> QED BY <4>1, <4>2 DEF Align, z
    <3>2. /\ b \in Nat /\ b * Align < FileLen(s)
          /\ Image(s, ToSet(S), written.version, b)
               = [name |-> S[i].name, version |-> written.version, part |-> part,
                  size |-> S[i].size]
      <4>1. s \in ShapeType /\ i \in 1 .. Len(SectionNames(s))
            /\ part \in Nat /\ Align * part < Sections(s)[i].size
        BY <2>1, <2>3, <3>1
      <4>2. HoldsPart(s, written.version, i, part, b)
        <5> HIDE DEF s
        <5> QED BY <4>1, PartOfSection
      <4> HIDE DEF s, b
      <4> QED BY <4>2 DEF HoldsPart
    <3> HIDE DEF b, S, s, rb
    <3>3. b <= LastBlock /\ b \in 0 .. LastBlock
      BY <2>1, <3>2, QufAssumption DEF Align
    <3>4. mem[b] = [name |-> S[i].name, version |-> written.version, part |-> part,
                    size |-> S[i].size]
      BY <2>1, <3>2, <3>3
    <3>5. b = reader.at[name] \div Align + part
      BY <2>5 DEF b
    <3> QED BY <2>4, <2>6, <3>3, <3>4, <3>5
  <2> QED BY <2>7 DEF Shows
<1> QED BY <1>1, QufInvAlways, PTL
=============================================================================
