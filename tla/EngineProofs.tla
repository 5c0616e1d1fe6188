---------------------------- MODULE EngineProofs ----------------------------
(***************************************************************************)
(* Proofs about Engine.tla and EngineSheet.tla for every value of their     *)
(* constants.                                                              *)
(***************************************************************************)
EXTENDS EngineSheet, SequenceTheorems, FiniteSetTheorems, TLAPS

USE DEF Index, Slot, Free

-----------------------------------------------------------------------------
(* What each kind of change does to the array of cells.                     *)

LEMMA IntervalEnd ==
  ASSUME NEW m \in Nat, NEW n \in Nat, 1 .. m = 1 .. n
  PROVE  m = n
<1>1. CASE m < n
  <2>1. n \in 1 .. n /\ n \notin 1 .. m
    BY <1>1
  <2> QED BY <2>1
<1>2. CASE n < m
  <2>1. m \in 1 .. m /\ m \notin 1 .. n
    BY <1>2
  <2> QED BY <2>1
<1> QED BY <1>1, <1>2

LEMMA RewrittenCell ==
  ASSUME NEW c \in Cell, NEW v \in Value
  PROVE  /\ Rewritten(c, v) \in Cell
         /\ Rewritten(c, v).id = c.id
         /\ Rewritten(c, v).value = v
         /\ Rewritten(c, v).version = c.version + 1
<1> DEFINE r == Rewritten(c, v)
<1>1. c.version + 1 \in Nat
  BY DEF Cell
<1>2. [c EXCEPT !.value = v] \in Cell
  BY DEF Cell
<1>3. \A d \in Cell, n \in Nat : [d EXCEPT !.version = n] \in Cell
  BY DEF Cell
<1>4. r = [[c EXCEPT !.value = v] EXCEPT !.version = c.version + 1]
  BY DEF Rewritten, Cell
<1>5. r.id = c.id /\ r.value = v /\ r.version = c.version + 1
  BY DEF Cell, Rewritten
<1> QED
  BY <1>1, <1>2, <1>3, <1>4, <1>5

LEMMA CellInArray ==
  ASSUME TypeOK, NEW i \in DOMAIN cells
  PROVE  /\ DOMAIN cells = 1 .. Len(cells) /\ Len(cells) \in 0 .. Cap
         /\ i \in 1 .. Len(cells) /\ i \in Index
         /\ cells[i] \in Cell
BY ConstantsAssumption, ElementOfSeq, LenProperties DEF TypeOK

LEMMA JournalType ==
  ASSUME TypeOK, NEW op \in {"BIND", "LINK", "EFFECT", "TICK", "FORGET"},
         NEW id \in Id \cup {NoId}, NEW arg \in Nat, JournalAppend(op, id, arg)
  PROVE  journal' \in Seq(Entry) /\ journal_len' \in 0 .. JournalCap
<1> DEFINE e == [op |-> op, id |-> id, arg |-> arg]
<1>1. e \in Entry
  BY DEF Entry
<1>2. Append(journal, e) \in Seq(Entry)
  BY <1>1 DEF TypeOK
<1>3. HeaderLen + (IF id = NoId THEN 0 ELSE IdLen[id]) \in Nat
  BY ConstantsAssumption DEF HeaderLen
<1> DEFINE len == HeaderLen + (IF id = NoId THEN 0 ELSE IdLen[id])
<1>4. \/ /\ journal_len + len <= JournalCap
         /\ journal' = Append(journal, e)
         /\ journal_len' = journal_len + len
      \/ UNCHANGED <<journal, journal_len>>
  BY DEF JournalAppend
<1>5. len \in Nat
  BY <1>3
<1> HIDE DEF e, len
<1>6. journal_len' \in 0 .. JournalCap
  BY <1>4, <1>5, ConstantsAssumption DEF TypeOK
<1> QED
  BY <1>2, <1>4, <1>6 DEF TypeOK

LEMMA AppendCell ==
  ASSUME TypeOK, UniqueIds, NEW c \in Cell, c.id \notin Live, Len(cells) < Cap,
         cells' = Append(cells, c)
  PROVE  /\ cells' \in Seq(Cell) /\ Len(cells') = Len(cells) + 1 /\ Len(cells') <= Cap
         /\ \A i \in DOMAIN cells : i \in DOMAIN cells' /\ cells'[i] = cells[i]
         /\ Live' = Live \cup {c.id}
         /\ UniqueIds'
<1>1. cells' \in Seq(Cell) /\ Len(cells') = Len(cells) + 1 /\ Len(cells') <= Cap
  BY ConstantsAssumption DEF TypeOK
<1>2. /\ DOMAIN cells = 1 .. Len(cells) /\ DOMAIN cells' = 1 .. Len(cells) + 1
      /\ \A i \in DOMAIN cells : cells'[i] = cells[i]
      /\ cells'[Len(cells) + 1] = c
      /\ Len(cells) \in Nat
  BY <1>1 DEF TypeOK
<1>3. Live' = Live \cup {c.id}
  BY <1>2 DEF Live
<1>4. UniqueIds'
  BY <1>2 DEF UniqueIds, Live
<1> QED
  BY <1>1, <1>2, <1>3, <1>4

LEMMA UpdateCell ==
  ASSUME TypeOK, UniqueIds, NEW i \in DOMAIN cells, NEW v \in Value,
         cells' = [cells EXCEPT ![i] = Rewritten(cells[i], v)]
  PROVE  /\ cells' \in Seq(Cell) /\ Len(cells') = Len(cells) /\ DOMAIN cells' = DOMAIN cells
         /\ \A k \in DOMAIN cells : cells'[k].id = cells[k].id
         /\ \A k \in DOMAIN cells \ {i} : cells'[k] = cells[k]
         /\ cells'[i].value = v /\ cells'[i].version = cells[i].version + 1
         /\ Live' = Live
         /\ UniqueIds'
<1> DEFINE c == Rewritten(cells[i], v)
<1>1. cells[i] \in Cell /\ i \in 1 .. Len(cells)
  BY CellInArray
<1>2. c \in Cell /\ c.id = cells[i].id /\ c.value = v /\ c.version = cells[i].version + 1
  BY <1>1, RewrittenCell
<1>3. cells' = [cells EXCEPT ![i] = c]
  OBVIOUS
<1> HIDE DEF c
<1>4. /\ cells' \in Seq(Cell) /\ Len(cells') = Len(cells)
      /\ DOMAIN cells' = DOMAIN cells
      /\ \A k \in DOMAIN cells : cells'[k] = IF k = i THEN c ELSE cells[k]
  BY <1>1, <1>2, <1>3, ExceptSeq, LenProperties DEF TypeOK
<1>5. \A k \in DOMAIN cells : cells'[k].id = cells[k].id
  BY <1>2, <1>4
<1>6. Live' = Live
  BY <1>4, <1>5 DEF Live
<1>7. UniqueIds'
  BY <1>4, <1>5 DEF UniqueIds
<1> QED
  BY <1>2, <1>4, <1>5, <1>6, <1>7

LEMMA RemoveCell ==
  ASSUME TypeOK, UniqueIds, NEW i \in DOMAIN cells, cells' = Without(i)
  PROVE  /\ cells' \in Seq(Cell) /\ Len(cells') = Len(cells) - 1 /\ Len(cells') <= Cap
         /\ DOMAIN cells' = 1 .. Len(cells) - 1
         /\ \A k \in DOMAIN cells' :
              cells'[k] = IF k < i THEN cells[k] ELSE cells[k + 1]
         /\ Live' = Live \ {cells[i].id}
         /\ UniqueIds'
<1>1. DOMAIN cells = 1 .. Len(cells) /\ Len(cells) \in 1 .. Cap /\ i \in 1 .. Len(cells)
  BY CellInArray, ConstantsAssumption
<1>2. \A k \in 1 .. Len(cells) : cells[k] \in Cell
  BY <1>1, CellInArray
<1>3. Without(i) \in [1 .. Len(cells) - 1 -> Cell]
  BY <1>1, <1>2 DEF Without
<1>4. /\ cells' \in Seq(Cell) /\ Len(cells') = Len(cells) - 1
      /\ DOMAIN cells' = 1 .. Len(cells) - 1
  <2>1. cells' \in Seq(Cell)
    BY <1>1, <1>3, SeqDef
  <2>2. DOMAIN cells' = 1 .. Len(cells) - 1
    BY <1>3
  <2>3. Len(cells') \in Nat /\ DOMAIN cells' = 1 .. Len(cells')
    BY <2>1, LenProperties
  <2>4. Len(cells) - 1 \in Nat
    BY <1>1
  <2>5. Len(cells') = Len(cells) - 1
    <3>1. 1 .. Len(cells') = 1 .. Len(cells) - 1
      BY <2>2, <2>3, Zenon
    <3> QED BY <2>3, <2>4, <3>1, IntervalEnd
  <2> QED BY <2>1, <2>2, <2>5
<1>5. \A k \in DOMAIN cells' : cells'[k] = IF k < i THEN cells[k] ELSE cells[k + 1]
  BY <1>4 DEF Without
<1>6. Live' = Live \ {cells[i].id}
  <2>1. ASSUME NEW k \in DOMAIN cells'
        PROVE  \E m \in DOMAIN cells \ {i} : cells'[k].id = cells[m].id
    <3>1. CASE k < i
      BY <1>1, <1>4, <1>5, <3>1
    <3>2. CASE ~(k < i)
      <4>1. k + 1 \in DOMAIN cells \ {i} /\ cells'[k] = cells[k + 1]
        BY <1>1, <1>4, <1>5, <3>2
      <4> QED BY <4>1
    <3> QED BY <3>1, <3>2
  <2>2. ASSUME NEW m \in DOMAIN cells \ {i}
        PROVE  \E k \in DOMAIN cells' : cells'[k] = cells[m]
    <3>1. CASE m < i
      BY <1>1, <1>4, <1>5, <3>1
    <3>2. CASE ~(m < i)
      <4>1. m - 1 \in DOMAIN cells' /\ ~(m - 1 < i) /\ (m - 1) + 1 = m
        BY <1>1, <1>4, <3>2
      <4>2. cells'[m - 1] = cells[m]
        BY <1>5, <4>1
      <4> QED BY <4>1, <4>2
    <3> QED BY <3>1, <3>2
  <2> QED
    BY <2>1, <2>2 DEF Live, UniqueIds
<1>7. UniqueIds'
  <2> SUFFICES ASSUME NEW k \in DOMAIN cells', NEW m \in DOMAIN cells',
                      cells'[k].id = cells'[m].id
               PROVE  k = m
    BY DEF UniqueIds
  <2>1. \A x \in DOMAIN cells' :
          /\ (IF x < i THEN x ELSE x + 1) \in DOMAIN cells
          /\ cells'[x] = cells[IF x < i THEN x ELSE x + 1]
    BY <1>1, <1>4, <1>5
  <2>2. (IF k < i THEN k ELSE k + 1) = (IF m < i THEN m ELSE m + 1)
    BY <2>1 DEF UniqueIds
  <2>3. k \in Int /\ m \in Int /\ i \in Int
    BY <1>1, <1>4
  <2> QED BY <2>2, <2>3
<1> QED
  BY <1>1, <1>4, <1>5, <1>6, <1>7, ConstantsAssumption

LEMMA IndexOfLive ==
  ASSUME TypeOK, UniqueIds, NEW i \in DOMAIN cells
  PROVE  IndexOf(cells[i].id) = i
BY DEF IndexOf, UniqueIds

LEMMA LiveIndex ==
  ASSUME TypeOK, NEW id \in Live
  PROVE  IndexOf(id) \in DOMAIN cells /\ cells[IndexOf(id)].id = id
BY DEF IndexOf, Live

(* An evaluator's result is a value: its inputs are values of live cells.   *)
LEMMA EvaluatedType ==
  ASSUME TypeOK, NEW i \in DOMAIN cells, Evaluable(cells[i])
  PROVE  Evaluated(cells[i]) \in Value
<1> DEFINE c == cells[i]
           n == NumInputs(c)
           inputs == [k \in 1 .. n |-> cells[IndexOf(c.reads[k])].value]
<1>1. c \in Cell
  BY CellInArray
<1>2. c.eval \in Formula /\ c.reads \in Seq(Id) /\ Len(c.reads) \in Nat
  BY <1>1 DEF Cell, Evaluable
<1>3. n \in 0 .. MaxReads
  BY <1>2, ConstantsAssumption DEF NumInputs
<1>4. ASSUME NEW k \in 1 .. n
      PROVE  cells[IndexOf(c.reads[k])].value \in Value
  <2>1. c.reads[k] \in Live
    BY DEF Evaluable
  <2>2. IndexOf(c.reads[k]) \in DOMAIN cells
    BY <2>1, LiveIndex
  <2>3. cells[IndexOf(c.reads[k])] \in Cell
    BY <2>2, CellInArray
  <2> QED BY <2>3 DEF Cell
<1>5. inputs \in [1 .. n -> Value]
  BY <1>4
<1>6. Evaluated(c) = Eval(c.eval, inputs)
  BY DEF Evaluated
<1> HIDE DEF inputs, n, c
<1>7. Eval(c.eval, inputs) \in Value
  BY <1>2, <1>3, <1>5, EvalAssumption
<1> QED
  BY <1>6, <1>7 DEF c

-----------------------------------------------------------------------------
(* TypeOK and UniqueIds, proved together: the array operations need both.   *)
EngineInv == TypeOK /\ UniqueIds

LEMMA ShapeInit == Init => EngineInv
<1> SUFFICES ASSUME Init PROVE EngineInv
  OBVIOUS
<1>1. cells = << >> /\ cells \in Seq(Cell) /\ Len(cells) = 0
  BY DEF Init
<1>2. journal \in Seq(Entry)
  BY DEF Init
<1>3. links \in [Slot -> (Index \X Index) \cup {Free}]
  BY DEF Init
<1>4. TypeOK
  BY <1>1, <1>2, <1>3, ConstantsAssumption DEF Init, TypeOK
<1>5. UniqueIds
  BY <1>1 DEF UniqueIds
<1> QED BY <1>4, <1>5 DEF EngineInv

LEMMA RecomputeShape ==
  ASSUME EngineInv, NEW i \in DOMAIN cells, Dirty(i), Recompute(i)
  PROVE  /\ Evaluated(cells[i]) \in Value
         /\ cells' \in Seq(Cell) /\ Len(cells') = Len(cells)
         /\ journal' \in Seq(Entry) /\ journal_len' \in 0 .. JournalCap
         /\ UniqueIds'
<1>1. Evaluated(cells[i]) \in Value
  BY EvaluatedType DEF Dirty, EngineInv
<1>2. cells[i].id \in Id \cup {NoId} /\ cells[i].version + 1 \in Nat
  BY CellInArray DEF Cell, EngineInv
<1>3. journal' \in Seq(Entry) /\ journal_len' \in 0 .. JournalCap
  BY <1>2, JournalType DEF Recompute, EngineInv
<1>4. cells' \in Seq(Cell) /\ Len(cells') = Len(cells) /\ UniqueIds'
  BY <1>1, UpdateCell DEF Recompute, EngineInv
<1> QED BY <1>1, <1>3, <1>4

LEMMA ShapeStep == EngineInv /\ [Next]_vars => EngineInv'
<1> SUFFICES ASSUME EngineInv, [Next]_vars PROVE EngineInv'
  OBVIOUS
<1> USE DEF EngineInv
<1>0. /\ DOMAIN cells = 1 .. Len(cells) /\ Len(cells) \in 0 .. Cap /\ Cap \in Nat
  BY ConstantsAssumption DEF TypeOK
<1>1. ASSUME NEW id \in Id, NEW v \in Value, BindNew(id, v) PROVE EngineInv'
  <2> DEFINE c == [id |-> id, value |-> v, version |-> 1,
                   eval |-> NoFormula, reads |-> << >>]
  <2>1. c \in Cell /\ c.id = id
    BY DEF Cell
  <2>2. cells' = Append(cells, c) /\ id \notin Live /\ Len(cells) < Cap
    BY <1>1 DEF BindNew
  <2> HIDE DEF c
  <2>3. cells' \in Seq(Cell) /\ Len(cells') <= Cap /\ Len(cells') = Len(cells) + 1
        /\ UniqueIds'
    BY <2>1, <2>2, AppendCell
  <2>4. journal' \in Seq(Entry) /\ journal_len' \in 0 .. JournalCap
    BY <1>1, JournalType DEF BindNew
  <2> QED BY <1>0, <1>1, <2>3, <2>4 DEF BindNew, TypeOK
<1>2. ASSUME NEW i \in DOMAIN cells, NEW v \in Value, Rebind(i, v) PROVE EngineInv'
  <2>1. cells[i].id \in Id \cup {NoId} /\ cells[i].version + 1 \in Nat
    BY CellInArray DEF Cell
  <2>2. journal' \in Seq(Entry) /\ journal_len' \in 0 .. JournalCap
    BY <1>2, <2>1, JournalType DEF Rebind
  <2>3. cells' \in Seq(Cell) /\ Len(cells') = Len(cells) /\ UniqueIds'
    BY <1>2, UpdateCell DEF Rebind
  <2> QED BY <1>0, <1>2, <2>2, <2>3 DEF Rebind, TypeOK
<1>3. ASSUME NEW r \in Registration, NEW v \in Value, Register(r, v) PROVE EngineInv'
  <2> DEFINE c == [id |-> r.id, value |-> v, version |-> 0,
                   eval |-> r.eval, reads |-> r.reads]
  <2>1. r.id \in Id /\ r.eval \in Formula /\ r.reads \in Seq(Id)
    BY ConstantsAssumption
  <2>2. c \in Cell /\ c.id = r.id
    BY <2>1 DEF Cell
  <2>3. cells' = Append(cells, c) /\ r.id \notin Live /\ Len(cells) < Cap
    BY <1>3 DEF Register
  <2> HIDE DEF c
  <2>4. cells' \in Seq(Cell) /\ Len(cells') <= Cap /\ Len(cells') = Len(cells) + 1
        /\ UniqueIds'
    BY <2>2, <2>3, AppendCell
  <2> QED BY <1>0, <1>3, <2>4 DEF Register, TypeOK
<1>4. ASSUME NEW i \in DOMAIN cells, NEW j \in DOMAIN cells, Link(i, j) PROVE EngineInv'
  <2>1. i \in Index /\ j \in Index /\ j - 1 \in Nat
    BY <1>0
  <2>2. links' \in [Slot -> (Index \X Index) \cup {Free}]
    BY <1>4, <2>1 DEF Link, TypeOK
  <2>3. cells[i].id \in Id \cup {NoId}
    BY CellInArray DEF Cell
  <2>4. journal' \in Seq(Entry) /\ journal_len' \in 0 .. JournalCap
    BY <1>4, <2>1, <2>3, JournalType DEF Link
  <2> QED BY <1>4, <2>2, <2>4 DEF Link, TypeOK, UniqueIds
<1>5. ASSUME NEW i \in DOMAIN cells, Effect(i) PROVE EngineInv'
  <2>1. Dirty(i) /\ Recompute(i)
    BY <1>5 DEF Effect
  <2> QED BY <1>0, <1>5, <2>1, RecomputeShape DEF Effect, TypeOK
<1>6. CASE TickBegin
  BY <1>0, <1>6 DEF TickBegin, TypeOK, UniqueIds
<1>7. CASE TickCell
  <2>1. pos \in DOMAIN cells /\ pos' = pos + 1 /\ UNCHANGED <<links, tick>>
    BY <1>7 DEF TickCell
  <2>2. CASE Dirty(pos) /\ Recompute(pos)
    <3>1. /\ cells' \in Seq(Cell) /\ Len(cells') = Len(cells) /\ UniqueIds'
          /\ journal' \in Seq(Entry) /\ journal_len' \in 0 .. JournalCap
      BY <2>1, <2>2, RecomputeShape
    <3> QED BY <1>0, <2>1, <3>1 DEF TypeOK
  <2>3. CASE UNCHANGED <<cells, journal, journal_len>>
    BY <1>0, <2>1, <2>3 DEF TypeOK, UniqueIds
  <2> QED BY <1>7, <2>2, <2>3 DEF TickCell
<1>8. CASE TickEnd
  <2>1. tick + 1 \in Nat
    BY DEF TypeOK
  <2>2. journal' \in Seq(Entry) /\ journal_len' \in 0 .. JournalCap
    BY <1>8, <2>1, JournalType DEF TickEnd
  <2> QED BY <1>0, <1>8, <2>1, <2>2 DEF TickEnd, TypeOK, UniqueIds
<1>9. ASSUME NEW i \in DOMAIN cells, Forget(i) PROVE EngineInv'
  <2>1. cells[i].id \in Id \cup {NoId}
    BY CellInArray DEF Cell
  <2>2. journal' \in Seq(Entry) /\ journal_len' \in 0 .. JournalCap
    BY <1>9, <2>1, JournalType DEF Forget
  <2>3. cells' \in Seq(Cell) /\ Len(cells') = Len(cells) - 1 /\ Len(cells') <= Cap
        /\ UniqueIds'
    BY <1>9, RemoveCell DEF Forget
  <2>4. links' \in [Slot -> (Index \X Index) \cup {Free}]
    BY <1>9 DEF Forget, Severed, TypeOK
  <2> QED BY <1>0, <1>9, <2>2, <2>3, <2>4 DEF Forget, TypeOK
<1>10. CASE UNCHANGED vars
  BY <1>10 DEF vars, TypeOK, UniqueIds
<1> QED
  BY <1>1, <1>2, <1>3, <1>4, <1>5, <1>6, <1>7, <1>8, <1>9, <1>10 DEF Next

LEMMA ShapeAlways == Spec => []EngineInv
BY ShapeInit, ShapeStep, PTL DEF Spec

(* The engine's variables keep their types: indices stay inside the array   *)
(* and the link table, and journal_len never passes journal_cap.           *)
THEOREM TypeCorrect == Spec => []TypeOK
<1>1. EngineInv => TypeOK
  BY DEF EngineInv
<1> QED BY <1>1, ShapeAlways, PTL

(* BIND never makes a second cell of a live id, and FORGET's shift neither   *)
(* loses nor duplicates one.                                               *)
THEOREM UniqueIdsCorrect == Spec => []UniqueIds
<1>1. EngineInv => UniqueIds
  BY DEF EngineInv
<1> QED BY <1>1, ShapeAlways, PTL

-----------------------------------------------------------------------------
(* The DAG law.  It is inductive only together with WithinWindow: has_cycle *)
(* sees every edge just as long as no used slot lies beyond the rows of the *)
(* live cells.                                                             *)
LEMMA EdgeTypes ==
  ASSUME TypeOK, NEW e \in Edges
  PROVE  e[1] \in Index /\ e[2] \in Index /\ e = <<e[1], e[2]>>
BY DEF TypeOK, Edges, Used

LEMMA VisitedClosed ==
  ASSUME TypeOK, WithinWindow, NEW j \in Index
  PROVE  j \in Visited(j) /\ Closed(Visited(j), Edges)
<1>1. ScannedEdges = Edges
  BY DEF WithinWindow, ScannedEdges, Edges
<1>2. j \in Visited(j)
  BY DEF Visited
<1>3. ASSUME NEW e \in Edges, e[1] \in Visited(j)
      PROVE  e[2] \in Visited(j)
  <2>1. e[2] \in Index
    BY EdgeTypes
  <2>2. ASSUME NEW S \in SUBSET Index, j \in S, Closed(S, ScannedEdges)
        PROVE  e[2] \in S
    <3>1. e[1] \in S
      BY <1>3, <2>2 DEF Visited
    <3> QED BY <1>1, <2>2, <3>1 DEF Closed
  <2> QED BY <2>1, <2>2 DEF Visited
<1> QED BY <1>2, <1>3 DEF Closed

LEMMA LinkKeepsAcyclic ==
  ASSUME TypeOK, WithinWindow, Acyclic, NEW i \in Index, NEW j \in Index,
         ~HasCycle(i, j), NEW k \in Slot, links[k] = Free,
         links' = [links EXCEPT ![k] = <<i, j>>]
  PROVE  Acyclic'
<1> DEFINE V == Visited(j)
<1>1. ASSUME NEW x \in Index, NEW y \in Index, <<x, y>> \in Edges'
      PROVE  <<x, y>> \in Edges \/ (x = i /\ y = j)
  <2>1. PICK m \in Slot : links'[m] = <<x, y>> /\ links'[m] # Free
    BY <1>1 DEF Edges, Used
  <2>2. CASE m = k
    <3>1. links'[m] = <<i, j>>
      BY <2>2 DEF TypeOK
    <3> QED BY <2>1, <3>1
  <2>3. CASE m # k
    <3>1. links[m] = <<x, y>> /\ links[m] # Free
      BY <2>1, <2>3 DEF TypeOK
    <3>2. m \in Used
      BY <3>1 DEF Used
    <3>3. links[m] \in Edges
      BY <3>2 DEF Edges
    <3> QED BY <3>1, <3>3
  <2> QED BY <2>2, <2>3
<1>2. j \in V /\ i \notin V /\ Closed(V, Edges) /\ V \subseteq Index
  BY VisitedClosed DEF HasCycle, Visited
<1> HIDE DEF V
<1> SUFFICES ASSUME NEW S \in SUBSET Index, S # {}
             PROVE  \E x \in S : \A y \in S : <<x, y>> \notin Edges'
  BY DEF Acyclic
<1>3. CASE j \in S
  <2>1. PICK x \in S \cap V : \A y \in S \cap V : <<x, y>> \notin Edges
    <3>1. S \cap V \in SUBSET Index /\ S \cap V # {}
      BY <1>2, <1>3
    <3> QED BY <3>1 DEF Acyclic
  <2>2. ASSUME NEW y \in S, <<x, y>> \in Edges PROVE FALSE
    <3>1. y \in V
      BY <1>2, <2>2 DEF Closed
    <3> QED BY <2>1, <2>2, <3>1
  <2>3. x # i
    BY <1>2
  <2> QED BY <1>1, <2>2, <2>3
<1>4. CASE j \notin S
  <2>1. PICK x \in S : \A y \in S : <<x, y>> \notin Edges
    BY DEF Acyclic
  <2> QED BY <1>1, <1>4, <2>1
<1> QED BY <1>3, <1>4

LEMMA FewerEdgesAcyclic ==
  ASSUME Acyclic, Edges' \subseteq Edges
  PROVE  Acyclic'
BY DEF Acyclic

LEMMA AcyclicStep ==
  EngineInv /\ WithinWindow /\ Acyclic /\ [Next /\ WithinWindow']_vars
    => WithinWindow' /\ Acyclic'
<1> SUFFICES ASSUME EngineInv, WithinWindow, Acyclic, [Next /\ WithinWindow']_vars
             PROVE  WithinWindow' /\ Acyclic'
  OBVIOUS
<1>1. ASSUME UNCHANGED links PROVE Acyclic'
  BY <1>1, FewerEdgesAcyclic DEF Edges, Used
<1>2. ASSUME NEW i \in DOMAIN cells, NEW j \in DOMAIN cells, Link(i, j)
      PROVE  Acyclic'
  <2>1. i \in Index /\ j \in Index
    BY CellInArray DEF EngineInv
  <2>2. PICK k \in Slot : FirstFree(k) /\ links' = [links EXCEPT ![k] = <<i, j>>]
    BY <1>2 DEF Link
  <2>3. ~HasCycle(i, j)
    BY <1>2 DEF Link
  <2> QED BY <2>1, <2>2, <2>3, LinkKeepsAcyclic DEF FirstFree, EngineInv
<1>3. ASSUME NEW i \in DOMAIN cells, Forget(i)
      PROVE  Acyclic'
  <2>1. links' = Severed(i)
    BY <1>3 DEF Forget
  <2>2. Edges' \subseteq Edges
    BY <2>1 DEF Severed, Edges, Used
  <2> QED BY <2>2, FewerEdgesAcyclic
<1>4. CASE UNCHANGED vars
  BY <1>1, <1>4 DEF vars, WithinWindow, Used
<1>5. CASE Next /\ WithinWindow'
  BY <1>1, <1>2, <1>3, <1>5
  DEF Next, BindNew, Rebind, Register, Effect, TickBegin, TickCell, TickEnd
<1> QED BY <1>4, <1>5

(* LINK keeps the DAG law as long as every used slot stays inside the rows  *)
(* of the live cells, which has_cycle's scan is limited to.                *)
THEOREM AcyclicCorrect == WindowSpec => []Acyclic
<1>1. Init => EngineInv /\ WithinWindow /\ Acyclic
  <2>1. Init => Edges = {} /\ Used = {}
    BY DEF Init, Edges, Used
  <2> QED BY <2>1, ShapeInit DEF WithinWindow, Acyclic
<1>2. EngineInv /\ WithinWindow /\ Acyclic /\ [Next /\ WithinWindow']_vars
        => (EngineInv /\ WithinWindow /\ Acyclic)'
  BY ShapeStep, AcyclicStep
<1> QED BY <1>1, <1>2, PTL DEF WindowSpec

-----------------------------------------------------------------------------
(* The engine implements CellStore: every step changes one entry of the     *)
(* store as one of its actions allows, or none.                            *)
LEMMA StoreAfter ==
  ASSUME UniqueIds', NEW F, F = [x \in Live' |-> F[x]],
         \A m \in DOMAIN cells' :
           F[cells'[m].id] = [value |-> cells'[m].value, version |-> cells'[m].version]
  PROVE  Store' = F
<1>1. \A m \in DOMAIN cells' :
        (CHOOSE i \in DOMAIN cells' : cells'[i].id = cells'[m].id) = m
  BY DEF UniqueIds
<1>2. \A x \in Live' : Store'[x] = F[x]
  BY <1>1 DEF Store, Live, IndexOf
<1>3. Store' = [x \in Live' |-> Store'[x]]
  BY DEF Store
<1> QED BY <1>2, <1>3

LEMMA StoreEntry ==
  ASSUME EngineInv, NEW m \in DOMAIN cells
  PROVE  /\ cells[m].id \in Live
         /\ Store[cells[m].id] = [value |-> cells[m].value, version |-> cells[m].version]
BY IndexOfLive DEF Store, EngineInv, Live

LEMMA AppendMapsToCreate ==
  ASSUME EngineInv, NEW c \in Cell, c.id \notin Live, Len(cells) < Cap,
         c.version \in {0, 1}, cells' = Append(cells, c), tick' = tick
  PROVE  CS!Create(c.id, c.value, c.version)
<1> DEFINE F == [x \in Live \cup {c.id} |->
                   IF x = c.id THEN [value |-> c.value, version |-> c.version]
                   ELSE Store[x]]
<1>1. /\ Len(cells') = Len(cells) + 1 /\ cells' \in Seq(Cell) /\ UniqueIds'
      /\ \A i \in DOMAIN cells : i \in DOMAIN cells' /\ cells'[i] = cells[i]
      /\ Live' = Live \cup {c.id}
  BY AppendCell DEF EngineInv
<1>2. DOMAIN cells = 1 .. Len(cells) /\ DOMAIN cells' = 1 .. Len(cells) + 1
      /\ Len(cells) \in Nat /\ cells'[Len(cells) + 1] = c
  BY <1>1, LenProperties DEF EngineInv, TypeOK
<1>3. ASSUME NEW m \in DOMAIN cells'
      PROVE  F[cells'[m].id] = [value |-> cells'[m].value, version |-> cells'[m].version]
  <2>1. CASE m \in DOMAIN cells
    BY <1>1, <2>1, StoreEntry
  <2>2. CASE m = Len(cells) + 1
    BY <1>2, <2>2
  <2> QED BY <1>2, <2>1, <2>2
<1>4. F = [x \in Live' |-> F[x]]
  BY <1>1
<1>5. Store' = F
  <2> HIDE DEF F
  <2> QED BY <1>1, <1>3, <1>4, StoreAfter
<1>6. DOMAIN Store = Live
  BY DEF Store
<1> QED BY <1>5, <1>6 DEF CS!Create

LEMMA RewriteMapsToUpdate ==
  ASSUME EngineInv, NEW i \in DOMAIN cells, NEW v \in Value, ~ValueEq(cells[i].value, v),
         cells' = [cells EXCEPT ![i] = Rewritten(cells[i], v)], tick' = tick
  PROVE  CS!Update(cells[i].id, v)
<1> DEFINE F == [Store EXCEPT ![cells[i].id] =
                   [value |-> v, version |-> Store[cells[i].id].version + 1]]
<1>1. /\ DOMAIN cells' = DOMAIN cells /\ Live' = Live /\ UniqueIds'
      /\ \A k \in DOMAIN cells : cells'[k].id = cells[k].id
      /\ \A k \in DOMAIN cells \ {i} : cells'[k] = cells[k]
      /\ cells'[i].value = v /\ cells'[i].version = cells[i].version + 1
  BY UpdateCell DEF EngineInv
<1>2. Store = [x \in Live |-> Store[x]]
  BY DEF Store
<1>3. Store[cells[i].id] = [value |-> cells[i].value, version |-> cells[i].version]
  BY StoreEntry
<1>4. ASSUME NEW m \in DOMAIN cells'
      PROVE  F[cells'[m].id] = [value |-> cells'[m].value, version |-> cells'[m].version]
  <2>1. CASE m = i
    BY <1>1, <1>2, <1>3, <2>1, StoreEntry
  <2>2. CASE m # i
    <3>1. cells[m].id # cells[i].id /\ cells'[m] = cells[m] /\ cells[m].id \in Live
      BY <1>1, <2>2 DEF EngineInv, UniqueIds, Live
    <3> QED BY <1>1, <1>2, <2>2, <3>1, StoreEntry
  <2> QED BY <2>1, <2>2
<1>5. F = [x \in Live' |-> F[x]]
  BY <1>1, <1>2
<1>6. Store' = F
  <2> HIDE DEF F
  <2> QED BY <1>1, <1>4, <1>5, StoreAfter
<1>7. Store[cells[i].id].value # v \/ v \in Incomparable
  BY <1>3 DEF ValueEq
<1> QED BY <1>6, <1>7 DEF CS!Update

LEMMA WithoutMapsToRemove ==
  ASSUME EngineInv, NEW i \in DOMAIN cells, cells' = Without(i), tick' = tick
  PROVE  CS!Remove(cells[i].id)
<1> DEFINE F == [x \in Live \ {cells[i].id} |-> Store[x]]
<1>1. /\ DOMAIN cells' = 1 .. Len(cells) - 1 /\ UniqueIds'
      /\ \A k \in DOMAIN cells' : cells'[k] = IF k < i THEN cells[k] ELSE cells[k + 1]
      /\ Live' = Live \ {cells[i].id}
  BY RemoveCell DEF EngineInv
<1>2. DOMAIN cells = 1 .. Len(cells) /\ Len(cells) \in Nat /\ i \in 1 .. Len(cells)
  BY CellInArray DEF EngineInv
<1>3. ASSUME NEW m \in DOMAIN cells'
      PROVE  F[cells'[m].id] = [value |-> cells'[m].value, version |-> cells'[m].version]
  <2>1. cells'[m].id \in Live \ {cells[i].id}
    BY <1>1 DEF Live
  <2>2. PICK k \in DOMAIN cells : cells'[m] = cells[k]
    <3>1. m \in DOMAIN cells /\ m + 1 \in DOMAIN cells
      BY <1>1, <1>2
    <3> QED BY <1>1, <3>1
  <2> QED BY <2>1, <2>2, StoreEntry
<1>4. F = [x \in Live' |-> F[x]]
  BY <1>1
<1>5. Store' = F
  <2> HIDE DEF F
  <2> QED BY <1>1, <1>3, <1>4, StoreAfter
<1>6. DOMAIN Store = Live
  BY DEF Store
<1> QED BY <1>5, <1>6 DEF CS!Remove

LEMMA StoreStep == EngineInv /\ [Next]_vars => [CS!Next]_<<Store, tick>>
<1> SUFFICES ASSUME EngineInv, [Next]_vars PROVE [CS!Next]_<<Store, tick>>
  OBVIOUS
<1>0. ASSUME UNCHANGED cells PROVE UNCHANGED Store
  BY <1>0 DEF Store, Live, IndexOf
<1>a. ASSUME NEW i \in DOMAIN cells, NEW v \in Value, CS!Update(cells[i].id, v)
      PROVE  CS!Next
  <2>1. cells[i].id \in DOMAIN Store
    BY StoreEntry DEF Store
  <2> QED BY <1>a, <2>1 DEF CS!Next
<1>b. ASSUME NEW i \in DOMAIN cells, Dirty(i), Recompute(i), UNCHANGED tick
      PROVE  CS!Next
  <2>1. Evaluated(cells[i]) \in Value
    BY <1>b, RecomputeShape
  <2>2. CS!Update(cells[i].id, Evaluated(cells[i]))
    BY <1>b, <2>1, RewriteMapsToUpdate DEF Dirty, Recompute
  <2> QED BY <1>a, <2>1, <2>2
<1>1. ASSUME NEW id \in Id, NEW v \in Value, BindNew(id, v) PROVE CS!Next
  <2> DEFINE c == [id |-> id, value |-> v, version |-> 1,
                   eval |-> NoFormula, reads |-> << >>]
  <2>1. c \in Cell /\ c.id = id /\ c.value = v /\ c.version = 1
    BY DEF Cell
  <2>2. /\ cells' = Append(cells, c) /\ id \notin Live /\ Len(cells) < Cap
        /\ UNCHANGED tick
    BY <1>1 DEF BindNew
  <2> HIDE DEF c
  <2>3. CS!Create(id, v, 1)
    BY <2>1, <2>2, AppendMapsToCreate
  <2> QED BY <2>3 DEF CS!Next
<1>2. ASSUME NEW i \in DOMAIN cells, NEW v \in Value, Rebind(i, v) PROVE CS!Next
  <2>1. CS!Update(cells[i].id, v)
    BY <1>2, RewriteMapsToUpdate DEF Rebind
  <2> QED BY <1>a, <2>1
<1>3. ASSUME NEW r \in Registration, NEW v \in Value, Register(r, v) PROVE CS!Next
  <2> DEFINE c == [id |-> r.id, value |-> v, version |-> 0,
                   eval |-> r.eval, reads |-> r.reads]
  <2>1. r.id \in Id /\ r.eval \in Formula /\ r.reads \in Seq(Id)
    BY ConstantsAssumption
  <2>2. c \in Cell /\ c.id = r.id /\ c.value = v /\ c.version = 0
    BY <2>1 DEF Cell
  <2>3. /\ cells' = Append(cells, c) /\ r.id \notin Live /\ Len(cells) < Cap
        /\ UNCHANGED tick
    BY <1>3 DEF Register
  <2> HIDE DEF c
  <2>4. CS!Create(r.id, v, 0)
    BY <2>2, <2>3, AppendMapsToCreate
  <2> QED BY <2>1, <2>4 DEF CS!Next
<1>4. ASSUME NEW i \in DOMAIN cells, NEW j \in DOMAIN cells, Link(i, j)
      PROVE  UNCHANGED <<Store, tick>>
  BY <1>0, <1>4 DEF Link
<1>5. ASSUME NEW i \in DOMAIN cells, Effect(i) PROVE CS!Next
  BY <1>5, <1>b DEF Effect
<1>6. CASE TickBegin
  BY <1>0, <1>6 DEF TickBegin
<1>7. CASE TickCell
  BY <1>0, <1>7, <1>b DEF TickCell
<1>8. CASE TickEnd
  <2>1. CS!Advance
    BY <1>0, <1>8 DEF TickEnd, CS!Advance
  <2> QED BY <2>1 DEF CS!Next
<1>9. ASSUME NEW i \in DOMAIN cells, Forget(i) PROVE CS!Next
  <2>1. CS!Remove(cells[i].id)
    BY <1>9, WithoutMapsToRemove DEF Forget
  <2>2. cells[i].id \in DOMAIN Store
    BY StoreEntry DEF Store
  <2> QED BY <2>1, <2>2 DEF CS!Next
<1>10. CASE UNCHANGED vars
  BY <1>0, <1>10 DEF vars
<1> QED
  BY <1>1, <1>2, <1>3, <1>4, <1>5, <1>6, <1>7, <1>8, <1>9, <1>10 DEF Next

(* Seen through ids the engine is CellStore: no value changes without its   *)
(* version going up by one, FORGET drops one id and keeps every other, and  *)
(* the tick moves in steps of one.                                         *)
THEOREM StoreImplemented == Spec => ImplementsStore
<1>1. Init => CS!Init
  <2> SUFFICES ASSUME Init PROVE CS!Init
    OBVIOUS
  <2>1. Live = {}
    BY DEF Init, Live
  <2> QED BY <2>1 DEF Init, CS!Init, CS!EmptyStore, Store
<1> QED BY <1>1, ShapeAlways, StoreStep, PTL DEF Spec, CS!Spec, ImplementsStore

-----------------------------------------------------------------------------
(* What a caller may cache under an id and a version: while the id lives,   *)
(* its value changes only together with its version, which goes up by one,  *)
(* and the tick never goes back.                                           *)
ValueOf(id) == cells[IndexOf(id)].value

VersionsTell ==
  /\ \A id \in Live \cap Live' :
       \/ VersionOf(id)' = VersionOf(id) /\ ValueOf(id)' = ValueOf(id)
       \/ VersionOf(id)' = VersionOf(id) + 1
  /\ tick' \in {tick, tick + 1}

(* Every operation of the engine keeps to that, TICK's single cells too. *)
THEOREM VersionsTellCorrect == Spec => [][VersionsTell]_<<Store, tick>>
<1>1. EngineInv /\ [Next]_vars => [VersionsTell]_<<Store, tick>>
  <2> SUFFICES ASSUME EngineInv, [Next]_vars, CS!Next
               PROVE  VersionsTell
    BY StoreStep
  <2>1. /\ DOMAIN Store = Live /\ DOMAIN Store' = Live'
        /\ \A id \in Live : VersionOf(id) = Store[id].version /\ ValueOf(id) = Store[id].value
        /\ \A id \in Live' : VersionOf(id)' = Store'[id].version /\ ValueOf(id)' = Store'[id].value
    BY DEF Store, VersionOf, ValueOf
  <2> HIDE DEF Store, VersionOf, ValueOf
  <2>2. ASSUME NEW id \in Id, NEW v \in Value, NEW version \in {0, 1},
               CS!Create(id, v, version)
        PROVE  VersionsTell
    BY <2>1, <2>2 DEF CS!Create, VersionsTell
  <2>3. ASSUME NEW id \in DOMAIN Store, NEW v \in Value, CS!Update(id, v)
        PROVE  VersionsTell
    BY <2>1, <2>3 DEF CS!Update, VersionsTell
  <2>4. ASSUME NEW id \in DOMAIN Store, CS!Remove(id)
        PROVE  VersionsTell
    BY <2>1, <2>4 DEF CS!Remove, VersionsTell
  <2>5. CASE CS!Advance
    BY <2>1, <2>5 DEF CS!Advance, VersionsTell
  <2> QED BY <2>2, <2>3, <2>4, <2>5 DEF CS!Next
<1> QED BY <1>1, ShapeAlways, PTL DEF Spec

-----------------------------------------------------------------------------
(* An entry added to a journal is the last of the set it joins, and leaves  *)
(* what the earlier ones say.                                              *)
LEMMA AppendedSays ==
  ASSUME NEW J \in Seq(Entry), NEW e \in Entry, NEW J2, J2 = Append(J, e),
         NEW K \in SUBSET (1 .. Len(J))
  PROVE  /\ LastSays(J2, K \cup {Len(J) + 1}, e.arg)
         /\ \A v : LastSays(J, K, v) => LastSays(J2, K, v)
<1>1. /\ Len(J) \in Nat /\ J2[Len(J) + 1] = e
      /\ \A k \in 1 .. Len(J) : J2[k] = J[k]
  BY AppendProperties
<1>2. \A k \in K : k \in 1 .. Len(J) /\ k <= Len(J) + 1
  BY <1>1
<1>3. LastSays(J2, K \cup {Len(J) + 1}, e.arg)
  BY <1>1, <1>2 DEF LastSays
<1>4. \A v : LastSays(J, K, v) => LastSays(J2, K, v)
  BY <1>1, <1>2 DEF LastSays
<1> QED BY <1>3, <1>4

(* The entries about an id, and those of ticks, after an append. *)
LEMMA AppendedDomain ==
  ASSUME NEW J \in Seq(Entry), NEW e \in Entry
  PROVE  LET n == Len(J)
             J2 == Append(J, e)
         IN  /\ J2[n + 1] = e /\ \A k \in DOMAIN J : J2[k] = J[k]
             /\ DOMAIN J2 = DOMAIN J \cup {n + 1} /\ n + 1 \notin DOMAIN J
             /\ DOMAIN J = 1 .. n
<1>1. /\ Len(J) \in Nat /\ Append(J, e)[Len(J) + 1] = e
      /\ \A k \in 1 .. Len(J) : Append(J, e)[k] = J[k]
      /\ DOMAIN J = 1 .. Len(J) /\ DOMAIN Append(J, e) = 1 .. Len(J) + 1
  BY AppendProperties, LenProperties
<1> QED BY <1>1

LEMMA AppendedTicks ==
  ASSUME NEW J \in Seq(Entry), NEW e \in Entry, NEW J2, J2 = Append(J, e)
  PROVE  /\ Ticks(J) \subseteq 1 .. Len(J)
         /\ Ticks(J2) = IF e.op = "TICK" THEN Ticks(J) \cup {Len(J) + 1} ELSE Ticks(J)
BY AppendedDomain DEF Ticks

LEMMA AppendedAbout ==
  ASSUME NEW J \in Seq(Entry), NEW e \in Entry, NEW id
  PROVE  /\ About(J, id) \subseteq 1 .. Len(J)
         /\ e.id = id /\ e.op # "LINK" =>
              About(Append(J, e), id) = About(J, id) \cup {Len(J) + 1}
         /\ ~(e.id = id /\ e.op # "LINK") => About(Append(J, e), id) = About(J, id)
BY AppendedDomain DEF About

LEMMA AppendedReplay ==
  ASSUME NEW J \in Seq(Entry), NEW e \in Entry, NEW J2, J2 = Append(J, e)
  PROVE  /\ \A id : e.id = id /\ e.op # "LINK" => LastSays(J2, About(J2, id), e.arg)
         /\ \A id, v : ~(e.id = id /\ e.op # "LINK") /\ LastSays(J, About(J, id), v)
                         => LastSays(J2, About(J2, id), v)
         /\ e.op = "TICK" => LastSays(J2, Ticks(J2), e.arg)
         /\ \A v : e.op # "TICK" /\ LastSays(J, Ticks(J), v) => LastSays(J2, Ticks(J2), v)
<1>1. /\ Ticks(J) \in SUBSET (1 .. Len(J))
      /\ \A id : About(J, id) \in SUBSET (1 .. Len(J))
  <2>1. ASSUME NEW id PROVE About(J, id) \subseteq 1 .. Len(J)
    BY AppendedAbout
  <2> QED BY <2>1, AppendedTicks
<1>2. ASSUME NEW K \in SUBSET (1 .. Len(J))
      PROVE  /\ LastSays(J2, K \cup {Len(J) + 1}, e.arg)
             /\ \A v : LastSays(J, K, v) => LastSays(J2, K, v)
  BY AppendedSays
<1>3. Ticks(J2) = IF e.op = "TICK" THEN Ticks(J) \cup {Len(J) + 1} ELSE Ticks(J)
  BY AppendedTicks
<1>4. ASSUME NEW id, e.id = id, e.op # "LINK" PROVE LastSays(J2, About(J2, id), e.arg)
  <2>1. About(J2, id) = About(J, id) \cup {Len(J) + 1}
    BY <1>4, AppendedAbout
  <2>2. LastSays(J2, About(J, id) \cup {Len(J) + 1}, e.arg)
    BY <1>1, <1>2
  <2> QED BY <2>1, <2>2
<1>5. ASSUME NEW id, NEW v, ~(e.id = id /\ e.op # "LINK"), LastSays(J, About(J, id), v)
      PROVE  LastSays(J2, About(J2, id), v)
  <2>1. About(J2, id) = About(J, id)
    BY <1>5, AppendedAbout
  <2>2. LastSays(J2, About(J, id), v)
    BY <1>1, <1>2, <1>5
  <2> QED BY <2>1, <2>2
<1>6. ASSUME e.op = "TICK" PROVE LastSays(J2, Ticks(J2), e.arg)
  <2>1. Ticks(J2) = Ticks(J) \cup {Len(J) + 1}
    BY <1>3, <1>6
  <2>2. LastSays(J2, Ticks(J) \cup {Len(J) + 1}, e.arg)
    BY <1>1, <1>2
  <2> QED BY <2>1, <2>2
<1>7. ASSUME NEW v, e.op # "TICK", LastSays(J, Ticks(J), v)
      PROVE  LastSays(J2, Ticks(J2), v)
  <2>1. Ticks(J2) = Ticks(J)
    BY <1>3, <1>7
  <2>2. LastSays(J2, Ticks(J), v)
    BY <1>1, <1>2, <1>7
  <2> QED BY <2>1, <2>2
<1> QED BY <1>4, <1>5, <1>6, <1>7

-----------------------------------------------------------------------------
(* A journal that has room after an append had room before, and took it. *)
LEMMA RoomTaken ==
  ASSUME TypeOK, NEW op, NEW who \in Id \cup {NoId}, NEW arg,
         JournalAppend(op, who, arg), JournalHasRoom'
  PROVE  /\ JournalHasRoom
         /\ journal' = Append(journal, [op |-> op, id |-> who, arg |-> arg])
<1> DEFINE len == HeaderLen + (IF who = NoId THEN 0 ELSE IdLen[who])
<1>1. /\ journal_len \in Nat /\ JournalCap \in Nat
      /\ \A id \in Id : IdLen[id] \in Nat
  BY ConstantsAssumption DEF TypeOK
<1>2. len \in Nat /\ len >= HeaderLen /\ (who # NoId => len = HeaderLen + IdLen[who])
      /\ (who = NoId => len = HeaderLen)
  BY <1>1 DEF HeaderLen
<1>3. \/ /\ journal_len + len <= JournalCap
         /\ journal' = Append(journal, [op |-> op, id |-> who, arg |-> arg])
         /\ journal_len' = journal_len + len
      \/ /\ journal_len + len > JournalCap
         /\ UNCHANGED <<journal, journal_len>>
  BY DEF JournalAppend
<1> HIDE DEF len
<1>4. ~(journal_len + len > JournalCap /\ journal_len' = journal_len)
  BY <1>1, <1>2 DEF JournalHasRoom, HeaderLen
<1>5. journal_len' = journal_len + len
  BY <1>3, <1>4
<1>6. JournalHasRoom
  BY <1>1, <1>2, <1>5 DEF JournalHasRoom, HeaderLen
<1> QED BY <1>3, <1>4, <1>6

(* One step of the argument: the entry says what the step did. *)
LEMMA ReplayStep ==
  ASSUME TypeOK, JournalReplays,
         NEW op \in {"BIND", "LINK", "EFFECT", "TICK", "FORGET"},
         NEW who \in Id \cup {NoId}, NEW arg \in Nat, JournalAppend(op, who, arg),
         \A id \in Id : VersionOf(id)' = IF id = who /\ op # "LINK" THEN arg ELSE VersionOf(id),
         tick' = IF op = "TICK" THEN arg ELSE tick
  PROVE  JournalReplays'
<1> SUFFICES ASSUME JournalHasRoom'
             PROVE  /\ \A id \in Id : LastSays(journal', About(journal', id), VersionOf(id)')
                    /\ LastSays(journal', Ticks(journal'), tick')
  BY DEF JournalReplays
<1> DEFINE e == [op |-> op, id |-> who, arg |-> arg]
<1>1. JournalHasRoom /\ journal' = Append(journal, e)
  BY RoomTaken
<1>2. e \in Entry /\ journal \in Seq(Entry) /\ e.op = op /\ e.id = who /\ e.arg = arg
  BY DEF Entry, TypeOK
<1>3. /\ \A id \in Id : LastSays(journal, About(journal, id), VersionOf(id))
      /\ LastSays(journal, Ticks(journal), tick)
  BY <1>1 DEF JournalReplays
<1> HIDE DEF e
<1>4. /\ \A id : e.id = id /\ e.op # "LINK" => LastSays(journal', About(journal', id), e.arg)
      /\ \A id, v : ~(e.id = id /\ e.op # "LINK") /\ LastSays(journal, About(journal, id), v)
                      => LastSays(journal', About(journal', id), v)
      /\ e.op = "TICK" => LastSays(journal', Ticks(journal'), e.arg)
      /\ \A v : e.op # "TICK" /\ LastSays(journal, Ticks(journal), v)
                  => LastSays(journal', Ticks(journal'), v)
  BY <1>1, <1>2, AppendedReplay
<1>5. ASSUME NEW id \in Id PROVE LastSays(journal', About(journal', id), VersionOf(id)')
  <2>1. CASE id = who /\ op # "LINK"
    BY <1>2, <1>4, <2>1
  <2>2. CASE ~(id = who /\ op # "LINK")
    <3>1. VersionOf(id)' = VersionOf(id)
      BY <2>2
    <3>2. ~(e.id = id /\ e.op # "LINK")
      BY <1>2, <2>2
    <3> QED BY <1>3, <1>4, <3>1, <3>2
  <2> QED BY <2>1, <2>2
<1>6. LastSays(journal', Ticks(journal'), tick')
  BY <1>2, <1>3, <1>4
<1> QED BY <1>5, <1>6

-----------------------------------------------------------------------------
(* The versions, read off the store, follow CellStore's actions.           *)
LEMMA VersionInStore ==
  ASSUME NEW id \in Id
  PROVE  /\ VersionOf(id) = IF id \in DOMAIN Store THEN Store[id].version ELSE 0
         /\ VersionOf(id)' = IF id \in DOMAIN Store' THEN Store'[id].version ELSE 0
BY DEF VersionOf, Store

LEMMA CreateVersion ==
  ASSUME NEW id \in Id, NEW v, NEW n \in Nat, CS!Create(id, v, n)
  PROVE  \A x \in Id : VersionOf(x)' = IF x = id THEN n ELSE VersionOf(x)
BY VersionInStore DEF CS!Create

LEMMA UpdateVersion ==
  ASSUME NEW id \in Id, id \in DOMAIN Store, NEW v, CS!Update(id, v)
  PROVE  \A x \in Id : VersionOf(x)' = IF x = id THEN VersionOf(id) + 1 ELSE VersionOf(x)
BY VersionInStore DEF CS!Update

LEMMA RemoveVersion ==
  ASSUME NEW id \in Id, CS!Remove(id)
  PROVE  \A x \in Id : VersionOf(x)' = IF x = id THEN 0 ELSE VersionOf(x)
BY VersionInStore DEF CS!Remove

LEMMA CellVersion ==
  ASSUME EngineInv, NEW i \in DOMAIN cells
  PROVE  /\ cells[i].id \in Id /\ cells[i].id \in DOMAIN Store
         /\ cells[i].version \in Nat /\ VersionOf(cells[i].id) = cells[i].version
<1>1. cells[i] \in Cell
  BY CellInArray DEF EngineInv
<1>2. cells[i].id \in Id /\ cells[i].version \in Nat
  BY <1>1 DEF Cell
<1>3. IndexOf(cells[i].id) = i /\ cells[i].id \in Live
  BY IndexOfLive DEF EngineInv, Live
<1> QED BY <1>2, <1>3 DEF VersionOf, Store

(* A step that touches neither the journal nor a version nor the tick. *)
LEMMA SilentReplay ==
  ASSUME JournalReplays, UNCHANGED <<journal, journal_len, tick>>,
         \A id \in Id : VersionOf(id)' = VersionOf(id)
  PROVE  JournalReplays'
BY DEF JournalReplays, JournalHasRoom

-----------------------------------------------------------------------------
LEMMA JournalReplaysStep == EngineInv /\ JournalReplays /\ [Next]_vars => JournalReplays'
<1> SUFFICES ASSUME EngineInv, JournalReplays, [Next]_vars PROVE JournalReplays'
  OBVIOUS
<1>0. TypeOK
  BY DEF EngineInv
<1>a. ASSUME UNCHANGED cells PROVE \A id \in Id : VersionOf(id)' = VersionOf(id)
  BY <1>a DEF VersionOf, Live, IndexOf
<1>b. ASSUME NEW i \in DOMAIN cells, NEW v, NEW op \in {"BIND", "EFFECT"},
             CS!Update(cells[i].id, v), UNCHANGED tick,
             JournalAppend(op, cells[i].id, cells[i].version + 1)
      PROVE  JournalReplays'
  <2>1. /\ cells[i].id \in Id /\ cells[i].version + 1 \in Nat
        /\ cells[i].id \in DOMAIN Store /\ VersionOf(cells[i].id) = cells[i].version
    BY CellVersion
  <2>2. \A x \in Id : VersionOf(x)' = IF x = cells[i].id THEN cells[i].version + 1
                                      ELSE VersionOf(x)
    BY <1>b, <2>1, UpdateVersion
  <2>3. \A x \in Id : VersionOf(x)' = IF x = cells[i].id /\ op # "LINK"
                                      THEN cells[i].version + 1 ELSE VersionOf(x)
    BY <2>2
  <2>4. tick' = IF op = "TICK" THEN cells[i].version + 1 ELSE tick
    BY <1>b
  <2> QED BY <1>0, <1>b, <2>1, <2>3, <2>4, ReplayStep
<1>c. ASSUME NEW i \in DOMAIN cells, Dirty(i), Recompute(i), UNCHANGED tick
      PROVE  JournalReplays'
  <2>1. Evaluated(cells[i]) \in Value
    BY <1>c, RecomputeShape
  <2>2. CS!Update(cells[i].id, Evaluated(cells[i]))
    BY <1>c, <2>1, RewriteMapsToUpdate DEF Dirty, Recompute
  <2>3. JournalAppend("EFFECT", cells[i].id, cells[i].version + 1)
    BY <1>c DEF Recompute
  <2> QED BY <1>b, <1>c, <2>2, <2>3
<1>1. ASSUME NEW id \in Id, NEW v \in Value, BindNew(id, v) PROVE JournalReplays'
  <2> DEFINE c == [id |-> id, value |-> v, version |-> 1,
                   eval |-> NoFormula, reads |-> << >>]
  <2>1. c \in Cell /\ c.id = id /\ c.value = v /\ c.version = 1
    BY DEF Cell
  <2>2. /\ cells' = Append(cells, c) /\ id \notin Live /\ Len(cells) < Cap
        /\ UNCHANGED tick /\ JournalAppend("BIND", id, 1)
    BY <1>1 DEF BindNew
  <2> HIDE DEF c
  <2>3. CS!Create(id, v, 1)
    BY <2>1, <2>2, AppendMapsToCreate
  <2>4. \A x \in Id : VersionOf(x)' = IF x = id /\ "BIND" # "LINK" THEN 1 ELSE VersionOf(x)
    BY <2>3, CreateVersion
  <2>5. tick' = IF "BIND" = "TICK" THEN 1 ELSE tick
    BY <2>2
  <2> QED BY <1>0, <2>2, <2>4, <2>5, ReplayStep
<1>2. ASSUME NEW i \in DOMAIN cells, NEW v \in Value, Rebind(i, v) PROVE JournalReplays'
  <2>1. CS!Update(cells[i].id, v)
    BY <1>2, RewriteMapsToUpdate DEF Rebind
  <2> QED BY <1>b, <1>2, <2>1 DEF Rebind
<1>3. ASSUME NEW r \in Registration, NEW v \in Value, Register(r, v) PROVE JournalReplays'
  <2> DEFINE c == [id |-> r.id, value |-> v, version |-> 0,
                   eval |-> r.eval, reads |-> r.reads]
  <2>1. r.id \in Id /\ r.eval \in Formula /\ r.reads \in Seq(Id)
    BY ConstantsAssumption
  <2>2. c \in Cell /\ c.id = r.id /\ c.value = v /\ c.version = 0
    BY <2>1 DEF Cell
  <2>3. /\ cells' = Append(cells, c) /\ r.id \notin Live /\ Len(cells) < Cap
        /\ UNCHANGED <<journal, journal_len, tick>>
    BY <1>3 DEF Register
  <2> HIDE DEF c
  <2>4. CS!Create(r.id, v, 0)
    BY <2>2, <2>3, AppendMapsToCreate
  <2>5. \A x \in Id : VersionOf(x)' = IF x = r.id THEN 0 ELSE VersionOf(x)
    BY <2>1, <2>4, CreateVersion
  <2>6. VersionOf(r.id) = 0
    BY <2>3 DEF VersionOf
  <2> QED BY <2>3, <2>5, <2>6, SilentReplay
<1>4. ASSUME NEW i \in DOMAIN cells, NEW j \in DOMAIN cells, Link(i, j)
      PROVE  JournalReplays'
  <2>1. cells[i].id \in Id /\ j - 1 \in Nat
    BY <1>0, CellVersion, CellInArray
  <2>2. /\ JournalAppend("LINK", cells[i].id, j - 1) /\ UNCHANGED <<cells, tick>>
    BY <1>4 DEF Link
  <2>3. \A x \in Id : VersionOf(x)' = IF x = cells[i].id /\ "LINK" # "LINK"
                                      THEN j - 1 ELSE VersionOf(x)
    BY <1>a, <2>2
  <2>4. tick' = IF "LINK" = "TICK" THEN j - 1 ELSE tick
    BY <2>2
  <2> QED BY <1>0, <2>1, <2>2, <2>3, <2>4, ReplayStep
<1>5. ASSUME NEW i \in DOMAIN cells, Effect(i) PROVE JournalReplays'
  BY <1>5, <1>c DEF Effect
<1>6. CASE TickBegin
  BY <1>a, <1>6, SilentReplay DEF TickBegin
<1>7. CASE TickCell
  <2>1. CASE Dirty(pos) /\ Recompute(pos)
    BY <1>7, <1>c, <2>1 DEF TickCell
  <2>2. CASE UNCHANGED <<cells, journal, journal_len>>
    BY <1>7, <1>a, <2>2, SilentReplay DEF TickCell
  <2> QED BY <1>7, <2>1, <2>2 DEF TickCell
<1>8. CASE TickEnd
  <2>1. /\ JournalAppend("TICK", NoId, tick + 1) /\ UNCHANGED cells
        /\ tick' = tick + 1 /\ tick + 1 \in Nat
    BY <1>0, <1>8 DEF TickEnd, TypeOK
  <2>2. \A x \in Id : VersionOf(x)' = IF x = NoId /\ "TICK" # "LINK"
                                      THEN tick + 1 ELSE VersionOf(x)
    BY <1>a, <2>1, ConstantsAssumption
  <2>3. tick' = IF "TICK" = "TICK" THEN tick + 1 ELSE tick
    BY <2>1
  <2> QED BY <1>0, <2>1, <2>2, <2>3, ReplayStep
<1>9. ASSUME NEW i \in DOMAIN cells, Forget(i) PROVE JournalReplays'
  <2>1. /\ cells' = Without(i) /\ UNCHANGED tick /\ JournalAppend("FORGET", cells[i].id, 0)
    BY <1>9 DEF Forget
  <2>2. cells[i].id \in Id
    BY CellVersion
  <2>3. CS!Remove(cells[i].id)
    BY <2>1, WithoutMapsToRemove
  <2>4. \A x \in Id : VersionOf(x)' = IF x = cells[i].id /\ "FORGET" # "LINK"
                                      THEN 0 ELSE VersionOf(x)
    BY <2>2, <2>3, RemoveVersion
  <2>5. tick' = IF "FORGET" = "TICK" THEN 0 ELSE tick
    BY <2>1
  <2> QED BY <1>0, <2>1, <2>2, <2>4, <2>5, ReplayStep
<1>10. CASE UNCHANGED vars
  BY <1>a, <1>10, SilentReplay DEF vars
<1> QED
  BY <1>1, <1>2, <1>3, <1>4, <1>5, <1>6, <1>7, <1>8, <1>9, <1>10 DEF Next

(* As long as the journal still had room for the longest entry, its last    *)
(* entry about an id gives that cell's version, or 0 for a forgotten or     *)
(* registered one, and its last TICK the tick: journal_append is called     *)
(* with every change and drops none that mattered.                          *)
THEOREM JournalReplaysCorrect == Spec => []JournalReplays
<1>1. Init => JournalReplays
  <2> SUFFICES ASSUME Init PROVE JournalReplays
    OBVIOUS
  <2>1. cells = << >> /\ journal = << >> /\ tick = 0
    BY DEF Init
  <2>2. Live = {} /\ Ticks(journal) = {} /\ \A id : About(journal, id) = {}
    BY <2>1 DEF Live, Ticks, About
  <2> QED BY <2>1, <2>2 DEF JournalReplays, LastSays, VersionOf
<1> QED BY <1>1, ShapeAlways, JournalReplaysStep, PTL DEF Spec

-----------------------------------------------------------------------------
(* How many passes settle a sheet (EngineSheet.tla).  The argument needs no *)
(* order on the dependencies: it follows a set S of formulas that is closed *)
(* under them, holds only formulas equal to what their evaluators return,   *)
(* and so is never changed by the engine again.  In a pass, a formula that  *)
(* was visited and reads late only what is in S is current as well; and a   *)
(* whole pass adds to S a formula that is read early, or all that are left. *)
Formulas == {i \in DOMAIN cells : Evaluable(cells[i])}

Current(i) == cells[i].value = Evaluated(cells[i])

Settled(S) ==
  /\ S \subseteq Formulas
  /\ \A i \in S : Current(i) /\ \A j \in Formulas : DependsOn(i, j) => j \in S

VisitedAreCurrent(S) ==
  \A i \in Formulas :
    /\ i < pos
    /\ \A j \in Formulas : DependsOn(i, j) /\ i <= j => j \in S
    => Current(i)

PassesCounted(S) == S = Formulas \/ passes <= Cardinality(S \cap ReadEarly)

Settling ==
  ReadsAcyclic =>
    \E S \in SUBSET Formulas :
      Settled(S) /\ VisitedAreCurrent(S) /\ PassesCounted(S)

SheetInv == EngineInv /\ passes \in Nat /\ Settling

(* What every step of the engine itself leaves alone: the ids, the          *)
(* evaluators and the reads, and with them who depends on whom.            *)
SameShape ==
  /\ DOMAIN cells' = DOMAIN cells
  /\ \A k \in DOMAIN cells :
       /\ cells'[k].id = cells[k].id
       /\ cells'[k].eval = cells[k].eval
       /\ cells'[k].reads = cells[k].reads

LEMMA ShapeKept ==
  ASSUME EngineInv, SameShape
  PROVE  /\ Live' = Live
         /\ \A id \in Live : IndexOf(id)' = IndexOf(id)
         /\ \A k \in DOMAIN cells : /\ NumInputs(cells[k])' = NumInputs(cells[k])
                                    /\ Evaluable(cells[k])' <=> Evaluable(cells[k])
         /\ \A i, j \in DOMAIN cells : DependsOn(i, j)' <=> DependsOn(i, j)
<1>1. Live' = Live
  BY DEF Live, SameShape
<1>2. ASSUME NEW id \in Live PROVE IndexOf(id)' = IndexOf(id)
  <2>1. IndexOf(id) \in DOMAIN cells /\ cells[IndexOf(id)].id = id
    BY LiveIndex DEF EngineInv
  <2>2. IndexOf(id)' \in DOMAIN cells' /\ cells'[IndexOf(id)'].id = id
    BY <2>1 DEF IndexOf, SameShape
  <2>3. IndexOf(id)' \in DOMAIN cells /\ cells[IndexOf(id)'].id = id
    BY <2>2 DEF SameShape
  <2> HIDE DEF IndexOf
  <2> QED BY <2>1, <2>3 DEF UniqueIds, EngineInv
<1>3. ASSUME NEW k \in DOMAIN cells
      PROVE  /\ NumInputs(cells[k])' = NumInputs(cells[k])
             /\ Evaluable(cells[k])' <=> Evaluable(cells[k])
  <2>1. NumInputs(cells[k])' = NumInputs(cells[k])
    BY DEF NumInputs, SameShape
  <2> QED BY <1>1, <2>1 DEF Evaluable, SameShape
<1>4. ASSUME NEW i \in DOMAIN cells, NEW j \in DOMAIN cells
      PROVE  DependsOn(i, j)' <=> DependsOn(i, j)
  BY <1>3 DEF DependsOn, SameShape
<1> QED BY <1>1, <1>2, <1>3, <1>4

LEMMA DependenciesKept ==
  ASSUME EngineInv, SameShape
  PROVE  /\ Formulas' = Formulas
         /\ ReadEarly' = ReadEarly
         /\ ReadsAcyclic' <=> ReadsAcyclic
<1>1. DOMAIN cells' = DOMAIN cells /\ DOMAIN cells = 1 .. Len(cells)
  BY LenProperties DEF SameShape, EngineInv, TypeOK
<1>2. \A i, j \in DOMAIN cells : DependsOn(i, j)' <=> DependsOn(i, j)
  BY ShapeKept
<1>3. Formulas' = Formulas
  BY <1>1, ShapeKept DEF Formulas
<1>4. ReadEarly' = ReadEarly
  <2>1. \A j \in DOMAIN cells : \A i \in 1 .. j : i \in DOMAIN cells
    BY <1>1 DEF EngineInv, TypeOK
  <2> QED BY <1>1, <1>2, <2>1 DEF ReadEarly
<1>5. ReadsAcyclic' <=> ReadsAcyclic
  BY <1>1, <1>2 DEF ReadsAcyclic
<1> QED BY <1>3, <1>4, <1>5

(* The engine wrote cell i, or found it up to date.  A TICK that visits a   *)
(* value cell, or a formula with a forgotten input, writes nothing.         *)
Refreshed(i) ==
  /\ i \in DOMAIN cells /\ SameShape
  /\ \A k \in DOMAIN cells \ {i} : cells'[k].value = cells[k].value
  /\ IF i \in Formulas THEN cells'[i].value = Evaluated(cells[i])
                       ELSE cells'[i].value = cells[i].value

LEMMA RecomputeRefreshes ==
  ASSUME EngineInv, NEW i \in DOMAIN cells, Dirty(i), Recompute(i)
  PROVE  Refreshed(i)
<1> DEFINE v == Evaluated(cells[i])
           c == Rewritten(cells[i], v)
<1>1. v \in Value /\ i \in Formulas
  BY RecomputeShape DEF Dirty, Formulas
<1>2. cells' = [cells EXCEPT ![i] = c] /\ DOMAIN cells' = DOMAIN cells
  BY DEF Recompute
<1>3. cells[i] \in Cell
  BY CellInArray DEF EngineInv
<1> HIDE DEF v
<1>4. /\ c.id = cells[i].id /\ c.value = v
      /\ c.eval = cells[i].eval /\ c.reads = cells[i].reads
  BY <1>3 DEF Rewritten, Cell
<1> HIDE DEF c
<1>5. \A k \in DOMAIN cells : cells'[k] = IF k = i THEN c ELSE cells[k]
  BY <1>2
<1>6. SameShape
  BY <1>2, <1>4, <1>5 DEF SameShape
<1> QED BY <1>1, <1>4, <1>5, <1>6 DEF Refreshed, v

LEMMA SkipRefreshes ==
  ASSUME EngineInv, NEW i \in DOMAIN cells, ~Dirty(i), UNCHANGED cells
  PROVE  Refreshed(i)
<1>1. SameShape
  BY DEF SameShape
<1>2. i \in Formulas => cells[i].value = Evaluated(cells[i])
  BY DEF Dirty, Formulas, ValueEq
<1> QED BY <1>1, <1>2 DEF Refreshed

(* A formula that does not read the written cell, or finds the value it     *)
(* found before, evaluates to what it did.                                 *)
LEMMA EvaluatedKept ==
  ASSUME EngineInv, NEW i \in DOMAIN cells, Refreshed(i), NEW k \in Formulas,
         DependsOn(k, i) => cells'[i].value = cells[i].value
  PROVE  Evaluated(cells[k])' = Evaluated(cells[k])
<1> DEFINE n == NumInputs(cells[k])
<1>1. k \in DOMAIN cells /\ Evaluable(cells[k]) /\ SameShape
  BY DEF Formulas, Refreshed
<1>2. NumInputs(cells[k])' = n /\ cells'[k].eval = cells[k].eval
      /\ cells'[k].reads = cells[k].reads
  BY <1>1, ShapeKept DEF SameShape
<1>3. ASSUME NEW m \in 1 .. n
      PROVE  /\ IndexOf(cells[k].reads[m])' = IndexOf(cells[k].reads[m])
             /\ cells'[IndexOf(cells[k].reads[m])].value
                  = cells[IndexOf(cells[k].reads[m])].value
  <2>1. PICK id \in Live : id = cells[k].reads[m]
    BY <1>1 DEF Evaluable
  <2> DEFINE j == IndexOf(id)
  <2>2. j \in DOMAIN cells /\ cells[j].id = id
    BY <2>1, LiveIndex DEF EngineInv
  <2>3. IndexOf(cells[k].reads[m])' = j
    <3>1. IndexOf(id)' = j
      BY <1>1, ShapeKept
    <3>2. cells'[k].reads[m] = id
      BY <1>2, <2>1
    <3> QED BY <3>1, <3>2 DEF IndexOf
  <2>4. CASE j = i
    <3>1. i \in Formulas => DependsOn(k, i)
      BY <1>1, <2>1, <2>2, <2>4 DEF DependsOn, Formulas
    <3> QED BY <2>1, <2>3, <2>4, <3>1 DEF Refreshed
  <2>5. CASE j # i
    BY <2>1, <2>2, <2>3, <2>5 DEF Refreshed
  <2> QED BY <2>4, <2>5
<1> QED BY <1>2, <1>3 DEF Evaluated

(* What is settled stays settled, whatever the engine visits. *)
LEMMA SettledKept ==
  ASSUME EngineInv, NEW i \in DOMAIN cells, Refreshed(i), NEW S, Settled(S)
  PROVE  /\ Settled(S)'
         /\ i \in S => cells'[i].value = cells[i].value
<1>1. SameShape /\ Formulas' = Formulas
  BY DependenciesKept DEF Refreshed
<1>2. i \in S => cells'[i].value = cells[i].value
  BY DEF Refreshed, Settled, Current
<1>3. ASSUME NEW k \in S
      PROVE  Current(k)' /\ \A j \in Formulas : DependsOn(k, j)' => j \in S
  <2>1. k \in Formulas /\ k \in DOMAIN cells
    BY DEF Settled, Formulas
  <2>2. ASSUME NEW j \in Formulas PROVE DependsOn(k, j)' => j \in S
    BY <1>1, <2>1, ShapeKept DEF Settled, Formulas
  <2>3. DependsOn(k, i) => cells'[i].value = cells[i].value
    BY <1>2 DEF Settled, DependsOn, Formulas
  <2>4. Evaluated(cells[k])' = Evaluated(cells[k])
    BY <2>1, <2>3, EvaluatedKept
  <2>5. cells'[k].value = cells[k].value
    BY <1>2, <2>1 DEF Refreshed
  <2>6. cells[k].value = Evaluated(cells[k])
    BY DEF Settled, Current
  <2> QED BY <2>2, <2>4, <2>5, <2>6 DEF Current
<1> QED BY <1>1, <1>2, <1>3 DEF Settled

LEMMA VisitStep ==
  ASSUME EngineInv, pos \in DOMAIN cells, Refreshed(pos), pos' = pos + 1,
         NEW S, Settled(S), VisitedAreCurrent(S)
  PROVE  VisitedAreCurrent(S)'
<1>0. SameShape /\ Formulas' = Formulas /\ pos \in Nat /\ Formulas \subseteq DOMAIN cells
      /\ DOMAIN cells \subseteq Nat
  BY DependenciesKept, LenProperties DEF Refreshed, EngineInv, TypeOK, Formulas
<1> SUFFICES ASSUME NEW k \in Formulas, k < pos',
                    \A j \in Formulas : DependsOn(k, j)' /\ k <= j => j \in S
             PROVE  Current(k)'
  BY <1>0 DEF VisitedAreCurrent
<1>1. k \in DOMAIN cells /\ k \in Nat /\ k <= pos
  BY <1>0
<1>2. \A j \in Formulas : DependsOn(k, j) /\ k <= j => j \in S
  BY <1>0, <1>1, ShapeKept
<1>3. pos \in S => cells'[pos].value = cells[pos].value
  BY SettledKept
<1>4. DependsOn(k, pos) => cells'[pos].value = cells[pos].value
  BY <1>1, <1>2, <1>3 DEF DependsOn, Formulas
<1>5. Evaluated(cells[k])' = Evaluated(cells[k])
  BY <1>4, EvaluatedKept
<1>6. cells'[k].value = Evaluated(cells[k])
  <2>1. CASE k = pos
    BY <2>1 DEF Refreshed
  <2>2. CASE k # pos
    <3>1. cells'[k].value = cells[k].value
      BY <1>1, <2>2 DEF Refreshed
    <3>2. k < pos
      BY <1>0, <1>1, <2>2
    <3>3. Current(k)
      BY <1>2, <3>2 DEF VisitedAreCurrent
    <3> QED BY <3>1, <3>3 DEF Current
  <2> QED BY <2>1, <2>2
<1> QED BY <1>5, <1>6 DEF Current

(* At the end of a pass, take all that is settled by now.  If S was not all *)
(* of the formulas and nothing else that is read early has been settled, a  *)
(* formula left over that depends on none left over was visited with its    *)
(* final inputs, and so is settled too.                                    *)
LEMMA PassSettles ==
  ASSUME EngineInv, ReadsAcyclic, pos = Len(cells) + 1,
         NEW S, Settled(S), VisitedAreCurrent(S)
  PROVE  \E T \in SUBSET Formulas :
           /\ Settled(T) /\ S \subseteq T
           /\ T = Formulas \/ \E j \in T \cap ReadEarly : j \notin S
<1> DEFINE T == UNION {R \in SUBSET Formulas : Settled(R)}
<1>1. T \subseteq Formulas /\ S \subseteq T
  BY DEF Settled
<1>2. Settled(T)
  <2> SUFFICES ASSUME NEW i \in T
               PROVE  Current(i) /\ \A j \in Formulas : DependsOn(i, j) => j \in T
    BY <1>1 DEF Settled
  <2>1. PICK R \in SUBSET Formulas : Settled(R) /\ i \in R
    OBVIOUS
  <2> QED BY <2>1 DEF Settled
<1>3. ASSUME NEW i \in Formulas, Current(i),
             \A j \in Formulas : DependsOn(i, j) => j \in T
      PROVE  i \in T
  <2> DEFINE R == T \cup {i}
  <2>1. Settled(R)
    BY <1>1, <1>2, <1>3 DEF Settled
  <2>2. R \in SUBSET Formulas /\ i \in R
    BY <1>1
  <2> QED BY <2>1, <2>2
<1> HIDE DEF T
<1>4. DOMAIN cells = 1 .. Len(cells) /\ Len(cells) \in Nat /\ Formulas \subseteq DOMAIN cells
  BY LenProperties DEF EngineInv, TypeOK, Formulas
<1>5. ASSUME Formulas \ T # {}, \A j \in T \cap ReadEarly : j \in S
      PROVE  FALSE
  <2>1. PICK i \in Formulas \ T : \A j \in Formulas \ T : ~DependsOn(i, j)
    BY <1>4, <1>5 DEF ReadsAcyclic
  <2>2. \A j \in Formulas : DependsOn(i, j) => j \in T
    BY <2>1
  <2>3. ASSUME NEW j \in Formulas, DependsOn(i, j), i <= j PROVE j \in S
    <3>1. j \in ReadEarly
      BY <1>4, <2>3 DEF ReadEarly
    <3> QED BY <1>5, <2>2, <2>3, <3>1
  <2>4. i < pos
    BY <1>4
  <2>5. Current(i)
    BY <2>3, <2>4 DEF VisitedAreCurrent
  <2> QED BY <1>3, <2>1, <2>2, <2>5
<1>6. T = Formulas \/ \E j \in T \cap ReadEarly : j \notin S
  BY <1>1, <1>5
<1> QED BY <1>1, <1>2, <1>6

LEMMA ReadEarlyFinite ==
  ASSUME EngineInv, NEW S
  PROVE  IsFiniteSet(S \cap ReadEarly) /\ Cardinality(S \cap ReadEarly) \in Nat
<1>1. ReadEarly \subseteq 1 .. Len(cells) /\ Len(cells) \in Int
  BY LenProperties DEF EngineInv, TypeOK, ReadEarly
<1>2. 1 \in Int
  OBVIOUS
<1>3. IsFiniteSet(1 .. Len(cells))
  BY <1>1, <1>2, FS_Interval
<1>4. S \cap ReadEarly \subseteq 1 .. Len(cells)
  BY <1>1
<1> QED BY <1>3, <1>4, FS_Subset, FS_CardinalityType

LEMMA MoreSettled ==
  ASSUME EngineInv, NEW S \in SUBSET Formulas, NEW T \in SUBSET Formulas, S \subseteq T,
         NEW j \in T \cap ReadEarly, j \notin S
  PROVE  Cardinality(S \cap ReadEarly) + 1 <= Cardinality(T \cap ReadEarly)
<1> DEFINE A == S \cap ReadEarly
           B == T \cap ReadEarly
<1>1. IsFiniteSet(B)
  BY ReadEarlyFinite
<1>2. A \subseteq B /\ j \in B /\ j \notin A
  OBVIOUS
<1> HIDE DEF A, B
<1>3. A \subseteq B \ {j}
  BY <1>2
<1>4. IsFiniteSet(B \ {j}) /\ Cardinality(B \ {j}) = Cardinality(B) - 1
  BY <1>1, <1>2, FS_RemoveElement
<1>5. Cardinality(A) <= Cardinality(B \ {j}) /\ IsFiniteSet(A)
  BY <1>3, <1>4, FS_Subset
<1>6. Cardinality(A) \in Nat /\ Cardinality(B) \in Nat
  BY <1>1, <1>5, FS_CardinalityType
<1> QED BY <1>4, <1>5, <1>6 DEF A, B

LEMMA SheetShape == EngineInv /\ [SheetNext]_sheetVars => EngineInv'
<1>1. SheetNext => Next
  BY DEF SheetNext, CallerChanges, EngineRuns, Next
<1>2. UNCHANGED sheetVars => UNCHANGED vars
  BY DEF sheetVars, vars
<1> QED BY <1>1, <1>2, ShapeStep

(* After a caller's change nothing need be settled. *)
LEMMA StartsUnsettled ==
  ASSUME EngineInv', pos' = 0, passes' = 0
  PROVE  Settling'
<1>1. Settled({})'
  BY DEF Settled
<1>2. VisitedAreCurrent({})'
  <2>1. \A i \in Formulas' : i \in Nat /\ ~(i < 0)
    BY LenProperties DEF Formulas, EngineInv, TypeOK
  <2> QED BY <2>1 DEF VisitedAreCurrent
<1>3. PassesCounted({})'
  <2>1. {} \cap ReadEarly' = {} /\ Cardinality({}) = 0
    BY FS_EmptySet
  <2> QED BY <2>1 DEF PassesCounted
<1> QED BY <1>1, <1>2, <1>3 DEF Settling

(* A step that refreshes at most one cell, and starts or continues a pass,  *)
(* keeps what is settled and the count of it.                              *)
LEMMA RefreshSettles ==
  ASSUME EngineInv, Settling, UNCHANGED passes, NEW i \in DOMAIN cells, Refreshed(i),
         \A S : Settled(S) /\ VisitedAreCurrent(S) => VisitedAreCurrent(S)'
  PROVE  Settling'
<1> SUFFICES ASSUME ReadsAcyclic' PROVE
      \E S \in SUBSET Formulas' :
        Settled(S)' /\ VisitedAreCurrent(S)' /\ PassesCounted(S)'
  BY DEF Settling
<1>1. Formulas' = Formulas /\ ReadEarly' = ReadEarly /\ ReadsAcyclic
  BY DependenciesKept DEF Refreshed
<1>2. PICK S \in SUBSET Formulas :
        Settled(S) /\ VisitedAreCurrent(S) /\ PassesCounted(S)
  BY <1>1 DEF Settling
<1>3. Settled(S)' /\ VisitedAreCurrent(S)'
  BY <1>2, SettledKept
<1>4. PassesCounted(S)'
  BY <1>1, <1>2 DEF PassesCounted
<1> QED BY <1>1, <1>3, <1>4

LEMMA NoneVisited ==
  ASSUME EngineInv', pos' \in {0, 1}, NEW S
  PROVE  VisitedAreCurrent(S)'
<1>1. \A i \in Formulas' : i \in Nat \ {0}
  BY LenProperties DEF Formulas, EngineInv, TypeOK
<1> QED BY <1>1 DEF VisitedAreCurrent

(* Nothing but the cells decides what is settled. *)
LEMMA SameCells ==
  ASSUME UNCHANGED cells
  PROVE  /\ Formulas' = Formulas /\ ReadEarly' = ReadEarly /\ ReadsAcyclic' = ReadsAcyclic
         /\ \A S : Settled(S)' = Settled(S)
         /\ \A i : Current(i)' = Current(i)
         /\ \A i, j : DependsOn(i, j)' = DependsOn(i, j)
BY DEF Formulas, ReadEarly, ReadsAcyclic, Settled, Current, Evaluated, DependsOn,
       Evaluable, NumInputs, Live, IndexOf

LEMMA PassEnds ==
  ASSUME SheetInv, EngineInv', TickEnd, passes' = IF passes > Cap THEN passes ELSE passes + 1
  PROVE  Settling'
<1> SUFFICES ASSUME ReadsAcyclic PROVE
      \E S \in SUBSET Formulas' :
        Settled(S)' /\ VisitedAreCurrent(S)' /\ PassesCounted(S)'
  BY SameCells DEF Settling, TickEnd
<1>1. PICK S \in SUBSET Formulas :
        Settled(S) /\ VisitedAreCurrent(S) /\ PassesCounted(S)
  BY DEF SheetInv, Settling
<1>2. PICK T \in SUBSET Formulas :
        /\ Settled(T) /\ S \subseteq T
        /\ T = Formulas \/ \E j \in T \cap ReadEarly : j \notin S
  BY <1>1, PassSettles DEF SheetInv, TickEnd
<1>3. /\ Formulas' = Formulas /\ ReadEarly' = ReadEarly /\ Settled(T)' = Settled(T)
      /\ pos' = 0
  BY SameCells DEF TickEnd
<1>4. PassesCounted(T)'
  <2>1. CASE T = Formulas
    BY <1>3, <2>1 DEF PassesCounted
  <2>2. CASE T # Formulas
    <3>1. PICK j \in T \cap ReadEarly : j \notin S
      BY <1>2, <2>2
    <3>2. Cardinality(S \cap ReadEarly) + 1 <= Cardinality(T \cap ReadEarly)
      BY <1>1, <1>2, <3>1, MoreSettled DEF SheetInv
    <3>3. passes <= Cardinality(S \cap ReadEarly)
      BY <1>1, <1>2, <2>2 DEF PassesCounted
    <3>4. /\ Cardinality(S \cap ReadEarly) + 1 <= Cardinality(T \cap ReadEarly)
          /\ passes \in Nat /\ Cap \in Nat
          /\ passes' = IF passes > Cap THEN passes ELSE passes + 1
          /\ Cardinality(S \cap ReadEarly) \in Nat
          /\ Cardinality(T \cap ReadEarly) \in Nat
      BY <3>2, ReadEarlyFinite, ConstantsAssumption DEF SheetInv
    <3> DEFINE s == Cardinality(S \cap ReadEarly)
               t == Cardinality(T \cap ReadEarly)
    <3>5. passes' <= t
      <4>1. s + 1 <= t /\ passes <= s /\ s \in Nat /\ t \in Nat
        BY <3>3, <3>4
      <4> HIDE DEF s, t
      <4> QED BY <3>4, <4>1
    <3> QED BY <1>3, <3>5 DEF PassesCounted
  <2> QED BY <2>1, <2>2
<1>5. VisitedAreCurrent(T)'
  BY <1>3, NoneVisited
<1> QED BY <1>2, <1>3, <1>4, <1>5

LEMMA SheetStep == SheetInv /\ [SheetNext]_sheetVars => SheetInv'
<1> SUFFICES ASSUME SheetInv, [SheetNext]_sheetVars PROVE SheetInv'
  OBVIOUS
<1>0. EngineInv' /\ EngineInv /\ Settling /\ passes \in Nat
  BY SheetShape DEF SheetInv
<1>a. DOMAIN cells = 1 .. Len(cells) /\ Len(cells) \in Nat /\ pos \in Nat
  BY <1>0, LenProperties DEF EngineInv, TypeOK
<1>1. CASE CallerChanges /\ passes' = 0
  <2>1. pos' = 0
    BY <1>1 DEF CallerChanges, BindNew, Rebind, Register, Forget
  <2>2. Settling'
    BY <1>0, <1>1, <2>1, StartsUnsettled
  <2> QED BY <1>0, <1>1, <2>2 DEF SheetInv
<1>2. ASSUME NEW i \in DOMAIN cells, Effect(i), UNCHANGED passes PROVE SheetInv'
  <2>1. Refreshed(i) /\ pos' = 0
    BY <1>0, <1>2, RecomputeRefreshes DEF Effect
  <2>2. \A S : VisitedAreCurrent(S)'
    BY <1>0, <2>1, NoneVisited
  <2>3. Settling'
    BY <1>0, <1>2, <2>1, <2>2, RefreshSettles
  <2> QED BY <1>0, <1>2, <2>3 DEF SheetInv
<1>3. CASE TickBegin /\ UNCHANGED passes
  <2>1. pos' = 1 /\ UNCHANGED cells /\ passes' = passes
    BY <1>3 DEF TickBegin
  <2>2. \A S : VisitedAreCurrent(S)'
    BY <1>0, <2>1, NoneVisited
  <2>3. Settling'
    BY <1>0, <2>1, <2>2, SameCells DEF Settling, PassesCounted
  <2> QED BY <1>0, <2>1, <2>3 DEF SheetInv
<1>4. CASE TickCell /\ UNCHANGED passes
  <2>1. pos \in DOMAIN cells /\ pos' = pos + 1
    BY <1>4 DEF TickCell
  <2>2. Refreshed(pos)
    BY <1>0, <1>4, <2>1, RecomputeRefreshes, SkipRefreshes DEF TickCell
  <2>3. \A S : Settled(S) /\ VisitedAreCurrent(S) => VisitedAreCurrent(S)'
    BY <1>0, <2>1, <2>2, VisitStep
  <2>4. Settling'
    BY <1>0, <1>4, <2>1, <2>2, <2>3, RefreshSettles
  <2> QED BY <1>0, <1>4, <2>4 DEF SheetInv
<1>5. CASE TickEnd /\ passes' = IF passes > Cap THEN passes ELSE passes + 1
  <2>1. Settling'
    BY <1>0, <1>5, PassEnds
  <2>2. passes' \in Nat
    BY <1>0, <1>5
  <2> QED BY <1>0, <2>1, <2>2 DEF SheetInv
<1>6. CASE UNCHANGED sheetVars
  <2>1. UNCHANGED <<cells, pos, passes>>
    BY <1>6 DEF sheetVars
  <2>2. Settling'
    BY <1>0, <2>1, SameCells DEF Settling, PassesCounted, VisitedAreCurrent
  <2> QED BY <1>0, <2>1, <2>2 DEF SheetInv
<1> QED
  BY <1>1, <1>2, <1>3, <1>4, <1>5, <1>6 DEF SheetNext, EngineRuns

LEMMA SheetInit == Init /\ passes = 0 => SheetInv
<1> SUFFICES ASSUME Init, passes = 0 PROVE SheetInv
  OBVIOUS
<1>1. EngineInv /\ Formulas = {}
  BY ShapeInit DEF Init, Formulas
<1>2. Settled({}) /\ VisitedAreCurrent({}) /\ PassesCounted({})
  BY <1>1 DEF Settled, VisitedAreCurrent, PassesCounted
<1> QED BY <1>1, <1>2 DEF SheetInv, Settling

(* quilt_tick evaluates in array order: without circular reads, one pass    *)
(* more than there are formulas that an earlier one reads brings every      *)
(* formula up to date, whatever EFFECTs come between the passes, and later  *)
(* passes and EFFECTs keep it so until a caller changes a cell.             *)
THEOREM SettlesInTimeCorrect == SheetSpec => []SettlesInTime
<1>1. SheetInv => SettlesInTime
  <2> SUFFICES ASSUME SheetInv, ReadsAcyclic, passes > Cardinality(ReadEarly)
               PROVE  UpToDate
    BY DEF SettlesInTime
  <2>1. PICK S \in SUBSET Formulas : Settled(S) /\ PassesCounted(S)
    BY DEF SheetInv, Settling
  <2>2. S = Formulas
    <3>1. /\ IsFiniteSet(ReadEarly) /\ Cardinality(ReadEarly) \in Nat
          /\ Cardinality(S \cap ReadEarly) \in Nat
      <4>1. ReadEarly \cap ReadEarly = ReadEarly
        OBVIOUS
      <4> QED BY <4>1, ReadEarlyFinite DEF SheetInv
    <3>2. Cardinality(S \cap ReadEarly) <= Cardinality(ReadEarly)
      BY <3>1, FS_Subset
    <3>3. passes \in Nat
      BY DEF SheetInv
    <3> QED BY <2>1, <3>1, <3>2, <3>3 DEF PassesCounted
  <2> QED BY <2>1, <2>2 DEF Settled, Current, UpToDate, Formulas
<1> QED BY <1>1, SheetInit, SheetStep, PTL DEF SheetSpec
=============================================================================
