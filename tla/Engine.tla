------------------------------- MODULE Engine -------------------------------
(***************************************************************************)
(* The cell graph runtime of src/engine.c: a caller-owned array of cells,  *)
(* a table of link slots, a monotonic tick and an append-only journal,     *)
(* changed by BIND, LINK, EFFECT, TICK and FORGET.  (VIEW changes nothing.) *)
(*                                                                         *)
(* Indices are 1-based here and 0-based in the C code.  A call that        *)
(* returns an error, or finds nothing to do, leaves every variable alone   *)
(* and so is a stuttering step.                                            *)
(***************************************************************************)
EXTENDS Integers, Sequences

CONSTANTS
  Id,              \* cell identities
  IdLen,           \* [Id -> Nat]: strlen of each identity
  NoId,            \* the NULL id of a TICK journal entry
  Value,           \* cell values, up to quilt_v_eq
  Incomparable,    \* the values quilt_v_eq finds unequal to themselves:
                   \* a FLOAT NaN, a STR whose pointer is NULL
  Formula,         \* evaluator functions
  NoFormula,       \* a NULL eval: the cell is a value cell
  Eval(_, _),      \* Eval(f, inputs): what evaluator f returns; it is pure
  Registration,    \* the formula cells a caller may register
  Cap,             \* cap_cells
  MaxLinks,        \* max_links_per_cell
  MaxReads,        \* the size of quilt_effect's inputs[]
  JournalCap,      \* journal_cap; 0 also stands for a NULL journal
  MaxVersion,      \* bound on version, for model checking
  MaxTick          \* bound on tick, for model checking

HeaderLen == 11    \* op u8, id_len u16, arg i64

ASSUME ConstantsAssumption ==
  /\ Cap \in Nat \ {0} /\ MaxLinks \in Nat \ {0} /\ MaxReads \in Nat
  /\ JournalCap \in Nat /\ MaxVersion \in Nat /\ MaxTick \in Nat
  /\ Incomparable \subseteq Value
  /\ NoFormula \notin Formula /\ NoId \notin Id
  /\ IdLen \in [Id -> Nat]
  /\ Registration \subseteq [id : Id, eval : Formula, reads : Seq(Id)]

ASSUME EvalAssumption ==
  \A f \in Formula, n \in 0 .. MaxReads :
    \A inputs \in [1 .. n -> Value] : Eval(f, inputs) \in Value

VARIABLES
  cells,           \* the live prefix of e->cells, in array order
  links,           \* slot -> <<from, to>>: link_from and link_to together
  tick,            \* e->tick
  journal,         \* the entries written to the journal, oldest first
  journal_len,     \* the bytes they take
  pos              \* the cell TICK's loop is at; 0 when no TICK is running

vars == <<cells, links, tick, journal, journal_len, pos>>

Index == 1 .. Cap
Slot  == 1 .. Cap * MaxLinks
Free  == <<0, 0>>  \* both entries of the slot are (size_t)-1

Cell == [id : Id, value : Value, version : Nat,
         eval : Formula \cup {NoFormula}, reads : Seq(Id)]

Entry == [op : {"BIND", "LINK", "EFFECT", "TICK", "FORGET"},
          id : Id \cup {NoId}, arg : Nat]

(* One type invariant for the engine's six variables. *)
TypeOK ==
  /\ cells \in Seq(Cell) /\ Len(cells) <= Cap
  /\ links \in [Slot -> (Index \X Index) \cup {Free}]
  /\ tick \in Nat
  /\ journal \in Seq(Entry)
  /\ journal_len \in 0 .. JournalCap
  /\ pos \in 0 .. Len(cells) + 1

-----------------------------------------------------------------------------
ValueEq(a, b) == a = b /\ a \notin Incomparable

(* A mutated form of the next definition: the search for an id starts at    *)
(* the second cell.                                                        *)
LiveButFirst == {cells[i].id : i \in 2 .. Len(cells)}

Live == {cells[i].id : i \in DOMAIN cells}

IndexOf(id) == CHOOSE i \in DOMAIN cells : cells[i].id = id

(* A mutated form of the next definition: an entry that would fill the      *)
(* journal exactly is dropped.                                             *)
StrictAppend(op, id, arg) ==
  LET len == HeaderLen + (IF id = NoId THEN 0 ELSE IdLen[id])
  IN  \/ /\ journal_len + len < JournalCap
         /\ journal' = Append(journal, [op |-> op, id |-> id, arg |-> arg])
         /\ journal_len' = journal_len + len
      \/ /\ journal_len + len >= JournalCap
         /\ UNCHANGED <<journal, journal_len>>

JournalAppend(op, id, arg) ==
  LET len == HeaderLen + (IF id = NoId THEN 0 ELSE IdLen[id])
  IN  \/ /\ journal_len + len <= JournalCap
         /\ journal' = Append(journal, [op |-> op, id |-> id, arg |-> arg])
         /\ journal_len' = journal_len + len
      \/ /\ journal_len + len > JournalCap       \* the entry is dropped
         /\ UNCHANGED <<journal, journal_len>>

(***************************************************************************)
(* has_cycle walks from `to` along the edges of the slots that belong to   *)
(* the first n_cells rows of the table, whatever cell put them there.  The *)
(* cells it visits are the least set that holds `to` and is closed under   *)
(* those edges.                                                            *)
(***************************************************************************)
Used == {k \in Slot : links[k] # Free}

(* A mutated form of the next definition: the scan stops one slot early. *)
ScannedButLast == {links[k] : k \in {k \in Used : k < Len(cells) * MaxLinks}}

ScannedEdges == {links[k] : k \in {k \in Used : k <= Len(cells) * MaxLinks}}

Edges == {links[k] : k \in Used}

Closed(S, E) == \A e \in E : e[1] \in S => e[2] \in S

(* A mutated form of the next definition: the walk takes a single step. *)
VisitedOneStep(j) == {j} \cup {e[2] : e \in {d \in ScannedEdges : d[1] = j}}

Visited(j) ==
  {x \in Index : \A S \in SUBSET Index : j \in S /\ Closed(S, ScannedEdges) => x \in S}

HasCycle(i, j) == i = j \/ i \in Visited(j)

Init ==
  /\ cells = << >>
  /\ links = [k \in Slot |-> Free]
  /\ tick = 0
  /\ journal = << >> /\ journal_len = 0
  /\ pos = 0

-----------------------------------------------------------------------------
(* BIND of an id the engine does not know appends a value cell. *)
BindNew(id, v) ==
  /\ pos = 0
  /\ id \notin Live /\ Len(cells) < Cap
  /\ cells' = Append(cells, [id |-> id, value |-> v, version |-> 1,
                             eval |-> NoFormula, reads |-> << >>])
  /\ JournalAppend("BIND", id, 1)
  /\ UNCHANGED <<links, tick, pos>>

(* A mutated form of the next definition: the version stays. *)
ValueOnly(cell, v) == [cell EXCEPT !.value = v]

(* A new value always comes with the next version. *)
Rewritten(cell, v) == [cell EXCEPT !.value = v, !.version = cell.version + 1]

(* BIND of a known id; rebinding an equal value is a no-op. *)
Rebind(i, v) ==
  /\ pos = 0
  /\ ~ValueEq(cells[i].value, v)
  /\ cells[i].version < MaxVersion
  /\ cells' = [cells EXCEPT ![i] = Rewritten(cells[i], v)]
  /\ JournalAppend("BIND", cells[i].id, cells[i].version + 1)
  /\ UNCHANGED <<links, tick, pos>>

(* A caller registers a formula cell by filling cells[n_cells] itself and   *)
(* incrementing n_cells: no version, no journal entry.                      *)
Register(r, v) ==
  /\ pos = 0
  /\ r.id \notin Live /\ Len(cells) < Cap
  /\ cells' = Append(cells, [id |-> r.id, value |-> v, version |-> 0,
                             eval |-> r.eval, reads |-> r.reads])
  /\ UNCHANGED <<links, tick, journal, journal_len, pos>>

FirstFree(k) == links[k] = Free /\ \A m \in 1 .. k - 1 : links[m] # Free

(* LINK, when the walk finds no cycle and a slot is free. *)
Link(i, j) ==
  /\ pos = 0
  /\ ~HasCycle(i, j)
  /\ \E k \in Slot : /\ FirstFree(k)
                     /\ links' = [links EXCEPT ![k] = <<i, j>>]
  /\ JournalAppend("LINK", cells[i].id, j - 1)
  /\ UNCHANGED <<cells, tick, pos>>

-----------------------------------------------------------------------------
(* quilt_effect: it gathers at most MaxReads inputs and gives up when one   *)
(* of them is not a live cell.                                             *)
NumInputs(c) == IF Len(c.reads) < MaxReads THEN Len(c.reads) ELSE MaxReads

Evaluable(c) ==
  /\ c.eval # NoFormula
  /\ \A k \in 1 .. NumInputs(c) : c.reads[k] \in Live

Evaluated(c) ==
  Eval(c.eval, [k \in 1 .. NumInputs(c) |-> cells[IndexOf(c.reads[k])].value])

(* A mutated form of the next definition: a cell is evaluated only once. *)
NeverEvaluated(i) ==
  /\ Evaluable(cells[i]) /\ cells[i].version = 0
  /\ ~ValueEq(cells[i].value, Evaluated(cells[i]))

Dirty(i) == Evaluable(cells[i]) /\ ~ValueEq(cells[i].value, Evaluated(cells[i]))

Recompute(i) ==
  /\ cells' = [cells EXCEPT ![i] = Rewritten(cells[i], Evaluated(cells[i]))]
  /\ JournalAppend("EFFECT", cells[i].id, cells[i].version + 1)

Effect(i) ==
  /\ pos = 0
  /\ Dirty(i) /\ cells[i].version < MaxVersion
  /\ Recompute(i)
  /\ UNCHANGED <<links, tick, pos>>

(* TICK: one pass over the cells in array order, each evaluated against     *)
(* the values the pass has written so far, then the tick itself.  No other  *)
(* operation runs between the steps of the pass.                            *)
TickBegin ==
  /\ pos = 0 /\ tick < MaxTick
  /\ \A i \in DOMAIN cells : cells[i].version < MaxVersion
  /\ pos' = 1
  /\ UNCHANGED <<cells, links, tick, journal, journal_len>>

TickCell ==
  /\ pos \in DOMAIN cells
  /\ \/ Dirty(pos) /\ Recompute(pos)
     \/ ~Dirty(pos) /\ UNCHANGED <<cells, journal, journal_len>>
  /\ pos' = pos + 1
  /\ UNCHANGED <<links, tick>>

TickEnd ==
  /\ pos = Len(cells) + 1
  /\ tick' = tick + 1
  /\ JournalAppend("TICK", NoId, tick + 1)
  /\ pos' = 0
  /\ UNCHANGED <<cells, links>>

(* FORGET severs the links of cell i and closes the gap in the array.  The  *)
(* remaining links keep the indices they were made with.                    *)
(* Mutated forms of the next definition: link_to is left as it was, and     *)
(* only the links from the cell are severed.                               *)
SeveredFromEnd(i) ==
  [k \in Slot |-> IF i \in {links[k][1], links[k][2]} THEN <<0, links[k][2]>> ELSE links[k]]

SeveredOutgoing(i) ==
  [k \in Slot |-> IF i = links[k][1] THEN Free ELSE links[k]]

Severed(i) ==
  [k \in Slot |-> IF i \in {links[k][1], links[k][2]} THEN Free ELSE links[k]]

Without(i) ==
  [k \in 1 .. Len(cells) - 1 |-> IF k < i THEN cells[k] ELSE cells[k + 1]]

Forget(i) ==
  /\ pos = 0
  /\ links' = Severed(i)
  /\ cells' = Without(i)
  /\ JournalAppend("FORGET", cells[i].id, 0)
  /\ UNCHANGED <<tick, pos>>

-----------------------------------------------------------------------------
Next ==
  \/ \E id \in Id, v \in Value : BindNew(id, v)
  \/ \E i \in DOMAIN cells, v \in Value : Rebind(i, v)
  \/ \E r \in Registration, v \in Value : Register(r, v)
  \/ \E i, j \in DOMAIN cells : Link(i, j)
  \/ \E i \in DOMAIN cells : Effect(i)
  \/ TickBegin
  \/ TickCell
  \/ TickEnd
  \/ \E i \in DOMAIN cells : Forget(i)

Spec == Init /\ [][Next]_vars

(* The discipline of a caller that keeps every used slot inside the rows    *)
(* has_cycle scans.                                                        *)
WithinWindow == \A k \in Used : k <= Len(cells) * MaxLinks

WindowSpec == Init /\ [][Next /\ WithinWindow']_vars

-----------------------------------------------------------------------------
(* No two cells share an id, so the first match cell_index returns is the   *)
(* only one.                                                               *)
UniqueIds == \A i, j \in DOMAIN cells : cells[i].id = cells[j].id => i = j

(* The DAG law of LINK: every nonempty set of indices has a member with no  *)
(* edge into the set.                                                      *)
Acyclic ==
  \A S \in SUBSET Index : S # {} =>
    \E x \in S : \A y \in S : <<x, y>> \notin Edges

(***************************************************************************)
(* While the journal still has room for the longest entry it has dropped   *)
(* nothing, and replaying it gives the version of every cell (0 for a cell *)
(* that is not there) and the tick.                                        *)
(***************************************************************************)
LastSays(J, K, v) ==
  IF K = {} THEN v = 0
  ELSE \E k \in K : (\A m \in K : m <= k) /\ J[k].arg = v

About(J, id) == {k \in DOMAIN J : J[k].id = id /\ J[k].op # "LINK"}

Ticks(J) == {k \in DOMAIN J : J[k].op = "TICK"}

JournalHasRoom ==
  /\ journal_len + HeaderLen <= JournalCap
  /\ \A id \in Id : journal_len + HeaderLen + IdLen[id] <= JournalCap

VersionOf(id) == IF id \in Live THEN cells[IndexOf(id)].version ELSE 0

JournalReplays ==
  JournalHasRoom =>
    /\ \A id \in Id : LastSays(journal, About(journal, id), VersionOf(id))
    /\ LastSays(journal, Ticks(journal), tick)

-----------------------------------------------------------------------------
(* Seen by id, the engine is a versioned store. *)
Store == [id \in Live |-> [value   |-> cells[IndexOf(id)].value,
                           version |-> cells[IndexOf(id)].version]]

CS == INSTANCE CellStore WITH store <- Store

(* The engine implements the abstract store. *)
ImplementsStore == CS!Spec
=============================================================================
