--------------------------- MODULE EngineSnapshot ---------------------------
(***************************************************************************)
(* Snapshots of a live engine: a host saves the values of src/engine.c's   *)
(* cells to dial rows, goes on, and binds the rows back with               *)
(* quilt_quf_op_bind of src/quf.c, which writes into the cell array behind *)
(* the engine's back.  How rows travel through a file is in Quf.tla.       *)
(*                                                                         *)
(* Values only: LINK, TICK and formula cells are left out.                 *)
(***************************************************************************)
EXTENDS Engine, QufDial

CONSTANT
  Bindable         \* the values the host binds itself, for model checking

(* What a row gives back is a value like any other. *)
ASSUME SnapshotAssumption ==
  /\ Value \subseteq DialValue /\ Bindable \subseteq Value
  /\ \A v \in Value : \A r \in DialFromValue(v) : DialToValue(r) \in Value

VARIABLES
  rows,            \* q->dials
  saved,           \* history: the ids and values the rows were saved from
  steady,          \* history: no FORGET since the save
  restored,        \* history: the ids op_bind wrote to, until they change again
  unlogged         \* history: [Id -> Nat], op_binds since the last change to
                   \* the cell that the journal was told of

snapshotVars == <<vars, rows, saved, steady, restored, unlogged>>

Host == <<rows, saved>>

-----------------------------------------------------------------------------
(* The host fills one row per cell and attaches them to the snapshot. *)
Save ==
  /\ LET Possible(i) == DialFromValue(cells[i].value)
     IN  rows' \in {r \in [DOMAIN cells -> UNION {Possible(i) : i \in DOMAIN cells}] :
                       \A i \in DOMAIN cells : r[i] \in Possible(i)}
  /\ saved' = [i \in DOMAIN cells |-> [id |-> cells[i].id, value |-> cells[i].value]]
  /\ steady' = TRUE
  /\ UNCHANGED <<vars, restored, unlogged>>

(* Mutated forms of the next definition: the version stays, and the cell is *)
(* given the next row.                                                     *)
BoundSilently(i) == [cells[i] EXCEPT !.value = DialToValue(rows[i])]

BoundNext(i) ==
  LET j == IF i < Len(rows) THEN i + 1 ELSE i
  IN  Rewritten(cells[i], DialToValue(rows[j]))

(* A row is written and counted whether the value differs or not.          *)
Bound(i) == Rewritten(cells[i], DialToValue(rows[i]))

(* quilt_quf_op_bind goes by position and tells the journal nothing.       *)
OpBind ==
  /\ rows # << >> /\ Len(rows) <= Len(cells)
  /\ \A i \in DOMAIN rows : cells[i].version < MaxVersion
  /\ cells' = [i \in DOMAIN cells |-> IF i \in DOMAIN rows THEN Bound(i) ELSE cells[i]]
  /\ restored' = {cells[i].id : i \in DOMAIN rows}
                   \cup {id \in restored : IndexOf(id) > Len(rows)}
  /\ unlogged' = [id \in Id |->
       unlogged[id] + IF id \in Live /\ IndexOf(id) \in DOMAIN rows THEN 1 ELSE 0]
  /\ UNCHANGED <<links, tick, journal, journal_len, pos, rows, saved, steady>>

(* The engine's own operations on values. *)
Elsewhere(touched) ==
  /\ restored' = restored \ {touched}
  /\ unlogged' = [unlogged EXCEPT ![touched] = 0]
  /\ UNCHANGED Host

SnapshotInit ==
  /\ Init
  /\ rows = << >> /\ saved = << >> /\ steady = TRUE
  /\ restored = {} /\ unlogged = [id \in Id |-> 0]

SnapshotNext ==
  \/ Save
  \/ OpBind
  \/ \E id \in Id, v \in Bindable : BindNew(id, v) /\ Elsewhere(id) /\ UNCHANGED steady
  \/ \E i \in DOMAIN cells, v \in Bindable :
       Rebind(i, v) /\ Elsewhere(cells[i].id) /\ UNCHANGED steady
  \/ \E i \in DOMAIN cells : Forget(i) /\ Elsewhere(cells[i].id) /\ steady' = FALSE

SnapshotSpec == SnapshotInit /\ [][SnapshotNext]_snapshotVars

-----------------------------------------------------------------------------
(* As long as no cell was forgotten since the save, a cell that op_bind     *)
(* wrote to and nobody changed since is the one its row was saved from, its *)
(* value is what a row can tell of the saved one, and saving it again gives *)
(* the same row.                                                           *)
RestoresTheSaved ==
  steady => \A i \in DOMAIN saved : saved[i].id \in restored =>
    /\ cells[i].id = saved[i].id
    /\ Restored(saved[i].value, cells[i].value)
    /\ DialFromValue(cells[i].value) = {rows[i]}

(* A journal that has dropped nothing gives the version of every cell but   *)
(* for the op_binds since its last entry about it, which it never saw.      *)
JournalTrailsRestores ==
  JournalHasRoom =>
    \A id \in Id : LastSays(journal, About(journal, id), VersionOf(id) - unlogged[id])
=============================================================================
