---------------------------- MODULE EngineSheet -----------------------------
(***************************************************************************)
(* The engine used as a spreadsheet: how many passes of quilt_tick         *)
(* (src/engine.c) bring every formula up to date after a caller's change.  *)
(* Formulas are evaluated in array order, not in dependency order, so one  *)
(* pass is enough only when no formula is read by an earlier one.          *)
(***************************************************************************)
EXTENDS Engine, FiniteSets

VARIABLE passes    \* history: whole TICKs since a caller last changed a
                   \* cell, counted up to Cap + 1

sheetVars == <<cells, links, tick, journal, journal_len, pos, passes>>

CallerChanges ==
  \/ \E id \in Id, v \in Value : BindNew(id, v)
  \/ \E i \in DOMAIN cells, v \in Value : Rebind(i, v)
  \/ \E r \in Registration, v \in Value : Register(r, v)
  \/ \E i \in DOMAIN cells : Forget(i)

(* LINK is left out: its edges play no part in an evaluation. *)
EngineRuns ==
  \/ \E i \in DOMAIN cells : Effect(i)
  \/ TickBegin
  \/ TickCell

SheetNext ==
  \/ CallerChanges /\ passes' = 0
  \/ EngineRuns /\ UNCHANGED passes
  \/ TickEnd /\ passes' = IF passes > Cap THEN passes ELSE passes + 1

SheetSpec == Init /\ passes = 0 /\ [][SheetNext]_sheetVars

-----------------------------------------------------------------------------
(* i depends on j: formula i reads the output of formula j. *)
DependsOn(i, j) ==
  /\ Evaluable(cells[i]) /\ Evaluable(cells[j])
  /\ \E k \in 1 .. NumInputs(cells[i]) : cells[i].reads[k] = cells[j].id

ReadsAcyclic ==
  \A S \in SUBSET DOMAIN cells : S # {} =>
    \E i \in S : \A j \in S : ~DependsOn(i, j)

(* The formulas some earlier formula reads: a pass that changes one of them *)
(* comes too late for that reader.                                         *)
ReadEarly == {j \in DOMAIN cells : \E i \in 1 .. j : DependsOn(i, j)}

UpToDate ==
  \A i \in DOMAIN cells :
    Evaluable(cells[i]) => cells[i].value = Evaluated(cells[i])

(* Without circular reads, one pass more than there are formulas read early *)
(* leaves every formula equal to its evaluator's result on its inputs,      *)
(* whatever single EFFECTs came between the passes.               *)
SettlesInTime ==
  pos = 0 /\ ReadsAcyclic /\ passes > Cardinality(ReadEarly) => UpToDate
=============================================================================
