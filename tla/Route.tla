-------------------------------- MODULE Route -------------------------------
(***************************************************************************)
(* The ROUTE statistics of src/route.c: a counter per memory substrate, a  *)
(* total, and the substrate preferred so far.  A caller routes a value to  *)
(* the substrate quilt_route_policy recommends and records that.           *)
(***************************************************************************)
EXTENDS Integers, FiniteSetsExt

CONSTANTS
  MaxCount,        \* UINT64_MAX
  MaxEvents        \* bound on the events recorded, for model checking

ASSUME RouteAssumption == MaxCount \in Nat \ {0} /\ MaxEvents \in Nat

(* quilt_route_kind_t, in the order of the enum. *)
DENSE_VEC == 0
SPARSE_IDX == 1
TEXT_LOG == 2
HIER_STORE == 3
PARAM_UPDATE == 4

Kind == DENSE_VEC .. PARAM_UPDATE

VARIABLES
  count, total, preferred,
  recorded         \* history: [Kind -> Nat], the events that were recorded

routeVars == <<count, total, preferred, recorded>>

Shape == {"NULL", "BOOL", "INT", "FLOAT", "short STR", "long STR"}

(* quilt_route_policy; a NULL pointer goes where a NULL value goes. *)
Policy(v) ==
  CASE v = "NULL" -> TEXT_LOG
    [] v = "BOOL" -> PARAM_UPDATE
    [] v = "INT" -> SPARSE_IDX
    [] v \in {"FLOAT", "long STR"} -> DENSE_VEC
    [] v = "short STR" -> HIER_STORE

RouteInit ==
  /\ count = [k \in Kind |-> 0] /\ total = 0
  /\ preferred = TEXT_LOG
  /\ recorded = [k \in Kind |-> 0]

(* A mutated form of the next definition: a later kind wins a tie. *)
PickLast(n) == Max({k \in Kind : \A m \in Kind : n[m] <= n[k]})

(* quilt_route_pick: the largest count, the lowest kind of several. *)
Pick(n) == Min({k \in Kind : \A m \in Kind : n[m] <= n[k]})

(* Each counter stops at its limit; the total wraps. *)
Record(kind) ==
  /\ recorded[kind] < MaxEvents
  /\ count' = [count EXCEPT ![kind] = IF @ < MaxCount THEN @ + 1 ELSE @]
  /\ total' = (total + 1) % (MaxCount + 1)
  /\ preferred' = Pick(count')
  /\ recorded' = [recorded EXCEPT ![kind] = @ + 1]

(* quilt_route_init of a block in use. *)
InitStats ==
  /\ count' = [k \in Kind |-> 0] /\ total' = 0
  /\ preferred' = TEXT_LOG
  /\ recorded' = [k \in Kind |-> 0]

RouteNext == (\E v \in Shape : Record(Policy(v))) \/ InitStats

RouteSpec == RouteInit /\ [][RouteNext]_routeVars

-----------------------------------------------------------------------------
(* The preferred kind is the first of those recorded most often, as long as *)
(* no counter has reached its limit; from then on it is the first of those  *)
(* that have.  The total counts all events, modulo its width, also those a  *)
(* full counter did not take.  Before any event TEXT_LOG is preferred.      *)
PreferredIsMostRecorded ==
  LET atLimit == {k \in Kind : recorded[k] >= MaxCount}
      leaders == {k \in Kind : \A m \in Kind : recorded[m] <= recorded[k]}
  IN  /\ preferred = IF recorded = [k \in Kind |-> 0] THEN TEXT_LOG
                     ELSE Min(IF atLimit = {} THEN leaders ELSE atLimit)
      /\ total = MapThenSumSet(LAMBDA k : recorded[k], Kind) % (MaxCount + 1)
=============================================================================
