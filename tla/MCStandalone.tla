---------------------------- MODULE MCStandalone ----------------------------
(* World.tla, Time.tla, Route.tla and Canon.tla at model-checking size.     *)
(* The code never lets two of these components meet, so in each behaviour   *)
(* one of them moves and the others stay as they were initialised.         *)
EXTENDS World, Time, Route, Canon

CONSTANTS c1, c2, h1, x, y

VARIABLE moving    \* the component that moves

Codes == {c1, c2}
Hints == {h1}
MCBytes == [t \in Codes \cup Hints |-> IF t = c2 THEN 3 ELSE 1]

(* A hint moves the prediction by one. *)
MCPredict(t) == (IF t[1] = c1 THEN 0 ELSE 1) + Len(t)

MCObserved == {1, 2}
MCTolerance == {-1, 0, 1}

(* The two covariates are bound by the same code, each to a buffer of its   *)
(* own: one stands for both.                                               *)
Series == {x, y}
OneCovariate == {"past_only"}

DataSymmetry == Permutations(Data)

(* Numbers 3 and 4 lie outside visited[], 2 to 4 share dial[0]. *)
MCPapers ==
  [number : {0}, refs : {<<1, 2>>, <<2, 1, 2>>, <<0, 3>>}, rest : {0}]
    \cup [number : {1}, refs : {<< >>, <<0, 2>>}, rest : {0, 1}]
    \cup [number : {2, 4}, refs : {<<1>>}, rest : {0, 1}]

MCStart == 0 .. 3

-----------------------------------------------------------------------------
allVars == <<worldVars, timeVars, routeVars, canonVars, moving>>

StandaloneInit ==
  /\ WorldInit /\ TimeInit /\ RouteInit /\ CanonInit
  /\ moving \in {"world", "time", "route", "canon"}

StandaloneNext ==
  /\ \/ moving = "world" /\ WorldNext /\ UNCHANGED <<timeVars, routeVars, canonVars>>
     \/ moving = "time"  /\ TimeNext  /\ UNCHANGED <<worldVars, routeVars, canonVars>>
     \/ moving = "route" /\ RouteNext /\ UNCHANGED <<worldVars, timeVars, canonVars>>
     \/ moving = "canon" /\ CanonNext /\ UNCHANGED <<worldVars, timeVars, routeVars>>
  /\ UNCHANGED moving

StandaloneSpec == StandaloneInit /\ [][StandaloneNext]_allVars
=============================================================================
