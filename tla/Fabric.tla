------------------------------- MODULE Fabric -------------------------------
(***************************************************************************)
(* What LINK and FORGET of src/engine.c promise about the dependency       *)
(* graph, told in ids: edges join nodes that exist, an edge that would     *)
(* close a cycle is refused, and removing a node removes its edges and no  *)
(* others.                                                                 *)
(***************************************************************************)
CONSTANT Id

VARIABLES nodes, edges

Init == nodes = {} /\ edges = {}

Reaches(a, b) ==
  \A S \in SUBSET Id :
    a \in S /\ (\A e \in edges : e[1] \in S => e[2] \in S) => b \in S

Add(id) ==
  /\ id \notin nodes
  /\ nodes' = nodes \cup {id}
  /\ UNCHANGED edges

Connect(a, b) ==
  /\ {a, b} \subseteq nodes
  /\ ~Reaches(b, a)
  /\ edges' = edges \cup {<<a, b>>}
  /\ UNCHANGED nodes

Drop(id) ==
  /\ nodes' = nodes \ {id}
  /\ edges' = {e \in edges : id \notin {e[1], e[2]}}

Next ==
  \/ \E id \in Id : Add(id)
  \/ \E a, b \in nodes : Connect(a, b)
  \/ \E id \in nodes : Drop(id)

Spec == Init /\ [][Next]_<<nodes, edges>>
=============================================================================
