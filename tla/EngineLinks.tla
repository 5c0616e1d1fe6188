---------------------------- MODULE EngineLinks -----------------------------
(***************************************************************************)
(* The link table of src/engine.c under FORGET.  FORGET closes the gap in   *)
(* the cell array but leaves in the table the indices links were made with, *)
(* so what the table says of the cells depends on the order they go in.     *)
(***************************************************************************)
EXTENDS Engine

VARIABLE stacked   \* history: every FORGET so far took the last cell

linksVars == <<vars, stacked>>

LastForgotten ==
  Len(cells') < Len(cells) => cells' = SubSeq(cells, 1, Len(cells) - 1)

LinksInit == Init /\ stacked = TRUE

LinksNext ==
  /\ Next
  /\ stacked' = (stacked /\ LastForgotten)

LinksSpec == LinksInit /\ [][LinksNext]_linksVars

(* The same under the discipline of WindowSpec. *)
LinksWindowSpec == LinksInit /\ [][LinksNext /\ WithinWindow']_linksVars

-----------------------------------------------------------------------------
(* Every link joins two live cells (the residue FORGET must not leave). *)
LinksAreLive ==
  \A k \in Used : links[k][1] \in DOMAIN cells /\ links[k][2] \in DOMAIN cells

(* No link dangles as long as cells are forgotten in the reverse of the     *)
(* order they were made.                                                   *)
StackLeavesNoResidue == stacked => LinksAreLive

(* Seen by id, links between live cells are the edges of a graph. *)
IdEdges == {<<cells[e[1]].id, cells[e[2]].id>> :
              e \in Edges \cap ((DOMAIN cells) \X (DOMAIN cells))}

FB == INSTANCE Fabric WITH nodes <- Live, edges <- IdEdges

(* As long, every step is one of the abstract graph of ids or leaves that   *)
(* graph alone: FORGET takes the edges of its cell and no others, and LINK  *)
(* adds the one edge it was asked for, never one that closes a cycle.       *)
StackIsFabric == FB!Init /\ [][stacked' => FB!Next]_<<Live, IdEdges>>
=============================================================================
