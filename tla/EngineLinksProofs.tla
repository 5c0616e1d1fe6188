------------------------- MODULE EngineLinksProofs --------------------------
(***************************************************************************)
(* Proofs about EngineLinks.tla (LINK and FORGET under a caller's           *)
(* disciplines) and CycleWalk.tla (has_cycle's walk, loop by loop), for     *)
(* every value of their constants.                                         *)
(***************************************************************************)
EXTENDS EngineLinks, CycleWalk, EngineProofs

-----------------------------------------------------------------------------
(* The invariant: stale indices need a FORGET out of order.  EngineInv is there *)
(* because only unique ids tell which cell a FORGET took.                  *)
LinksInv == EngineInv /\ StackLeavesNoResidue

(* All links of the table L join two of the first n cells. *)
Join(L, n) == \A k \in Slot : L[k] = Free \/ L[k] \in (1 .. n) \X (1 .. n)

LEMMA LiveLinks == TypeOK => (LinksAreLive <=> Join(links, Len(cells)))
<1> SUFFICES ASSUME TypeOK PROVE LinksAreLive <=> Join(links, Len(cells))
  OBVIOUS
<1>1. DOMAIN cells = 1 .. Len(cells)
  BY LenProperties DEF TypeOK
<1>2. \A k \in Slot : links[k] \in (Index \X Index) \cup {Free}
  BY DEF TypeOK
<1> QED BY <1>1, <1>2 DEF LinksAreLive, Used, Join

LEMMA LinksInvInit == LinksInit => LinksInv
<1> SUFFICES ASSUME LinksInit PROVE LinksInv
  OBVIOUS
<1>1. EngineInv
  BY ShapeInit DEF LinksInit
<1>2. LinksAreLive
  BY DEF LinksInit, Init, LinksAreLive, Used
<1> QED BY <1>1, <1>2 DEF LinksInv, StackLeavesNoResidue

(* A FORGET that leaves the first cells of the array took the last one.     *)
LEMMA LastTaken ==
  ASSUME EngineInv, NEW i \in DOMAIN cells, Forget(i), LastForgotten
  PROVE  i = Len(cells)
<1>1. /\ DOMAIN cells = 1 .. Len(cells) /\ Len(cells) \in Nat /\ i \in 1 .. Len(cells)
      /\ cells \in Seq(Cell)
  BY CellInArray DEF EngineInv, TypeOK
<1>2. /\ Len(cells') = Len(cells) - 1 /\ DOMAIN cells' = 1 .. Len(cells) - 1
      /\ \A k \in DOMAIN cells' : cells'[k] = IF k < i THEN cells[k] ELSE cells[k + 1]
  BY RemoveCell DEF Forget, EngineInv
<1>3. cells' = SubSeq(cells, 1, Len(cells) - 1)
  BY <1>1, <1>2 DEF LastForgotten
<1>4. \A k \in 1 .. Len(cells) - 1 : SubSeq(cells, 1, Len(cells) - 1)[k] = cells[k]
  BY <1>1
<1>5. ASSUME i # Len(cells) PROVE FALSE
  <2>1. i \in DOMAIN cells' /\ i + 1 \in DOMAIN cells /\ i # i + 1
    BY <1>1, <1>2, <1>5
  <2>2. cells[i] = cells[i + 1]
    BY <1>1, <1>2, <1>3, <1>4, <2>1
  <2> QED BY <2>1, <2>2 DEF EngineInv, UniqueIds
<1> QED BY <1>5

LEMMA LinksInvStep ==
  ASSUME LinksInv, [LinksNext]_linksVars
  PROVE  LinksInv'
<1>1. EngineInv /\ EngineInv' /\ TypeOK /\ TypeOK'
  <2>1. [Next]_vars
    BY DEF LinksNext, linksVars
  <2> QED BY <2>1, ShapeStep DEF LinksInv, EngineInv
<1> SUFFICES ASSUME stacked' PROVE LinksAreLive'
  BY <1>1 DEF LinksInv, StackLeavesNoResidue
<1>2. stacked
  BY DEF LinksNext, linksVars
<1>3. Join(links, Len(cells))
  BY <1>1, <1>2, LiveLinks DEF LinksInv, StackLeavesNoResidue
<1>4. DOMAIN cells = 1 .. Len(cells) /\ Len(cells) \in Nat /\ Len(cells') \in Nat
  BY <1>1, LenProperties DEF TypeOK
<1>5. ASSUME UNCHANGED links, Len(cells) <= Len(cells') PROVE Join(links', Len(cells'))
  BY <1>3, <1>4, <1>5 DEF Join
<1>6. Join(links', Len(cells'))
  <2>1. ASSUME NEW c, cells' = Append(cells, c), UNCHANGED links PROVE Join(links', Len(cells'))
    <3>1. Len(cells') = Len(cells) + 1
      BY <1>1, <2>1 DEF TypeOK
    <3> QED BY <1>4, <1>5, <2>1, <3>1
  <2>2. ASSUME NEW i \in DOMAIN cells, NEW c \in Cell,
               cells' = [cells EXCEPT ![i] = c], UNCHANGED links
        PROVE  Join(links', Len(cells'))
    <3>1. Len(cells') = Len(cells)
      BY <1>1, <2>2 DEF TypeOK
    <3> QED BY <1>4, <1>5, <2>2, <3>1
  <2>3. ASSUME NEW id \in Id, NEW v \in Value, BindNew(id, v) PROVE Join(links', Len(cells'))
    BY <2>1, <2>3 DEF BindNew
  <2>4. ASSUME NEW i \in DOMAIN cells, NEW v \in Value, Rebind(i, v)
        PROVE  Join(links', Len(cells'))
    BY <1>1, <2>2, <2>4, CellInArray, RewrittenCell DEF Rebind
  <2>5. ASSUME NEW r \in Registration, NEW v \in Value, Register(r, v)
        PROVE  Join(links', Len(cells'))
    BY <2>1, <2>5 DEF Register
  <2>6. ASSUME NEW i \in DOMAIN cells, NEW j \in DOMAIN cells, Link(i, j)
        PROVE  Join(links', Len(cells'))
    <3>1. PICK k \in Slot : links' = [links EXCEPT ![k] = <<i, j>>]
      BY <2>6 DEF Link
    <3>2. cells' = cells /\ links \in [Slot -> (Index \X Index) \cup {Free}]
      BY <1>1, <2>6 DEF Link, TypeOK
    <3>3. links'[k] = <<i, j>> /\ \A m \in Slot \ {k} : links'[m] = links[m]
      BY <3>1, <3>2
    <3>4. <<i, j>> \in (1 .. Len(cells')) \X (1 .. Len(cells')) /\ Len(cells') = Len(cells)
      BY <1>4, <3>2
    <3>5. ASSUME NEW m \in Slot
          PROVE  links'[m] = Free \/ links'[m] \in (1 .. Len(cells')) \X (1 .. Len(cells'))
      <4>1. CASE m = k
        BY <3>3, <3>4, <4>1
      <4>2. CASE m # k
        BY <1>3, <3>3, <3>4, <4>2 DEF Join
      <4> QED BY <4>1, <4>2
    <3> QED BY <3>5 DEF Join
  <2>7. ASSUME NEW i \in DOMAIN cells, Dirty(i), Recompute(i), UNCHANGED links
        PROVE  Join(links', Len(cells'))
    <3>1. Len(cells') = Len(cells)
      BY <1>1, <2>7, RecomputeShape
    <3> QED BY <1>4, <1>5, <2>7, <3>1
  <2>8. ASSUME NEW i \in DOMAIN cells, Effect(i) PROVE Join(links', Len(cells'))
    BY <2>7, <2>8 DEF Effect
  <2>9. ASSUME UNCHANGED <<cells, links>> PROVE Join(links', Len(cells'))
    BY <1>4, <1>5, <2>9
  <2>10. CASE TickCell
    BY <2>7, <2>9, <2>10 DEF TickCell
  <2>11. ASSUME NEW i \in DOMAIN cells, Forget(i), LastForgotten
         PROVE  Join(links', Len(cells'))
    <3>1. i = Len(cells) /\ Len(cells) \in Nat /\ Len(cells') = Len(cells) - 1
      BY <1>1, <1>4, <2>11, LastTaken, RemoveCell DEF Forget, EngineInv
    <3>2. \A k \in Slot :
            links'[k] = IF i \in {links[k][1], links[k][2]} THEN Free ELSE links[k]
      BY <2>11 DEF Forget, Severed
    <3>3. ASSUME NEW k \in Slot, links[k] \in (1 .. Len(cells)) \X (1 .. Len(cells)),
                 i \notin {links[k][1], links[k][2]}
          PROVE  links[k] \in (1 .. Len(cells')) \X (1 .. Len(cells'))
      BY <3>1, <3>3
    <3> QED BY <1>3, <3>2, <3>3 DEF Join
  <2>12. CASE UNCHANGED linksVars
    BY <2>9, <2>12 DEF linksVars, vars
  <2>13. CASE LinksNext
    <3>1. Next /\ LastForgotten
      BY <2>13 DEF LinksNext
    <3> QED
      BY <2>3, <2>4, <2>5, <2>6, <2>8, <2>9, <2>10, <2>11, <3>1 DEF Next, TickBegin, TickEnd
  <2> QED BY <2>12, <2>13
<1>7. DOMAIN cells' = 1 .. Len(cells')
  BY <1>1, LenProperties DEF TypeOK
<1> QED BY <1>1, <1>6, <1>7 DEF LinksAreLive, Used, Join, TypeOK

(* As long as every FORGET takes the cell made last, no link dangles.       *)
THEOREM StackLeavesNoResidueCorrect == LinksSpec => []StackLeavesNoResidue
<1>1. LinksInv => StackLeavesNoResidue
  BY DEF LinksInv
<1> QED BY LinksInvInit, LinksInvStep, <1>1, PTL DEF LinksSpec

-----------------------------------------------------------------------------
(* The refinement of Fabric.  While links are live, IdEdges is the table    *)
(* with every index replaced by the id at it.                              *)
IdPair(C, e) == <<C[e[1]].id, C[e[2]].id>>

InIds(C, L) == {IdPair(C, L[k]) : k \in {k \in Slot : L[k] # Free}}

LEMMA IdEdgesNow ==
  ASSUME TypeOK, LinksAreLive
  PROVE  IdEdges = InIds(cells, links)
<1> DEFINE inside == Edges \cap ((DOMAIN cells) \X (DOMAIN cells))
<1>1. \A k \in Slot : links[k] # Free => links[k] \in inside
  BY DEF TypeOK, LinksAreLive, Edges, Used
<1>2. \A e \in inside : \E k \in Slot : links[k] # Free /\ e = links[k]
  BY DEF Edges, Used
<1>3. IdEdges = {IdPair(cells, e) : e \in inside}
  BY DEF IdEdges, IdPair
<1> HIDE DEF inside
<1> QED BY <1>1, <1>2, <1>3 DEF InIds

LEMMA IdEdgesNext ==
  ASSUME TypeOK', LinksAreLive'
  PROVE  IdEdges' = InIds(cells', links')
<1> DEFINE inside == Edges' \cap ((DOMAIN cells') \X (DOMAIN cells'))
<1>1. \A k \in Slot : links'[k] # Free => links'[k] \in inside
  BY DEF TypeOK, LinksAreLive, Edges, Used
<1>2. \A e \in inside : \E k \in Slot : links'[k] # Free /\ e = links'[k]
  BY DEF Edges, Used
<1>3. IdEdges' = {IdPair(cells', e) : e \in inside}
  BY DEF IdEdges, IdPair
<1> HIDE DEF inside
<1> QED BY <1>1, <1>2, <1>3 DEF InIds

(* A step that keeps the links, and the ids at the indices they name, keeps *)
(* the edges.                                                              *)
LEMMA SameEdges ==
  ASSUME TypeOK, TypeOK', LinksAreLive, LinksAreLive', links' = links,
         \A i \in DOMAIN cells : cells'[i].id = cells[i].id
  PROVE  IdEdges' = IdEdges
<1>1. \A k \in Slot : links[k] # Free => IdPair(cells', links[k]) = IdPair(cells, links[k])
  BY DEF LinksAreLive, Used, IdPair
<1>2. InIds(cells', links) = InIds(cells, links)
  BY <1>1 DEF InIds
<1> QED BY <1>2, IdEdgesNow, IdEdgesNext

(* LINK refuses what the walk finds: an edge it adds closes no cycle of ids. *)
LEMMA LinkMapsToConnect ==
  ASSUME EngineInv, EngineInv', WithinWindow, LinksAreLive, LinksAreLive',
         NEW i \in DOMAIN cells, NEW j \in DOMAIN cells, Link(i, j)
  PROVE  FB!Connect(cells[i].id, cells[j].id)
<1> DEFINE a == cells[i].id
           b == cells[j].id
           seen == {cells[x].id : x \in Visited(j) \cap DOMAIN cells}
<1>1. /\ TypeOK /\ UniqueIds /\ i \in Index /\ j \in Index
      /\ \A x \in DOMAIN cells : cells[x].id \in Id
  BY CellInArray DEF EngineInv, Cell
<1>2. j \in Visited(j) /\ Closed(Visited(j), Edges)
  BY <1>1, VisitedClosed
<1>3. cells' = cells /\ i \notin Visited(j)
  BY DEF Link, HasCycle
<1>4. PICK k \in Slot : links[k] = Free /\ links' = [links EXCEPT ![k] = <<i, j>>]
  BY DEF Link, FirstFree
<1>5. {a, b} \subseteq Live /\ Live' = Live
  BY <1>3 DEF Live
<1>6. ~FB!Reaches(b, a)
  <2>1. seen \subseteq Id /\ b \in seen
    BY <1>1, <1>2
  <2>2. a \notin seen
    BY <1>1, <1>3 DEF UniqueIds
  <2>3. ASSUME NEW e \in IdEdges, e[1] \in seen PROVE e[2] \in seen
    <3>1. PICK d \in Edges \cap ((DOMAIN cells) \X (DOMAIN cells)) :
            e = <<cells[d[1]].id, cells[d[2]].id>>
      BY DEF IdEdges
    <3>2. PICK x \in Visited(j) \cap DOMAIN cells : cells[d[1]].id = cells[x].id
      BY <2>3, <3>1
    <3>3. d[1] \in Visited(j) /\ d[1] \in DOMAIN cells /\ d[2] \in DOMAIN cells
      BY <1>1, <3>1, <3>2 DEF UniqueIds
    <3>4. d[2] \in Visited(j)
      BY <1>2, <3>3 DEF Closed
    <3> QED BY <3>1, <3>3, <3>4
  <2> HIDE DEF a, b, seen
  <2> QED BY <2>1, <2>2, <2>3 DEF FB!Reaches
<1>7. IdEdges' = IdEdges \cup {<<a, b>>}
  <2>1. IdEdges = InIds(cells, links) /\ IdEdges' = InIds(cells, links')
    BY <1>1, <1>3, IdEdgesNow, IdEdgesNext DEF EngineInv
  <2>2. links \in [Slot -> (Index \X Index) \cup {Free}]
    BY <1>1 DEF TypeOK
  <2>3. /\ links'[k] = <<i, j>>
        /\ \A m \in Slot \ {k} : links'[m] = links[m]
    BY <1>1, <1>4, <2>2
  <2>4. i # 0
    BY <1>1, ConstantsAssumption DEF Index
  <2>5. links'[k] # Free
    BY <2>3, <2>4 DEF Free
  <2>6. IdPair(cells, links'[k]) = <<a, b>>
    BY <2>3 DEF IdPair
  <2> QED BY <1>4, <2>1, <2>3, <2>5, <2>6 DEF InIds
<1> QED BY <1>5, <1>6, <1>7 DEF FB!Connect

(* A FORGET of the last cell takes the edges of its id and no others. *)
LEMMA ForgetMapsToDrop ==
  ASSUME EngineInv, EngineInv', LinksAreLive, LinksAreLive',
         NEW i \in DOMAIN cells, Forget(i), i = Len(cells)
  PROVE  cells[i].id \in Live /\ FB!Drop(cells[i].id)
<1> DEFINE a == cells[i].id
<1>1. /\ TypeOK /\ UniqueIds /\ DOMAIN cells = 1 .. Len(cells) /\ Len(cells) \in Nat
  BY CellInArray DEF EngineInv
<1>2. /\ DOMAIN cells' = 1 .. Len(cells) - 1
      /\ \A k \in DOMAIN cells' : cells'[k] = IF k < i THEN cells[k] ELSE cells[k + 1]
      /\ Live' = Live \ {a}
  BY <1>1, RemoveCell DEF Forget
<1>3. \A k \in DOMAIN cells \ {i} : k \in DOMAIN cells' /\ cells'[k].id = cells[k].id
  BY <1>1, <1>2
<1>4. \A k \in DOMAIN cells : cells[k].id = a <=> k = i
  BY <1>1 DEF UniqueIds
<1>5. \A k \in Slot : links'[k] = IF i \in {links[k][1], links[k][2]} THEN Free ELSE links[k]
  BY DEF Forget, Severed
<1>6. \A k \in Slot : links[k] # Free =>
        links[k][1] \in DOMAIN cells /\ links[k][2] \in DOMAIN cells
  BY DEF LinksAreLive, Used
<1>7. IdEdges = InIds(cells, links) /\ IdEdges' = InIds(cells', links')
  BY IdEdgesNow, IdEdgesNext DEF EngineInv
<1>8. i # 0 /\ Free[1] = 0 /\ Free[2] = 0
  BY <1>1 DEF Free
<1>9. ASSUME NEW k \in Slot, links[k] # Free
      PROVE  /\ links'[k] # Free <=> a \notin {IdPair(cells, links[k])[1], IdPair(cells, links[k])[2]}
             /\ links'[k] # Free => IdPair(cells', links'[k]) = IdPair(cells, links[k])
  BY <1>3, <1>4, <1>5, <1>6, <1>9 DEF IdPair
<1>10. \A k \in Slot : links'[k] # Free => links[k] # Free
  BY <1>5
<1>11. InIds(cells', links') = {e \in InIds(cells, links) : a \notin {e[1], e[2]}}
  BY <1>9, <1>10 DEF InIds
<1>12. a \in Live
  BY DEF Live
<1> QED BY <1>2, <1>7, <1>11, <1>12 DEF FB!Drop

LEMMA AppendMapsToAdd ==
  ASSUME EngineInv, EngineInv', LinksAreLive, LinksAreLive', links' = links,
         NEW c \in Cell, c.id \notin Live, Len(cells) < Cap, cells' = Append(cells, c)
  PROVE  FB!Next
<1>1. /\ \A i \in DOMAIN cells : cells'[i] = cells[i]
      /\ Live' = Live \cup {c.id}
  BY AppendCell DEF EngineInv
<1>2. IdEdges' = IdEdges
  BY <1>1, SameEdges DEF EngineInv
<1>3. c.id \in Id /\ FB!Add(c.id)
  BY <1>1, <1>2 DEF FB!Add, Cell
<1> QED BY <1>3 DEF FB!Next

LEMMA FabricStep ==
  ASSUME LinksInv, LinksInv', WithinWindow, [LinksNext]_linksVars, stacked'
  PROVE  [FB!Next]_<<Live, IdEdges>>
<1>1. stacked
  BY DEF LinksNext, linksVars
<1>2. /\ EngineInv /\ EngineInv' /\ TypeOK /\ TypeOK' /\ UniqueIds
      /\ LinksAreLive /\ LinksAreLive'
  BY <1>1 DEF LinksInv, EngineInv, StackLeavesNoResidue
<1>3. ASSUME links' = links, DOMAIN cells' = DOMAIN cells,
             \A i \in DOMAIN cells : cells'[i].id = cells[i].id
      PROVE  UNCHANGED <<Live, IdEdges>>
  BY <1>2, <1>3, SameEdges DEF Live
<1>4. ASSUME UNCHANGED <<cells, links>> PROVE UNCHANGED <<Live, IdEdges>>
  BY <1>3, <1>4
<1>5. ASSUME NEW id \in Id, NEW v \in Value, BindNew(id, v) PROVE FB!Next
  <2> DEFINE c == [id |-> id, value |-> v, version |-> 1,
                   eval |-> NoFormula, reads |-> << >>]
  <2>1. c \in Cell /\ c.id = id
    BY DEF Cell
  <2>2. cells' = Append(cells, c) /\ id \notin Live /\ Len(cells) < Cap /\ links' = links
    BY <1>5 DEF BindNew
  <2> HIDE DEF c
  <2> QED BY <1>2, <2>1, <2>2, AppendMapsToAdd
<1>6. ASSUME NEW r \in Registration, NEW v \in Value, Register(r, v) PROVE FB!Next
  <2> DEFINE c == [id |-> r.id, value |-> v, version |-> 0,
                   eval |-> r.eval, reads |-> r.reads]
  <2>1. r.id \in Id /\ r.eval \in Formula /\ r.reads \in Seq(Id)
    BY ConstantsAssumption
  <2>2. c \in Cell /\ c.id = r.id
    BY <2>1 DEF Cell
  <2>3. cells' = Append(cells, c) /\ r.id \notin Live /\ Len(cells) < Cap /\ links' = links
    BY <1>6 DEF Register
  <2> HIDE DEF c
  <2> QED BY <1>2, <2>2, <2>3, AppendMapsToAdd
<1>7. ASSUME NEW i \in DOMAIN cells, NEW v \in Value,
             cells' = [cells EXCEPT ![i] = Rewritten(cells[i], v)], links' = links
      PROVE  UNCHANGED <<Live, IdEdges>>
  <2>1. DOMAIN cells' = DOMAIN cells /\ \A k \in DOMAIN cells : cells'[k].id = cells[k].id
    BY <1>2, <1>7, UpdateCell
  <2> QED BY <1>3, <1>7, <2>1
<1>8. ASSUME NEW i \in DOMAIN cells, NEW v \in Value, Rebind(i, v)
      PROVE  UNCHANGED <<Live, IdEdges>>
  BY <1>7, <1>8 DEF Rebind
<1>9. ASSUME NEW i \in DOMAIN cells, Dirty(i), Recompute(i), links' = links
      PROVE  UNCHANGED <<Live, IdEdges>>
  <2>1. Evaluated(cells[i]) \in Value
    BY <1>2, <1>9, RecomputeShape
  <2> QED BY <1>7, <1>9, <2>1 DEF Recompute
<1>10. ASSUME NEW i \in DOMAIN cells, NEW j \in DOMAIN cells, Link(i, j) PROVE FB!Next
  <2>1. FB!Connect(cells[i].id, cells[j].id)
    BY <1>2, <1>10, LinkMapsToConnect
  <2> QED BY <2>1 DEF FB!Next, Live
<1>11. ASSUME NEW i \in DOMAIN cells, Effect(i) PROVE UNCHANGED <<Live, IdEdges>>
  BY <1>9, <1>11 DEF Effect
<1>12. CASE TickCell
  BY <1>4, <1>9, <1>12 DEF TickCell
<1>13. ASSUME NEW i \in DOMAIN cells, Forget(i), LastForgotten PROVE FB!Next
  <2>1. i = Len(cells)
    BY <1>2, <1>13, LastTaken
  <2>2. cells[i].id \in Live /\ FB!Drop(cells[i].id)
    BY <1>2, <1>13, <2>1, ForgetMapsToDrop
  <2> QED BY <2>2 DEF FB!Next
<1>14. CASE LinksNext
  <2>1. Next /\ LastForgotten
    BY <1>14 DEF LinksNext
  <2> QED
    BY <1>4, <1>5, <1>6, <1>8, <1>10, <1>11, <1>12, <1>13, <2>1 DEF Next, TickBegin, TickEnd
<1>15. CASE UNCHANGED linksVars
  BY <1>4, <1>15 DEF linksVars, vars
<1> QED BY <1>14, <1>15

(* Within the window, and as long as every FORGET takes the cell made last, *)
(* LINK and FORGET do to the graph of ids exactly what Fabric says.         *)
THEOREM StackIsFabricCorrect == LinksWindowSpec => StackIsFabric
<1>1. LinksInit => FB!Init /\ WithinWindow
  <2> SUFFICES ASSUME LinksInit PROVE FB!Init /\ WithinWindow
    OBVIOUS
  <2>1. cells = << >> /\ DOMAIN cells = {} /\ Used = {}
    BY DEF LinksInit, Init, Used
  <2>2. Live = {} /\ IdEdges = {}
    BY <2>1 DEF Live, IdEdges, Edges
  <2> QED BY <2>1, <2>2 DEF FB!Init, WithinWindow
<1>2. ASSUME WithinWindow, [LinksNext /\ WithinWindow']_linksVars PROVE WithinWindow'
  BY <1>2 DEF linksVars, vars, WithinWindow, Used
<1>3. ASSUME [LinksNext /\ WithinWindow']_linksVars PROVE [LinksNext]_linksVars
  BY <1>3
<1>4. ASSUME LinksInv, LinksInv', WithinWindow, [LinksNext]_linksVars
      PROVE  [stacked' => FB!Next]_<<Live, IdEdges>>
  BY <1>4, FabricStep
<1> QED BY LinksInvInit, LinksInvStep, <1>1, <1>2, <1>3, <1>4, PTL
        DEF LinksWindowSpec, StackIsFabric

-----------------------------------------------------------------------------
(* The same for ids: read through the cells that live now, the links never  *)
(* form a cycle, though FORGET has made some of them mean other cells.      *)
IdsFormDag ==
  \A S \in SUBSET Live : S # {} =>
    \E a \in S : \A b \in S : <<a, b>> \notin IdEdges

(* It holds while the used slots lie in the window has_cycle scans. *)
THEOREM IdsFormDagCorrect == WindowSpec => []IdsFormDag
<1>1. EngineInv /\ Acyclic => IdsFormDag
  <2> SUFFICES ASSUME EngineInv, Acyclic, NEW S \in SUBSET Live, S # {}
               PROVE  \E a \in S : \A b \in S : <<a, b>> \notin IdEdges
    BY DEF IdsFormDag
  <2> DEFINE T == {i \in DOMAIN cells : cells[i].id \in S}
  <2>1. T \in SUBSET Index /\ T # {}
    BY CellInArray DEF Live, EngineInv
  <2>2. PICK x \in T : \A y \in T : <<x, y>> \notin Edges
    BY <2>1 DEF Acyclic
  <2>3. ASSUME NEW b \in S, <<cells[x].id, b>> \in IdEdges PROVE FALSE
    <3>1. PICK e \in Edges \cap ((DOMAIN cells) \X (DOMAIN cells)) :
            <<cells[x].id, b>> = <<cells[e[1]].id, cells[e[2]].id>>
      BY <2>3 DEF IdEdges
    <3>2. e[1] \in DOMAIN cells /\ e[2] \in DOMAIN cells /\ e = <<e[1], e[2]>>
      OBVIOUS
    <3>3. e[1] = x /\ e[2] \in T
      BY <2>2, <3>1, <3>2 DEF UniqueIds, EngineInv
    <3> QED BY <2>2, <3>2, <3>3
  <2> QED BY <2>2, <2>3
<1>2. WindowSpec => Spec
  BY PTL DEF WindowSpec, Spec
<1> QED BY <1>1, <1>2, ShapeAlways, AcyclicCorrect, PTL

-----------------------------------------------------------------------------
Pending == {stack[n] : n \in DOMAIN stack}

(* The cells the walk has met: marked, or on the stack. *)
Met == Pending \cup visited

(* Slot k is used, its edge leaves a marked cell, and the scan that follows *)
(* the cell has passed it.                                                  *)
Followed(k) ==
  /\ links[k] # Free /\ links[k][1] \in visited
  /\ ~(scan # 0 /\ links[k][1] = cur /\ scan <= k)

(* The invariant of a walk: what it meets is reachable, and the marked      *)
(* cells are closed under the edges it has followed, up to the stack.       *)
Walking ==
  /\ from \in DOMAIN cells /\ to \in DOMAIN cells /\ from # to
  /\ stack \in Seq(Index) /\ visited \subseteq Index /\ scan \in 0 .. Rows
  /\ Met \subseteq Visited(to) /\ to \in Met /\ from \notin visited
  /\ scan # 0 => cur \in visited
  /\ \A k \in Slot : k <= Rows /\ Followed(k) => links[k][2] \in Met

WalkInv == EngineInv /\ pos = 0 /\ (NoWalk \/ Walking)

-----------------------------------------------------------------------------
LEMMA RowsInTable ==
  ASSUME TypeOK
  PROVE  /\ Rows \in Nat /\ Rows <= Cap * MaxLinks
         /\ \A i \in DOMAIN cells : 1 <= Rows
<1> DEFINE n == Len(cells)
<1>1. n \in Nat /\ n <= Cap /\ Cap \in Nat /\ MaxLinks \in Nat \ {0} /\ DOMAIN cells = 1 .. n
  BY ConstantsAssumption, LenProperties DEF TypeOK
<1>2. \A p, q, m \in Nat : p <= q => p * m <= q * m
  <2> SUFFICES ASSUME NEW p \in Nat, NEW q \in Nat, NEW m \in Nat, p <= q
               PROVE  p * m <= q * m
    OBVIOUS
  <2> DEFINE d == q - p
  <2>1. d \in Nat /\ q = p + d
    OBVIOUS
  <2>2. d * m \in Nat /\ p * m \in Nat
    BY <2>1
  <2> HIDE DEF d
  <2>3. q * m = p * m + d * m
    BY <2>1
  <2> QED BY <2>2, <2>3
<1>3. n * MaxLinks \in Nat /\ n * MaxLinks <= Cap * MaxLinks
  BY <1>1, <1>2
<1>4. ASSUME NEW i \in DOMAIN cells PROVE 1 <= n * MaxLinks
  <2>1. 1 <= n
    BY <1>1
  <2>2. 1 * MaxLinks <= n * MaxLinks
    BY <1>1, <1>2, <2>1
  <2> QED BY <1>1, <1>3, <2>2
<1> QED BY <1>3, <1>4 DEF Rows

(* A slot that is used holds two indices. *)
LEMMA UsedSlot ==
  ASSUME TypeOK, NEW k \in Slot, links[k] # Free
  PROVE  /\ links[k][1] \in Index /\ links[k][2] \in Index
         /\ k <= Rows => links[k] \in ScannedEdges
<1>1. links[k] \in Index \X Index
  BY DEF TypeOK
<1>2. k <= Rows => links[k] \in ScannedEdges
  BY DEF Rows, ScannedEdges, Used
<1> QED BY <1>1, <1>2

(* One edge from a cell that is reachable leads to one. *)
LEMMA VisitedFollows ==
  ASSUME TypeOK, NEW j \in Index, NEW k \in Slot, k <= Rows, links[k] # Free,
         links[k][1] \in Visited(j)
  PROVE  links[k][2] \in Visited(j)
<1>1. links[k] \in ScannedEdges /\ links[k][2] \in Index
  BY UsedSlot
<1> SUFFICES ASSUME NEW S \in SUBSET Index, j \in S, Closed(S, ScannedEdges)
             PROVE  links[k][2] \in S
  BY <1>1 DEF Visited
<1>2. links[k][1] \in S
  BY DEF Visited
<1> QED BY <1>1, <1>2 DEF Closed

(* With nothing left on the stack the marked cells are all there is to      *)
(* reach, and `from` is not one of them.                                    *)
LEMMA EmptyDecides ==
  ASSUME TypeOK, Walking, scan = 0, stack = << >>
  PROVE  ~HasCycle(from, to)
<1>1. Met = visited /\ to \in visited
  BY DEF Walking, Met, Pending
<1>2. ASSUME NEW e \in ScannedEdges, e[1] \in visited PROVE e[2] \in visited
  <2>1. PICK k \in Slot : e = links[k] /\ links[k] # Free /\ k <= Rows
    BY DEF ScannedEdges, Used, Rows
  <2>2. Followed(k)
    BY <1>2, <2>1 DEF Followed
  <2> QED BY <1>1, <2>1, <2>2 DEF Walking
<1>3. visited \in SUBSET Index /\ Closed(visited, ScannedEdges)
  BY <1>2 DEF Walking, Closed
<1>4. from \notin Visited(to)
  BY <1>1, <1>3 DEF Walking, Visited
<1> QED BY <1>4 DEF HasCycle, Walking

(* Whatever is on top of the stack is reachable. *)
LEMMA TopReached ==
  ASSUME Walking, stack # << >>
  PROVE  /\ Top \in Index /\ Top \in Visited(to) /\ Popped \in Seq(Index)
         /\ Len(Popped) = Len(stack) - 1
         /\ Pending = {Popped[n] : n \in DOMAIN Popped} \cup {Top}
<1>1. stack \in Seq(Index) /\ Len(stack) \in Nat \ {0} /\ DOMAIN stack = 1 .. Len(stack)
  BY DEF Walking
<1>2. /\ Popped \in Seq(Index) /\ Len(Popped) = Len(stack) - 1
      /\ DOMAIN Popped = 1 .. Len(stack) - 1
      /\ \A n \in 1 .. Len(stack) - 1 : Popped[n] = stack[n]
  BY <1>1 DEF Popped
<1>3. Top \in Pending /\ Top \in Index
  BY <1>1 DEF Top, Pending
<1>4. \A n \in DOMAIN stack : n = Len(stack) \/ n \in DOMAIN Popped
  BY <1>1, <1>2
<1>5. Pending = {Popped[n] : n \in DOMAIN Popped} \cup {Top}
  BY <1>1, <1>2, <1>3, <1>4 DEF Pending, Top
<1>6. Top \in Visited(to)
  BY <1>3 DEF Walking, Met
<1> QED BY <1>2, <1>3, <1>5, <1>6

-----------------------------------------------------------------------------
(* The steps of a walk keep the table and with it what is reachable.        *)
LEMMA SameTable ==
  ASSUME UNCHANGED vars, UNCHANGED to
  PROVE  Visited(to)' = Visited(to) /\ Rows' = Rows
BY DEF vars, Visited, ScannedEdges, Used, Closed, Rows

LEMMA CallStarts ==
  ASSUME TypeOK, NoWalk, NEW i \in DOMAIN cells, NEW j \in DOMAIN cells, Call(i, j)
  PROVE  Walking'
<1>1. /\ from' = i /\ to' = j /\ i # j /\ stack' = <<j>> /\ visited' = {} /\ scan' = 0
      /\ cells' = cells /\ links' = links
  BY DEF Call, NoWalk, vars
<1>2. j \in Index /\ Rows \in Nat
  BY CellInArray, RowsInTable
<1>3. Pending' = {j} /\ Met' = {j} /\ Rows' = Rows
  BY <1>1 DEF Pending, Met, Rows
<1>4. j \in Visited(to)'
  BY <1>1, <1>2 DEF Visited
<1>5. stack' \in Seq(Index)
  BY <1>1, <1>2
<1>6. \A k \in Slot : ~Followed(k)'
  BY <1>1 DEF Followed
<1> QED BY <1>1, <1>2, <1>3, <1>4, <1>5, <1>6 DEF Walking

(* A cell marked for the first time has none of its edges followed yet; one  *)
(* met again changes nothing.                                               *)
LEMMA PopKeeps ==
  ASSUME TypeOK, Walking, Pop
  PROVE  Walking'
<1> DEFINE t == Top
<1>1. /\ scan = 0 /\ stack # << >> /\ t # from /\ cur' = t /\ stack' = Popped
      /\ visited' = visited \cup {t} /\ scan' = IF t \in visited THEN 0 ELSE 1
      /\ from' = from /\ to' = to /\ cells' = cells /\ links' = links
      /\ UNCHANGED vars
  BY DEF Pop, vars
<1>2. /\ t \in Index /\ t \in Visited(to) /\ Popped \in Seq(Index)
      /\ Pending = {Popped[n] : n \in DOMAIN Popped} \cup {t}
  BY <1>1, TopReached
<1>3. Visited(to)' = Visited(to) /\ Rows' = Rows
  BY <1>1, SameTable
<1>4. Met' = Met
  <2>1. Pending' = {Popped[n] : n \in DOMAIN Popped}
    BY <1>1 DEF Pending
  <2> QED BY <1>1, <1>2, <2>1 DEF Met
<1>5. scan' \in 0 .. Rows /\ (scan' # 0 => t \notin visited /\ scan' = 1)
  <2>1. Rows \in Nat /\ 1 <= Rows
    BY RowsInTable DEF Walking
  <2> QED BY <1>1, <2>1
<1>6. ASSUME NEW k \in Slot, k <= Rows, Followed(k)' PROVE Followed(k)
  <2>1. links[k] # Free /\ links[k][1] \in visited \cup {t}
    BY <1>1, <1>6 DEF Followed
  <2>2. CASE links[k][1] \in visited
    BY <1>1, <2>1, <2>2 DEF Followed
  <2>3. CASE links[k][1] = t /\ t \notin visited
    <3>1. scan' = 1 /\ scan' <= k
      BY <1>1, <2>3, ConstantsAssumption DEF Slot
    <3> QED BY <1>1, <1>6, <2>3, <3>1 DEF Followed
  <2> QED BY <2>1, <2>2, <2>3
<1>7. \A k \in Slot : k <= Rows' /\ Followed(k)' => links'[k][2] \in Met'
  BY <1>1, <1>3, <1>4, <1>6 DEF Walking
<1> QED BY <1>1, <1>2, <1>3, <1>4, <1>5, <1>7 DEF Walking

(* The slot the scan is at joins the ones it has passed, and its end is      *)
(* then on the stack.                                                       *)
LEMMA ScanKeeps ==
  ASSUME TypeOK, Walking, ScanSlot
  PROVE  Walking'
<1> DEFINE s == scan
           edge == links[s]
           hit == edge[1] = cur
<1>1. /\ s # 0 /\ stack' = (IF hit THEN Append(stack, edge[2]) ELSE stack)
      /\ scan' = (IF s = Rows THEN 0 ELSE s + 1)
      /\ from' = from /\ to' = to /\ visited' = visited /\ cur' = cur
      /\ cells' = cells /\ links' = links /\ UNCHANGED vars
  BY DEF ScanSlot, vars
<1>2. /\ s \in Slot /\ s \in 1 .. Rows /\ Rows \in Nat
  BY <1>1, RowsInTable, ConstantsAssumption DEF Walking, Slot
<1>3. Visited(to)' = Visited(to) /\ Rows' = Rows
  BY <1>1, SameTable
<1>4. cur \in visited /\ cur \in Index /\ cur # 0 /\ cur \in Visited(to) /\ to \in Index
  <2>1. cur \in visited /\ cur \in Index /\ cur \in Visited(to)
    BY <1>1 DEF Walking, Met
  <2>2. to \in Index
    BY CellInArray DEF Walking
  <2> QED BY <2>1, <2>2, ConstantsAssumption DEF Index
<1>5. hit => edge # Free /\ edge[2] \in Index /\ edge[2] \in Visited(to)
  <2> SUFFICES ASSUME hit PROVE edge # Free /\ edge[2] \in Index /\ edge[2] \in Visited(to)
    OBVIOUS
  <2>1. edge # Free
    BY <1>4 DEF Free
  <2>2. edge[2] \in Index
    BY <1>2, <2>1, UsedSlot
  <2> QED BY <1>2, <1>4, <2>1, <2>2, VisitedFollows
<1>6. /\ stack' \in Seq(Index)
      /\ Pending' = IF hit THEN Pending \cup {edge[2]} ELSE Pending
  <2>1. CASE hit
    <3>1. stack \in Seq(Index) /\ edge[2] \in Index /\ stack' = Append(stack, edge[2])
      BY <1>1, <1>5, <2>1 DEF Walking
    <3> DEFINE e == edge[2]
    <3> HIDE DEF e
    <3>2. /\ Append(stack, e) \in Seq(Index) /\ Len(stack) \in Nat
          /\ DOMAIN stack = 1 .. Len(stack) /\ DOMAIN Append(stack, e) = 1 .. Len(stack) + 1
          /\ Append(stack, e)[Len(stack) + 1] = e
          /\ \A n \in 1 .. Len(stack) : Append(stack, e)[n] = stack[n]
      BY <3>1 DEF e
    <3>3. stack' = Append(stack, e)
      BY <3>1 DEF e
    <3>4. \A n \in 1 .. Len(stack) + 1 : n \in 1 .. Len(stack) \/ n = Len(stack) + 1
      BY <3>2
    <3>5. \A n \in 1 .. Len(stack) : n \in 1 .. Len(stack) + 1
      BY <3>2
    <3>6. Len(stack) + 1 \in 1 .. Len(stack) + 1
      BY <3>2
    <3>7. Pending' = Pending \cup {e}
      BY <3>2, <3>3, <3>4, <3>5, <3>6 DEF Pending
    <3> QED BY <2>1, <3>2, <3>3, <3>7 DEF e
  <2>2. CASE ~hit
    BY <1>1, <2>2 DEF Walking, Pending
  <2> QED BY <2>1, <2>2
<1>7. /\ Met \subseteq Met' /\ Met' \subseteq Visited(to) /\ (hit => edge[2] \in Met')
  BY <1>1, <1>5, <1>6 DEF Walking, Met
<1>8. scan' \in 0 .. Rows
  BY <1>1, <1>2
<1>9. ASSUME NEW k \in Slot, k <= Rows, Followed(k)', ~Followed(k)
      PROVE  k = s /\ hit
  <2>1. links[k] # Free /\ links[k][1] \in visited
    BY <1>1, <1>9 DEF Followed
  <2>2. links[k][1] = cur /\ s <= k
    BY <1>1, <1>9, <2>1 DEF Followed
  <2>3. scan' = 0 \/ ~(scan' <= k)
    BY <1>1, <1>9, <2>2 DEF Followed
  <2>4. k \in Int
    BY DEF Slot
  <2>5. k = s
    BY <1>1, <1>2, <1>9, <2>2, <2>3, <2>4
  <2> QED BY <2>2, <2>5
<1>10. ASSUME NEW k \in Slot, k <= Rows, Followed(k)' PROVE links[k][2] \in Met'
  BY <1>7, <1>9, <1>10 DEF Walking
<1>11. /\ to' \in Met' /\ Met' \subseteq Visited(to)' /\ (scan' # 0 => cur' \in visited')
  BY <1>1, <1>3, <1>4, <1>7 DEF Walking
<1>12. \A k \in Slot : k <= Rows' /\ Followed(k)' => links'[k][2] \in Met'
  BY <1>1, <1>3, <1>10
<1> QED BY <1>1, <1>3, <1>6, <1>8, <1>11, <1>12 DEF Walking

-----------------------------------------------------------------------------
(* Every step is a step of the engine: the last step of a walk is its LINK. *)
LEMMA StepIsNext ==
  ASSUME WalkInv, [WalkNext]_walkVars
  PROVE  [Next]_vars
<1>1. ASSUME NEW i \in DOMAIN cells, NEW j \in DOMAIN cells, Call(i, j) PROVE UNCHANGED vars
  BY <1>1 DEF Call
<1>2. CASE Pop \/ ScanSlot \/ Refuse
  BY <1>2 DEF Pop, ScanSlot, Refuse
<1>3. CASE Accept
  <2>1. Walking /\ scan = 0 /\ stack = << >>
    BY <1>3 DEF Accept, WalkInv, NoWalk, Idle
  <2>2. TypeOK /\ pos = 0
    BY DEF WalkInv, EngineInv
  <2>3. ~HasCycle(from, to)
    BY <2>1, <2>2, EmptyDecides
  <2>4. from \in DOMAIN cells /\ to \in DOMAIN cells
    BY <2>1 DEF Walking
  <2>5. UNCHANGED vars \/ Link(from, to)
    BY <1>3, <2>2, <2>3 DEF Accept, Link
  <2> QED BY <2>4, <2>5 DEF Next
<1>4. ASSUME NEW id \in Id, NEW v \in Value, BindNew(id, v) PROVE Next
  BY <1>4 DEF Next
<1>5. ASSUME NEW i \in DOMAIN cells, Forget(i) PROVE Next
  BY <1>5 DEF Next
<1>6. CASE UNCHANGED walkVars
  BY <1>6 DEF walkVars
<1> QED BY <1>1, <1>2, <1>3, <1>4, <1>5, <1>6 DEF WalkNext, WalkStep

LEMMA WalkInvInit == WalkInit => WalkInv
BY ShapeInit DEF WalkInit, Init, WalkInv

LEMMA WalkInvStep == WalkInv /\ [WalkNext]_walkVars => WalkInv'
<1> SUFFICES ASSUME WalkInv, [WalkNext]_walkVars PROVE WalkInv'
  OBVIOUS
<1>1. EngineInv /\ TypeOK /\ EngineInv' /\ pos = 0
  BY StepIsNext, ShapeStep DEF WalkInv, EngineInv
<1>2. Walking => from # 0 /\ ~Idle
  BY <1>1, CellInArray, ConstantsAssumption DEF Walking, Idle, Index
<1>3. NoWalk => Idle /\ scan = 0
  BY DEF NoWalk, Idle
<1>4. ASSUME NEW i \in DOMAIN cells, NEW j \in DOMAIN cells, Call(i, j) PROVE WalkInv'
  <2>1. NoWalk /\ pos' = pos
    BY <1>2, <1>4 DEF Call, WalkInv, vars
  <2> QED BY <1>1, <1>4, <2>1, CallStarts DEF WalkInv
<1>5. CASE Pop
  <2>1. Walking /\ pos' = pos
    BY <1>3, <1>5 DEF Pop, WalkInv, vars
  <2> QED BY <1>1, <1>5, <2>1, PopKeeps DEF WalkInv
<1>6. CASE ScanSlot
  <2>1. Walking /\ pos' = pos
    BY <1>3, <1>6 DEF ScanSlot, WalkInv, vars
  <2> QED BY <1>1, <1>6, <2>1, ScanKeeps DEF WalkInv
<1>7. CASE Refuse \/ Accept
  BY <1>1, <1>7 DEF Refuse, Accept, Return, NoWalk, WalkInv, vars
<1>8. ASSUME NEW id \in Id, NEW v \in Value, Idle, BindNew(id, v), UNCHANGED walk
      PROVE  WalkInv'
  BY <1>1, <1>2, <1>8 DEF BindNew, WalkInv, NoWalk, walk
<1>9. ASSUME NEW i \in DOMAIN cells, Idle, Forget(i), UNCHANGED walk PROVE WalkInv'
  BY <1>1, <1>2, <1>9 DEF Forget, WalkInv, NoWalk, walk
<1>10. CASE UNCHANGED walkVars
  <2>1. UNCHANGED vars /\ UNCHANGED to /\ pos' = pos /\ UNCHANGED walk
    BY <1>10 DEF walkVars, walk, vars
  <2>2. NoWalk => NoWalk'
    BY <2>1 DEF NoWalk, walk
  <2>3. Walking => Walking'
    BY <2>1, SameTable DEF Walking, Met, Pending, Followed, walk, vars
  <2> QED BY <1>1, <2>1, <2>2, <2>3 DEF WalkInv
<1> QED BY <1>4, <1>5, <1>6, <1>7, <1>8, <1>9, <1>10 DEF WalkNext, WalkStep

-----------------------------------------------------------------------------
(* has_cycle answers right, for tables of any size and whatever edges, stale *)
(* ones and cycles included, they hold.                                     *)
THEOREM WalkDecidesCorrect == WalkSpec => []WalkDecides
<1>1. WalkInv => WalkDecides
  <2> SUFFICES ASSUME WalkInv, ~Idle, scan = 0 PROVE
        /\ stack # << >> /\ Top = from => HasCycle(from, to)
        /\ stack = << >> => ~HasCycle(from, to)
    BY DEF WalkDecides
  <2>1. Walking /\ TypeOK
    BY DEF WalkInv, NoWalk, Idle, EngineInv
  <2>2. stack # << >> /\ Top = from => HasCycle(from, to)
    BY <2>1, TopReached DEF HasCycle
  <2>3. stack = << >> => ~HasCycle(from, to)
    BY <2>1, EmptyDecides
  <2> QED BY <2>2, <2>3
<1> QED BY <1>1, WalkInvInit, WalkInvStep, PTL DEF WalkSpec

(* LINK by the walk of has_cycle is Engine's LINK in one step: the engine    *)
(* with the walk implements the engine without.                             *)
THEOREM WalkImplementsLink == WalkSpec => Spec
<1>1. WalkInit => Init
  BY DEF WalkInit
<1>2. WalkInv /\ [WalkNext]_walkVars => [Next]_vars
  BY StepIsNext
<1> QED BY <1>1, <1>2, WalkInvInit, WalkInvStep, PTL DEF WalkSpec, Spec

-----------------------------------------------------------------------------
(* The stack: each slot is pushed at most once, when the scan passes it.     *)
FollowedSlots == {k \in ScannedSlots : Followed(k)}

(* A walk begins with one entry, which is off the stack before another comes. *)
Fits ==
  \/ NoWalk
  \/ visited = {} /\ Len(stack) = 1 /\ scan = 0
  \/ Len(stack) <= Cardinality(FollowedSlots)

LEMMA FollowedFinite ==
  ASSUME TypeOK
  PROVE  /\ IsFiniteSet(ScannedSlots) /\ IsFiniteSet(FollowedSlots)
         /\ Cardinality(FollowedSlots) \in Nat
         /\ Cardinality(FollowedSlots) <= Cardinality(ScannedSlots)
<1>1. Rows \in Nat /\ IsFiniteSet(1 .. Rows)
  BY RowsInTable, FS_Interval
<1>2. ScannedSlots \subseteq 1 .. Rows
  BY <1>1, ConstantsAssumption DEF ScannedSlots, Used, Slot
<1>3. IsFiniteSet(ScannedSlots)
  BY <1>1, <1>2, FS_Subset
<1>4. FollowedSlots \subseteq ScannedSlots
  BY DEF FollowedSlots
<1> QED BY <1>3, <1>4, FS_Subset, FS_CardinalityType

LEMMA PopFits ==
  ASSUME TypeOK, Walking, Pop, Fits
  PROVE  Fits'
<1>1. /\ scan = 0 /\ stack # << >> /\ stack' = Popped /\ visited' = visited \cup {Top}
      /\ cur' = Top /\ scan' = IF Top \in visited THEN 0 ELSE 1
      /\ cells' = cells /\ links' = links
  BY DEF Pop, vars
<1>2. /\ stack \in Seq(Index) /\ Len(stack) \in Nat /\ stack' \in Seq(Index)
      /\ Len(stack') = Len(stack) - 1
  <2>1. stack \in Seq(Index) /\ Popped \in Seq(Index) /\ Len(Popped) = Len(stack) - 1
    BY <1>1, TopReached DEF Walking
  <2>2. Len(stack) \in Nat
    BY <2>1
  <2> QED BY <1>1, <2>1, <2>2
<1>3. ScannedSlots' = ScannedSlots
  BY <1>1 DEF ScannedSlots, Used, Rows
<1>4. FollowedSlots' = FollowedSlots
  <2>1. ASSUME NEW k \in ScannedSlots PROVE Followed(k)' <=> Followed(k)
    <3>1. k \in Slot /\ 1 <= k
      BY ConstantsAssumption DEF ScannedSlots, Used, Slot
    <3>2. CASE Top \in visited
      BY <1>1, <3>2 DEF Followed
    <3>3. CASE Top \notin visited
      BY <1>1, <3>1, <3>3 DEF Followed
    <3> QED BY <3>2, <3>3
  <2> QED BY <1>3, <2>1 DEF FollowedSlots
<1>5. Cardinality(FollowedSlots) \in Nat /\ ~NoWalk
  BY <1>1, FollowedFinite DEF NoWalk
<1>6. Len(stack) - 1 <= Cardinality(FollowedSlots)
  BY <1>2, <1>5 DEF Fits
<1> QED BY <1>2, <1>4, <1>6 DEF Fits

LEMMA ScanFits ==
  ASSUME TypeOK, Walking, ScanSlot, Fits
  PROVE  Fits'
<1> DEFINE s == scan
           hit == links[s][1] = cur
<1>1. /\ s # 0 /\ stack' = (IF hit THEN Append(stack, links[s][2]) ELSE stack)
      /\ scan' = (IF s = Rows THEN 0 ELSE s + 1)
      /\ visited' = visited /\ cur' = cur /\ cells' = cells /\ links' = links
  BY DEF ScanSlot, vars
<1>2. s \in Slot /\ s \in 1 .. Rows /\ Rows \in Nat
  BY <1>1, RowsInTable, ConstantsAssumption DEF Walking, Slot
<1>3. cur \in visited /\ cur # 0
  BY <1>1, ConstantsAssumption DEF Walking, Index
<1>4. ScannedSlots' = ScannedSlots
  BY <1>1 DEF ScannedSlots, Used, Rows
<1>5. Len(stack) <= Cardinality(FollowedSlots) /\ Len(stack) \in Nat /\ stack \in Seq(Index)
  BY <1>1 DEF Fits, NoWalk, Walking
<1>6. ASSUME NEW k \in ScannedSlots PROVE Followed(k)' <=> (Followed(k) \/ (k = s /\ hit))
  <2>1. k \in Slot /\ k \in 1 .. Rows /\ links[k] # Free
    BY <1>2, ConstantsAssumption DEF ScannedSlots, Used, Slot
  <2>2. CASE links[k][1] = cur
    <3>1. Followed(k) <=> ~(s <= k)
      BY <1>1, <1>3, <2>1, <2>2 DEF Followed
    <3>2. Followed(k)' <=> ~(scan' # 0 /\ scan' <= k)
      BY <1>1, <1>3, <2>1, <2>2 DEF Followed
    <3>3. k = s => hit
      BY <2>2
    <3>4. ~(scan' # 0 /\ scan' <= k) <=> (~(s <= k) \/ k = s)
      BY <1>1, <1>2, <2>1
    <3> QED BY <3>1, <3>2, <3>3, <3>4
  <2>3. CASE links[k][1] # cur
    BY <1>1, <2>1, <2>3 DEF Followed
  <2> QED BY <2>2, <2>3
<1>7. IsFiniteSet(FollowedSlots) /\ Cardinality(FollowedSlots) \in Nat
  BY FollowedFinite
<1>8. CASE hit
  <2>1. links[s] # Free
    BY <1>3, <1>8 DEF Free
  <2>2. s \in ScannedSlots /\ s \notin FollowedSlots
    BY <1>1, <1>2, <1>8, <2>1 DEF ScannedSlots, Used, FollowedSlots, Followed
  <2>3. FollowedSlots' = FollowedSlots \cup {s}
    BY <1>4, <1>6, <1>8, <2>2 DEF FollowedSlots
  <2>4. Cardinality(FollowedSlots \cup {s}) = Cardinality(FollowedSlots) + 1
    BY <1>7, <2>2, FS_AddElement
  <2>5. links[s][2] \in Index
    BY <1>2, <2>1, UsedSlot
  <2>6. Len(stack') = Len(stack) + 1
    BY <1>1, <1>5, <1>8, <2>5
  <2>7. Len(stack') <= Cardinality(FollowedSlots \cup {s})
    BY <1>5, <1>7, <2>4, <2>6
  <2> QED BY <2>3, <2>7 DEF Fits
<1>9. CASE ~hit
  <2>1. FollowedSlots' = FollowedSlots
    BY <1>4, <1>6, <1>9 DEF FollowedSlots
  <2> QED BY <1>1, <1>5, <1>9, <2>1 DEF Fits
<1> QED BY <1>8, <1>9

LEMMA FitsStep == WalkInv /\ Fits /\ [WalkNext]_walkVars => Fits'
<1> SUFFICES ASSUME WalkInv, Fits, [WalkNext]_walkVars PROVE Fits'
  OBVIOUS
<1>1. TypeOK /\ (NoWalk => Idle /\ scan = 0)
  BY DEF WalkInv, EngineInv, NoWalk, Idle
<1>2. Walking => ~Idle
  BY <1>1, CellInArray, ConstantsAssumption DEF Walking, Idle, Index
<1>3. ASSUME NEW i \in DOMAIN cells, NEW j \in DOMAIN cells, Call(i, j) PROVE Fits'
  <2>1. NoWalk
    BY <1>2, <1>3 DEF Call, WalkInv
  <2> QED BY <1>3, <2>1 DEF Call, NoWalk, Fits
<1>4. CASE Pop
  BY <1>1, <1>4, PopFits DEF Pop, WalkInv
<1>5. CASE ScanSlot
  BY <1>1, <1>5, ScanFits DEF ScanSlot, WalkInv
<1>6. CASE Refuse \/ Accept
  BY <1>6 DEF Refuse, Accept, Return, NoWalk, Fits
<1>7. ASSUME Idle, UNCHANGED walk PROVE Fits'
  BY <1>2, <1>7 DEF WalkInv, walk, NoWalk, Fits
<1>8. CASE UNCHANGED walkVars
  BY <1>8 DEF walkVars, walk, vars, Fits, NoWalk, FollowedSlots, ScannedSlots, Used, Rows, Followed
<1> QED BY <1>3, <1>4, <1>5, <1>6, <1>7, <1>8 DEF WalkNext, WalkStep

(* The stack never needs more entries than the rows it scans have slots in   *)
(* use, or one: 256 entries suffice for every table of up to 256 slots.      *)
THEOREM StackFitsCorrect == WalkSpec => []StackFits
<1>1. WalkInit => Fits
  BY DEF WalkInit, Fits
<1>2. WalkInv /\ Fits => StackFits
  <2> SUFFICES ASSUME WalkInv, Fits PROVE StackFits
    OBVIOUS
  <2>1. /\ IsFiniteSet(ScannedSlots) /\ Cardinality(ScannedSlots) \in Nat
        /\ Cardinality(FollowedSlots) \in Nat
        /\ Cardinality(FollowedSlots) <= Cardinality(ScannedSlots)
    BY FollowedFinite, FS_CardinalityType DEF WalkInv, EngineInv
  <2>2. Len(stack) \in Nat /\ (NoWalk => Len(stack) = 0)
    BY DEF WalkInv, NoWalk, Walking
  <2>3. ScannedSlots = {} => Cardinality(ScannedSlots) = 0
    BY FS_EmptySet
  <2>4. ScannedSlots # {} => Cardinality(ScannedSlots) >= 1
    BY <2>1, FS_EmptySet
  <2>5. Len(stack) <= 1 \/ Len(stack) <= Cardinality(ScannedSlots)
    <3>1. CASE NoWalk
      BY <2>2, <3>1
    <3>2. CASE ~NoWalk
      <4>1. Len(stack) = 1 \/ Len(stack) <= Cardinality(FollowedSlots)
        BY <3>2 DEF Fits
      <4>2. \A n, p, q \in Nat : (n = 1 \/ n <= p) /\ p <= q => n <= 1 \/ n <= q
        OBVIOUS
      <4> QED BY <2>1, <2>2, <4>1, <4>2
    <3> QED BY <3>1, <3>2
  <2> QED BY <2>1, <2>2, <2>3, <2>4, <2>5 DEF StackFits
<1> QED BY <1>1, <1>2, FitsStep, WalkInvInit, WalkInvStep, PTL DEF WalkSpec

-----------------------------------------------------------------------------
(* The walk ends: each turn of its loops uses up fuel.  A cell not marked   *)
(* yet is worth one scan of all the slots, which takes Rows turns and may   *)
(* push as many entries; an entry on the stack is worth the turn it takes   *)
(* to pop it.                                                              *)
Unmarked == Cardinality(Index \ visited)

ToScan == IF scan = 0 THEN 0 ELSE Rows - scan + 1

Fuel == Unmarked * (2 * Rows + 1) + 2 * ToScan + Len(stack)

LEMMA UnmarkedCounts ==
  /\ Unmarked \in Nat /\ Unmarked <= Cap /\ IsFiniteSet(Index \ visited)
<1>1. IsFiniteSet(1 .. Cap) /\ Cardinality(1 .. Cap) = Cap /\ Cap \in Nat
  BY ConstantsAssumption, FS_Interval
<1> DEFINE I == Index \ visited
<1>2. I \subseteq 1 .. Cap /\ Unmarked = Cardinality(I)
  BY DEF Unmarked, Index
<1> HIDE DEF I
<1>3. IsFiniteSet(I) /\ Cardinality(I) <= Cap /\ Cardinality(I) \in Nat
  BY <1>1, <1>2, FS_Subset, FS_CardinalityType
<1> QED BY <1>2, <1>3 DEF I

LEMMA OneLess ==
  ASSUME NEW u \in Nat, NEW v \in Nat, v = u - 1, NEW n \in Nat
  PROVE  u * n = v * n + n /\ u * n \in Nat /\ v * n \in Nat
<1>1. u = v + 1 /\ (v + 1) * n = v * n + n
  OBVIOUS
<1> QED BY <1>1

LEMMA FuelType ==
  ASSUME TypeOK, Walking
  PROVE  /\ ToScan \in 0 .. Rows /\ Len(stack) \in Nat /\ Rows \in Nat
         /\ Unmarked * (2 * Rows + 1) \in Nat /\ Fuel \in Nat
<1>1. Rows \in Nat /\ Len(stack) \in Nat /\ scan \in 0 .. Rows
  BY RowsInTable DEF Walking
<1>2. ToScan \in 0 .. Rows
  BY <1>1 DEF ToScan
<1>3. Unmarked * (2 * Rows + 1) \in Nat
  <2>1. 2 * Rows + 1 \in Nat /\ Unmarked \in Nat
    BY <1>1, UnmarkedCounts
  <2> DEFINE a == 2 * Rows + 1
             b == Unmarked
  <2> HIDE DEF a, b
  <2>2. a \in Nat /\ b \in Nat => b * a \in Nat
    OBVIOUS
  <2> QED BY <2>1, <2>2 DEF a, b
<1> DEFINE x == Unmarked * (2 * Rows + 1)
<1>4. Fuel = x + 2 * ToScan + Len(stack) /\ x \in Nat
  BY <1>3 DEF Fuel
<1> HIDE DEF x
<1>5. Fuel \in Nat
  BY <1>1, <1>2, <1>4
<1> QED BY <1>1, <1>2, <1>3, <1>5

LEMMA PopUses ==
  ASSUME TypeOK, Walking, Pop
  PROVE  Fuel' < Fuel
<1>1. /\ scan = 0 /\ stack # << >> /\ stack' = Popped /\ visited' = visited \cup {Top}
      /\ scan' = IF Top \in visited THEN 0 ELSE 1
      /\ Rows' = Rows
  BY DEF Pop, vars, Rows
<1>2. /\ Len(stack') = Len(stack) - 1 /\ Len(stack) \in Nat /\ Top \in Index
      /\ Rows \in Nat /\ ToScan = 0
  <2>1. stack \in Seq(Index) /\ Popped \in Seq(Index) /\ Len(Popped) = Len(stack) - 1
        /\ Top \in Index
    BY <1>1, TopReached DEF Walking
  <2> QED BY <1>1, <2>1, RowsInTable DEF ToScan
<1> DEFINE n == 2 * Rows + 1
           u == Unmarked
           v == Cardinality((Index \ visited) \ {Top})
<1>3. Unmarked' = v
  <2>1. Index \ visited' = (Index \ visited) \ {Top}
    BY <1>1
  <2> QED BY <2>1 DEF Unmarked
<1>4. /\ Fuel = u * n + Len(stack)
      /\ Fuel' = v * n + 2 * ToScan' + (Len(stack) - 1)
      /\ u * n \in Nat /\ u \in Nat /\ n \in Nat
  <2>1. Fuel = u * n + 2 * ToScan + Len(stack)
    BY DEF Fuel
  <2>2. Fuel' = v * n + 2 * ToScan' + (Len(stack) - 1)
    BY <1>1, <1>2, <1>3 DEF Fuel
  <2>3. u * n \in Nat /\ u \in Nat /\ n \in Nat
    BY <1>2, FuelType, UnmarkedCounts
  <2> DEFINE x == u * n
  <2>4. x + 2 * ToScan + Len(stack) = x + Len(stack)
    <3>1. x \in Nat
      BY <2>3
    <3> HIDE DEF x
    <3> QED BY <1>2, <3>1
  <2> QED BY <2>1, <2>2, <2>3, <2>4
<1>5. CASE Top \in visited
  <2>1. (Index \ visited) \ {Top} = Index \ visited
    BY <1>5
  <2>2. v = u /\ ToScan' = 0
    BY <1>1, <1>5, <2>1 DEF ToScan, Unmarked
  <2> DEFINE x == u * n
  <2>3. Fuel = x + Len(stack) /\ Fuel' = x + 2 * ToScan' + (Len(stack) - 1) /\ x \in Nat
    BY <1>4, <2>2
  <2> HIDE DEF x
  <2> QED BY <1>2, <2>2, <2>3
<1>6. CASE Top \notin visited
  <2>1. Top \in Index \ visited
    BY <1>2, <1>6
  <2>2. v = u - 1 /\ v \in Nat
    <3>1. IsFiniteSet(Index \ visited)
      BY UnmarkedCounts
    <3> DEFINE I == Index \ visited
    <3>2. v = Cardinality(I \ {Top}) /\ u = Cardinality(I) /\ Top \in I /\ IsFiniteSet(I)
      BY <2>1, <3>1 DEF Unmarked
    <3> HIDE DEF I, u, v
    <3> QED BY <3>2, FS_RemoveElement, FS_CardinalityType
  <2>3. ToScan' = Rows
    BY <1>1, <1>2, <1>6 DEF ToScan
  <2>4. u * n = v * n + n /\ v * n \in Nat
    <3> HIDE DEF u, v, n
    <3> QED BY <1>4, <2>2, OneLess
  <2> DEFINE x == u * n
             y == v * n
  <2>5. /\ Fuel = x + Len(stack) /\ Fuel' = y + 2 * Rows + (Len(stack) - 1)
        /\ x = y + (2 * Rows + 1) /\ y \in Nat
    BY <1>4, <2>3, <2>4
  <2> HIDE DEF x, y
  <2> QED BY <1>2, <2>5
<1> QED BY <1>5, <1>6

LEMMA ScanUses ==
  ASSUME TypeOK, Walking, ScanSlot
  PROVE  Fuel' < Fuel
<1> DEFINE e == links[scan][2]
<1>1. /\ scan # 0 /\ scan' = IF scan = Rows THEN 0 ELSE scan + 1
      /\ stack' = (IF links[scan][1] = cur THEN Append(stack, e) ELSE stack)
      /\ Unmarked' = Unmarked /\ Rows' = Rows
  BY DEF ScanSlot, vars, Rows, Unmarked
<1>2. Rows \in Nat /\ scan \in 1 .. Rows /\ stack \in Seq(Index)
  BY <1>1, RowsInTable DEF Walking
<1>3. ToScan \in Nat /\ ToScan' = ToScan - 1
  BY <1>1, <1>2 DEF ToScan
<1>4. Len(stack') \in Nat /\ Len(stack') <= Len(stack) + 1 /\ Len(stack) \in Nat
  <2>1. stack \in Seq(Index \cup {e})
    BY <1>2
  <2> HIDE DEF e
  <2>2. Len(Append(stack, e)) = Len(stack) + 1 /\ Len(stack) \in Nat
    BY <2>1
  <2> QED BY <1>1, <2>2
<1> DEFINE x == Unmarked * (2 * Rows + 1)
<1>5. Fuel = x + 2 * ToScan + Len(stack) /\ Fuel' = x + 2 * ToScan' + Len(stack') /\ x \in Nat
  BY <1>1, FuelType DEF Fuel
<1> HIDE DEF x
<1> QED BY <1>3, <1>4, <1>5

LEMMA WalkTurn ==
  ASSUME WalkInv, WalkStep
  PROVE  Idle' \/ (Fuel' < Fuel /\ Rows' = Rows)
<1>1. WalkInv => (Idle \/ Walking) /\ TypeOK
  BY DEF WalkInv, NoWalk, Idle, EngineInv
<1>2. CASE Pop
  BY <1>1, <1>2, PopUses DEF Pop, Rows, vars
<1>3. CASE ScanSlot
  <2>1. Walking
    BY <1>3 DEF WalkInv, NoWalk, ScanSlot
  <2> QED BY <1>1, <1>3, <2>1, ScanUses DEF ScanSlot, Rows, vars
<1>4. CASE Refuse \/ Accept
  BY <1>4 DEF Refuse, Accept, Return, Idle
<1> QED BY <1>2, <1>3, <1>4 DEF WalkStep

(* What a walk is given when it is called, and never exceeds. *)
Fueled == ~Idle => Fuel <= Cap * (2 * Rows + 1) + 1

FuelIsNatural == ~Idle => Fuel \in Nat

LEMMA FuelNatural == WalkInv => FuelIsNatural
<1> SUFFICES ASSUME WalkInv, ~Idle PROVE Fuel \in Nat
  BY DEF FuelIsNatural
<1>1. TypeOK /\ Walking
  BY DEF WalkInv, NoWalk, Idle, EngineInv
<1> QED BY <1>1, FuelType

LEMMA CallFuels ==
  ASSUME WalkInv, NEW i \in DOMAIN cells, NEW j \in DOMAIN cells, Call(i, j)
  PROVE  Fueled'
<1>1. TypeOK /\ NoWalk
  <2>1. TypeOK /\ Idle
    BY DEF WalkInv, EngineInv, Call
  <2> QED BY <2>1, CellInArray, ConstantsAssumption DEF WalkInv, Walking, Idle, Index
<1>2. /\ stack' = <<j>> /\ scan' = 0 /\ Rows' = Rows /\ Unmarked' = Unmarked
  BY <1>1 DEF Call, vars, Rows, NoWalk, Unmarked
<1> DEFINE n == 2 * Rows + 1
<1>3. n \in Nat /\ Unmarked \in Nat /\ Unmarked <= Cap /\ Cap \in Nat
  BY <1>1, RowsInTable, UnmarkedCounts, ConstantsAssumption
<1>4. Fuel' = Unmarked * n + 2 * 0 + 1
  BY <1>2 DEF Fuel, ToScan
<1>5. Unmarked * n <= Cap * n /\ Unmarked * n \in Nat /\ Cap * n \in Nat
  <2>1. \A a, b, m \in Nat : a <= b => a * m <= b * m /\ a * m \in Nat /\ b * m \in Nat
    <3> SUFFICES ASSUME NEW a \in Nat, NEW b \in Nat, NEW m \in Nat, a <= b
                 PROVE  a * m <= b * m /\ a * m \in Nat /\ b * m \in Nat
      OBVIOUS
    <3>1. b - a \in Nat /\ b = a + (b - a)
      OBVIOUS
    <3>2. b * m = a * m + (b - a) * m /\ (b - a) * m \in Nat /\ a * m \in Nat
      BY <3>1
    <3> QED BY <3>2
  <2> HIDE DEF n
  <2> QED BY <1>3, <2>1
<1> DEFINE x == Unmarked * n
           y == Cap * n
<1>6. x + 2 * 0 + 1 <= y + 1
  <2>1. x \in Nat /\ y \in Nat /\ x <= y
    BY <1>5
  <2> HIDE DEF x, y
  <2> QED BY <2>1
<1> QED BY <1>2, <1>4, <1>6 DEF Fueled

LEMMA FueledStep ==
  WalkInv /\ Fueled /\ FuelIsNatural /\ FuelIsNatural' /\ [WalkNext]_walkVars => Fueled'
<1> SUFFICES ASSUME WalkInv, Fueled, FuelIsNatural, FuelIsNatural', [WalkNext]_walkVars
             PROVE  Fueled'
  OBVIOUS
<1>1. CASE WalkStep
  <2> SUFFICES ASSUME ~Idle' PROVE Fueled'
    BY DEF Fueled
  <2> DEFINE b == Cap * (2 * Rows + 1) + 1
  <2>1. ~Idle
    BY <1>1 DEF WalkStep, Pop, ScanSlot, Refuse, Accept, WalkInv, NoWalk, Idle
  <2>2. Fuel' < Fuel /\ Rows' = Rows
    BY <1>1, WalkTurn
  <2>3. Fuel' \in Nat /\ Fuel \in Nat /\ Fuel <= b /\ b' = b
    BY <2>1, <2>2 DEF FuelIsNatural, Fueled
  <2>4. b \in Int
    <3>1. Cap \in Nat /\ Rows \in Nat
      BY RowsInTable, ConstantsAssumption DEF WalkInv, EngineInv
    <3>2. \A m, n \in Nat : m * n \in Nat
      OBVIOUS
    <3>3. 2 * Rows + 1 \in Nat
      BY <3>1
    <3> QED BY <3>1, <3>2, <3>3
  <2> HIDE DEF b
  <2>5. Fuel' <= b
    BY <2>2, <2>3, <2>4
  <2> QED BY <2>3, <2>5 DEF Fueled, b
<1>2. ASSUME Idle, UNCHANGED walk PROVE Fueled'
  BY <1>2 DEF Fueled, Idle, walk
<1>3. CASE UNCHANGED walkVars
  BY <1>3 DEF walkVars, vars, walk, Fueled, Idle, Fuel, Unmarked, ToScan, Rows
<1> QED BY <1>1, <1>2, <1>3, CallFuels DEF WalkNext

(* Every step of has_cycle that does not return uses up fuel, of which a    *)
(* walk has no more than it is given when it starts: so has_cycle returns   *)
(* within that many turns of its loops, whatever cycles FORGET left in the  *)
(* table.                                                                  *)
THEOREM WalkUsesFuel ==
  WalkSpec => /\ [](FuelIsNatural /\ Fueled)
              /\ [][WalkStep => Idle' \/ Fuel' < Fuel]_walkVars
<1>1. WalkInit => Fueled
  BY DEF WalkInit, NoWalk, Fueled, Idle
<1>2. WalkInv /\ [WalkNext]_walkVars => [WalkStep => Idle' \/ Fuel' < Fuel]_walkVars
  BY WalkTurn
<1> QED
  BY <1>1, <1>2, FuelNatural, FueledStep, WalkInvInit, WalkInvStep, PTL DEF WalkSpec
=============================================================================
