----------------------------- MODULE CycleWalk ------------------------------
(***************************************************************************)
(* LINK of src/engine.c with has_cycle's walk step by step: an explicit    *)
(* stack, the cells visited, and the scan over the slots of the live rows  *)
(* that pushes the end of every edge leaving the cell at hand.             *)
(*                                                                         *)
(* Of the other operations only those are taken that change the table or   *)
(* the number of its rows: BIND of a new id and FORGET.  None of them runs *)
(* during a walk.                                                          *)
(***************************************************************************)
EXTENDS Engine, FiniteSets

VARIABLES
  from, to,        \* the edge LINK was asked for; from = 0: no LINK is running
  stack,           \* stack[0 .. top]
  visited,         \* the cells whose visited[] entry is set
  cur,             \* the cell popped last
  scan             \* the slot to look at next; 0 at the head of the while loop

walk == <<from, to, stack, visited, cur, scan>>

walkVars == <<vars, walk>>

Idle == from = 0

NoWalk ==
  /\ from = 0 /\ to = 0 /\ stack = << >> /\ visited = {} /\ cur = 0 /\ scan = 0

Rows == Len(cells) * MaxLinks     \* the slots the scan reaches

Top == stack[Len(stack)]

Popped == SubSeq(stack, 1, Len(stack) - 1)

-----------------------------------------------------------------------------
(* LINK enters the walk unless both ends are the same cell. *)
Call(i, j) ==
  /\ Idle /\ i # j
  /\ from' = i /\ to' = j /\ stack' = <<j>>
  /\ UNCHANGED <<vars, visited, cur, scan>>

(* Mutated forms of the next definition: the cell is not marked, and a cell *)
(* met again is left on the stack.                                         *)
PopUnmarked ==
  /\ ~Idle /\ scan = 0 /\ stack # << >> /\ Top # from
  /\ cur' = Top /\ stack' = Popped
  /\ scan' = IF Top \in visited THEN 0 ELSE 1
  /\ UNCHANGED <<vars, from, to, visited>>

PopUnlessVisited ==
  /\ ~Idle /\ scan = 0 /\ stack # << >> /\ Top # from
  /\ cur' = Top /\ stack' = IF Top \in visited THEN stack ELSE Popped
  /\ visited' = visited \cup {Top}
  /\ scan' = IF Top \in visited THEN 0 ELSE 1
  /\ UNCHANGED <<vars, from, to>>

(* A cell popped a second time is passed over. *)
Pop ==
  /\ ~Idle /\ scan = 0 /\ stack # << >> /\ Top # from
  /\ cur' = Top /\ stack' = Popped
  /\ visited' = visited \cup {Top}
  /\ scan' = IF Top \in visited THEN 0 ELSE 1
  /\ UNCHANGED <<vars, from, to>>

(* A mutated form of the next definition: the scan stops one slot early. *)
ScanButLast ==
  /\ scan # 0
  /\ stack' = IF links[scan][1] = cur THEN Append(stack, links[scan][2]) ELSE stack
  /\ scan' = IF scan + 1 >= Rows THEN 0 ELSE scan + 1
  /\ UNCHANGED <<vars, from, to, visited, cur>>

(* One slot of the two nested loops over the live rows. *)
ScanSlot ==
  /\ scan # 0
  /\ stack' = IF links[scan][1] = cur THEN Append(stack, links[scan][2]) ELSE stack
  /\ scan' = IF scan = Rows THEN 0 ELSE scan + 1
  /\ UNCHANGED <<vars, from, to, visited, cur>>

Return == 
  /\ from' = 0 /\ to' = 0 /\ stack' = << >> /\ visited' = {} /\ cur' = 0 /\ scan' = 0

(* The walk met `from`: LINK changes nothing. *)
Refuse ==
  /\ ~Idle /\ scan = 0 /\ stack # << >> /\ Top = from
  /\ Return /\ UNCHANGED vars

(* The stack is empty: the edge takes the first free slot, if there is one. *)
Accept ==
  /\ ~Idle /\ scan = 0 /\ stack = << >>
  /\ Return
  /\ \/ /\ \E k \in Slot : FirstFree(k) /\ links' = [links EXCEPT ![k] = <<from, to>>]
        /\ JournalAppend("LINK", cells[from].id, to - 1)
        /\ UNCHANGED <<cells, tick, pos>>
     \/ Used = Slot /\ UNCHANGED vars

WalkStep == Pop \/ ScanSlot \/ Refuse \/ Accept

WalkInit == Init /\ NoWalk

WalkNext ==
  \/ \E i, j \in DOMAIN cells : Call(i, j)
  \/ WalkStep
  \/ \E id \in Id, v \in Value : Idle /\ BindNew(id, v) /\ UNCHANGED walk
  \/ \E i \in DOMAIN cells : Idle /\ Forget(i) /\ UNCHANGED walk

(* A function that has been called runs on: its steps are fair.  Nothing    *)
(* obliges a caller to call.                                               *)
WalkSpec == WalkInit /\ [][WalkNext]_walkVars /\ WF_walkVars(WalkStep)

-----------------------------------------------------------------------------
(* Whatever the table holds, duplicate edges, stale indices and cycles      *)
(* included: at the head of the loop the walk finds `from` on its stack     *)
(* only if the edge would close a cycle of scanned edges, and runs out of   *)
(* cells only if it would not.                                             *)
WalkDecides ==
  ~Idle /\ scan = 0 =>
    /\ stack # << >> /\ Top = from => HasCycle(from, to)
    /\ stack = << >> => ~HasCycle(from, to)

(* The stack never holds more than one entry per scanned slot, although     *)
(* cells are pushed again before they are marked: the 256 entries of        *)
(* has_cycle suffice for tables of up to 256 slots.                        *)
ScannedSlots == {k \in Used : k <= Rows}

StackFits ==
  Len(stack) <= IF ScannedSlots = {} THEN 1 ELSE Cardinality(ScannedSlots)

(* The walk ends, also in a table that already holds a cycle. *)
WalkEnds == ~Idle ~> Idle
=============================================================================
