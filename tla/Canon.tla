-------------------------------- MODULE Canon -------------------------------
(***************************************************************************)
(* The Live Canon of src/live_canon.c: papers that cite papers, a hash of  *)
(* all of them, and NAVIGATE, a breadth-first walk along citations that    *)
(* gives up at a depth.                                                    *)
(*                                                                         *)
(* A paper is its number, its references in order, and the rest of what    *)
(* its dials are made from.  visited[] is indexed by paper number, while   *)
(* its size is that of the table: a number from MaxPapers on lies outside. *)
(* The access stays in the frame of the call, but what the call then       *)
(* returns is anything (Lost).                                             *)
(***************************************************************************)
EXTENDS Integers, SequencesExt

CONSTANTS
  MaxPapers,       \* MAX_PAPERS, 256
  MaxNumber,       \* the number from which on all papers share dial[0], 500
  Paper,           \* papers a caller may add: [number, refs, rest]
  Start,           \* numbers a walk may start at
  MaxDepth,        \* bound on the depth asked for, for model checking
  Lost             \* the result of a walk that went outside visited[]

ASSUME CanonAssumption ==
  /\ MaxPapers \in Nat \ {0} /\ MaxNumber \in Nat /\ MaxDepth \in Nat
  /\ Start \subseteq Nat
  /\ \A p \in Paper : p.number \in Nat /\ p.refs \in Seq(Nat)
  /\ Lost \notin Seq([number : Nat, depth : Nat])

VARIABLES
  papers, canon_hash,
  start, depth,    \* the arguments of the last NAVIGATE
  queue,           \* queue[head .. tail - 1]; empty when no walk is running
  marked,          \* the numbers whose visited[] entry is set
  out              \* what NAVIGATE has written

navigation == <<start, depth, queue, marked, out>>

canonVars == <<papers, canon_hash, navigation>>

-----------------------------------------------------------------------------
Dials(p) == <<IF p.number > MaxNumber THEN MaxNumber ELSE p.number, p.rest>>

(* A mutated form of the next definition: the papers are not sorted. *)
HashesUnsorted(ps) == {[i \in DOMAIN ps |-> Dials(ps[i])]}

(* The rows that canon_hash may hash: qsort by dial[0], which leaves the    *)
(* order of equal ones open.                                               *)
Hashes(ps) ==
  LET rows == [i \in DOMAIN ps |-> Dials(ps[i])]
  IN  {h \in {[i \in DOMAIN ps |-> rows[f[i]]] : f \in Bijection(DOMAIN ps, DOMAIN ps)} :
         \A i \in 1 .. Len(ps) - 1 : h[i][1] <= h[i + 1][1]}

CanonInit ==
  /\ papers = << >> /\ canon_hash = << >>
  /\ start = 0 /\ depth = 0 /\ queue = << >> /\ marked = {} /\ out = << >>

(* canon_add, as long as the table has room; what an earlier walk wrote was *)
(* about a smaller canon and is forgotten.                                 *)
AddPaper(p) ==
  /\ queue = << >> /\ Len(papers) < MaxPapers
  /\ papers' = Append(papers, p)
  /\ canon_hash' \in Hashes(papers')
  /\ out' = << >> /\ UNCHANGED <<start, depth, queue, marked>>

(* References of the first paper with a number; none if there is no such.   *)
Refs(n) ==
  LET at == {i \in DOMAIN papers : papers[i].number = n}
  IN  IF at = {} THEN << >> ELSE papers[Min(at)].refs

Navigate(n, d) ==
  /\ queue = << >>
  /\ start' = n /\ depth' = d
  /\ IF n < MaxPapers
     THEN queue' = <<[number |-> n, depth |-> 0]>> /\ marked' = {n} /\ out' = << >>
     ELSE queue' = << >> /\ marked' = {} /\ out' = Lost
  /\ UNCHANGED <<papers, canon_hash>>

(* A mutated form of the next definition: a number is marked by the walk    *)
(* only when it has looked at all references of a paper.                   *)
DiscoverLate(refs, d) ==
  [marked |-> marked \cup ToSet(refs),
   queue  |-> Tail(queue) \o [i \in DOMAIN SelectSeq(refs, LAMBDA r : r \notin marked) |->
     [number |-> SelectSeq(refs, LAMBDA r : r \notin marked)[i], depth |-> d]]]

(* The references not seen before are marked and queued in order. *)
Discover(refs, d) ==
  FoldLeft(LAMBDA acc, r :
             IF r \in acc.marked THEN acc
             ELSE [marked |-> acc.marked \cup {r},
                   queue  |-> Append(acc.queue, [number |-> r, depth |-> d])],
           [marked |-> marked, queue |-> Tail(queue)], refs)

(* One round of the while loop.  The bound on out is never reached, since   *)
(* a number is queued once.                                                *)
Visit ==
  /\ queue # << >>
  /\ LET node  == queue[1]
         refs  == IF node.depth < depth THEN Refs(node.number) ELSE << >>
         found == Discover(refs, node.depth + 1)
     IN  IF \A r \in ToSet(refs) : r < MaxPapers
         THEN queue' = found.queue /\ marked' = found.marked /\ out' = Append(out, node)
         ELSE queue' = << >> /\ marked' = {} /\ out' = Lost
  /\ UNCHANGED <<papers, canon_hash, start, depth>>

CanonNext ==
  \/ \E p \in Paper : AddPaper(p)
  \/ \E n \in Start, d \in 0 .. MaxDepth : Navigate(n, d)
  \/ Visit

CanonSpec == CanonInit /\ [][CanonNext]_canonVars

-----------------------------------------------------------------------------
(* The numbers at most d citations from the start. *)
Near ==
  LET near[d \in 0 .. depth] ==
        IF d = 0 THEN {start}
        ELSE near[d - 1] \cup UNION {ToSet(Refs(n)) : n \in near[d - 1]}
  IN  near

(* A walk that has ended has written every number within the depth once, at *)
(* its least distance from the start, nearest first, also when papers cite  *)
(* each other in circles, twice, or papers that are not there.  It goes     *)
(* astray only if one of those numbers is no index of visited[].           *)
NavigateIsBFS ==
  queue = << >> /\ out # << >> =>
    IF out = Lost THEN \E n \in Near[depth] : n >= MaxPapers
    ELSE /\ {out[i].number : i \in DOMAIN out} = Near[depth]
         /\ Len(out) = Cardinality(Near[depth])
         /\ \A i \in DOMAIN out :
              out[i].depth = Min({d \in 0 .. depth : out[i].number \in Near[d]})
         /\ \A i \in 2 .. Len(out) : out[i - 1].depth <= out[i].depth

(* The hash does not depend on the order in which papers were added, as     *)
(* long as no two of them share dial[0], which all large numbers do.       *)
HashIgnoresOrder ==
  (\A i, j \in DOMAIN papers : Dials(papers[i])[1] = Dials(papers[j])[1] => i = j) =>
    \A f \in Bijection(DOMAIN papers, DOMAIN papers) :
      Hashes([i \in DOMAIN papers |-> papers[f[i]]]) = {canon_hash}
=============================================================================
