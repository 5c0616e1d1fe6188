------------------------------ MODULE CellApi -------------------------------
(***************************************************************************)
(* The cell graph of src/cell_api.py: BIND, LINK, EFFECT, VIEW and TICK on *)
(* cells addressed by name, with versions and version keys.                *)
(*                                                                         *)
(* A call either returns, and is then sealed in a receipt, or raises a     *)
(* Python exception half way and leaves what it had changed.  The digests  *)
(* are ideal: a state digest is what it is computed from.  Receipts, which *)
(* no operation reads but for the hash of the parent, are left out, and so *)
(* is the kind of a cell, which nothing changes.                           *)
(***************************************************************************)
EXTENDS Integers, SequencesExt

CONSTANTS
  Addr,             \* names of cells
  Text,             \* a dial that is not a number
  TopDial,          \* 2^32 - 1: the largest number a digest can hold
  DigestDials,      \* 8: dials beyond the first ones are not in the digest
  DialLists,        \* dials callers pass to BIND: whole numbers, of either sign, and texts
  MaxVersion,       \* bound for model checking: versions stay below it
  MaxTick           \* bound for model checking: number of TICKs

ASSUME ApiAssumption ==
  /\ Text \notin Int
  /\ TopDial \in Nat /\ DigestDials \in Nat /\ MaxVersion \in Nat /\ MaxTick \in Nat
  /\ DialLists \subseteq Seq(Int \cup {Text})

VARIABLES
  order,    \* the addresses bound, in the order of the dict self.cells
  cells,    \* address -> cell
  tick,
  torn,     \* history: cells a raising call changed without a new version since
  bound,    \* history: the BIND sealed last, while the graph is as it left it
  given     \* history: the negative numbers that BINDs have put into cells

apiVars == <<order, cells, tick, torn, bound, given>>

NoKey == << >>

NotBound == << >>

-----------------------------------------------------------------------------
(* canonical(): the dials inside the digest, with 0 for what is no number,  *)
(* and the neighbours in the order they were linked.                       *)
Digested(c) == IF Len(c.dials) < DigestDials THEN 1 .. Len(c.dials) ELSE 1 .. DigestDials

(* to_bytes raises OverflowError for a number of more than 32 bits, and for *)
(* a negative one.                                                         *)
HasDigest(c) == \A i \in Digested(c) : c.dials[i] = Text \/ c.dials[i] \in 0 .. TopDial

StateDigest(c) ==
  <<[i \in Digested(c) |-> IF c.dials[i] = Text THEN 0 ELSE c.dials[i]], c.neighbors>>

VersionKey(c) == [version |-> c.version, digest |-> StateDigest(c)]

Changed == cells' # cells \/ tick' # tick

(* op() got as far as _seal: the call has a receipt. *)
Seal == torn' = {a \in torn : cells'[a].version = cells[a].version}

(* The call raised: no receipt, and no way back. *)
Raise ==
  torn' = {a \in DOMAIN cells : /\ cells'[a].version = cells[a].version
                                /\ a \in torn \/ cells'[a].dials # cells[a].dials}

Unbinds == bound' = IF Changed THEN NotBound ELSE bound

-----------------------------------------------------------------------------
ApiInit ==
  order = << >> /\ cells = << >> /\ tick = 0 /\ torn = {} /\ bound = NotBound /\ given = {}

WithCell(a, c) == [x \in DOMAIN cells \cup {a} |-> IF x = a THEN c ELSE cells[x]]

Negatives(dials) == {d \in ToSet(dials) : d # Text /\ d < 0}

(* The cell is in the graph before its digest is asked for.  BIND checks    *)
(* neither the sign nor the size of what it is given.                      *)
BindNew(a, dials) ==
  LET c == [dials |-> dials, neighbors |-> << >>, version |-> 1, version_key |-> NoKey] IN
  /\ a \notin DOMAIN cells
  /\ order' = Append(order, a) /\ UNCHANGED tick /\ given' = given \cup Negatives(dials)
  /\ \/ /\ HasDigest(c)
        /\ cells' = WithCell(a, [c EXCEPT !.version_key = VersionKey(c)])
        /\ Seal /\ bound' = <<a, dials>>
     \/ /\ ~HasDigest(c)
        /\ cells' = WithCell(a, c)
        /\ Raise /\ Unbinds

(* A mutated form of the next definition: the version advances with every   *)
(* BIND.                                                                   *)
AlwaysAdvanced(old, new) == [new EXCEPT !.version = @ + 1]

(* BIND advances the version only with the digest. *)
Advanced(old, new) ==
  IF StateDigest(new) = StateDigest(old) THEN new ELSE [new EXCEPT !.version = @ + 1]

(* BIND of an existing cell asks for its digest before and after. *)
BindAgain(a, dials) ==
  LET old == cells[a]
      new == [old EXCEPT !.dials = dials] IN
  /\ a \in DOMAIN cells /\ UNCHANGED <<order, tick>>
  /\ \/ /\ ~HasDigest(old)
        /\ UNCHANGED <<cells, given>> /\ Raise /\ Unbinds
     \/ /\ HasDigest(old) /\ ~HasDigest(new)
        /\ cells' = [cells EXCEPT ![a] = new] /\ given' = given \cup Negatives(dials)
        /\ Raise /\ Unbinds
     \/ /\ HasDigest(old) /\ HasDigest(new) /\ old.version < MaxVersion
        /\ LET c == Advanced(old, new) IN
             cells' = [cells EXCEPT ![a] = [c EXCEPT !.version_key = VersionKey(c)]]
        /\ given' = given \cup Negatives(dials)
        /\ Seal /\ bound' = <<a, dials>>

With(neighbors, a) == IF a \in ToSet(neighbors) THEN neighbors ELSE Append(neighbors, a)

(* One end of LINK, which both ends are when a cell is linked to itself. *)
Joined(c, a) ==
  [c EXCEPT !.neighbors = With(c.neighbors, a), !.version = c.version + 1]

(* LINK is undirected and looks for no cycle. *)
Link(a, b) ==
  /\ {a, b} \subseteq DOMAIN cells
  /\ \A x \in {a, b} : cells[x].version + 1 < MaxVersion
  /\ LET one == [cells EXCEPT ![a] = Joined(cells[a], b)]
     IN  cells' = [one EXCEPT ![b] = Joined(one[b], a)]
  /\ UNCHANGED <<order, tick, given>> /\ Seal /\ Unbinds

(* The neighbours whose first dial EFFECT sets. *)
Reached(a) ==
  {n \in ToSet(cells[a].neighbors) :
     /\ cells[a].dials # << >> /\ cells[n].dials # << >>
     /\ cells[n].dials[1] # cells[a].dials[1]}

(* A mutated form of the next definition: the neighbour keeps its version. *)
SetSilently(c, dial) == [c EXCEPT !.dials = [c.dials EXCEPT ![1] = dial]]

SetFirst(c, dial) ==
  [c EXCEPT !.dials = [c.dials EXCEPT ![1] = dial], !.version = c.version + 1]

Effect(a) ==
  /\ a \in DOMAIN cells
  /\ \A x \in Reached(a) \cup {a} : cells[x].version < MaxVersion
  /\ cells' = [x \in DOMAIN cells |->
                 IF x \in Reached(a) THEN SetFirst(cells[x], cells[a].dials[1])
                 ELSE IF x = a THEN [cells[x] EXCEPT !.version = @ + 1] ELSE cells[x]]
  /\ UNCHANGED <<order, tick, given>> /\ Seal /\ Unbinds

(* VIEW changes nothing; it raises when the cell has no digest. *)
View(a) ==
  /\ a \in DOMAIN cells
  /\ UNCHANGED <<order, cells, tick, given>> /\ Unbinds
  /\ IF HasDigest(cells[a]) THEN Seal ELSE Raise

-----------------------------------------------------------------------------
(* A mutated form of the next definition: a dial may go below zero.         *)
TurnedBelowZero(d, i) == IF i % 2 = 1 THEN d + 1 ELSE d - 1

(* TICK adds one to the even dials of Python, the odd ones here, and takes  *)
(* one from the others; what is then below zero becomes zero, wherever it   *)
(* came from.  There is no limit at the top.                               *)
Turned(d, i) ==
  LET nxt == IF i % 2 = 1 THEN d + 1 ELSE d - 1 IN IF nxt > 0 THEN nxt ELSE 0

(* The dials of a cell that TICK turns before it meets one it cannot add to. *)
TurnedUpTo(dials) ==
  {i \in DOMAIN dials : \A j \in 1 .. i : dials[j] # Text}

Whole(c) == TurnedUpTo(c.dials) = DOMAIN c.dials

TickedDials(dials) ==
  [i \in DOMAIN dials |-> IF i \in TurnedUpTo(dials) THEN Turned(dials[i], i) ELSE dials[i]]

(* TICK got through the cell: only then does the version advance. *)
Ticked(c) ==
  [c EXCEPT !.dials = TickedDials(c.dials), !.version = IF Whole(c) THEN @ + 1 ELSE @]

(* TICK takes the cells in the order they were bound and ends at the first  *)
(* one it raises in.                                                       *)
ReachedByTick(k) == \A j \in 1 .. k - 1 : Whole(cells[order[j]])

Tick ==
  /\ tick < MaxTick /\ tick' = tick + 1
  /\ \A a \in DOMAIN cells : cells[a].version < MaxVersion
  /\ cells' = [a \in DOMAIN cells |->
                 IF \E k \in DOMAIN order : order[k] = a /\ ReachedByTick(k)
                 THEN Ticked(cells[a]) ELSE cells[a]]
  /\ UNCHANGED <<order, given>> /\ Unbinds
  /\ IF \A a \in DOMAIN cells : Whole(cells[a]) THEN Seal ELSE Raise

(* An unknown opcode or a missing cell is sealed as an error and changes    *)
(* nothing.                                                                *)
ApiNext ==
  \/ \E a \in Addr, dials \in DialLists : BindNew(a, dials) \/ BindAgain(a, dials)
  \/ \E a, b \in Addr : Link(a, b)
  \/ \E a \in Addr : Effect(a) \/ View(a)
  \/ Tick

ApiSpec == ApiInit /\ [][ApiNext]_apiVars

-----------------------------------------------------------------------------
(* version_key is written by BIND alone and goes stale.  It still tells its *)
(* age: while the cell is at the version in its key, it is in the state in  *)
(* its key, whatever LINK, EFFECT and TICK did in between.  The exceptions  *)
(* are cells that a raising call changed: a TICK that met a dial it cannot  *)
(* add to, or a BIND to dials without a digest.                            *)
KeyTellsAge ==
  \A a \in DOMAIN cells \ torn :
    /\ cells[a].version_key # NoKey
    /\ cells[a].version_key.version = cells[a].version
    => HasDigest(cells[a]) /\ cells[a].version_key.digest = StateDigest(cells[a])

(* A cell is without a digest only because of a number over the top, which  *)
(* BIND gave it or TICK reached, or because of a negative number that some   *)
(* BIND was given and nothing checked, which EFFECT may have handed on.      *)
(* TICK takes no dial below zero, and no call makes up a negative number.    *)
LostDigestHasACause ==
  \A a \in DOMAIN cells :
    ~HasDigest(cells[a]) => \E i \in Digested(cells[a]) :
                              /\ cells[a].dials[i] # Text
                              /\ cells[a].dials[i] > TopDial \/ cells[a].dials[i] \in given

(* BIND is idempotent: repeated on a graph that is as the same BIND left it, *)
(* it changes neither graph nor version key.                               *)
BindIsIdempotent ==
  [][bound # NotBound /\ bound' = bound => UNCHANGED <<order, cells, tick>>]_apiVars
=============================================================================
