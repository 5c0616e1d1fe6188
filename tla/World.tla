------------------------------- MODULE World --------------------------------
(***************************************************************************)
(* The physical.world cell of src/world.c: a program text that callers     *)
(* propose, refine, execute and verify against an observation.             *)
(*                                                                         *)
(* A text is the code it started from followed by the hints appended to it *)
(* and stands for its own 32-byte hash.  The counters n_propose .. n_refine *)
(* are left out: nothing reads them, and EXECUTE and RENDER change nothing  *)
(* else.                                                                   *)
(***************************************************************************)
EXTENDS Integers, Sequences

CONSTANTS
  Code,            \* program texts a caller may set
  Hint,            \* hints a caller may refine with
  Bytes,           \* [Code \cup Hint -> Nat]: the bytes each adds to the text
  NoCode,          \* the NULL code pointer
  NoHash,          \* the all-zero hash
  Predict(_),      \* Predict(text): what quilt_world_execute computes without
                   \* inputs, the way quilt_world_verify calls it
  Observed,        \* values observed
  Tolerance,       \* tolerances, possibly negative
  MinTextCap,      \* the capacity of a first allocation
  MaxParts         \* bound on the parts of a text, for model checking

Text == {t \in Seq(Code \cup Hint) : t # << >> /\ t[1] \in Code}

ASSUME WorldAssumption ==
  /\ Bytes \in [Code \cup Hint -> Nat]
  /\ NoCode \notin Text /\ NoHash \notin Text
  /\ MinTextCap \in Nat \ {0} /\ MaxParts \in Nat

VARIABLES
  code,            \* p->code: the text in the buffer, or NoCode
  code_cap,        \* the bytes allocated for it
  prev_text_hash,  \* p->prev_hash
  text_hash,       \* p->state_hash
  verified,        \* p->verified
  bound,           \* history: the last two texts set successfully, older first
  failed,          \* history: a set ran out of memory since the last success
  judged           \* history: the last verify, what it saw and what it found

worldVars == <<code, code_cap, prev_text_hash, text_hash, verified,
               bound, failed, judged>>

NoVerdict == [text |-> NoHash, observed |-> 0, tolerance |-> -1]

Length(t) ==
  LET len[i \in 0 .. Len(t)] == IF i = 0 THEN 0 ELSE len[i - 1] + Bytes[t[i]]
  IN  len[Len(t)]

(* One type invariant: the text and its NUL fit the allocation. *)
WorldTypeOK ==
  /\ code \in Text \cup {NoCode} /\ code_cap \in Nat
  /\ code \in Text => Length(code) < code_cap
  /\ {prev_text_hash, text_hash} \subseteq Text \cup {NoHash}
  /\ verified \in BOOLEAN

-----------------------------------------------------------------------------
WorldInit ==
  /\ code = NoCode /\ code_cap = 0
  /\ prev_text_hash = NoHash /\ text_hash = NoHash
  /\ verified = FALSE
  /\ bound = <<NoHash, NoHash>> /\ failed = FALSE /\ judged = NoVerdict

(* A mutated form of the next definition: no byte is left for the NUL. *)
GrownWithoutNul(cap, n) ==
  LET doubled[c \in Nat] == IF c < n THEN doubled[2 * c] ELSE c
  IN  IF n <= cap THEN cap ELSE doubled[IF cap = 0 THEN MinTextCap ELSE cap]

(* The capacity doubles from MinTextCap or from what it was until n bytes   *)
(* and the NUL fit.                                                        *)
GrownText(cap, n) ==
  LET doubled[c \in Nat] == IF c < n + 1 THEN doubled[2 * c] ELSE c
  IN  IF n + 1 <= cap THEN cap ELSE doubled[IF cap = 0 THEN MinTextCap ELSE cap]

(* Mutated forms of the next definition: the old hash is saved only after   *)
(* the new one is there, and the verdict is kept.                          *)
SetSavesHashLate(t) ==
  /\ code' = t /\ code_cap' = GrownText(code_cap, Length(t))
  /\ prev_text_hash' = t /\ text_hash' = t
  /\ verified' = FALSE
  /\ bound' = <<bound[2], t>> /\ failed' = FALSE

SetKeepsVerdict(t) ==
  /\ code' = t /\ code_cap' = GrownText(code_cap, Length(t))
  /\ prev_text_hash' = text_hash /\ text_hash' = t
  /\ UNCHANGED verified
  /\ bound' = <<bound[2], t>> /\ failed' = FALSE

(* quilt_world_program_set, when realloc is not needed or succeeds. *)
SetText(t) ==
  /\ code' = t /\ code_cap' = GrownText(code_cap, Length(t))
  /\ prev_text_hash' = text_hash /\ text_hash' = t
  /\ verified' = FALSE
  /\ bound' = <<bound[2], t>> /\ failed' = FALSE

(* When realloc fails, prev_text_hash has been overwritten already. *)
SetFails(t) ==
  /\ Length(t) + 1 > code_cap
  /\ prev_text_hash' = text_hash
  /\ failed' = TRUE
  /\ UNCHANGED <<code, code_cap, text_hash, verified, bound>>

(* quilt_world_program_set and quilt_world_propose. *)
Propose(c) ==
  /\ SetText(<<c>>) \/ SetFails(<<c>>)
  /\ UNCHANGED judged

(* quilt_world_refine: 1 when the longer text was set, 0 when not.  A       *)
(* failure of its own malloc changes nothing.                              *)
Refined(hint) ==
  /\ code # NoCode /\ Len(code) < MaxParts
  /\ SetText(Append(code, hint))
  /\ UNCHANGED judged

RefineFails(hint) ==
  /\ code # NoCode /\ Len(code) < MaxParts
  /\ SetFails(Append(code, hint))
  /\ UNCHANGED judged

Within(t, observed, tolerance) ==
  LET diff == Predict(t) - observed
  IN  -tolerance <= diff /\ diff <= tolerance

(* quilt_world_verify: it sets verified to what it found, either way. *)
Verify(observed, tolerance) ==
  /\ code # NoCode
  /\ verified' = Within(code, observed, tolerance)
  /\ judged' = [text |-> code, observed |-> observed, tolerance |-> tolerance]
  /\ UNCHANGED <<code, code_cap, prev_text_hash, text_hash, bound, failed>>

(* quilt_world_program_free keeps the hashes and the verdict. *)
FreeProgram ==
  /\ code' = NoCode /\ code_cap' = 0
  /\ UNCHANGED <<prev_text_hash, text_hash, verified, bound, failed, judged>>

(* quilt_world_program_init of a program that owns no buffer. *)
InitProgram ==
  /\ code = NoCode
  /\ code' = NoCode /\ code_cap' = 0
  /\ prev_text_hash' = NoHash /\ text_hash' = NoHash /\ verified' = FALSE
  /\ bound' = <<NoHash, NoHash>> /\ failed' = FALSE
  /\ judged' = NoVerdict

WorldNext ==
  \/ \E c \in Code : Propose(c)
  \/ \E h \in Hint : Refined(h)
  \/ \E h \in Hint : RefineFails(h)
  \/ \E observed \in Observed, tolerance \in Tolerance : Verify(observed, tolerance)
  \/ FreeProgram
  \/ InitProgram

WorldSpec == WorldInit /\ [][WorldNext]_worldVars

-----------------------------------------------------------------------------
(* The hashes chain the texts that were set, also across a free: text_hash  *)
(* is the last one's, prev_text_hash the one's before it, or the last       *)
(* one's too when a later set failed for lack of memory.                   *)
ChainFollowsTexts ==
  /\ text_hash = bound[2]
  /\ prev_text_hash = IF failed THEN bound[2] ELSE bound[1]
  /\ code # NoCode => text_hash = code

(* A text counts as verified only if the last verify judged this very text  *)
(* and its prediction was within tolerance: no proposal, refinement, failed *)
(* allocation or free in between passes a verdict on to another text.       *)
VerdictIsAboutTheText ==
  verified =>
    /\ judged.text = text_hash
    /\ Within(judged.text, judged.observed, judged.tolerance)
=============================================================================
