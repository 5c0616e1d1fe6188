---------------------------- MODULE MCProofAudit ----------------------------
(* ProofAudit.tla at model-checking size: ticks and versions are only       *)
(* compared for equality, so they are symmetric as states and keys are;     *)
(* every append has its tick for its version, a fault may part them.       *)
EXTENDS ProofAudit, TLC

CONSTANTS s1, s2, k1, k2, t1, t2

States == {s1, s2}
Keys == {k1, k2}
Ticks == {t1, t2}
Stamps == {<<t, t>> : t \in Ticks}

AuditSymmetry == Permutations(States) \cup Permutations(Keys) \cup Permutations(Ticks)
=============================================================================
