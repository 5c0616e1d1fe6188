------------------------------- MODULE MCQuf --------------------------------
(* Quf.tla at model-checking size. *)
EXTENDS Quf

S(cells, edges, k, proof) == [cells |-> cells, edges |-> edges, k |-> k, proof |-> proof]

(* Empty, edges that end inside a block, a proof that is longer than one.   *)
DefaultK == {S(0, 0, 8, Null), S(2, 2, 8, Null), S(1, 3, 8, 40)}

(* Small and aligned numbers; counts and a k beyond their width, of which   *)
(* 264 is cut to the right k and 256 to none; offsets at the end of the     *)
(* address space, from where a section wraps into the buffer.               *)
Numbers == {0, 1, 264, 384, SizeMod - 32}
=============================================================================
