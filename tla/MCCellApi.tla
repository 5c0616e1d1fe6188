----------------------------- MODULE MCCellApi ------------------------------
(* CellApi.tla at model-checking size.  Addresses are only compared. *)
EXTENDS CellApi, TLC

CONSTANTS a, b

Addrs == {a, b}

AddrSymmetry == Permutations(Addrs)

(* No dials; a number at the top; one over it; dials of which one is beyond *)
(* the digest; a text first, and after a number; a negative number that one  *)
(* TICK does not bring up to zero.                                           *)
Lists ==
  {<< >>, <<2, 0>>, <<3>>, <<1, 1, 0>>, <<1, 1, 1>>, <<Text, 1>>, <<1, Text>>,
   <<-2, 0>>}
=============================================================================
