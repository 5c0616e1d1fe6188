------------------------------ MODULE QufDial -------------------------------
(***************************************************************************)
(* Dials, the cell values of a QUF snapshot (src/quf.c): the conversions   *)
(* between a cell's value and a 16-bit row.                                *)
(*                                                                         *)
(* A FLOAT is its number of steps of 1 / (2 * Half); NAN is the FLOAT that *)
(* is no number.  A STR is whether its pointer is set.  The q1515 half of a *)
(* row is left out: it is written, and nothing reads it.                   *)
(***************************************************************************)
EXTENDS Integers

CONSTANT Half      \* 32768: one in Q1.15, half the range of 16 bits

ASSUME DialAssumption == Half \in Nat \ {0}

Int16 == -Half .. Half - 1

DialValue == [t : {"NULL", "NAN"}, u : {0}] \cup [t : {"BOOL", "STR"}, u : {0, 1}]
               \cup [t : {"INT", "FLOAT"}, u : Int]

-----------------------------------------------------------------------------
Signed16(i) == ((i + Half) % (2 * Half)) - Half

Toward0(n, d) == IF n >= 0 THEN n \div d ELSE -((-n) \div d)

(* A mutated form of the next definition: the lower limit is missing. *)
Unclamped(f) == IF f >= 2 * Half THEN Int16 ELSE {Signed16(Toward0(f, 2))}

(* to_q115: f is cut off at -1 and 1; one itself does not fit 16 bits, and  *)
(* what the conversion then gives is undefined.                            *)
ToQ115(f) ==
  IF f >= 2 * Half THEN Int16
  ELSE IF f < -2 * Half THEN {-Half} ELSE {Toward0(f, 2)}

FromQ115(q) == 2 * q

(* quilt_quf_dial_from_value: the rows a value may be saved as; what the    *)
(* conversion makes of a NaN is undefined.                                 *)
DialFromValue(v) ==
  CASE v.t = "BOOL"  -> {[tag |-> "BOOL", i16 |-> v.u]}
    [] v.t = "INT"   -> {[tag |-> "INT", i16 |-> Signed16(v.u)]}
    [] v.t = "FLOAT" -> {[tag |-> "FLOAT", i16 |-> q] : q \in ToQ115(v.u)}
    [] v.t = "NAN"   -> {[tag |-> "FLOAT", i16 |-> q] : q \in Int16}
    [] OTHER         -> {[tag |-> v.t, i16 |-> 0]}

(* quilt_quf_dial_to_value; a STR comes back with a NULL pointer. *)
DialToValue(r) ==
  CASE r.tag = "BOOL"  -> [t |-> r.tag, u |-> IF r.i16 # 0 THEN 1 ELSE 0]
    [] r.tag = "FLOAT" -> [t |-> r.tag, u |-> FromQ115(r.i16)]
    [] OTHER             -> [t |-> r.tag, u |-> r.i16]

(* What fits 16 bits comes back: a FLOAT below one within one step of       *)
(* Q1.15 toward zero, or at minus one when it was less.  The text of a STR  *)
(* does not.                                                               *)
Restored(old, new) ==
  /\ new.t = IF old.t = "NAN" THEN "FLOAT" ELSE old.t
  /\ old.t = "BOOL" => new.u = old.u
  /\ old.t = "INT" /\ old.u \in Int16 => new.u = old.u
  /\ old.t = "FLOAT" /\ old.u \in -2 * Half .. 2 * Half - 1 =>
       (IF old.u < 0 THEN new.u - old.u ELSE old.u - new.u) \in {0, 1}
  /\ old.t = "FLOAT" /\ old.u < -2 * Half => new.u = -2 * Half
=============================================================================
