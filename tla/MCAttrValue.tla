---------------------------- MODULE MCAttrValue ----------------------------
(***************************************************************************)
(* AttrValue for TLC: integers of 2, 3 and 4 bits, floats exact up to 4, a *)
(* chain of two attributes, and reals around every boundary.               *)
(***************************************************************************)
EXTENDS AttrValue

MCM8 == 4
MCM16 == 8
MCM32 == 16
MCFloatExact == 8
MCTwo == 2
MCReals == (-18 .. 18) \cup {31, 32, 33, -40, 70}
MCTexts == {"", "a"}
=============================================================================
