------------------------------ MODULE Unsigned ------------------------------
(***************************************************************************)
(* Arithmetic of an unsigned C integer that holds the values 0 .. m-1      *)
(* (m = 2^32 for uint32_t, 2^64 for uint64_t).  Sums and differences are   *)
(* written by cases, not with %, so that the provers can reason about them *)
(* for every m.                                                            *)
(***************************************************************************)
EXTENDS Integers

\* a + b on an m-valued unsigned type, for a and b below m.
Plus(a, b, m) == IF a + b < m THEN a + b ELSE a + b - m

\* a - b on an m-valued unsigned type: the distance from b forward to a.
Minus(a, b, m) == IF b <= a THEN a - b ELSE a - b + m
=============================================================================
