---------------------------- MODULE NullPointer ----------------------------
(* nullptr, the same value for a pointer of any type.                      *)
CONSTANT Null
=============================================================================
