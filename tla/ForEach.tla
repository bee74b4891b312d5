------------------------------ MODULE ForEach ------------------------------
(***************************************************************************)
(* UDI_FOR_EACH_ of src/src/UdiDeclare.h: a macro applied to each of its   *)
(* arguments.  The preprocessor has no loop: UDI_FE_n_ expands n arguments *)
(* one after another, and UDI_FE_PICK_ finds the right n by where the      *)
(* arguments push it to.                                                   *)
(***************************************************************************)
EXTENDS Naturals, Sequences

CONSTANT MaxArgs   \* the most arguments it takes (32)

\* UDI_FE_PICK_(args..., FE_32, ..., FE_1, FE_NONE): its parameter NAME,
\* the one after the first MaxArgs.
Picked(args) == (args \o [i \in 1 .. MaxArgs + 1 |-> MaxArgs + 1 - i])[MaxArgs + 1]

\* UDI_FE_n_: M, a function of what an argument can be, for each of the args.
UDI_FOR_EACH(M, args) == [i \in 1 .. Picked(args) |-> M[args[i]]]
=============================================================================
