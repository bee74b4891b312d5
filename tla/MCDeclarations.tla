--------------------------- MODULE MCDeclarations ---------------------------
(***************************************************************************)
(* Declarations for TLC: one of every kind that behaves differently, one   *)
(* that gets past the checks of a name, and all that is refused.           *)
(***************************************************************************)
EXTENDS Declarations

Decl(macro, prefix, name, unit, flags) ==
  [macro |-> macro, prefix |-> prefix, name |-> name, unit |-> unit, given |-> flags]
Text(macro, prefix, name, capacity, length) ==
  [macro |-> macro, prefix |-> prefix, name |-> name, capacity |-> capacity, length |-> length]

MCDecls == {
  Decl("UDI_R", "r", "Position", "symbol", {}),
  Decl("UDI_W", "w", "Target", "mm", {"MIN", "MAX"}),
  Text("UDI_SETUP_STR_CB", "cnf", "Label", 3, 3),
  Text("UDI_R_STR", "r", "State", 2, 0),
  Decl("UDI_OUT", "io", "Current", "A", {"DEFAULT"}),
  Decl("UDI_CHILD", "", "left", "", {}),
  Decl("UDI_CHILD_OWN_NAME", "", "app", "", {}),
  Decl("UDI_R", "w", "Misnamed", "", {}),
  Decl("UDI_R", "r", "State", "", {}),
  Decl("UDI_IN", "io", "Braces", "bad", {}),
  Text("UDI_W_STR", "w", "Empty", 0, 0),
  Text("UDI_IN_STR", "io", "Long", 4, 1),
  Text("UDI_OUT_STR", "io", "Tight", 2, 3) }
MCUnitMounts == {"linear", "rotary", "other"}
MCChosen(m, unit) ==
  CASE m = "linear" -> "mm" [] m = "rotary" -> "rad" [] OTHER -> ""
=============================================================================
