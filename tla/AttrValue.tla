----------------------------- MODULE AttrValue -----------------------------
(***************************************************************************)
(* What a write makes of a value (src/src/UdiAttr.h, with the types of     *)
(* src/src/Attr.h): UpdateValue() converts to the attribute's own type,    *)
(* then the attribute's link hooks run, and a linked attribute is updated  *)
(* from this one.  Here a chain of attributes of any types is linked one   *)
(* to the next, and a value is written at its head.                        *)
(*                                                                         *)
(* Integer types have M8 < M16 < M32 values.  A real is counted in halves, *)
(* so 2 * n is the whole number n; a float holds fewer digits than a       *)
(* double.  A text is one value: its characters are in AttrText.           *)
(***************************************************************************)
EXTENDS Integers, Sequences

CONSTANTS
  M8, M16, M32,   \* numbers of values of the integer types
  FloatExact,     \* halves a float tells apart: -FloatExact .. FloatExact
  Length,         \* attributes in the chain
  Reals,          \* the reals written, in halves
  Texts           \* the texts written

\* What the sizes of C's integers and the choices of a caller are.
ValueAssumption ==
  /\ {M8, M16, M32, Length} \subseteq Nat \ {0}
  /\ \A m \in {M8, M16, M32} : m % 2 = 0
  /\ 2 * M8 <= M16 /\ 2 * M16 <= M32
  /\ FloatExact \in Nat
  /\ Reals \subseteq Int

\* The text of a numeric attribute, and of a text one that was never written.
NoText == ""

IntTypes  == {"U8", "I8", "U16", "I16", "U32", "I32"}
RealTypes == {"F32", "F64"}
Types     == IntTypes \cup RealTypes \cup {"BOOL", "STR"}

attrTypeIsReal(t)   == t \in RealTypes
attrTypeIsSigned(t) == t \in {"I8", "I16", "I32"}
attrTypeIsText(t)   == t = "STR"

Width(t) == CASE t \in {"U8", "I8"} -> M8 [] t \in {"U16", "I16"} -> M16 [] OTHER -> M32

\* The bits of n read as a signed, or an unsigned, integer of m values.
AsSigned(n, m) == LET u == n % m IN IF u < m \div 2 THEN u ELSE u - m
AsUnsigned(n, m) == n % m

\* The float nearest to h halves; a tie goes to the even multiple.
Float(h) ==
  LET a == IF h < 0 THEN -h ELSE h
      step == IF a <= FloatExact THEN 1 ELSE IF a <= 2 * FloatExact THEN 2 ELSE 4
      q == a \div step
      twice == 2 * (a % step)
      up == twice > step \/ (twice = step /\ q % 2 = 1)
      r == (IF up THEN q + 1 ELSE q) * step
  IN  IF h < 0 THEN -r ELSE r

\* C's conversion of h halves to a whole number: cut toward zero.
Trunc(h) == IF h >= 0 THEN h \div 2 ELSE -((-h) \div 2)

VARIABLES
  type,    \* the type of each attribute of the chain
  num,     \* value_ of each attribute, a real one in halves
  text,    \* the text of each attribute, NoText for a numeric one
  due,    \* the attribute the running hook writes to, 0 when none runs
  given    \* ghost: the value last written at the head

valueVars == <<type, num, text, due, given>>

Cells == 1 .. Length
Unsigned32 == 0 .. M32 - 1
Signed32 == -(M32 \div 2) .. (M32 \div 2) - 1

\* The numbers an attribute of a type holds.
InType(t, n) ==
  CASE t = "BOOL" -> n \in {0, 1}
    [] t = "STR" -> n = 0
    [] t = "F32" -> Float(n) = n
    [] t = "F64" -> n \in Int
    [] attrTypeIsSigned(t) -> AsSigned(n, Width(t)) = n
    [] OTHER -> AsUnsigned(n, Width(t)) = n

ValueTypeOK ==
  /\ type \in [Cells -> Types]
  /\ \A c \in Cells : InType(type[c], num[c])
  /\ \A c \in Cells : text[c] # NoText => type[c] = "STR"
  /\ due \in 0 .. Length

\* Any chain; every attribute starts at the default 0, or no text.
ValueInit ==
  /\ type \in [Cells -> Types]
  /\ num = [c \in Cells |-> 0]
  /\ text = [c \in Cells |-> NoText]
  /\ due = 0
  /\ given = [kind |-> "none", n |-> 0, t |-> NoText]

-----------------------------------------------------------------------------
\* storeInteger() and storeReal(): the numbers an attribute of type t may
\* hold afterwards (several when the conversion has no defined result).

Integer(t, asSigned, asUnsigned) ==
  CASE t = "BOOL" -> IF asUnsigned # 0 THEN 1 ELSE 0
    [] t = "F32" -> Float(2 * asSigned)
    [] t = "F64" -> 2 * asSigned
    [] attrTypeIsSigned(t) -> AsSigned(asSigned, Width(t))
    [] OTHER -> AsUnsigned(asUnsigned, Width(t))

\* Mutant: every integer is reached through int32_t.
Real_ThroughSigned(t, h) ==
  CASE t = "F32" -> {Float(h)}
    [] t = "F64" -> {h}
    [] t = "BOOL" -> {IF h # 0 THEN 1 ELSE 0}
    [] OTHER ->
         {Integer(t, s, s) : s \in IF Trunc(h) \in Signed32 THEN {Trunc(h)} ELSE Signed32}

\* A real outside the integer's range is undefined in C.
Real(t, h) ==
  CASE t = "F32" -> {Float(h)}
    [] t = "F64" -> {h}
    [] t = "BOOL" -> {IF h # 0 THEN 1 ELSE 0}
    [] attrTypeIsSigned(t) ->
         {Integer(t, s, 0) : s \in IF Trunc(h) \in Signed32 THEN {Trunc(h)} ELSE Signed32}
    [] OTHER ->
         {Integer(t, 0, u) : u \in IF h < 0 THEN {0}
                                   ELSE IF Trunc(h) \in Unsigned32 THEN {Trunc(h)}
                                   ELSE Unsigned32}

\* The value attribute c passes on when another is updated from it, and a
\* value of a C++ type: the same three overloads take them.
ValueOf(c) ==
  IF attrTypeIsText(type[c]) THEN [kind |-> "text", n |-> 0, t |-> text[c]]
  ELSE IF attrTypeIsReal(type[c]) THEN [kind |-> "real", n |-> num[c], t |-> NoText]
  ELSE [kind |-> "int", n |-> num[c], t |-> NoText]

\* UpdateValue() of attribute c: a number does nothing to a text and a text
\* nothing to a number.
Accepts(c, v) == attrTypeIsText(type[c]) <=> v.kind = "text"

Converted(t, v) ==
  CASE v.kind = "text" -> {0}
    [] v.kind = "real" -> Real(t, v.n)
    [] OTHER -> {Integer(t, AsSigned(v.n, M32), AsUnsigned(v.n, M32))}

Stored(c, v) ==
  /\ \E n \in Converted(type[c], v) : num' = [num EXCEPT ![c] = n]
  /\ text' = [text EXCEPT ![c] = v.t]
  /\ due' = IF c < Length THEN c + 1 ELSE 0

UpdateValue(c, v) ==
  IF Accepts(c, v)
    THEN Stored(c, v)
    ELSE UNCHANGED <<num, text>> /\ due' = 0

Inputs ==
  [kind : {"int"}, n : Signed32 \cup Unsigned32, t : {NoText}]
  \cup [kind : {"real"}, n : Reals, t : {NoText}]
  \cup [kind : {"text"}, n : {0}, t : Texts]

WriteValue(v) ==
  /\ due = 0 /\ given.kind = "none"
  /\ given' = v
  /\ UpdateValue(1, v)
  /\ UNCHANGED type

\* The hook that links attribute `due` to the one before it.
Hook ==
  /\ due # 0
  /\ UpdateValue(due, ValueOf(due - 1))
  /\ UNCHANGED <<type, given>>

\* Another write, to another chain of the same shape.
Renew ==
  /\ due = 0 /\ given.kind # "none"
  /\ num' = [c \in Cells |-> 0]
  /\ text' = [c \in Cells |-> NoText]
  /\ given' = [kind |-> "none", n |-> 0, t |-> NoText]
  /\ UNCHANGED <<type, due>>

ValueNext == (\E v \in Inputs : WriteValue(v)) \/ Hook \/ Renew

ValueSpec == ValueInit /\ [][ValueNext]_valueVars

\* Get(): any attribute as an int32_t (where the conversion is defined).
Get(c) ==
  CASE attrTypeIsSigned(type[c]) -> num[c]
    [] attrTypeIsReal(type[c]) -> Trunc(num[c])
    [] attrTypeIsText(type[c]) -> 0
    [] OTHER -> AsSigned(num[c], M32)

\* GetFloat(), in halves.
GetFloat(c) ==
  CASE attrTypeIsText(type[c]) -> 0
    [] attrTypeIsReal(type[c]) -> num[c]
    [] OTHER -> 2 * num[c]

-----------------------------------------------------------------------------
(* Properties                                                              *)

AtRest == due = 0 /\ given.kind # "none"
\* The number written, in halves, and whether a type holds it as it is.
Halves == IF given.kind = "int" THEN 2 * given.n ELSE given.n
Holds(t) ==
  CASE attrTypeIsReal(t) -> InType(t, Halves)
    [] t \in IntTypes \cup {"BOOL"} -> Halves % 2 = 0 /\ InType(t, Halves \div 2)
    [] OTHER -> FALSE

\* A large unsigned number reaches a real attribute: known not to survive.
BigIntoReal ==
  \E c \in Cells : /\ attrTypeIsReal(type[c])
                   /\ IF c = 1 THEN given.kind = "int" ELSE type[c - 1] = "U32"
                   /\ Halves >= M32
NumberArrives ==
  AtRest /\ given.kind # "text" /\ (\A d \in Cells : Holds(type[d])) =>
    (\A c \in Cells : GetFloat(c) = Halves)

\* "UpdateValue(), which converts to the attribute's own type": a number
\* that every attribute of a chain of links can hold arrives unchanged at
\* its end, whatever types it went through (an unsigned number above
\* INT32_MAX that meets a real attribute apart).
NumberSurvivesLinks == ~BigIntoReal => NumberArrives

\* The same without the exception.
EveryNumberSurvivesLinks == NumberArrives

\* Get() of an integer attribute loses nothing, although it is signed:
\* writing it back, as a device does that counts or masks, keeps the value
\* (SolenoidDevice casts its limit back to uint32_t so).
GetWritesBack ==
  \A c \in Cells : type[c] \in IntTypes =>
    /\ Integer(type[c], Get(c), AsUnsigned(Get(c), M32)) = num[c]
    /\ type[c] = "U32" => AsUnsigned(Get(c), M32) = num[c]

\* Every attribute holds a number of its type; one that every attribute of a
\* chain can hold arrives at its end, and Get() of an integer loses nothing.
NumbersArrive == ValueTypeOK /\ NumberSurvivesLinks /\ GetWritesBack
=============================================================================
