----------------------------- MODULE AttrProofs -----------------------------
(***************************************************************************)
(* What a number becomes on its way through a chain of attributes, for     *)
(* every width of the integer types, every precision of the floats, every  *)
(* chain and every real written; what becomes of a text, for every         *)
(* capacity; and what is taken out of a text: its fields, the unit it is,  *)
(* the entries of an enumeration.                                          *)
(*                                                                         *)
(* Last, the chains of link hooks and the walks over them, for any number  *)
(* of attributes and hooks and any links that form trees: the pointers are *)
(* related to a list of hooks for every attribute, what add and remove do  *)
(* to them is what they do to a list, and a walk is a position in one.     *)
(***************************************************************************)
EXTENDS LinkHooks, AttrValue, AttrText, FiniteSetTheorems, SequenceTheorems, WellFoundedInduction, TLAPS

-----------------------------------------------------------------------------
(* The conversions                                                         *)

\* An unsigned integer of m values holds 0 .. m-1 and nothing else.
LEMMA UnsignedRange ==
  ASSUME NEW m \in Nat \ {0}, NEW n \in Int
  PROVE  /\ AsUnsigned(n, m) \in 0 .. m - 1
         /\ n \in 0 .. m - 1 => AsUnsigned(n, m) = n
<1>1. n % m \in 0 .. m - 1
  BY SMT
<1>2. n \in 0 .. m - 1 => n % m = n
  BY SMT
<1> QED BY <1>1, <1>2 DEF AsUnsigned

\* A signed one holds the lower half and the negatives.
LEMMA SignedRange ==
  ASSUME NEW k \in Nat \ {0}, NEW m, m = 2 * k, NEW n \in Int
  PROVE  /\ AsSigned(n, m) \in -k .. k - 1
         /\ n \in -k .. k - 1 => AsSigned(n, m) = n
<1>1. m \in Nat \ {0} /\ m \div 2 = k
  BY SMT
<1>2. n % m \in 0 .. m - 1
  BY <1>1, SMT
<1>3. n \in 0 .. m - 1 => n % m = n
  BY <1>1, SMT
<1>4. n \in -m .. -1 => n % m = n + m
  BY <1>1, SMT
<1> DEFINE u == n % m
<1> HIDE DEF u
<1>5. (IF u < k THEN u ELSE u - m) \in -k .. k - 1
  BY <1>2, SMT DEF u
<1>6. n \in -k .. k - 1 => (IF u < k THEN u ELSE u - m) = n
  BY <1>1, <1>3, <1>4, SMT DEF u
<1> QED BY <1>1, <1>5, <1>6 DEF AsSigned, u

\* Going through the other sign and back loses nothing.
LEMMA SignedAndBack ==
  ASSUME NEW k \in Nat \ {0}, NEW m, m = 2 * k, NEW n \in 0 .. m - 1
  PROVE  AsUnsigned(AsSigned(n, m), m) = n
<1>1. m \in Nat \ {0} /\ m \div 2 = k
  BY SMT
<1>2. n % m = n
  BY <1>1, SMT
<1>3. CASE n < k
  BY <1>1, <1>2, <1>3, SMT DEF AsSigned, AsUnsigned
<1>4. CASE ~(n < k)
  <2>1. AsSigned(n, m) = n - m
    BY <1>1, <1>2, <1>4, SMT DEF AsSigned
  <2>2. n - m \in -m .. -1
    BY <1>1, <1>4, SMT
  <2>3. (n - m) % m = n - m + m
    BY <1>1, <2>2, SMT
  <2> QED BY <1>1, <2>1, <2>3, SMT DEF AsUnsigned
<1> QED BY <1>3, <1>4

\* To the nearest multiple of `step`, a tie to the even one.
Rounded(a, step) ==
  LET q == a \div step
      twice == 2 * (a % step)
      up == twice > step \/ (twice = step /\ q % 2 = 1)
  IN  (IF up THEN q + 1 ELSE q) * step

Step(a) == IF a <= FloatExact THEN 1 ELSE IF a <= 2 * FloatExact THEN 2 ELSE 4

\* The rounding of a magnitude is a multiple of its step, and it is no
\* further away than half of one.
LEMMA RoundedNear ==
  ASSUME NEW a \in Nat, NEW step \in {1, 2, 4}
  PROVE  /\ Rounded(a, step) \in Nat
         /\ Rounded(a, step) % step = 0
         /\ 2 * Rounded(a, step) <= 2 * a + step
         /\ 2 * a - step <= 2 * Rounded(a, step)
         /\ a % step = 0 => Rounded(a, step) = a
<1>1. CASE step = 1
  BY <1>1, SMT DEF Rounded
<1>2. CASE step = 2
  BY <1>2, SMT DEF Rounded
<1>3. CASE step = 4
  BY <1>3, SMT DEF Rounded
<1> QED BY <1>1, <1>2, <1>3

\* Float() in these terms.
LEMMA FloatIsRounded ==
  ASSUME NEW h \in Int
  PROVE  Float(h) = IF h < 0 THEN -Rounded(-h, Step(-h)) ELSE Rounded(h, Step(h))
  BY DEF Float, Rounded, Step

\* The floats are the fixed points of rounding: once is enough.
LEMMA RoundedTwice ==
  ASSUME FloatExact \in Nat, NEW a \in Nat
  PROVE  LET r == Rounded(a, Step(a)) IN r \in Nat /\ Rounded(r, Step(r)) = r
<1> DEFINE r == Rounded(a, Step(a))
<1>1. Step(a) \in {1, 2, 4}
  BY DEF Step
<1>2. /\ r \in Nat
      /\ r % Step(a) = 0
      /\ 2 * r <= 2 * a + Step(a)
      /\ 2 * a - Step(a) <= 2 * r
  BY <1>1, RoundedNear
<1> HIDE DEF r
<1>3. Step(r) \in {1, 2, 4} /\ r % Step(r) = 0
  BY <1>2, SMT DEF Step
<1>4. Rounded(r, Step(r)) = r
  BY <1>2, <1>3, RoundedNear
<1> QED BY <1>2, <1>4 DEF r

\* A float is a float.
LEMMA FloatTwice ==
  ASSUME FloatExact \in Nat, NEW h \in Int
  PROVE  Float(h) \in Int /\ Float(Float(h)) = Float(h)
<1>1. CASE h >= 0
  BY <1>1, RoundedTwice, FloatIsRounded
<1>2. CASE h < 0
  <2> DEFINE r == Rounded(-h, Step(-h))
  <2>1. r \in Nat /\ Rounded(r, Step(r)) = r
    BY <1>2, RoundedTwice
  <2>2. Float(h) = -r
    BY <1>2, FloatIsRounded
  <2>3. Rounded(0, Step(0)) = 0
    BY RoundedNear, SMT DEF Step
  <2> HIDE DEF r
  <2>4. Float(-r) = -r
    BY <2>1, <2>3, FloatIsRounded
  <2> QED BY <2>1, <2>2, <2>4
<1> QED BY <1>1, <1>2

-----------------------------------------------------------------------------
(* One conversion                                                          *)

\* Holds() of a number given in halves.
Fits(t, h) ==
  CASE attrTypeIsReal(t) -> InType(t, h)
    [] t \in IntTypes \cup {"BOOL"} -> h % 2 = 0 /\ InType(t, h \div 2)
    [] OTHER -> FALSE

\* GetFloat() of an attribute of type t that holds n.
AsHalves(t, n) ==
  CASE attrTypeIsText(t) -> 0
    [] attrTypeIsReal(t) -> n
    [] OTHER -> 2 * n

\* The numbers of an integer type, as an interval.
Interval(t) ==
  IF attrTypeIsSigned(t) THEN -(Width(t) \div 2) .. (Width(t) \div 2) - 1
                         ELSE 0 .. Width(t) - 1

\* The widths are even, and each is no more than half of the next.
LEMMA Widths ==
  ASSUME ValueAssumption
  PROVE  /\ M8 \in Nat \ {0} /\ M16 \in Nat \ {0} /\ M32 \in Nat \ {0}
         /\ M8 \div 2 \in Nat \ {0} /\ M8 = 2 * (M8 \div 2)
         /\ M16 \div 2 \in Nat \ {0} /\ M16 = 2 * (M16 \div 2)
         /\ M32 \div 2 \in Nat \ {0} /\ M32 = 2 * (M32 \div 2)
         /\ M8 <= M16 \div 2 /\ M16 <= M32 \div 2
<1>1. /\ M8 \in Nat \ {0} /\ M16 \in Nat \ {0} /\ M32 \in Nat \ {0}
      /\ M8 % 2 = 0 /\ M16 % 2 = 0 /\ M32 % 2 = 0
      /\ 2 * M8 <= M16 /\ 2 * M16 <= M32
  BY DEF ValueAssumption
<1> QED BY <1>1, SMT

\* The width of a type is one of them.
LEMMA WidthOf ==
  ASSUME ValueAssumption, NEW t \in Types
  PROVE  /\ Width(t) \in Nat \ {0}
         /\ Width(t) \div 2 \in Nat \ {0} /\ Width(t) = 2 * (Width(t) \div 2)
         /\ Width(t) <= M32
         /\ t \in IntTypes /\ ~attrTypeIsSigned(t) /\ t # "U32" => Width(t) <= M32 \div 2
<1>1. Width(t) \in {M8, M16, M32}
  BY DEF Width
<1>2. t \in IntTypes /\ ~attrTypeIsSigned(t) /\ t # "U32" => Width(t) \in {M8, M16}
  BY DEF Width, attrTypeIsSigned, IntTypes
<1> QED BY <1>1, <1>2, Widths

\* What an integer type holds is its interval, and its conversion to
\* itself changes nothing and lands there.
LEMMA IntegerTypes ==
  ASSUME ValueAssumption, NEW t \in IntTypes, NEW n \in Int
  PROVE  /\ InType(t, n) <=> n \in Interval(t)
         /\ attrTypeIsSigned(t) => AsSigned(n, Width(t)) \in Interval(t)
         /\ ~attrTypeIsSigned(t) => AsUnsigned(n, Width(t)) \in Interval(t)
         /\ Interval(t) \subseteq Signed32 \cup Unsigned32
         /\ attrTypeIsSigned(t) => Interval(t) \subseteq Signed32
         /\ ~attrTypeIsSigned(t) => Interval(t) \subseteq Unsigned32
         /\ ~attrTypeIsSigned(t) /\ t # "U32" => Interval(t) \subseteq Signed32
<1> DEFINE w == Width(t)
           k == Width(t) \div 2
<1>1. /\ w \in Nat \ {0} /\ k \in Nat \ {0} /\ w = 2 * k
      /\ w <= M32
      /\ ~attrTypeIsSigned(t) /\ t # "U32" => w <= M32 \div 2
      /\ M32 \in Nat \ {0} /\ M32 \div 2 \in Nat \ {0} /\ M32 = 2 * (M32 \div 2)
  BY WidthOf, Widths DEF Types
<1>2. InType(t, n) <=> IF attrTypeIsSigned(t) THEN AsSigned(n, w) = n ELSE AsUnsigned(n, w) = n
  BY DEF InType, IntTypes
<1>3. Interval(t) = IF attrTypeIsSigned(t) THEN -k .. k - 1 ELSE 0 .. w - 1
  BY DEF Interval
<1> HIDE DEF w, k
<1>4. /\ AsSigned(n, w) \in -k .. k - 1
      /\ n \in -k .. k - 1 => AsSigned(n, w) = n
  BY <1>1, SignedRange
<1>5. /\ AsUnsigned(n, w) \in 0 .. w - 1
      /\ n \in 0 .. w - 1 => AsUnsigned(n, w) = n
  BY <1>1, UnsignedRange
<1>6. InType(t, n) <=> n \in Interval(t)
  BY <1>2, <1>3, <1>4, <1>5
<1>7. attrTypeIsSigned(t) => Interval(t) \subseteq Signed32
  BY <1>1, <1>3 DEF Signed32
<1>8. ~attrTypeIsSigned(t) => Interval(t) \subseteq Unsigned32
  BY <1>1, <1>3 DEF Unsigned32
<1>9. ~attrTypeIsSigned(t) /\ t # "U32" => Interval(t) \subseteq Signed32
  BY <1>1, <1>3 DEF Signed32
<1> QED BY <1>3, <1>4, <1>5, <1>6, <1>7, <1>8, <1>9, Zenon DEF w, k

\* storeInteger() of a number the attribute holds.
LEMMA IntegerArrives ==
  ASSUME ValueAssumption, NEW t \in Types, NEW n \in Signed32 \cup Unsigned32,
         Fits(t, 2 * n), attrTypeIsReal(t) => 2 * n < M32
  PROVE  AsHalves(t, Integer(t, AsSigned(n, M32), AsUnsigned(n, M32))) = 2 * n
<1>1. /\ M32 \in Nat \ {0} /\ M32 \div 2 \in Nat \ {0} /\ M32 = 2 * (M32 \div 2)
      /\ n \in Int
  BY Widths DEF Signed32, Unsigned32
<1>2. n \in Signed32 => AsSigned(n, M32) = n
  BY <1>1, SignedRange DEF Signed32
<1>3. n \in Unsigned32 => AsUnsigned(n, M32) = n
  BY <1>1, UnsignedRange DEF Unsigned32
<1>4. (2 * n) % 2 = 0 /\ (2 * n) \div 2 = n
  BY <1>1, SMT
<1>5. CASE t \in RealTypes
  <2>1. n \in Signed32
    BY <1>1, <1>5 DEF Signed32, Unsigned32, attrTypeIsReal
  <2>2. CASE t = "F32"
    <3>1. Float(2 * n) = 2 * n
      BY <2>2 DEF Fits, InType, attrTypeIsReal, RealTypes, IntTypes, attrTypeIsSigned
    <3>2. Integer(t, AsSigned(n, M32), AsUnsigned(n, M32)) = Float(2 * n)
      BY <1>2, <2>1, <2>2 DEF Integer, attrTypeIsSigned
    <3> QED BY <2>2, <3>1, <3>2 DEF AsHalves, attrTypeIsReal, attrTypeIsText, RealTypes
  <2>3. CASE t = "F64"
    <3>1. Integer(t, AsSigned(n, M32), AsUnsigned(n, M32)) = 2 * n
      BY <1>2, <2>1, <2>3 DEF Integer, attrTypeIsSigned
    <3> QED BY <2>3, <3>1 DEF AsHalves, attrTypeIsReal, attrTypeIsText, RealTypes
  <2> QED BY <1>5, <2>2, <2>3 DEF RealTypes
<1>6. CASE t = "BOOL"
  <2>1. n \in {0, 1}
    BY <1>4, <1>6 DEF Fits, InType, attrTypeIsReal, RealTypes, attrTypeIsSigned
  <2>2. n \in Unsigned32
    BY <1>1, <2>1 DEF Unsigned32
  <2>3. Integer(t, AsSigned(n, M32), AsUnsigned(n, M32)) = n
    BY <1>3, <1>6, <2>1, <2>2 DEF Integer, attrTypeIsSigned
  <2> QED BY <1>6, <2>3 DEF AsHalves, attrTypeIsReal, attrTypeIsText, RealTypes
<1>7. CASE t \in IntTypes
  <2>1. InType(t, n)
    BY <1>4, <1>7 DEF Fits, attrTypeIsReal, RealTypes, IntTypes
  <2>2. n \in Interval(t)
    BY <1>1, <1>7, <2>1, IntegerTypes
  <2>3. CASE attrTypeIsSigned(t)
    <3>1. n \in Signed32 /\ AsSigned(n, Width(t)) = n
      BY <1>1, <1>7, <2>1, <2>2, <2>3, IntegerTypes DEF InType, IntTypes, attrTypeIsSigned
    <3>2. Integer(t, AsSigned(n, M32), AsUnsigned(n, M32)) = n
      BY <1>2, <1>7, <2>3, <3>1 DEF Integer, IntTypes, attrTypeIsSigned
    <3> QED BY <1>7, <3>2 DEF AsHalves, attrTypeIsReal, attrTypeIsText, RealTypes, IntTypes
  <2>4. CASE ~attrTypeIsSigned(t)
    <3>1. n \in Unsigned32 /\ AsUnsigned(n, Width(t)) = n
      BY <1>1, <1>7, <2>1, <2>2, <2>4, IntegerTypes DEF InType, IntTypes, attrTypeIsSigned
    <3>2. Integer(t, AsSigned(n, M32), AsUnsigned(n, M32)) = n
      BY <1>3, <1>7, <2>4, <3>1 DEF Integer, IntTypes, attrTypeIsSigned
    <3> QED BY <1>7, <3>2 DEF AsHalves, attrTypeIsReal, attrTypeIsText, RealTypes, IntTypes
  <2> QED BY <2>3, <2>4
<1>8. t # "STR"
  BY DEF Fits, attrTypeIsReal, RealTypes, IntTypes
<1> QED BY <1>5, <1>6, <1>7, <1>8 DEF Types

\* A whole number of halves is cut to itself.
LEMMA WholeIsKept ==
  ASSUME NEW h \in Int, h % 2 = 0
  PROVE  Trunc(h) = h \div 2 /\ h = 2 * (h \div 2) /\ h \div 2 \in Int
  BY SMT DEF Trunc

\* storeReal() of a number the attribute holds: the conversion is defined.
LEMMA RealArrives ==
  ASSUME ValueAssumption, NEW t \in Types, NEW h \in Int, Fits(t, h), NEW n \in Real(t, h)
  PROVE  AsHalves(t, n) = h
<1>1. CASE t = "F32"
  BY <1>1 DEF Real, Fits, InType, AsHalves, attrTypeIsReal, attrTypeIsText, RealTypes, IntTypes, attrTypeIsSigned
<1>2. CASE t = "F64"
  BY <1>2 DEF Real, AsHalves, attrTypeIsReal, attrTypeIsText, RealTypes, attrTypeIsSigned
<1>3. CASE t = "BOOL"
  <2>1. h % 2 = 0 /\ h \div 2 \in {0, 1}
    BY <1>3 DEF Fits, InType, attrTypeIsReal, RealTypes, attrTypeIsSigned
  <2>2. n = IF h # 0 THEN 1 ELSE 0
    BY <1>3 DEF Real, attrTypeIsSigned
  <2>3. 2 * n = h
    BY <2>1, <2>2, WholeIsKept
  <2> QED BY <1>3, <2>3 DEF AsHalves, attrTypeIsReal, attrTypeIsText, RealTypes
<1>4. CASE t \in IntTypes
  <2> DEFINE k == h \div 2
  <2>1. h % 2 = 0 /\ InType(t, k)
    BY <1>4 DEF Fits, attrTypeIsReal, RealTypes, IntTypes
  <2>2. Trunc(h) = k /\ h = 2 * k /\ k \in Int
    BY <2>1, WholeIsKept
  <2> HIDE DEF k
  <2>3. k \in Interval(t)
    BY <1>4, <2>1, <2>2, IntegerTypes
  <2>4. CASE attrTypeIsSigned(t)
    <3>1. k \in Signed32 /\ AsSigned(k, Width(t)) = k
      BY <1>4, <2>1, <2>2, <2>3, <2>4, IntegerTypes DEF InType, IntTypes, attrTypeIsSigned
    <3>2. n = Integer(t, k, 0)
      BY <1>4, <2>2, <2>4, <3>1 DEF Real, IntTypes, attrTypeIsSigned
    <3>3. n = k
      BY <1>4, <2>4, <3>1, <3>2 DEF Integer, IntTypes, attrTypeIsSigned
    <3> QED BY <1>4, <2>2, <3>3 DEF AsHalves, attrTypeIsReal, attrTypeIsText, RealTypes, IntTypes
  <2>5. CASE ~attrTypeIsSigned(t)
    <3>1. k \in Unsigned32 /\ AsUnsigned(k, Width(t)) = k
      BY <1>4, <2>1, <2>2, <2>3, <2>5, IntegerTypes DEF InType, IntTypes, attrTypeIsSigned
    <3>2. h >= 0
      BY <2>2, <3>1, Widths DEF Unsigned32
    <3>3. n = Integer(t, 0, k)
      BY <1>4, <2>2, <2>5, <3>1, <3>2 DEF Real, IntTypes, attrTypeIsSigned
    <3>4. n = k
      BY <1>4, <2>5, <3>1, <3>3 DEF Integer, IntTypes, attrTypeIsSigned
    <3> QED BY <1>4, <2>2, <3>4 DEF AsHalves, attrTypeIsReal, attrTypeIsText, RealTypes, IntTypes
  <2> QED BY <2>4, <2>5
<1>5. t # "STR"
  BY DEF Fits, attrTypeIsReal, RealTypes, IntTypes
<1> QED BY <1>1, <1>2, <1>3, <1>4, <1>5 DEF Types, RealTypes

-----------------------------------------------------------------------------
(* The inductive invariant                                                 *)

\* The texts an attribute may have.
AnyText == Texts \cup {NoText}

\* The values of the variables ValueTypeOK leaves open, and the hook that runs.
Shaped ==
  /\ num \in [Cells -> Int]
  /\ text \in [Cells -> AnyText]
  /\ given \in Inputs \cup {[kind |-> "none", n |-> 0, t |-> NoText]}
  /\ due # 1
  /\ given.kind = "none" => due = 0

\* The value written is a number all attributes of the chain hold.
Possible ==
  /\ given.kind \in {"int", "real"}
  /\ \A d \in Cells : Holds(type[d])
  /\ ~BigIntoReal

\* The attributes the hooks have been through hold it.
SoFar ==
  Possible => \A c \in Cells : due = 0 \/ c < due => GetFloat(c) = Halves

ValueInv == ValueTypeOK /\ Shaped /\ SoFar

\* The names of the statements about one attribute.
LEMMA InHalves ==
  /\ \A t : Holds(t) <=> Fits(t, Halves)
  /\ \A c \in Cells : type[c] \in Types => GetFloat(c) = AsHalves(type[c], num[c])
<1>1. \A t : Holds(t) <=> Fits(t, Halves)
  BY Zenon DEF Holds, Fits
<1>2. \A c \in Cells : type[c] \in Types => GetFloat(c) = AsHalves(type[c], num[c])
  BY DEF GetFloat, AsHalves, attrTypeIsReal, attrTypeIsText, RealTypes, Types
<1> QED BY <1>1, <1>2

\* The values written and passed on.
Passed ==
  [kind : {"int", "real"}, n : Int, t : {NoText}]
  \cup [kind : {"text"}, n : {0}, t : AnyText]

\* An attribute may have no text.
LEMMA SomeTexts == NoText \in AnyText /\ Texts \subseteq AnyText
  BY DEF AnyText

\* A value passed on is a number or a text.
LEMMA PassedShape ==
  ASSUME NEW v \in Passed
  PROVE  /\ v.kind \in {"int", "real", "text"}
         /\ v.n \in Int
         /\ v.t \in AnyText
         /\ v.kind # "text" => v.t = NoText
<1>1. CASE v \in [kind : {"int", "real"}, n : Int, t : {NoText}]
  BY <1>1, SomeTexts
<1>2. CASE v \in [kind : {"text"}, n : {0}, t : AnyText]
  <2>1. v.kind = "text" /\ v.n = 0 /\ v.t \in AnyText
    BY <1>2, Zenon
  <2>2. v.kind \in {"int", "real", "text"} /\ v.n \in Int
    BY <2>1
  <2> QED BY <2>1, <2>2, Zenon
<1> QED BY <1>1, <1>2 DEF Passed

\* What any conversion stores is of the attribute's type.
LEMMA ConvertedInType ==
  ASSUME ValueAssumption, NEW t \in Types, NEW v \in Passed,
         t = "STR" <=> v.kind = "text", NEW n \in Converted(t, v)
  PROVE  n \in Int /\ InType(t, n)
<1> USE DEF attrTypeIsSigned, attrTypeIsReal, IntTypes, RealTypes
<1>0. FloatExact \in Nat /\ M32 \in Nat \ {0} /\ M32 \div 2 \in Nat \ {0} /\ M32 = 2 * (M32 \div 2)
  BY Widths DEF ValueAssumption
<1>00. v.n \in Int /\ v.kind \in {"int", "real", "text"}
  BY PassedShape
<1>1. ASSUME NEW s \in Int, NEW u \in Int, t # "STR"
      PROVE  Integer(t, s, u) \in Int /\ InType(t, Integer(t, s, u))
  <2>1. CASE t = "BOOL"
    BY <2>1 DEF Integer, InType
  <2>2. CASE t = "F32"
    BY <1>0, <2>2, FloatTwice DEF Integer, InType
  <2>3. CASE t = "F64"
    BY <2>3 DEF Integer, InType
  <2>4. CASE t \in IntTypes
    <3>1. /\ attrTypeIsSigned(t) => AsSigned(s, Width(t)) \in Interval(t)
          /\ ~attrTypeIsSigned(t) => AsUnsigned(u, Width(t)) \in Interval(t)
          /\ Interval(t) \subseteq Signed32 \cup Unsigned32
      BY <2>4, IntegerTypes
    <3>2. Integer(t, s, u) = IF attrTypeIsSigned(t) THEN AsSigned(s, Width(t))
                                                    ELSE AsUnsigned(u, Width(t))
      BY <2>4 DEF Integer
    <3>3. Integer(t, s, u) \in Interval(t)
      BY <3>1, <3>2
    <3>4. Integer(t, s, u) \in Int
      BY <1>0, <3>1, <3>3 DEF Signed32, Unsigned32
    <3> QED BY <2>4, <3>3, <3>4, IntegerTypes
  <2> QED BY <1>1, <2>1, <2>2, <2>3, <2>4 DEF Types
<1>2. CASE v.kind = "text"
  BY <1>2 DEF Converted, InType
<1>3. CASE v.kind = "int"
  <2>1. AsSigned(v.n, M32) \in Int /\ AsUnsigned(v.n, M32) \in Int
    <3>1. AsSigned(v.n, M32) \in -(M32 \div 2) .. (M32 \div 2) - 1
      BY <1>0, <1>00, SignedRange
    <3>2. AsUnsigned(v.n, M32) \in 0 .. M32 - 1
      BY <1>0, <1>00, UnsignedRange
    <3> QED BY <1>0, <3>1, <3>2
  <2>2. n = Integer(t, AsSigned(v.n, M32), AsUnsigned(v.n, M32))
    BY <1>3 DEF Converted
  <2> QED BY <1>1, <1>3, <2>1, <2>2
<1>4. CASE v.kind = "real"
  <2>1. n \in Real(t, v.n) /\ t # "STR"
    BY <1>4 DEF Converted
  <2>2. CASE t = "F32"
    BY <1>0, <1>00, <2>1, <2>2, FloatTwice DEF Real, InType
  <2>3. CASE t = "F64"
    BY <1>00, <2>1, <2>3 DEF Real, InType
  <2>4. CASE t = "BOOL"
    BY <2>1, <2>4 DEF Real, InType
  <2>5. CASE t \in IntTypes
    <3>1. Signed32 \subseteq Int /\ Unsigned32 \subseteq Int
      BY <1>0 DEF Signed32, Unsigned32
    <3>2. \E s, u \in Int : n = Integer(t, s, u)
      BY <2>1, <2>5, <3>1 DEF Real
    <3> QED BY <1>1, <2>1, <3>2
  <2> QED BY <2>1, <2>2, <2>3, <2>4, <2>5 DEF Types
<1> QED BY <1>00, <1>2, <1>3, <1>4

\* UpdateValue() of an attribute with a number it holds.
LEMMA NumberArrivesAt ==
  ASSUME ValueAssumption, NEW t \in Types, NEW h \in Int, Fits(t, h), NEW v \in Passed,
         \/ v.kind = "int" /\ v.n \in Signed32 \cup Unsigned32 /\ 2 * v.n = h
         \/ v.kind = "real" /\ v.n = h,
         attrTypeIsReal(t) /\ v.kind = "int" => h < M32,
         NEW n \in Converted(t, v)
  PROVE  AsHalves(t, n) = h
<1>1. CASE v.kind = "int"
  <2>1. n = Integer(t, AsSigned(v.n, M32), AsUnsigned(v.n, M32))
    BY <1>1 DEF Converted
  <2> QED BY <1>1, <2>1, IntegerArrives
<1>2. CASE v.kind = "real"
  <2>1. n \in Real(t, v.n)
    BY <1>2 DEF Converted
  <2> QED BY <1>2, <2>1, RealArrives
<1> QED BY <1>1, <1>2

\* A store keeps the types.
LEMMA StoredKeepsTypes ==
  ASSUME ValueAssumption, ValueTypeOK, Shaped, NEW c \in Cells, NEW v \in Passed,
         Accepts(c, v), Stored(c, v), type' = type
  PROVE  /\ ValueTypeOK'
         /\ num' \in [Cells -> Int] /\ text' \in [Cells -> AnyText]
         /\ due' # 1
         /\ \E n \in Converted(type[c], v) : num' = [num EXCEPT ![c] = n]
<1>1. PICK n \in Converted(type[c], v) : num' = [num EXCEPT ![c] = n]
  BY DEF Stored
<1>2. type[c] \in Types /\ (type[c] = "STR" <=> v.kind = "text")
  BY DEF ValueTypeOK, Accepts, attrTypeIsText
<1>3. n \in Int /\ InType(type[c], n)
  <2>1. \A t \in Types :
          (t = "STR" <=> v.kind = "text") =>
            \A k \in Converted(t, v) : k \in Int /\ InType(t, k)
    BY ConvertedInType
  <2> QED BY <1>1, <1>2, <2>1
<1>4. Length \in Nat /\ c \in 1 .. Length
  BY DEF ValueAssumption, Cells
<1>5. due' \in 0 .. Length /\ due' # 1
  <2>1. due' = IF c < Length THEN c + 1 ELSE 0
    BY Zenon DEF Stored
  <2> QED BY <1>4, <2>1
<1>6. num' \in [Cells -> Int] /\ text' \in [Cells -> AnyText]
  <2>1. text' = [text EXCEPT ![c] = v.t] /\ v.t \in AnyText
    BY PassedShape, Zenon DEF Stored
  <2> QED BY <1>1, <1>3, <2>1 DEF Shaped
<1>7. \A d \in Cells : InType(type'[d], num'[d])
  <2> TAKE d \in Cells
  <2>1. CASE d = c
    BY <1>1, <1>3, <2>1 DEF Shaped
  <2>2. CASE d # c
    BY <1>1, <2>2 DEF Shaped, ValueTypeOK
  <2> QED BY <2>1, <2>2
<1>8. \A d \in Cells : text'[d] # NoText => type'[d] = "STR"
  <2> TAKE d \in Cells
  <2>1. CASE d = c
    <3>1. text'[d] = v.t
      BY <2>1 DEF Shaped, Stored
    <3> QED BY <1>2, <2>1, <3>1, PassedShape
  <2>2. CASE d # c
    BY <2>2 DEF Shaped, ValueTypeOK, Stored
  <2> QED BY <2>1, <2>2
<1>9. type' \in [Cells -> Types] /\ due' \in 0 .. Length
  BY <1>5 DEF ValueTypeOK
<1>10. ValueTypeOK'
  BY <1>7, <1>8, <1>9 DEF ValueTypeOK, Cells, InType, AsSigned, AsUnsigned, Width, Float, attrTypeIsSigned
<1> QED BY <1>1, <1>5, <1>6, <1>10

\* What an attribute passes on is one of those values, and the number it
\* holds.
LEMMA ValueOfPassed ==
  ASSUME ValueTypeOK, Shaped, NEW c \in Cells
  PROVE  /\ ValueOf(c) \in Passed
         /\ ValueOf(c).kind = "text" <=> type[c] = "STR"
         /\ ValueOf(c).kind = "real" <=> type[c] \in RealTypes
         /\ ValueOf(c).kind # "text" => ValueOf(c).n = num[c]
<1>1. num[c] \in Int /\ text[c] \in AnyText /\ type[c] \in Types
  BY DEF Shaped, ValueTypeOK
<1>2. CASE type[c] = "STR"
  <2>1. ValueOf(c) = [kind |-> "text", n |-> 0, t |-> text[c]]
    BY <1>2 DEF ValueOf, attrTypeIsText
  <2>2. ValueOf(c) \in Passed
    BY <1>1, <2>1 DEF Passed
  <2> QED BY <1>2, <2>1, <2>2 DEF RealTypes
<1>3. CASE type[c] \in RealTypes
  <2>1. ValueOf(c) = [kind |-> "real", n |-> num[c], t |-> NoText]
    BY <1>3 DEF ValueOf, attrTypeIsText, attrTypeIsReal, RealTypes
  <2>2. ValueOf(c) \in Passed
    BY <1>1, <2>1 DEF Passed
  <2> QED BY <1>3, <2>1, <2>2 DEF RealTypes
<1>4. CASE type[c] # "STR" /\ type[c] \notin RealTypes
  <2>1. ValueOf(c) = [kind |-> "int", n |-> num[c], t |-> NoText]
    BY <1>4 DEF ValueOf, attrTypeIsText, attrTypeIsReal
  <2>2. ValueOf(c) \in Passed
    BY <1>1, <2>1 DEF Passed
  <2> QED BY <1>4, <2>1, <2>2
<1> QED BY <1>2, <1>3, <1>4

\* A value written is one of those, and its number an int32_t or uint32_t
\* when it is one.
LEMMA InputPassed ==
  ASSUME ValueAssumption, NEW v \in Inputs
  PROVE  /\ v \in Passed
         /\ v.kind = "int" => v.n \in Signed32 \cup Unsigned32
<1>1. Signed32 \cup Unsigned32 \subseteq Int /\ Reals \subseteq Int
  BY Widths DEF ValueAssumption, Signed32, Unsigned32
<1>2. CASE v \in [kind : {"int"}, n : Signed32 \cup Unsigned32, t : {NoText}]
  BY <1>1, <1>2 DEF Passed
<1>3. CASE v \in [kind : {"real"}, n : Reals, t : {NoText}]
  BY <1>1, <1>3 DEF Passed
<1>4. CASE v \in [kind : {"text"}, n : {0}, t : Texts]
  BY <1>4, SomeTexts DEF Passed
<1> QED BY <1>2, <1>3, <1>4 DEF Inputs

\* A number all attributes hold arrives at the next one.
LEMMA StoredArrives ==
  ASSUME ValueAssumption, ValueTypeOK, Shaped, NEW c \in Cells, NEW v \in Passed, NEW h \in Int,
         Fits(type[c], h),
         \/ v.kind = "int" /\ v.n \in Signed32 \cup Unsigned32 /\ 2 * v.n = h
         \/ v.kind = "real" /\ v.n = h,
         attrTypeIsReal(type[c]) /\ v.kind = "int" => h < M32,
         NEW n \in Converted(type[c], v), num' = [num EXCEPT ![c] = n]
  PROVE  /\ AsHalves(type[c], num'[c]) = h
         /\ \A d \in Cells : d # c => num'[d] = num[d]
<1>1. type[c] \in Types
  BY DEF ValueTypeOK
<1>2. AsHalves(type[c], n) = h
  BY <1>1, NumberArrivesAt
<1> QED BY <1>2 DEF Shaped

\* 0 is of every type.
LEMMA ZeroInType ==
  ASSUME ValueAssumption, NEW t \in Types
  PROVE  InType(t, 0)
<1>1. AsSigned(0, Width(t)) = 0 /\ AsUnsigned(0, Width(t)) = 0
  <2>1. Width(t) \in Nat \ {0} /\ Width(t) \div 2 \in Nat \ {0} /\ Width(t) = 2 * (Width(t) \div 2)
    BY WidthOf
  <2>2. AsSigned(0, Width(t)) = 0
    BY <2>1, SignedRange
  <2>3. AsUnsigned(0, Width(t)) = 0
    BY <2>1, UnsignedRange
  <2> QED BY <2>2, <2>3
<1>2. Float(0) = 0
  BY FloatIsRounded, RoundedNear, SMT DEF Step, ValueAssumption
<1> QED BY <1>1, <1>2 DEF InType, Types, IntTypes, RealTypes, attrTypeIsSigned

\* Nothing is written yet.
LEMMA InitValueInv == ValueAssumption /\ ValueInit => ValueInv
<1> SUFFICES ASSUME ValueAssumption, ValueInit PROVE ValueInv
  OBVIOUS
<1>1. ASSUME NEW t \in Types PROVE InType(t, 0)
  BY <1>1, ZeroInType
<1>2. /\ type \in [Cells -> Types]
      /\ num = [c \in Cells |-> 0]
      /\ text = [c \in Cells |-> NoText]
      /\ due = 0
      /\ given = [kind |-> "none", n |-> 0, t |-> NoText]
  BY Zenon DEF ValueInit
<1>3. ValueTypeOK
  BY <1>1, <1>2, SMT DEF ValueTypeOK, ValueAssumption
<1>4. Shaped
  BY <1>2, SomeTexts, SMT DEF Shaped
<1>5. SoFar
  BY <1>2 DEF SoFar, Possible
<1> QED BY <1>3, <1>4, <1>5 DEF ValueInv

\* A value is written at the head of the chain.
LEMMA WriteValueInv ==
  ASSUME ValueAssumption, ValueInv, NEW v \in Inputs, WriteValue(v)
  PROVE  ValueInv'
<1> USE DEF ValueInv
<1>1. 1 \in Cells /\ Length \in Nat
  BY DEF ValueAssumption, Cells
<1>2. v \in Passed /\ (v.kind = "int" => v.n \in Signed32 \cup Unsigned32)
  BY InputPassed
<1>3. due = 0 /\ given' = v /\ type' = type /\ UpdateValue(1, v)
  BY Zenon DEF WriteValue
<1>4. given'.kind # "none" /\ given' \in Inputs
  BY <1>2, <1>3, PassedShape
<1>5. type[1] \in Types
  BY <1>1 DEF ValueTypeOK
<1>6. CASE Accepts(1, v)
  <2>1. Stored(1, v)
    BY <1>3, <1>6 DEF UpdateValue
  <2>2. /\ ValueTypeOK'
        /\ num' \in [Cells -> Int] /\ text' \in [Cells -> AnyText]
        /\ due' # 1
        /\ \E n \in Converted(type[1], v) : num' = [num EXCEPT ![1] = n]
    BY <1>1, <1>2, <1>3, <1>6, <2>1, StoredKeepsTypes
  <2>3. Shaped'
    BY <1>4, <2>2 DEF Shaped, Inputs, Cells, Unsigned32, Signed32, AnyText
  <2>4. ASSUME Possible' PROVE \A c \in Cells : due' = 0 \/ c < due' => GetFloat(c)' = Halves'
    <3> DEFINE h == Halves'
    <3>1. /\ v.kind \in {"int", "real"}
          /\ Holds(type[1])'
          /\ ~BigIntoReal'
      BY <1>1, <1>3, <2>4 DEF Possible, Cells
    <3>2. h = IF v.kind = "int" THEN 2 * v.n ELSE v.n
      BY <1>3 DEF Halves
    <3>3. h \in Int
      BY <1>2, <3>2, PassedShape
    <3>4. Fits(type[1], h)
      BY <1>3, <3>1, Zenon DEF Holds, Fits
    <3>5. attrTypeIsReal(type[1]) /\ v.kind = "int" => h < M32
      <4>1. attrTypeIsReal(type[1]) /\ v.kind = "int" => ~(h >= M32)
        BY <1>1, <1>3, <3>1 DEF BigIntoReal, Cells, attrTypeIsReal
      <4> QED BY <3>3, <4>1, Widths
    <3> HIDE DEF h
    <3>6. PICK n \in Converted(type[1], v) : num' = [num EXCEPT ![1] = n]
      BY <2>2
    <3>7. AsHalves(type[1], num'[1]) = h
      BY <1>1, <1>2, <3>1, <3>2, <3>3, <3>4, <3>5, <3>6, StoredArrives
    <3>8. GetFloat(1)' = h
      BY <1>3, <1>5, <3>7 DEF GetFloat, AsHalves, attrTypeIsReal, attrTypeIsText, RealTypes, Types
    <3>9. \A c \in Cells : due' = 0 \/ c < due' => c = 1
      <4>1. due' = IF 1 < Length THEN 1 + 1 ELSE 0
        BY <2>1, Zenon DEF Stored
      <4> QED BY <1>1, <4>1 DEF Cells
    <3> QED BY <3>8, <3>9 DEF h
  <2> QED BY <2>2, <2>3, <2>4 DEF SoFar, Cells
<1>7. CASE ~Accepts(1, v)
  <2>1. UNCHANGED <<num, text>> /\ due' = 0
    BY <1>3, <1>7 DEF UpdateValue
  <2>2. ValueTypeOK'
    BY <1>3, <2>1, <1>1 DEF ValueTypeOK, Cells, InType, AsSigned, AsUnsigned, Width, Float, attrTypeIsSigned
  <2>3. Shaped'
    BY <1>4, <2>1 DEF Shaped, Inputs, Cells, Unsigned32, Signed32, AnyText
  <2>4. ~Possible'
    <3>1. SUFFICES ASSUME Possible' PROVE FALSE
      OBVIOUS
    <3>2. v.kind \in {"int", "real"} /\ Holds(type[1])'
      BY <1>1, <1>3, <3>1 DEF Possible, Cells
    <3>3. type[1] = "STR"
      BY <1>7, <3>2 DEF Accepts, attrTypeIsText
    <3> QED BY <1>3, <3>2, <3>3 DEF Holds, attrTypeIsReal, RealTypes, IntTypes
  <2> QED BY <2>2, <2>3, <2>4 DEF SoFar
<1> QED BY <1>6, <1>7

\* A hook passes the value of one attribute on to the next.
LEMMA HookValueInv ==
  ASSUME ValueAssumption, ValueInv, Hook
  PROVE  ValueInv'
<1> USE DEF ValueInv
<1> DEFINE b == due - 1
           v == ValueOf(b)
<1>1. /\ due # 0 /\ UpdateValue(due, v)
      /\ type' = type /\ given' = given
  BY Zenon DEF Hook
<1>2. Length \in Nat /\ due \in Cells /\ b \in Cells /\ b < due /\ due \in Int /\ due = b + 1
  BY <1>1 DEF ValueAssumption, Cells, ValueTypeOK, Shaped
<1>3. /\ v \in Passed
      /\ v.kind = "text" <=> type[b] = "STR"
      /\ v.kind = "real" <=> type[b] \in RealTypes
      /\ v.kind # "text" => v.n = num[b]
  BY <1>2, ValueOfPassed
<1>4. type[due] \in Types /\ type[b] \in Types /\ num[b] \in Int
  BY <1>2 DEF ValueTypeOK, Shaped
<1>5. given.kind # "none"
  BY <1>1 DEF Shaped
<1> HIDE DEF v, b
<1>6. ASSUME Possible
      PROVE  /\ Halves \in Int
             /\ AsHalves(type[b], num[b]) = Halves
             /\ type[due] # "STR" /\ type[b] # "STR"
             /\ Fits(type[due], Halves)
             /\ Holds(type[b])
  <2>1. Holds(type[b]) /\ Holds(type[due])
    BY <1>2, <1>6 DEF Possible
  <2>2. GetFloat(b) = Halves
    BY <1>2, <1>6 DEF SoFar
  <2>3. type[due] # "STR" /\ type[b] # "STR"
    BY <2>1 DEF Holds, attrTypeIsReal, RealTypes, IntTypes
  <2>4. AsHalves(type[b], num[b]) = Halves
    BY <1>2, <1>4, <2>2, InHalves
  <2>5. AsHalves(type[b], num[b]) \in Int
    BY <1>4 DEF AsHalves
  <2> QED BY <2>1, <2>3, <2>4, <2>5, InHalves
<1>7. CASE Accepts(due, v)
  <2>1. Stored(due, v)
    BY <1>1, <1>7 DEF UpdateValue
  <2>2. /\ ValueTypeOK'
        /\ num' \in [Cells -> Int] /\ text' \in [Cells -> AnyText]
        /\ due' # 1
        /\ \E n \in Converted(type[due], v) : num' = [num EXCEPT ![due] = n]
    BY <1>1, <1>2, <1>3, <1>7, <2>1, StoredKeepsTypes
  <2>3. Shaped'
    BY <1>1, <1>5, <2>2 DEF Shaped, Inputs, Cells, Unsigned32, Signed32, AnyText
  <2>4. ASSUME Possible' PROVE \A c \in Cells : due' = 0 \/ c < due' => GetFloat(c)' = Halves'
    <3>1. Possible
      <4>1. \A d \in Cells : Holds(type[d])
        BY <1>1, <2>4, Zenon DEF Possible, Cells, Holds, Halves
      <4>2. ~BigIntoReal
        BY <1>1, <2>4, Zenon DEF Possible, BigIntoReal, Cells, Halves
      <4> QED BY <1>1, <2>4, <4>1, <4>2 DEF Possible
    <3> DEFINE h == Halves
    <3>2. /\ h \in Int /\ AsHalves(type[b], num[b]) = h
          /\ type[due] # "STR" /\ type[b] # "STR"
          /\ Fits(type[due], h) /\ Holds(type[b])
      BY <1>6, <3>1
    <3>3. v.kind = "int" => type[b] \in IntTypes \cup {"BOOL"} /\ v.n = num[b] /\ 2 * v.n = h
      BY <1>3, <1>4, <3>2 DEF Types, AsHalves, attrTypeIsReal, attrTypeIsText, RealTypes, IntTypes
    <3>4. v.kind = "real" => v.n = h
      BY <1>3, <1>4, <3>2 DEF AsHalves, attrTypeIsReal, attrTypeIsText, RealTypes
    <3>5. v.kind \in {"int", "real"}
      BY <1>3, <3>2, PassedShape
    <3>6. type[b] \in IntTypes => num[b] \in Interval(type[b])
      BY <1>2, <1>4, IntegerTypes DEF ValueTypeOK
    <3>7. type[b] = "BOOL" => num[b] \in {0, 1}
      BY <1>2 DEF ValueTypeOK, InType, attrTypeIsSigned
    <3>8. v.kind = "int" => v.n \in Signed32 \cup Unsigned32
      BY <1>4, <3>3, <3>6, <3>7, IntegerTypes, Widths DEF Unsigned32
    <3>9. v.kind = "int" /\ type[b] # "U32" => v.n \in Signed32
      BY <1>4, <3>3, <3>6, <3>7, IntegerTypes, Widths DEF Signed32
    <3>10. attrTypeIsReal(type[due]) /\ type[b] = "U32" => ~(h >= M32)
      <4>1. due # 1
        BY DEF Shaped
      <4> QED BY <1>2, <3>1, <4>1 DEF Possible, BigIntoReal, b
    <3> HIDE DEF h
    <3>11. attrTypeIsReal(type[due]) /\ v.kind = "int" => h < M32
      BY <3>2, <3>3, <3>9, <3>10, Widths DEF Signed32
    <3>12. PICK n \in Converted(type[due], v) : num' = [num EXCEPT ![due] = n]
      BY <2>2
    <3>13. /\ AsHalves(type[due], num'[due]) = h
           /\ \A d \in Cells : d # due => num'[d] = num[d]
      BY <1>2, <1>3, <3>2, <3>3, <3>4, <3>5, <3>8, <3>11, <3>12, StoredArrives
    <3>14. h = Halves'
      BY <1>1 DEF h, Halves
    <3>15. ASSUME NEW c \in Cells, c = due PROVE GetFloat(c)' = h
      <4>1. type'[c] = type[due] /\ type[due] \in Types /\ num'[c] = num'[due]
        BY <1>1, <1>4, <3>15
      <4> QED BY <3>13, <4>1
          DEF GetFloat, AsHalves, attrTypeIsReal, attrTypeIsText, RealTypes
    <3>16. ASSUME NEW c \in Cells, due' = 0 \/ c < due' PROVE c = due \/ c < due
      <4>1. due' = IF due < Length THEN due + 1 ELSE 0
        BY <2>1, Zenon DEF Stored
      <4> QED BY <1>2, <3>16, <4>1 DEF Cells
    <3>17. ASSUME NEW c \in Cells, c < due PROVE GetFloat(c)' = h
      <4>1. GetFloat(c) = h
        BY <3>1, <3>17 DEF SoFar, h
      <4>2. num'[c] = num[c] /\ type'[c] = type[c]
        BY <1>1, <1>2, <3>13, <3>17 DEF Cells
      <4> QED BY <4>1, <4>2, Zenon DEF GetFloat
    <3>18. ASSUME NEW c \in Cells, due' = 0 \/ c < due' PROVE GetFloat(c)' = Halves'
      BY <3>14, <3>15, <3>16, <3>17, <3>18, Zenon
    <3> QED BY <3>18, Zenon
  <2> QED BY <2>2, <2>3, <2>4 DEF SoFar, Cells
<1>8. CASE ~Accepts(due, v)
  <2>1. UNCHANGED <<num, text>> /\ due' = 0
    BY <1>1, <1>8 DEF UpdateValue
  <2>2. ValueTypeOK'
    BY <1>1, <2>1, <1>2 DEF ValueTypeOK, Cells, InType, AsSigned, AsUnsigned, Width, Float, attrTypeIsSigned
  <2>3. Shaped'
    BY <1>1, <1>5, <2>1 DEF Shaped, Inputs, Cells, Unsigned32, Signed32, AnyText
  <2>4. ~Possible'
    <3>1. SUFFICES ASSUME Possible' PROVE FALSE
      OBVIOUS
    <3>2. Possible
      <4>1. \A d \in Cells : Holds(type[d])
        BY <1>1, <3>1, Zenon DEF Possible, Cells, Holds, Halves
      <4>2. ~BigIntoReal
        BY <1>1, <3>1, Zenon DEF Possible, BigIntoReal, Cells, Halves
      <4> QED BY <1>1, <3>1, <4>1, <4>2 DEF Possible
    <3>3. type[due] # "STR" /\ v.kind # "text"
      BY <1>3, <1>6, <3>2
    <3> QED BY <1>8, <3>3 DEF Accepts, attrTypeIsText
  <2> QED BY <2>2, <2>3, <2>4 DEF SoFar
<1> QED BY <1>7, <1>8

\* The chain is written anew.
LEMMA RenewValueInv ==
  ASSUME ValueAssumption, ValueInv, Renew
  PROVE  ValueInv'
<1> USE DEF ValueInv
<1>1. /\ num' = [c \in Cells |-> 0]
      /\ text' = [c \in Cells |-> NoText]
      /\ given' = [kind |-> "none", n |-> 0, t |-> NoText]
      /\ type' = type /\ due' = due /\ due = 0
  BY Zenon DEF Renew
<1>2. ASSUME NEW t \in Types PROVE InType(t, 0)
  BY <1>2, ZeroInType
<1>3. ValueTypeOK'
  <2>1. \A c \in Cells : InType(type'[c], num'[c])
    BY <1>1, <1>2 DEF ValueTypeOK
  <2>2. \A c \in Cells : text'[c] # NoText => type'[c] = "STR"
    BY <1>1
  <2>3. type' \in [Cells -> Types] /\ due' \in 0 .. Length
    BY <1>1 DEF ValueTypeOK
  <2> QED BY <2>1, <2>2, <2>3
      DEF ValueTypeOK, Cells, InType, AsSigned, AsUnsigned, Width, Float, attrTypeIsSigned
<1>4. Shaped'
  <2>1. num' \in [Cells -> Int] /\ text' \in [Cells -> AnyText]
    BY <1>1, SomeTexts
  <2>2. given' \in Inputs \cup {[kind |-> "none", n |-> 0, t |-> NoText]}
    BY <1>1
  <2> QED BY <1>1, <2>1, <2>2 DEF Shaped, Inputs, Cells, Unsigned32, Signed32, AnyText
<1>5. SoFar'
  BY <1>1 DEF SoFar, Possible
<1> QED BY <1>3, <1>4, <1>5

\* A step that changes nothing.
LEMMA StutterValueInv ==
  ASSUME ValueInv, UNCHANGED valueVars
  PROVE  ValueInv'
<1>1. /\ type' = type /\ num' = num /\ text' = text /\ due' = due /\ given' = given
  BY DEF valueVars
<1>2. ValueTypeOK'
  <2>1. \A c \in Cells : InType(type'[c], num'[c])
    BY <1>1, Zenon DEF ValueInv, ValueTypeOK
  <2>2. \A c \in Cells : text'[c] # NoText => type'[c] = "STR"
    BY <1>1, Zenon DEF ValueInv, ValueTypeOK
  <2>3. type' \in [Cells -> Types] /\ due' \in 0 .. Length
    BY <1>1, Zenon DEF ValueInv, ValueTypeOK
  <2> QED BY <2>1, <2>2, <2>3
      DEF ValueTypeOK, Cells, InType, AsSigned, AsUnsigned, Width, Float, attrTypeIsSigned
<1>3. Shaped'
  BY <1>1, Zenon DEF ValueInv, Shaped, Inputs, Cells, Unsigned32, Signed32, AnyText
<1>4. SoFar'
  BY <1>1, Zenon DEF ValueInv, SoFar, Possible, Cells, Holds, Halves, BigIntoReal, GetFloat
<1> QED BY <1>2, <1>3, <1>4 DEF ValueInv

\* Every step.
LEMMA ValueStep == ValueAssumption /\ ValueInv /\ [ValueNext]_valueVars => ValueInv'
  BY WriteValueInv, HookValueInv, RenewValueInv, StutterValueInv, Zenon DEF ValueNext

\* The types of the variables, the numbers of each attribute's own type
\* among them: whatever conversion a write or a hook goes through, an
\* attribute holds a number its type has.
THEOREM ValuesHaveTheirTypes == ValueAssumption => (ValueSpec => []ValueTypeOK)
<1> SUFFICES ASSUME ValueAssumption PROVE ValueSpec => []ValueTypeOK
  OBVIOUS
<1>1. ValueInit => ValueInv
  BY InitValueInv
<1>2. ValueInv /\ [ValueNext]_valueVars => ValueInv'
  BY ValueStep
<1>3. ValueInv => ValueTypeOK
  BY DEF ValueInv
<1> QED BY <1>1, <1>2, <1>3, PTL DEF ValueSpec

\* What Get() gives of an integer, written back, is the integer.
LEMMA WrittenBack ==
  ASSUME ValueAssumption, ValueInv
  PROVE  GetWritesBack
<1> SUFFICES ASSUME NEW c \in Cells, type[c] \in IntTypes
             PROVE  /\ Integer(type[c], Get(c), AsUnsigned(Get(c), M32)) = num[c]
                    /\ type[c] = "U32" => AsUnsigned(Get(c), M32) = num[c]
  BY Zenon DEF GetWritesBack
<1>1. InType(type[c], num[c]) /\ num[c] \in Int
  BY DEF ValueInv, ValueTypeOK, Shaped
<1>2. num[c] \in Interval(type[c])
  BY <1>1, IntegerTypes
<1>3. M32 \in Nat \ {0} /\ M32 \div 2 \in Nat \ {0} /\ M32 = 2 * (M32 \div 2)
  BY Widths
<1>4. CASE attrTypeIsSigned(type[c])
  <2>1. AsSigned(num[c], Width(type[c])) = num[c]
    BY <1>1, <1>4 DEF InType, attrTypeIsSigned
  <2>2. Get(c) = num[c]
    BY <1>4 DEF Get, attrTypeIsSigned, attrTypeIsReal, attrTypeIsText, RealTypes
  <2> QED BY <1>4, <2>1, <2>2 DEF Integer, attrTypeIsSigned
<1>5. CASE ~attrTypeIsSigned(type[c])
  <2>1. AsUnsigned(num[c], Width(type[c])) = num[c]
    BY <1>1, <1>5 DEF InType, IntTypes
  <2>2. Get(c) = AsSigned(num[c], M32)
    BY <1>5 DEF Get, IntTypes, attrTypeIsReal, attrTypeIsText, RealTypes
  <2>3. num[c] \in 0 .. M32 - 1
    BY <1>2, <1>5, IntegerTypes DEF Unsigned32
  <2>4. AsUnsigned(Get(c), M32) = num[c]
    BY <1>3, <2>2, <2>3, SignedAndBack
  <2>5. Integer(type[c], Get(c), AsUnsigned(Get(c), M32))
          = AsUnsigned(AsUnsigned(Get(c), M32), Width(type[c]))
    BY <1>5 DEF Integer, IntTypes
  <2> QED BY <2>1, <2>4, <2>5
<1> QED BY <1>4, <1>5

\* A number every attribute of a chain of links can hold arrives at its end
\* unchanged, whatever types it went through, and an integer read with
\* Get() and written back stays what it is: for every width of the integer
\* types, every precision of the floats and every chain.
THEOREM NumbersAlwaysArrive == ValueAssumption => (ValueSpec => []NumbersArrive)
<1> SUFFICES ASSUME ValueAssumption PROVE ValueSpec => []NumbersArrive
  OBVIOUS
<1>1. ValueInit => ValueInv
  BY InitValueInv
<1>2. ValueInv /\ [ValueNext]_valueVars => ValueInv'
  BY ValueStep
<1>3. ValueInv => NumberSurvivesLinks
  <2> SUFFICES ASSUME ValueInv, ~BigIntoReal, AtRest, given.kind # "text",
                      \A d \in Cells : Holds(type[d]),
                      NEW c \in Cells
               PROVE  GetFloat(c) = Halves
    BY Zenon DEF NumberSurvivesLinks, NumberArrives
  <2>1. given.kind \in {"int", "real"}
    <3>1. given.kind # "none" /\ given \in Inputs
      BY DEF AtRest, ValueInv, Shaped
    <3> QED BY <3>1, InputPassed, PassedShape
  <2> QED BY <2>1 DEF AtRest, ValueInv, SoFar, Possible
<1>4. ValueInv => NumbersArrive
  BY <1>3, WrittenBack DEF NumbersArrive, ValueInv
<1> QED BY <1>1, <1>2, <1>4, PTL DEF ValueSpec

-----------------------------------------------------------------------------
(* First places                                                            *)

\* Every set of naturals has a least one.
LEMMA LeastIs ==
  ASSUME NEW S, S \subseteq Nat, S # {}
  PROVE  Least(S) \in S /\ \A m \in S : Least(S) <= m
<1>1. PICK x \in S : \A y \in S : ~(<<y, x>> \in OpToRel(<, Nat))
  BY WFMin, NatLessThanWellFounded
<1>2. \A y \in S : x <= y
  <2> TAKE y \in S
  <2>1. x \in Nat /\ y \in Nat
    OBVIOUS
  <2>2. ~(y < x)
    BY <1>1, <2>1 DEF OpToRel
  <2> QED BY <2>1, <2>2
<1> QED BY <1>2, Zenon DEF Least

\* There is only one.
LEMMA LeastOnly ==
  ASSUME NEW S, S \subseteq Nat, NEW n \in S, \A m \in S : n <= m
  PROVE  Least(S) = n
<1>1. Least(S) \in S /\ Least(S) <= n /\ n <= Least(S)
  BY LeastIs
<1>2. Least(S) \in Nat /\ n \in Nat
  BY <1>1
<1> QED BY <1>1, <1>2

\* The first place, when there is one.
LEMMA FirstIs ==
  ASSUME NEW S, S \subseteq Nat \ {0}
  PROVE  /\ First(S) \in Nat
         /\ First(S) = 0 <=> S = {}
         /\ S # {} => First(S) \in S /\ \A m \in S : First(S) <= m
<1>1. CASE S = {}
  BY <1>1, Zenon DEF First
<1>2. CASE S # {}
  <2>1. First(S) = Least(S)
    BY <1>2, Zenon DEF First
  <2>2. Least(S) \in S /\ \A m \in S : Least(S) <= m
    BY <1>2, LeastIs
  <2> QED BY <1>2, <2>1, <2>2
<1> QED BY <1>1, <1>2

\* What is a place and has none before it is the first.
LEMMA FirstOnly ==
  ASSUME NEW S, S \subseteq Nat \ {0}, NEW n \in S, \A m \in S : n <= m
  PROVE  First(S) = n
<1>1. First(S) = Least(S)
  BY Zenon DEF First
<1> QED BY <1>1, LeastOnly

-----------------------------------------------------------------------------
(* Text attributes                                                         *)

\* What can be in a buffer.
Bytes == Chars \cup {Nul, Junk}
Buffers(cap) == [1 .. cap + 1 -> Bytes]

\* The buffer holds s and its terminator.
Has(mem, s) ==
  /\ s \in Seq(Chars) /\ Len(s) + 1 \in DOMAIN mem
  /\ \A i \in 1 .. Len(s) : mem[i] = s[i]
  /\ mem[Len(s) + 1] = Nul

\* Nul ends the text and is not in it.
LEMMA StrIs ==
  ASSUME NEW cap \in Nat, NEW mem \in Buffers(cap), NEW s, Has(mem, s)
  PROVE  Str(mem) = s
<1> DEFINE S == {i \in DOMAIN mem : mem[i] = Nul}
           n == Len(s) + 1
<1>1. DOMAIN mem = 1 .. cap + 1
  BY DEF Buffers
<1>2. s \in Seq(Chars) /\ n \in 1 .. cap + 1 /\ Len(s) \in Nat
  BY <1>1 DEF Has
<1>3. S \subseteq Nat \ {0} /\ n \in S
  BY <1>1, <1>2 DEF Has
<1>4. ASSUME NEW m \in S PROVE n <= m
  <2>1. m \in 1 .. cap + 1 /\ mem[m] = Nul
    BY <1>1
  <2>2. SUFFICES ASSUME m \in 1 .. Len(s) PROVE FALSE
    BY <1>2, <2>1
  <2>3. mem[m] = s[m] /\ s[m] \in Chars
    BY <1>2, <2>2 DEF Has
  <2> QED BY <2>1, <2>3, TextAssumption
<1> HIDE DEF S
<1>5. First(S) = n
  BY <1>3, <1>4, FirstOnly
<1>6. Str(mem) = SubSeq(mem, 1, n - 1)
  BY <1>5, Zenon DEF Str, S
<1>7. mem \in Seq(Bytes) /\ Len(mem) = cap + 1
  BY <1>1 DEF Buffers
<1>8. n - 1 = Len(s) /\ n - 1 <= Len(mem)
  BY <1>2, <1>7
<1>9. SubSeq(mem, 1, Len(s)) = [i \in 1 .. Len(s) |-> mem[i]]
  BY <1>2, <1>7, <1>8
<1>10. s = [i \in 1 .. Len(s) |-> s[i]]
  BY <1>2
<1>11. \A i \in 1 .. Len(s) : mem[i] = s[i]
  BY DEF Has
<1> QED BY <1>6, <1>8, <1>9, <1>10, <1>11

\* A text that fits is in the buffer it is put into.
LEMMA PutIs ==
  ASSUME NEW cap \in Nat, NEW mem \in Buffers(cap), NEW s \in Seq(Chars), Len(s) <= cap
  PROVE  Put(mem, s) \in Buffers(cap) /\ Has(Put(mem, s), s)
<1> DEFINE p == Put(mem, s)
<1>1. DOMAIN mem = 1 .. cap + 1 /\ \A i \in 1 .. cap + 1 : mem[i] \in Bytes
  BY DEF Buffers
<1>2. p = [i \in 1 .. cap + 1 |-> IF i <= Len(s) THEN s[i] ELSE IF i = Len(s) + 1 THEN Nul ELSE mem[i]]
  BY <1>1, Zenon DEF Put
<1> HIDE DEF p
<1>3. Nul \in Bytes /\ \A i \in 1 .. Len(s) : s[i] \in Bytes
  BY DEF Bytes
<1>4. \A i \in 1 .. cap + 1 : i <= Len(s) => i \in 1 .. Len(s)
  OBVIOUS
<1>5. p \in [1 .. cap + 1 -> Bytes]
  BY <1>1, <1>2, <1>3, <1>4
<1>6. Len(s) \in Nat /\ Len(s) + 1 \in 1 .. cap + 1 /\ \A i \in 1 .. Len(s) : i \in 1 .. cap + 1
  OBVIOUS
<1>7. p[Len(s) + 1] = Nul /\ \A i \in 1 .. Len(s) : p[i] = s[i]
  BY <1>2, <1>6
<1> QED BY <1>5, <1>6, <1>7, Zenon DEF p, Has, Buffers

\* A text that is cut.
LEMMA CutIs ==
  ASSUME NEW S, NEW s \in Seq(S), NEW n \in Nat
  PROVE  /\ Cut(s, n) \in Seq(S)
         /\ Len(Cut(s, n)) = IF Len(s) <= n THEN Len(s) ELSE n
         /\ \A i \in 1 .. Len(Cut(s, n)) : Cut(s, n)[i] = s[i]
<1>1. CASE Len(s) <= n
  BY <1>1 DEF Cut
<1>2. CASE ~(Len(s) <= n)
  <2>1. Cut(s, n) = SubSeq(s, 1, n)
    BY <1>2, Zenon DEF Cut
  <2>2. SubSeq(s, 1, n) \in Seq(S) /\ Len(SubSeq(s, 1, n)) = n /\ \A i \in 1 .. n : SubSeq(s, 1, n)[i] = s[i]
    BY <1>2
  <2> QED BY <1>2, <2>1, <2>2
<1> QED BY <1>1, <1>2

\* Sequences of equal length and elements are equal.
LEMMA SameSeq ==
  ASSUME NEW S, NEW s \in Seq(S), NEW t \in Seq(S), Len(s) = Len(t),
         \A i \in 1 .. Len(s) : s[i] = t[i]
  PROVE  s = t
<1>1. s = [i \in 1 .. Len(s) |-> s[i]] /\ t = [i \in 1 .. Len(s) |-> t[i]]
  OBVIOUS
<1> QED BY <1>1

\* A text cut twice is cut to the lesser.
LEMMA CutTwice ==
  ASSUME NEW S, NEW s \in Seq(S), NEW m \in Nat, NEW n \in Nat
  PROVE  Cut(Cut(s, m), n) = Cut(s, IF m <= n THEN m ELSE n)
<1> DEFINE k == IF m <= n THEN m ELSE n
           a == Cut(s, m)
           b == Cut(a, n)
           c == Cut(s, k)
<1>1. k \in Nat
  OBVIOUS
<1>2. /\ a \in Seq(S) /\ Len(a) = (IF Len(s) <= m THEN Len(s) ELSE m)
      /\ \A i \in 1 .. Len(a) : a[i] = s[i]
  BY CutIs
<1> HIDE DEF a
<1>3. /\ b \in Seq(S) /\ Len(b) = (IF Len(a) <= n THEN Len(a) ELSE n)
      /\ \A i \in 1 .. Len(b) : b[i] = a[i]
  BY <1>2, CutIs
<1>4. /\ c \in Seq(S) /\ Len(c) = (IF Len(s) <= k THEN Len(s) ELSE k)
      /\ \A i \in 1 .. Len(c) : c[i] = s[i]
  BY <1>1, CutIs
<1> HIDE DEF b, c
<1>5. Len(s) \in Nat
  OBVIOUS
<1>6. Len(b) = Len(c) /\ \A i \in 1 .. Len(b) : i \in 1 .. Len(a) /\ i \in 1 .. Len(c)
  BY <1>2, <1>3, <1>4, <1>5
<1>7. \A i \in 1 .. Len(b) : b[i] = c[i]
  BY <1>2, <1>3, <1>4, <1>6, Zenon
<1>8. b = c
  BY <1>3, <1>4, <1>6, <1>7, SameSeq
<1> QED BY <1>8, Zenon DEF a, b, c

\* The least capacity on the way to an attribute.
LeastTo(c) == Least({Capacity[d] : d \in 1 .. c})

\* One attribute further, it is its capacity if that is less.
LEMMA LeastToIs ==
  /\ \A c \in TextCells : LeastTo(c) \in Nat
  /\ 1 \in TextCells => LeastTo(1) = Capacity[1]
  /\ \A c \in TextCells : c + 1 \in TextCells =>
       LeastTo(c + 1) = IF LeastTo(c) <= Capacity[c + 1] THEN LeastTo(c) ELSE Capacity[c + 1]
<1> DEFINE S(c) == {Capacity[d] : d \in 1 .. c}
<1>1. TextCells = 1 .. Len(Capacity) /\ Len(Capacity) \in Nat /\ \A c \in TextCells : Capacity[c] \in Nat
  BY TextAssumption DEF TextCells
<1>2. ASSUME NEW c \in TextCells
      PROVE  /\ S(c) \subseteq Nat /\ LeastTo(c) \in S(c) /\ \A m \in S(c) : LeastTo(c) <= m
             /\ LeastTo(c) \in Nat
  <2>1. S(c) \subseteq Nat
    BY <1>1
  <2>2. Capacity[c] \in S(c)
    BY <1>1
  <2>3. S(c) # {}
    BY <2>2
  <2> HIDE DEF S
  <2>4. Least(S(c)) \in S(c) /\ \A m \in S(c) : Least(S(c)) <= m
    BY <2>1, <2>3, LeastIs
  <2> QED BY <2>1, <2>4, Zenon DEF LeastTo, S
<1>3. 1 \in TextCells => LeastTo(1) = Capacity[1]
  <2>1. SUFFICES ASSUME 1 \in TextCells PROVE LeastTo(1) = Capacity[1]
    OBVIOUS
  <2>2. S(1) = {Capacity[1]}
    OBVIOUS
  <2> QED BY <1>2, <2>1, <2>2
<1>4. ASSUME NEW c \in TextCells, c + 1 \in TextCells
      PROVE  LeastTo(c + 1) = IF LeastTo(c) <= Capacity[c + 1] THEN LeastTo(c) ELSE Capacity[c + 1]
  <2>1. S(c + 1) = S(c) \cup {Capacity[c + 1]}
    <3>1. 1 .. c + 1 = (1 .. c) \cup {c + 1}
      BY <1>1
    <3> QED BY <3>1
  <2> DEFINE k == Capacity[c + 1]
             l == IF LeastTo(c) <= k THEN LeastTo(c) ELSE k
  <2>2. k \in Nat /\ LeastTo(c) \in Nat /\ S(c + 1) \subseteq Nat
    BY <1>1, <1>2, <1>4
  <2>3. LeastTo(c) \in S(c) /\ \A m \in S(c) : LeastTo(c) <= m /\ m \in Nat
    BY <1>2
  <2> HIDE DEF S, k
  <2>4. S(c + 1) = S(c) \cup {k}
    BY <2>1 DEF k
  <2>5. l \in S(c + 1) /\ \A m \in S(c + 1) : l <= m
    BY <2>2, <2>3, <2>4
  <2> HIDE DEF l
  <2>6. Least(S(c + 1)) = l
    BY <2>2, <2>5, LeastOnly
  <2> QED BY <2>6, Zenon DEF l, k, S, LeastTo
<1> QED BY <1>2, <1>3, <1>4

\* Between two steps every buffer holds a text, and while a text is carried
\* on, the attributes it has reached hold as much of it as could get there.
Arrived ==
  stored = "yes" =>
    \A c \in TextCells : toCell = 0 \/ c < toCell => Has(buf[c], Cut(typed, LeastTo(c)))

TextInv ==
  /\ typed \in Seq(Chars) /\ Len(typed) <= MaxLen
  /\ DOMAIN buf = TextCells
  /\ \A c \in TextCells : buf[c] \in Buffers(Capacity[c]) /\ \E s : Has(buf[c], s)
  /\ toCell = 0 \/ (toCell \in TextCells /\ toCell > 1 /\ stored = "yes")
  /\ stored \in {"never", "no", "yes"}
  /\ Arrived

\* What the cells are.
LEMMA CellsAre ==
  /\ TextCells = 1 .. Len(Capacity) /\ Len(Capacity) \in Nat
  /\ \A c \in TextCells : Capacity[c] \in Nat /\ DefaultText[c] \in Seq(Chars)
  BY TextAssumption DEF TextCells

\* Whatever is stored in an attribute, it then holds, and the others what
\* they held.
LEMMA Stores ==
  ASSUME TextInv, NEW c \in TextCells, NEW v \in Seq(Chars), storeText(c, v)
  PROVE  /\ DOMAIN buf' = TextCells
         /\ \A d \in TextCells : buf'[d] \in Buffers(Capacity[d]) /\ \E s : Has(buf'[d], s)
         /\ Has(buf'[c], Cut(v, Capacity[c]))
         /\ \A d \in TextCells : d # c => buf'[d] = buf[d]
<1> DEFINE t == Cut(v, Capacity[c])
           p == Put(buf[c], t)
<1>1. Capacity[c] \in Nat
  BY CellsAre
<1>2. t \in Seq(Chars) /\ Len(t) = IF Len(v) <= Capacity[c] THEN Len(v) ELSE Capacity[c]
  BY <1>1, CutIs
<1>3. Len(t) <= Capacity[c]
  BY <1>1, <1>2
<1>4. buf[c] \in Buffers(Capacity[c])
  BY DEF TextInv
<1> HIDE DEF t
<1>5. p \in Buffers(Capacity[c]) /\ Has(p, t)
  BY <1>1, <1>2, <1>3, <1>4, PutIs
<1>6. buf' = [buf EXCEPT ![c] = p] /\ DOMAIN buf = TextCells
  BY Zenon DEF storeText, TextInv, t
<1> HIDE DEF p
<1>7. DOMAIN buf' = TextCells /\ buf'[c] = p /\ \A d \in TextCells : d # c => buf'[d] = buf[d]
  BY <1>6
<1>8. ASSUME NEW d \in TextCells PROVE buf'[d] \in Buffers(Capacity[d]) /\ \E s : Has(buf'[d], s)
  <2>1. CASE d = c
    BY <1>5, <1>7, <2>1, Zenon
  <2>2. CASE d # c
    BY <1>7, <2>2, Zenon DEF TextInv
  <2> QED BY <2>1, <2>2
<1> QED BY <1>5, <1>7, <1>8, Zenon DEF t

\* A field of a text of the device is one.
LEMMA FieldIs ==
  ASSUME NEW list \in Seq(Chars), NEW start \in 1 .. Len(list) + 1
  PROVE  /\ Bar(list, start) \in Nat
         /\ Bar(list, start) = 0 <=> \A i \in start .. Len(list) : list[i] # "|"
         /\ Bar(list, start) # 0 =>
              /\ Bar(list, start) \in start .. Len(list) /\ list[Bar(list, start)] = "|"
              /\ \A i \in start .. Bar(list, start) - 1 : list[i] # "|"
         /\ Field(list, start) \in Seq(Chars)
<1> DEFINE S == {i \in start .. Len(list) : list[i] = "|"}
           b == Bar(list, start)
<1>1. Len(list) \in Nat /\ start \in Nat \ {0}
  OBVIOUS
<1>2. S \subseteq Nat \ {0}
  BY <1>1
<1>3. /\ First(S) \in Nat /\ First(S) = 0 <=> S = {}
      /\ S # {} => First(S) \in S /\ \A m \in S : First(S) <= m
  BY <1>2, FirstIs
<1>4. b = First(S)
  BY Zenon DEF Bar
<1> HIDE DEF b
<1>5. b \in Nat /\ (b = 0 <=> \A i \in start .. Len(list) : list[i] # "|")
  BY <1>3, <1>4
<1>6. ASSUME b # 0
      PROVE  /\ b \in start .. Len(list) /\ list[b] = "|"
             /\ \A i \in start .. b - 1 : list[i] # "|"
  <2>1. b \in S /\ \A m \in S : b <= m
    BY <1>3, <1>4, <1>6
  <2>2. b \in start .. Len(list) /\ list[b] = "|"
    BY <2>1
  <2>3. ASSUME NEW i \in start .. b - 1, list[i] = "|" PROVE FALSE
    <3>1. i \in start .. Len(list)
      BY <1>1, <2>2
    <3>2. b <= i
      BY <2>1, <2>3, <3>1
    <3> QED BY <1>1, <2>2, <3>2
  <2> QED BY <2>2, <2>3
<1> HIDE DEF S
<1>7. Field(list, start) = SubSeq(list, start, IF b = 0 THEN Len(list) ELSE b - 1)
  BY Zenon DEF Field, b
<1>8. Field(list, start) \in Seq(Chars)
  <2>1. CASE b = 0
    <3>1. SubSeq(list, start, Len(list)) \in Seq(Chars)
      BY <1>1
    <3> QED BY <1>7, <2>1, <3>1
  <2>2. CASE b # 0
    <3>1. b - 1 \in Int /\ b - 1 <= Len(list)
      BY <1>1, <1>6, <2>2
    <3> DEFINE e == b - 1
    <3> HIDE DEF e
    <3>2. SubSeq(list, start, e) \in Seq(Chars)
      BY <1>1, <3>1 DEF e
    <3> QED BY <1>7, <2>2, <3>2 DEF e
  <2> QED BY <2>1, <2>2
<1> QED BY <1>5, <1>6, <1>8, Zenon DEF b

\* The first field is where the text starts.
LEMMA StartOfFirst == \A list : FieldStart(list, 0) = 1
<1> TAKE list
<1> DEFINE U(f) == f = [n \in 0 .. 0 |-> IF n = 0 THEN 1 ELSE NextField(list, f[n - 1])]
           g == [n \in 0 .. 0 |-> 1]
           up == CHOOSE f : U(f)
<1>1. FieldStart(list, 0) = up[0]
  BY Zenon DEF FieldStart
<1>2. g = [n \in 0 .. 0 |-> IF n = 0 THEN 1 ELSE NextField(list, g[n - 1])]
  OBVIOUS
<1>3. U(up)
  BY <1>2, Zenon
<1>4. 0 \in 0 .. 0
  OBVIOUS
<1> HIDE DEF up
<1>5. up[0] = 1
  BY <1>3, <1>4, Zenon
<1> QED BY <1>1, <1>5

\* What the copy loops leave.
LEMMA IntoIs ==
  ASSUME NEW s, NEW size
  PROVE  Into(s, size).dst = Cut(s, size - 1)
<1> DEFINE d == Cut(s, size - 1)
           ok == Len(s) + 1 <= size
<1>1. Into(s, size) = [ok |-> ok, dst |-> d]
  BY Zenon DEF Into
<1> HIDE DEF d, ok
<1>2. [ok |-> ok, dst |-> d].dst = d
  OBVIOUS
<1> QED BY <1>1, <1>2, Zenon DEF d

\* The whole of a text without bars, or what is before its first bar.
LEMMA CopyIs ==
  ASSUME NEW list, NEW size, size # 0
  PROVE  attrTextCopy(list, size).dst = Cut(Field(list, 1), size - 1)
<1> DEFINE t == Field(list, 1)
<1>1. 1 # 0
  OBVIOUS
<1>2. attrTextCopy(list, size) = Into(t, size)
  BY <1>1, StartOfFirst, Zenon DEF attrTextCopy, attrTextField
<1> HIDE DEF t
<1>3. Into(t, size).dst = Cut(t, size - 1)
  BY IntoIs
<1> QED BY <1>2, <1>3, Zenon DEF t

\* Every buffer holds the declared default, cut to it.
LEMMA TextInitInv == TextInit => TextInv
<1> SUFFICES ASSUME TextInit PROVE TextInv
  OBVIOUS
<1> DEFINE blank(c) == [i \in 1 .. Capacity[c] + 1 |-> Junk]
           dflt(c) == attrTextCopy(DefaultText[c], Capacity[c] + 1).dst
<1>1. ASSUME NEW c \in TextCells
      PROVE  /\ buf[c] \in Buffers(Capacity[c])
             /\ \E s : Has(buf[c], s)
  <2>1. Capacity[c] \in Nat /\ DefaultText[c] \in Seq(Chars)
    BY CellsAre
  <2>2. blank(c) \in Buffers(Capacity[c])
    BY DEF Buffers, Bytes
  <2>3. dflt(c) \in Seq(Chars) /\ Len(dflt(c)) <= Capacity[c]
    <3> DEFINE t == Field(DefaultText[c], 1)
    <3>1. 1 \in 1 .. Len(DefaultText[c]) + 1
      BY <2>1
    <3>2. t \in Seq(Chars)
      BY <2>1, <3>1, FieldIs
    <3>3. dflt(c) = Cut(t, (Capacity[c] + 1) - 1)
      <4> DEFINE size == Capacity[c] + 1
      <4>1. size # 0
        BY <2>1
      <4> HIDE DEF size
      <4>2. attrTextCopy(DefaultText[c], size).dst = Cut(t, size - 1)
        BY <4>1, CopyIs
      <4> QED BY <4>2 DEF size
    <3>4. (Capacity[c] + 1) - 1 = Capacity[c]
      BY <2>1
    <3> HIDE DEF t, dflt
    <3>5. /\ Cut(t, Capacity[c]) \in Seq(Chars)
          /\ Len(Cut(t, Capacity[c])) = IF Len(t) <= Capacity[c] THEN Len(t) ELSE Capacity[c]
      BY <2>1, <3>2, CutIs
    <3>6. Len(Cut(t, Capacity[c])) <= Capacity[c]
      BY <2>1, <3>2, <3>5
    <3> QED BY <3>3, <3>4, <3>5, <3>6
  <2>4. buf[c] = Put(blank(c), dflt(c))
    BY Zenon DEF TextInit
  <2> HIDE DEF blank, dflt
  <2>5. Put(blank(c), dflt(c)) \in Buffers(Capacity[c]) /\ Has(Put(blank(c), dflt(c)), dflt(c))
    BY <2>1, <2>2, <2>3, PutIs
  <2> QED BY <2>4, <2>5, Zenon
<1>2. typed \in Seq(Chars) /\ Len(typed) <= MaxLen
  BY TextAssumption DEF TextInit
<1>3. DOMAIN buf = TextCells /\ toCell = 0 /\ stored = "never"
  BY Zenon DEF TextInit
<1>4. Arrived
  BY <1>3 DEF Arrived
<1> QED BY <1>1, <1>2, <1>3, <1>4 DEF TextInv

\* The next attribute of the chain.
LEMMA BehindIs ==
  ASSUME NEW c \in TextCells
  PROVE  \/ Behind(c) = c + 1 /\ c + 1 \in TextCells /\ c + 1 > 1
         \/ Behind(c) = 0 /\ \A d \in TextCells : d <= c
  BY CellsAre DEF Behind

\* A text is written, and then carried on, as far as the next attribute can
\* hold it.
LEMMA TextNextInv == TextInv /\ [TextNext]_textVars => TextInv'
<1> SUFFICES ASSUME TextInv, [TextNext]_textVars PROVE TextInv'
  OBVIOUS
<1>1. ASSUME NEW c \in Chars, TypeChar(c) PROVE TextInv'
  <2>1. /\ typed' = Append(typed, c) /\ Len(typed) < MaxLen /\ stored # "yes"
        /\ UNCHANGED <<buf, toCell, stored>>
    BY <1>1 DEF TypeChar
  <2>2. typed' \in Seq(Chars) /\ Len(typed') <= MaxLen
    BY <2>1, TextAssumption DEF TextInv
  <2> QED BY <2>1, <2>2, Zenon DEF TextInv, Arrived
<1>2. CASE WriteText
  <2>1. /\ storeText(1, typed) /\ toCell' = Behind(1) /\ stored' = "yes" /\ typed' = typed
    BY <1>2 DEF WriteText
  <2>2. CASE 1 \in TextCells
    <3>1. /\ DOMAIN buf' = TextCells
          /\ \A d \in TextCells : buf'[d] \in Buffers(Capacity[d]) /\ \E s : Has(buf'[d], s)
          /\ Has(buf'[1], Cut(typed, Capacity[1]))
      BY <2>1, <2>2, Stores DEF TextInv
    <3>2. LeastTo(1) = Capacity[1]
      BY <2>2, LeastToIs
    <3>3. \/ toCell' = 2 /\ 2 \in TextCells
          \/ toCell' = 0 /\ \A d \in TextCells : d <= 1
      BY <2>1, <2>2, BehindIs
    <3>4. ASSUME NEW c \in TextCells, toCell' = 0 \/ c < toCell' PROVE c = 1
      BY <3>3, <3>4, CellsAre
    <3>5. Arrived'
      BY <2>1, <3>1, <3>2, <3>4, Zenon DEF Arrived, LeastTo
    <3>6. toCell' = 0 \/ (toCell' \in TextCells /\ toCell' > 1 /\ stored' = "yes")
      BY <2>1, <3>3
    <3> QED BY <2>1, <3>1, <3>5, <3>6 DEF TextInv
  <2>3. CASE 1 \notin TextCells
    <3>1. TextCells = {} /\ Behind(1) = 0
      BY <2>3, CellsAre DEF Behind
    <3>2. DOMAIN buf' = DOMAIN buf
      BY <2>1 DEF storeText
    <3> QED BY <2>1, <3>1, <3>2 DEF TextInv, Arrived
  <2> QED BY <2>2, <2>3
<1>3. CASE CarryText
  <2> DEFINE c == toCell
             v == Str(buf[c - 1])
  <2>1. /\ c # 0 /\ storeText(c, v) /\ toCell' = Behind(c) /\ typed' = typed /\ stored' = stored
    BY <1>3 DEF CarryText
  <2>2. c \in TextCells /\ c > 1 /\ stored = "yes"
    BY <2>1 DEF TextInv
  <2>3. c - 1 \in TextCells /\ c - 1 < c /\ c - 1 + 1 = c
    BY <2>2, CellsAre
  <2>4. Has(buf[c - 1], Cut(typed, LeastTo(c - 1)))
    BY <2>2, <2>3 DEF TextInv, Arrived
  <2>5. v = Cut(typed, LeastTo(c - 1)) /\ v \in Seq(Chars)
    <3>1. Capacity[c - 1] \in Nat /\ buf[c - 1] \in Buffers(Capacity[c - 1])
      BY <2>3, CellsAre, Zenon DEF TextInv
    <3> QED BY <2>4, <3>1, StrIs DEF Has
  <2> HIDE DEF v
  <2>6. /\ DOMAIN buf' = TextCells
        /\ \A d \in TextCells : buf'[d] \in Buffers(Capacity[d]) /\ \E s : Has(buf'[d], s)
        /\ Has(buf'[c], Cut(v, Capacity[c]))
        /\ \A d \in TextCells : d # c => buf'[d] = buf[d]
    BY <2>1, <2>2, <2>5, Stores
  <2>7. Cut(v, Capacity[c]) = Cut(typed, LeastTo(c))
    <3>1. LeastTo(c - 1) \in Nat /\ Capacity[c] \in Nat
      BY <2>2, <2>3, LeastToIs, CellsAre
    <3>2. LeastTo(c) = IF LeastTo(c - 1) <= Capacity[c] THEN LeastTo(c - 1) ELSE Capacity[c]
      BY <2>2, <2>3, LeastToIs
    <3>3. typed \in Seq(Chars)
      BY DEF TextInv
    <3> QED BY <2>5, <3>1, <3>2, <3>3, CutTwice
  <2>8. \/ toCell' = c + 1 /\ c + 1 \in TextCells /\ c + 1 > 1
        \/ toCell' = 0 /\ \A d \in TextCells : d <= c
    BY <2>1, <2>2, BehindIs
  <2>9. ASSUME NEW d \in TextCells, toCell' = 0 \/ d < toCell' PROVE d = c \/ (d # c /\ d < c)
    BY <2>2, <2>8, <2>9, CellsAre
  <2>10. ASSUME NEW d \in TextCells, toCell' = 0 \/ d < toCell'
         PROVE  Has(buf'[d], Cut(typed, LeastTo(d)))
    <3>1. CASE d = c
      BY <2>6, <2>7, <3>1, Zenon
    <3>2. CASE d # c /\ d < c
      BY <2>2, <2>6, <3>2, Zenon DEF TextInv, Arrived
    <3> QED BY <2>9, <2>10, <3>1, <3>2
  <2>11. Arrived'
    BY <2>1, <2>10, Zenon DEF Arrived, LeastTo
  <2>12. toCell' = 0 \/ (toCell' \in TextCells /\ toCell' > 1 /\ stored' = "yes")
    BY <2>1, <2>2, <2>8
  <2> QED BY <2>1, <2>6, <2>11, <2>12 DEF TextInv
<1>4. CASE NewText
  <2>1. typed' = <<>> /\ stored' = "no" /\ toCell = 0 /\ UNCHANGED <<buf, toCell>>
    BY <1>4 DEF NewText
  <2>2. typed' \in Seq(Chars) /\ Len(typed') <= MaxLen
    BY <2>1, TextAssumption
  <2>3. stored' # "yes"
    BY <2>1
  <2> QED BY <2>1, <2>2, <2>3, Zenon DEF TextInv, Arrived
<1>5. CASE UNCHANGED textVars
  BY <1>5, Zenon DEF textVars, TextInv, Arrived, LeastTo
<1> QED BY <1>1, <1>2, <1>3, <1>4, <1>5 DEF TextNext

\* Every attribute always holds some text and its terminator.
LEMMA AlwaysText ==
  ASSUME TextInv, NEW c \in TextCells
  PROVE  /\ GetString(c) \in Seq(Chars) /\ Has(buf[c], GetString(c))
         /\ buf[c] \in Buffers(Capacity[c]) /\ Capacity[c] \in Nat
<1>1. PICK s : Has(buf[c], s)
  BY DEF TextInv
<1>2. Capacity[c] \in Nat /\ buf[c] \in Buffers(Capacity[c])
  BY CellsAre, Zenon DEF TextInv
<1>3. Str(buf[c]) = s
  BY <1>1, <1>2, StrIs
<1> QED BY <1>1, <1>2, <1>3, Zenon DEF GetString, Has

\* Cutting a text leaves a prefix of it, and all of it just when it fits.
LEMMA CutIsPrefix ==
  ASSUME NEW S, NEW s \in Seq(S), NEW n \in Nat
  PROVE  /\ IsPrefix(Cut(s, n), s) /\ Len(Cut(s, n)) <= n
         /\ Len(s) <= n <=> Cut(s, n) = s
         /\ ~(Len(s) <= n) => Len(Cut(s, n)) = n
<1> DEFINE t == Cut(s, n)
<1>1. /\ t \in Seq(S) /\ Len(t) = IF Len(s) <= n THEN Len(s) ELSE n
      /\ \A i \in 1 .. Len(t) : t[i] = s[i]
  BY CutIs
<1>2. Len(s) <= n => t = s
  BY Zenon DEF Cut
<1> HIDE DEF t
<1>3. Len(t) <= n /\ Len(t) <= Len(s) /\ Len(t) \in Nat
  BY <1>1
<1>4. SubSeq(t, 1, Len(t)) = SubSeq(s, 1, Len(t))
  <2>1. SubSeq(t, 1, Len(t)) = [i \in 1 .. Len(t) |-> t[i]]
    BY <1>1
  <2>2. SubSeq(s, 1, Len(t)) = [i \in 1 .. Len(t) |-> s[i]]
    BY <1>3
  <2> QED BY <1>1, <2>1, <2>2
<1>5. ~(Len(s) <= n) => Len(t) = n /\ t # s
  BY <1>1
<1> QED BY <1>2, <1>3, <1>4, <1>5, Zenon DEF IsPrefix, t

\* What a reader is handed.
LEMMA FieldsOfTold ==
  ASSUME NEW r, NEW ok \in BOOLEAN, NEW d, r = [ok |-> ok, dst |-> d]
  PROVE  r.ok = ok /\ r.dst = d
  OBVIOUS

\* A copy loop tells the truth.
LEMMA IntoTold ==
  ASSUME NEW s \in Seq(Chars), NEW size \in Nat, size # 0
  PROVE  Told(Into(s, size), s, size)
<1> DEFINE n == size - 1
           t == Cut(s, n)
           ok == Len(s) + 1 <= size
           r == Into(s, size)
<1>1. n \in Nat /\ (Len(s) + 1 <= size <=> Len(s) <= n)
  OBVIOUS
<1>2. r = [ok |-> ok, dst |-> t]
  BY Zenon DEF Into
<1>3. (ok <=> Len(s) <= n) /\ ok \in BOOLEAN
  BY <1>1
<1> HIDE DEF n, r, ok
<1>4. /\ IsPrefix(t, s) /\ Len(t) <= n /\ Len(t) \in Nat
      /\ Len(s) <= n <=> t = s
      /\ ~(Len(s) <= n) => Len(t) = n
  <2>1. t \in Seq(Chars)
    BY <1>1, CutIs
  <2>2. Len(t) \in Nat
    BY <2>1
  <2> QED BY <1>1, <2>2, CutIsPrefix, Zenon
<1> HIDE DEF t
<1>5. Len(t) < size
  BY <1>4 DEF n
<1>6. r.dst = t /\ r.ok = ok
  BY <1>2, <1>3, FieldsOfTold
<1> QED BY <1>3, <1>4, <1>5, <1>6, Zenon DEF Told, r, n

\* Texts are cut to the least capacity on their way and to nothing less, and
\* readers are told whether they got all of it: for chains of any length,
\* capacities and defaults.
THEOREM TextsAlwaysArrive == TextSpec => []TextsArrive
<1>1. TextInv => TextsArrive
  <2> SUFFICES ASSUME TextInv PROVE TextsArrive
    OBVIOUS
  <2>1. TextTypeOK
    <3>1. ASSUME NEW c \in TextCells
          PROVE  /\ Junk \notin ToSet(Str(buf[c]))
                 /\ buf[c] \in [1 .. Capacity[c] + 1 -> Chars \cup {Nul, Junk}]
                 /\ \E i \in DOMAIN buf[c] : buf[c][i] = Nul
      <4>1. /\ Str(buf[c]) \in Seq(Chars) /\ Has(buf[c], Str(buf[c]))
            /\ buf[c] \in Buffers(Capacity[c])
        BY AlwaysText, Zenon DEF GetString
      <4>2. ToSet(Str(buf[c])) \subseteq Chars
        BY <4>1 DEF ToSet
      <4> QED BY <4>1, <4>2, TextAssumption, Zenon DEF Has, Buffers, Bytes
    <3> QED BY <3>1, Zenon DEF TextTypeOK, TextInv
  <2>2. TextCutToLeastCapacity
    <3> SUFFICES ASSUME TextAtRest, NEW c \in TextCells
                 PROVE  GetString(c) = Cut(typed, LeastTo(c))
      BY Zenon DEF TextCutToLeastCapacity, LeastTo
    <3>1. Has(buf[c], Cut(typed, LeastTo(c)))
      BY Zenon DEF TextAtRest, TextInv, Arrived
    <3>2. buf[c] \in Buffers(Capacity[c]) /\ Capacity[c] \in Nat
      BY AlwaysText
    <3> QED BY <3>1, <3>2, StrIs DEF GetString
  <2>3. ReadersToldTheTruth
    <3> SUFFICES ASSUME NEW c \in TextCells, NEW size \in 1 .. MaxLen + 2
                 PROVE  Told(GetText(c, size), GetString(c), size)
      BY Zenon DEF ReadersToldTheTruth
    <3>1. size # 0 /\ size \in Nat /\ GetString(c) \in Seq(Chars)
      BY AlwaysText
    <3>2. GetText(c, size) = Into(GetString(c), size)
      BY <3>1, Zenon DEF GetText
    <3> QED BY <3>1, <3>2, IntoTold
  <2> QED BY <2>1, <2>2, <2>3 DEF TextsArrive
<1> QED BY <1>1, TextInitInv, TextNextInv, PTL DEF TextSpec

\* A sequence of some values is one of more.
LEMMA WiderSeq ==
  ASSUME NEW S, NEW T, S \subseteq T, NEW s \in Seq(S)
  PROVE  s \in Seq(T) /\ Len(s) \in Nat
<1>1. Len(s) \in Nat /\ DOMAIN s = 1 .. Len(s) /\ \A i \in 1 .. Len(s) : s[i] \in T
  OBVIOUS
<1>2. s = [i \in 1 .. Len(s) |-> s[i]]
  OBVIOUS
<1> DEFINE n == Len(s)
<1> HIDE DEF n
<1>3. [i \in 1 .. n |-> s[i]] \in Seq(T)
  BY <1>1 DEF n
<1> QED BY <1>1, <1>2, <1>3, Zenon DEF n

\* Two texts one after the other.
Joined(s, t) == s \o t

\* It has the characters of the first, then those of the second.
LEMMA JoinedIs ==
  ASSUME NEW S, NEW s \in Seq(S), NEW t \in Seq(S)
  PROVE  /\ Joined(s, t) \in Seq(S) /\ Len(Joined(s, t)) = Len(s) + Len(t)
         /\ \A i \in 1 .. Len(s) : Joined(s, t)[i] = s[i]
         /\ \A i \in 1 .. Len(t) : Joined(s, t)[i + Len(s)] = t[i]
  BY DEF Joined

\* A text with a character before it.
LEMMA OneBefore ==
  ASSUME NEW S, NEW o \in Seq(S), NEW s \in Seq(S)
  PROVE  Len(o) = 1 =>
           /\ Joined(o, s) \in Seq(S) /\ Len(Joined(o, s)) = Len(s) + 1
           /\ Joined(o, s)[1] = o[1]
           /\ \A i \in 1 .. Len(s) : Joined(o, s)[i + 1] = s[i]
<1> DEFINE a == Joined(o, s)
           k == Len(o)
           n == Len(s)
<1>1. a \in Seq(S) /\ Len(a) = k + n
  BY JoinedIs
<1>2. \A i \in 1 .. k : a[i] = o[i]
  BY JoinedIs
<1>3. \A i \in 1 .. n : a[i + k] = s[i]
  BY JoinedIs
<1>4. n \in Nat
  OBVIOUS
<1> HIDE DEF a, k, n
<1>5. SUFFICES ASSUME k = 1
               PROVE  Len(a) = n + 1 /\ a[1] = o[1] /\ \A i \in 1 .. n : a[i + 1] = s[i]
  BY <1>1 DEF a, k, n
<1>6. \A i \in 1 .. n : a[i + 1] = s[i]
  BY <1>3, <1>5, Zenon
<1>7. a[1] = o[1] /\ Len(a) = n + 1
  BY <1>1, <1>2, <1>4, <1>5
<1> QED BY <1>6, <1>7

\* A text with a character behind it.
LEMMA OneBehind ==
  ASSUME NEW S, NEW o \in Seq(S), NEW s \in Seq(S)
  PROVE  Len(o) = 1 =>
           /\ Joined(s, o) \in Seq(S) /\ Len(Joined(s, o)) = Len(s) + 1
           /\ Joined(s, o)[Len(s) + 1] = o[1]
           /\ \A i \in 1 .. Len(s) : Joined(s, o)[i] = s[i]
<1> DEFINE a == Joined(s, o)
           k == Len(o)
           n == Len(s)
<1>1. a \in Seq(S) /\ Len(a) = n + k
  BY JoinedIs
<1>2. \A i \in 1 .. k : a[i + n] = o[i]
  BY JoinedIs
<1>3. \A i \in 1 .. n : a[i] = s[i]
  BY JoinedIs
<1>4. n \in Nat
  OBVIOUS
<1> HIDE DEF a, k, n
<1>5. SUFFICES ASSUME k = 1
               PROVE  Len(a) = n + 1 /\ a[n + 1] = o[1] /\ \A i \in 1 .. n : a[i] = s[i]
  BY <1>1 DEF a, k, n
<1>6. 1 \in 1 .. k /\ 1 + n = n + 1
  BY <1>4, <1>5
<1>7. a[n + 1] = o[1]
  BY <1>2, <1>6, Zenon
<1> QED BY <1>1, <1>3, <1>5, <1>7

\* A text of one character.
Single(c) == <<c>>

\* It has that character and no other.
LEMMA SingleIs ==
  ASSUME NEW S, NEW c \in S
  PROVE  Single(c) \in Seq(S) /\ Len(Single(c)) = 1 /\ Single(c)[1] = c
  BY DEF Single

\* The braces.
Open == "{"
Close == "}"
Braces == {"{", "}"}

\* They are the two of them.
LEMMA BracesAre == Open \in Braces /\ Close \in Braces
  BY Zenon DEF Open, Close, Braces

\* A name and the braces around it.
Braced(s) == <<Open>> \o s \o <<Close>>

\* It is longer by two, and has the name between them.
LEMMA BracedIs ==
  ASSUME NEW S, NEW s \in Seq(S)
  PROVE  /\ Len(Braced(s)) = Len(s) + 2
         /\ Braced(s)[1] = Open /\ Braced(s)[Len(s) + 2] = Close
         /\ \A i \in 1 .. Len(s) : Braced(s)[i + 1] = s[i]
<1> DEFINE T == S \cup {Open, Close}
           o == Single(Open)
           c == Single(Close)
           a == Joined(o, s)
           b == Joined(a, c)
           n == Len(s)
<1>1. s \in Seq(T) /\ n \in Nat
  BY S \subseteq T, WiderSeq
<1>2. Open \in T /\ Close \in T
  OBVIOUS
<1>3. Braced(s) = b
  BY Zenon DEF Braced, Joined, Single
<1> HIDE DEF T
<1>4. o \in Seq(T) /\ Len(o) = 1 /\ o[1] = Open
  BY <1>2, SingleIs
<1>5. c \in Seq(T) /\ Len(c) = 1 /\ c[1] = Close
  BY <1>2, SingleIs
<1> HIDE DEF o, c
<1>6. /\ a \in Seq(T) /\ Len(a) = n + 1 /\ a[1] = o[1]
      /\ \A i \in 1 .. n : a[i + 1] = s[i]
  BY <1>1, <1>4, OneBefore, Zenon
<1> HIDE DEF a
<1>7. /\ Len(b) = Len(a) + 1 /\ b[Len(a) + 1] = c[1]
      /\ \A i \in 1 .. Len(a) : b[i] = a[i]
  <2>1. a \in Seq(T) /\ c \in Seq(T) /\ Len(c) = 1
    BY <1>5, <1>6, Zenon
  <2> QED BY <2>1, OneBehind
<1> HIDE DEF b, n
<1>8. /\ Len(b) = n + 2 /\ Len(a) + 1 = n + 2 /\ 1 \in 1 .. Len(a)
      /\ \A i \in 1 .. n : i + 1 \in 1 .. Len(a)
  BY <1>1, <1>6, <1>7
<1>9. /\ b[1] = Open /\ b[n + 2] = Close /\ \A i \in 1 .. n : b[i + 1] = s[i]
  BY <1>4, <1>5, <1>6, <1>7, <1>8, Zenon
<1> QED BY <1>3, <1>8, <1>9, Zenon DEF n

\* A text that begins and ends with the braces around what it has between.
LEMMA EqualsBraced ==
  ASSUME NEW t \in Seq(Chars), NEW n \in Nat, Len(t) = n + 2
  PROVE  /\ SubSeq(t, 2, n + 1) \in Seq(Chars) /\ Len(SubSeq(t, 2, n + 1)) = n
         /\ \A i \in 1 .. n : SubSeq(t, 2, n + 1)[i] = t[i + 1]
         /\ attrTextEquals(t, Braced(SubSeq(t, 2, n + 1))) <=> t[1] = Open /\ t[n + 2] = Close
<1> DEFINE s == SubSeq(t, 2, n + 1)
           w == Braced(s)
<1>1. s \in Seq(Chars) /\ Len(s) = n /\ \A i \in 1 .. n : s[i] = t[i + 1]
  OBVIOUS
<1> HIDE DEF s
<1>2. /\ Len(w) = n + 2 /\ w[1] = Open /\ w[n + 2] = Close
      /\ \A i \in 1 .. n : w[i + 1] = s[i]
  BY <1>1, BracedIs
<1> HIDE DEF w
<1>3. attrTextEquals(t, w) <=> \A i \in 1 .. n + 2 : t[i] = w[i]
  <2>1. Len(t) = n + 2 /\ Len(w) = n + 2
    BY <1>2
  <2>2. attrTextEquals(t, w) <=> /\ \A i \in 1 .. n + 2 : i <= n + 2 /\ t[i] = w[i]
                                 /\ n + 2 = n + 2
    BY <2>1, Zenon DEF attrTextEquals
  <2> QED BY <2>2
<1>4. ASSUME t[1] = Open, t[n + 2] = Close, NEW i \in 1 .. n + 2
      PROVE  t[i] = w[i]
  <2>1. CASE i = 1
    BY <1>2, <1>4, <2>1
  <2>2. CASE i = n + 2
    BY <1>2, <1>4, <2>2
  <2>3. CASE i \in 2 .. n + 1
    <3>1. PICK j \in 1 .. n : i = j + 1
      <4>1. i - 1 \in 1 .. n /\ i = (i - 1) + 1
        BY <2>3
      <4> QED BY <4>1
    <3> QED BY <1>1, <1>2, <3>1, Zenon
  <2>4. i = 1 \/ i = n + 2 \/ i \in 2 .. n + 1
    OBVIOUS
  <2> QED BY <2>1, <2>2, <2>3, <2>4
<1>5. ASSUME \A i \in 1 .. n + 2 : t[i] = w[i]
      PROVE  t[1] = Open /\ t[n + 2] = Close
  <2>1. 1 \in 1 .. n + 2 /\ n + 2 \in 1 .. n + 2
    OBVIOUS
  <2> QED BY <1>2, <1>5, <2>1, Zenon
<1>6. attrTextEquals(t, w) <=> t[1] = Open /\ t[n + 2] = Close
  BY <1>3, <1>4, <1>5
<1> QED BY <1>1, <1>6, Zenon DEF s, w

\* Where a text has its first brace.
LEMMA FirstBraceIs ==
  ASSUME NEW s \in Seq(Chars)
  PROVE  /\ FirstBrace(s) \in 0 .. Len(s)
         /\ FirstBrace(s) # 0 =>
              /\ s[FirstBrace(s)] \in Braces
              /\ \A i \in 1 .. FirstBrace(s) - 1 : s[i] \notin Braces
         /\ \A n \in 1 .. Len(s) :
              /\ s[n] \in Braces
              /\ \A i \in 1 .. n - 1 : s[i] \notin Braces
              => FirstBrace(s) = n
<1> DEFINE S == {i \in DOMAIN s : s[i] \in Braces}
           b == FirstBrace(s)
<1>1. DOMAIN s = 1 .. Len(s) /\ Len(s) \in Nat
  OBVIOUS
<1>2. b = First(S)
  BY Zenon DEF FirstBrace, Braces
<1> HIDE DEF b
<1>3. S \subseteq Nat \ {0}
  BY <1>1
<1>4. /\ First(S) \in Nat /\ First(S) = 0 <=> S = {}
      /\ S # {} => First(S) \in S /\ \A m \in S : First(S) <= m
  BY <1>3, FirstIs
<1>5. ASSUME b # 0
      PROVE  b \in 1 .. Len(s) /\ s[b] \in Braces /\ \A i \in 1 .. b - 1 : s[i] \notin Braces
  <2>1. b \in S /\ \A m \in S : b <= m
    BY <1>2, <1>4, <1>5
  <2>2. b \in 1 .. Len(s) /\ s[b] \in Braces
    BY <1>1, <2>1
  <2>3. ASSUME NEW i \in 1 .. b - 1, s[i] \in Braces PROVE FALSE
    <3>1. i \in S
      BY <1>1, <2>2, <2>3
    <3> QED BY <2>1, <2>2, <3>1
  <2> QED BY <2>2, <2>3
<1>6. ASSUME NEW n \in 1 .. Len(s), s[n] \in Braces, \A i \in 1 .. n - 1 : s[i] \notin Braces
      PROVE  b = n
  <2>1. n \in S
    BY <1>1, <1>6
  <2>2. ASSUME NEW m \in S PROVE n <= m
    <3>1. m \in 1 .. Len(s) /\ s[m] \in Braces
      BY <1>1
    <3>2. m \notin 1 .. n - 1
      BY <1>6, <3>1
    <3> QED BY <1>1, <3>1, <3>2
  <2> HIDE DEF S
  <2> QED BY <1>2, <1>3, <2>1, <2>2, FirstOnly
<1>7. b \in 0 .. Len(s)
  BY <1>1, <1>5
<1> QED BY <1>5, <1>6, <1>7, Zenon DEF b

\* A name of n characters and the braces around it.
IsSymbol(t, n) ==
  /\ Len(t) = n + 2
  /\ attrTextEquals(t, Braced(SubSeq(t, 2, n + 1)))
  /\ NoBraces(SubSeq(t, 2, n + 1))

\* What the compiler lets through as a unit is a text without braces or a
\* name between two of them.
LEMMA UnitsAre ==
  ASSUME NEW t \in Seq(Chars), Len(t) <= MaxLen
  PROVE  ValidUnit(t) <=> NoBraces(t) \/ \E n \in 1 .. MaxLen - 2 : IsSymbol(t, n)
<1>1. Len(t) \in Nat /\ Len(t) <= MaxLen /\ MaxLen \in Nat /\ DOMAIN t = 1 .. Len(t)
  BY TextAssumption
\* A symbol, said of its characters.
<1>2. ASSUME NEW n \in Nat
      PROVE  IsSymbol(t, n) <=> /\ Len(t) = n + 2 /\ t[1] = Open /\ t[n + 2] = Close
                           /\ \A i \in 1 .. n : t[i + 1] \notin Braces
  <2> SUFFICES ASSUME Len(t) = n + 2
               PROVE  /\ attrTextEquals(t, Braced(SubSeq(t, 2, n + 1))) <=> t[1] = Open /\ t[n + 2] = Close
                      /\ NoBraces(SubSeq(t, 2, n + 1)) <=> \A i \in 1 .. n : t[i + 1] \notin Braces
    BY Zenon DEF IsSymbol
  <2> DEFINE s == SubSeq(t, 2, n + 1)
  <2>1. /\ s \in Seq(Chars) /\ Len(s) = n /\ \A i \in 1 .. n : s[i] = t[i + 1]
        /\ attrTextEquals(t, Braced(s)) <=> t[1] = Open /\ t[n + 2] = Close
    BY <1>1, EqualsBraced, Zenon
  <2> HIDE DEF s
  <2>2. DOMAIN s = 1 .. n
    BY <2>1
  <2>3. NoBraces(s) <=> \A i \in 1 .. n : t[i + 1] \notin Braces
    BY <2>1, <2>2, Zenon DEF NoBraces, Braces
  <2> QED BY <2>1, <2>3, Zenon DEF s
<1>3. CASE t # <<>> /\ t[1] = Open
  <2> DEFINE r == Tail(t)
             m == Len(r)
             b == FirstBrace(r)
  <2>1. Len(t) >= 1
    BY <1>1, <1>3
  <2>2. r \in Seq(Chars) /\ m = Len(t) - 1 /\ m \in Nat /\ \A i \in 1 .. m : r[i] = t[i + 1]
    BY <1>1, <2>1
  <2>3. ValidUnit(t) <=> Len(t) > 1 /\ t[2] # Close /\ SymbolRest(r)
    BY <1>3, Zenon DEF ValidUnit, Open, Close
  <2> HIDE DEF r, m
  <2>4. SymbolRest(r) <=> b # 0 /\ r[b] = Close /\ b = m
    BY Zenon DEF SymbolRest, Close, m
  <2>5. /\ b \in 0 .. m
        /\ b # 0 => \A i \in 1 .. b - 1 : r[i] \notin Braces
        /\ \A n \in 1 .. m : /\ r[n] \in Braces
                             /\ \A i \in 1 .. n - 1 : r[i] \notin Braces
                             => b = n
    BY <2>2, FirstBraceIs, Zenon DEF m
  <2> HIDE DEF b
  <2>6. ~NoBraces(t)
    <3>1. 1 \in DOMAIN t
      BY <1>1, <2>1
    <3> QED BY <1>3, <3>1, BracesAre, Zenon DEF NoBraces, Braces
  <2>7. ASSUME ValidUnit(t) PROVE \E n \in 1 .. MaxLen - 2 : IsSymbol(t, n)
    <3> DEFINE n == m - 1
    <3>1. Len(t) > 1 /\ t[2] # Close /\ b # 0 /\ r[b] = Close /\ b = m
      BY <2>3, <2>4, <2>7
    <3>2. m # 1
      BY <2>2, <3>1
    <3>3. n \in 1 .. MaxLen - 2 /\ n \in Nat /\ Len(t) = n + 2 /\ n + 1 = m /\ n = b - 1
      BY <1>1, <2>2, <3>1, <3>2
    <3> HIDE DEF n
    <3>4. t[n + 2] = Close
      <4>1. m \in 1 .. m /\ m + 1 = n + 2
        BY <2>2, <3>1, <3>3
      <4> QED BY <2>2, <3>1, <4>1
    <3>5. \A i \in 1 .. n : t[i + 1] \notin Braces
      <4>1. \A i \in 1 .. n : r[i] \notin Braces
        BY <2>5, <3>1, <3>3, Zenon
      <4>2. \A i \in 1 .. n : i \in 1 .. m
        BY <2>2, <3>3
      <4> QED BY <2>2, <4>1, <4>2, Zenon
    <3>6. IsSymbol(t, n)
      BY <1>2, <1>3, <3>3, <3>4, <3>5, Zenon
    <3> QED BY <3>3, <3>6, Zenon
  <2>8. ASSUME NEW n \in 1 .. MaxLen - 2, IsSymbol(t, n) PROVE ValidUnit(t)
    <3>1. /\ n \in Nat \ {0} /\ Len(t) = n + 2 /\ t[n + 2] = Close
          /\ \A i \in 1 .. n : t[i + 1] \notin Braces
      <4>1. n \in Nat \ {0} /\ n \in Nat
        BY <1>1
      <4> QED BY <1>2, <2>8, <4>1, Zenon
    <3>2. m = n + 1 /\ m \in 1 .. m /\ Len(t) > 1 /\ 1 \in 1 .. n /\ m - 1 = n
      BY <2>2, <3>1
    <3>3. t[2] # Close
      <4>1. t[1 + 1] \notin Braces
        BY <3>1, <3>2, Zenon
      <4> QED BY <4>1, BracesAre
    <3>4. r[m] = Close
      BY <2>2, <3>1, <3>2
    <3>5. \A i \in 1 .. m - 1 : r[i] \notin Braces
      BY <2>2, <3>1, <3>2
    <3>6. b = m /\ m # 0
      BY <2>5, <3>2, <3>4, <3>5, BracesAre
    <3> QED BY <2>3, <2>4, <3>2, <3>3, <3>4, <3>6
  <2> QED BY <2>6, <2>7, <2>8
<1>4. CASE ~(t # <<>> /\ t[1] = Open)
  <2>1. ValidUnit(t) <=> NoBraces(t)
    BY <1>4, Zenon DEF ValidUnit, Open, Close
  <2>2. ASSUME NEW n \in 1 .. MaxLen - 2, IsSymbol(t, n) PROVE FALSE
    <3>1. n \in Nat /\ Len(t) = n + 2 /\ t[1] = Open
      <4>1. n \in Nat
        BY <1>1
      <4> QED BY <1>2, <2>2, <4>1, Zenon
    <3>2. t = <<>>
      BY <1>4, <3>1
    <3> QED BY <3>1, <3>2
  <2> QED BY <2>1, <2>2
<1> QED BY <1>3, <1>4

\* The same of the text that is typed.
LEMMA UnitsAreTold ==
  ASSUME typed \in Seq(Chars), Len(typed) <= MaxLen
  PROVE  UnitsAreTextOrSymbol
<1>1. ValidUnit(typed) <=> NoBraces(typed) \/ \E n \in 1 .. MaxLen - 2 : IsSymbol(typed, n)
  BY UnitsAre
<1> QED BY <1>1, Zenon DEF UnitsAreTextOrSymbol, IsSymbol, Braced, Open, Close

-----------------------------------------------------------------------------
(* Enumerations                                                            *)

\* What the table has at each place.
LEMMA EntriesAre ==
  /\ Len(Entries) = Len(Enum) /\ Len(Enum) \in Nat
  /\ DOMAIN Entries = 1 .. Len(Enum) /\ DOMAIN Enum = 1 .. Len(Enum)
  /\ \A i \in 1 .. Len(Enum) : Entries[i].value = Enum[i].n
<1> DEFINE k == Len(Enum)
           numbers == [i \in 1 .. MaxArgs + 1 |-> MaxArgs + 1 - i]
           M == [e \in ToSet(Enum) |-> [value |-> e.n, text |-> e.text]]
<1>1. Enum \in Seq(ToSet(Enum)) /\ k \in Nat /\ k <= MaxArgs /\ MaxArgs \in Nat /\ DOMAIN Enum = 1 .. k
  <2>1. Enum \in Seq([n : Int, id : STRING, text : Seq(Chars)]) /\ k <= MaxArgs /\ MaxArgs \in Nat
    BY TextAssumption, Zenon
  <2>2. k \in Nat /\ DOMAIN Enum = 1 .. k
    BY <2>1
  <2>3. Enum \in Seq(ToSet(Enum))
    BY <2>1, <2>2 DEF ToSet
  <2> QED BY <2>1, <2>2, <2>3
<1>2. (Enum \o numbers)[MaxArgs + 1] = numbers[MaxArgs + 1 - k]
  <2> DEFINE T == ToSet(Enum) \cup Int
  <2>1. numbers \in Seq(Int) /\ Len(numbers) = MaxArgs + 1
    BY <1>1
  <2>2. MaxArgs + 1 \in 1 .. k + (MaxArgs + 1) /\ ~(MaxArgs + 1 <= k)
    BY <1>1
  <2> HIDE DEF numbers
  <2> QED BY <1>1, <2>1, <2>2
<1>3. Picked(Enum) = k
  <2>1. MaxArgs + 1 - k \in 1 .. MaxArgs + 1
    BY <1>1
  <2>2. numbers[MaxArgs + 1 - k] = MaxArgs + 1 - (MaxArgs + 1 - k)
    BY <2>1
  <2>3. MaxArgs + 1 - (MaxArgs + 1 - k) = k
    BY <1>1
  <2> QED BY <1>2, <2>2, <2>3 DEF Picked
<1>4. Entries = [i \in 1 .. k |-> M[Enum[i]]]
  BY <1>3, Zenon DEF Entries, UDI_FOR_EACH
<1>5. ASSUME NEW i \in 1 .. k PROVE M[Enum[i]].value = Enum[i].n
  <2>1. Enum[i] \in ToSet(Enum)
    BY <1>1 DEF ToSet
  <2> QED BY <2>1
<1> HIDE DEF M, k
<1>6. Len(Entries) = k /\ DOMAIN Entries = 1 .. k
  BY <1>1, <1>4
<1>7. \A i \in 1 .. k : Entries[i].value = Enum[i].n
  BY <1>4, <1>5, Zenon
<1> QED BY <1>1, <1>6, <1>7, Zenon DEF k

\* The first entry with a number.
LEMMA EntryOfIs ==
  ASSUME NEW v
  PROVE  /\ EntryOf(v) \in 0 .. Len(Enum)
         /\ EntryOf(v) # 0 <=> \E i \in 1 .. Len(Enum) : Entries[i].value = v
         /\ EntryOf(v) # 0 =>
              /\ Entries[EntryOf(v)].value = v
              /\ \A i \in 1 .. Len(Enum) : Entries[i].value = v => EntryOf(v) <= i
<1> DEFINE S == {i \in DOMAIN Entries : Entries[i].value = v}
           e == EntryOf(v)
           k == Len(Enum)
<1>1. DOMAIN Entries = 1 .. k /\ k \in Nat
  BY EntriesAre, Zenon
<1>2. S \subseteq Nat \ {0} /\ S \subseteq 1 .. k
  BY <1>1
<1>3. \A i : i \in S <=> i \in 1 .. k /\ Entries[i].value = v
  BY <1>1
<1>4. e = First(S)
  BY Zenon DEF EntryOf
<1> HIDE DEF S, e, k
<1>5. /\ e \in Nat
      /\ e = 0 <=> S = {}
      /\ S # {} => e \in S /\ \A m \in S : e <= m
  BY <1>2, <1>4, FirstIs
<1>6. e \in 0 .. k
  <2>1. 0 \in 0 .. k /\ \A i \in 1 .. k : i \in 0 .. k
    BY <1>1
  <2>2. e = 0 \/ e \in 1 .. k
    BY <1>2, <1>5, Zenon
  <2> QED BY <2>1, <2>2, Zenon
<1>7. e # 0 <=> \E i \in 1 .. k : Entries[i].value = v
  BY <1>3, <1>5
<1>8. e # 0 => Entries[e].value = v /\ \A i \in 1 .. k : Entries[i].value = v => e <= i
  BY <1>3, <1>5
<1> QED BY <1>6, <1>7, <1>8, Zenon DEF e, k

\* An enumeration is the same by NAME, by number and by position.
LEMMA EnumIsOne ==
  ASSUME NEW v, NEW size,
         NEW at, at = {i \in 0 .. attrEnumCount : v \in attrEnumEntry(i, size).value}
  PROVE  /\ \A i \in DOMAIN Enum : attrEnumHas(NumberOf(Enum[i].id))
         /\ attrEnumHas(v) <=> at # {}
         /\ at # {} => attrEnumFind(v, size) = attrEnumEntry(Least(at), size).name
         /\ at = {} => ReportText(v, size) = <<"Unknown error">>
<1> DEFINE k == Len(Enum)
           e == EntryOf(v)
<1>1. k \in Nat /\ attrEnumCount = k /\ DOMAIN Enum = 1 .. k
  BY EntriesAre, Zenon DEF attrEnumCount
<1>2. /\ e \in 0 .. k
      /\ e # 0 <=> \E i \in 1 .. k : Entries[i].value = v
      /\ e # 0 => Entries[e].value = v /\ \A i \in 1 .. k : Entries[i].value = v => e <= i
  BY EntryOfIs, Zenon
<1> HIDE DEF k, e
<1>3. ASSUME NEW i \in 0 .. k - 1
      PROVE  attrEnumEntry(i, size) =
               [value |-> {Entries[i + 1].value}, name |-> attrTextCopy(Entries[i + 1].text, size)]
  <2>1. ~(i >= k)
    BY <1>1
  <2> QED BY <1>1, <2>1, Zenon DEF attrEnumEntry
<1>4. attrEnumEntry(k, size).value = {}
  <2>1. k >= k
    BY <1>1
  <2>2. attrEnumEntry(k, size) = [value |-> {}, name |-> Nothing]
    BY <1>1, <2>1, Zenon DEF attrEnumEntry
  <2> QED BY <2>2
<1>5. \A i : i \in at <=> i \in 0 .. k - 1 /\ Entries[i + 1].value = v
  <2> TAKE i
  <2>1. i \in at <=> i \in 0 .. k /\ v \in attrEnumEntry(i, size).value
    BY <1>1, Zenon
  <2>2. CASE i \in 0 .. k - 1
    <3>1. attrEnumEntry(i, size).value = {Entries[i + 1].value}
      BY <1>3, <2>2
    <3>2. i \in 0 .. k
      BY <1>1, <2>2
    <3> QED BY <2>1, <2>2, <3>1, <3>2, Zenon
  <2>3. CASE i = k
    BY <1>1, <1>4, <2>1, <2>3
  <2>4. i \in 0 .. k => i \in 0 .. k - 1 \/ i = k
    BY <1>1
  <2> QED BY <2>1, <2>2, <2>3, <2>4
<1>6. \A i \in 1 .. k : i - 1 \in 0 .. k - 1 /\ i - 1 + 1 = i
  BY <1>1
<1>7. e # 0 <=> at # {}
  <2>1. ASSUME e # 0 PROVE at # {}
    <3>1. e \in 1 .. k /\ Entries[e].value = v
      <4>1. \A i \in 0 .. k : i # 0 => i \in 1 .. k
        BY <1>1
      <4> QED BY <1>2, <2>1, <4>1, Zenon
    <3>2. e - 1 \in at
      BY <1>5, <1>6, <3>1
    <3> QED BY <3>2
  <2>2. ASSUME NEW i \in at PROVE e # 0
    <3>1. i + 1 \in 1 .. k /\ Entries[i + 1].value = v
      BY <1>1, <1>5
    <3> QED BY <1>2, <3>1, Zenon
  <2> QED BY <2>1, <2>2
<1>8. \A i \in DOMAIN Enum : attrEnumHas(NumberOf(Enum[i].id))
  <2> TAKE i \in DOMAIN Enum
  <2> DEFINE S == {j \in DOMAIN Enum : Enum[j].id = Enum[i].id}
             j == First(S)
  <2>1. S \subseteq Nat \ {0} /\ i \in S /\ \A x \in S : x \in 1 .. k
    BY <1>1
  <2> HIDE DEF S
  <2>2. j \in S
    BY <2>1, FirstIs
  <2>3. NumberOf(Enum[i].id) = Enum[j].n
    BY Zenon DEF NumberOf, S
  <2> HIDE DEF j
  <2>4. j \in 1 .. k /\ Entries[j].value = Enum[j].n
    BY <2>1, <2>2, EntriesAre, Zenon DEF k
  <2>5. EntryOf(Enum[j].n) # 0
    BY <2>4, EntryOfIs, Zenon DEF k
  <2> QED BY <2>3, <2>5, Zenon DEF attrEnumHas
<1>9. ASSUME at # {}
      PROVE  attrEnumFind(v, size) = attrEnumEntry(Least(at), size).name
  <2> DEFINE n == e - 1
  <2>1. e \in 1 .. k /\ Entries[e].value = v /\ e # 0
    <3>1. \A i \in 0 .. k : i # 0 => i \in 1 .. k
      BY <1>1
    <3> QED BY <1>2, <1>7, <1>9, <3>1, Zenon
  <2>2. n \in at /\ n + 1 = e /\ n \in 0 .. k - 1
    BY <1>5, <1>6, <2>1
  <2>3. at \subseteq Nat
    BY <1>1, <1>5
  <2>4. ASSUME NEW m \in at PROVE n <= m
    <3>1. m + 1 \in 1 .. k /\ Entries[m + 1].value = v /\ m \in Nat
      BY <1>1, <1>5
    <3>2. e <= m + 1
      BY <1>2, <2>1, <3>1, Zenon
    <3> QED BY <1>1, <2>1, <3>1, <3>2
  <2> HIDE DEF n
  <2>5. Least(at) = n
    BY <2>2, <2>3, <2>4, LeastOnly
  <2>6. attrEnumEntry(n, size).name = attrTextCopy(Entries[e].text, size)
    BY <1>3, <2>2
  <2>7. attrEnumFind(v, size) = attrTextCopy(Entries[e].text, size)
    BY <2>1, Zenon DEF attrEnumFind, e
  <2> QED BY <2>5, <2>6, <2>7, Zenon
<1>10. ASSUME at = {} PROVE ReportText(v, size) = <<"Unknown error">>
  <2>1. EntryOf(v) = 0
    BY <1>7, <1>10, Zenon DEF e
  <2>2. attrEnumFind(v, size) = Nothing
    BY <2>1, Zenon DEF attrEnumFind
  <2>3. Nothing.dst = <<>>
    BY DEF Nothing
  <2> QED BY <2>2, <2>3, Zenon DEF ReportText
<1> QED BY <1>7, <1>8, <1>9, <1>10, Zenon DEF attrEnumHas, e

-----------------------------------------------------------------------------
(* Fields                                                                  *)

\* A part of a text.
Part(t, m, n) == SubSeq(t, m, n)

\* It has the characters of the text from one place to the other.
LEMMA PartIs ==
  ASSUME NEW S, NEW t \in Seq(S), NEW m \in 1 .. Len(t) + 1, NEW n \in m - 1 .. Len(t)
  PROVE  /\ Part(t, m, n) \in Seq(S) /\ Len(Part(t, m, n)) = n - m + 1
         /\ \A i \in 1 .. n - m + 1 : Part(t, m, n)[i] = t[i + m - 1]
<1>1. m \in Nat /\ n \in Nat /\ n <= Len(t) /\ m >= 1 /\ n - m + 1 \in Nat
  OBVIOUS
<1> QED BY <1>1 DEF Part

\* A text taken apart at a character is what is before it, it and what is
\* behind it.
LEMMA GlueIs ==
  ASSUME NEW S, NEW t \in Seq(S), NEW x \in 2 .. Len(t) + 1, NEW e \in x - 1 .. Len(t)
  PROVE  Joined(Part(t, 1, x - 2), Joined(Single(t[x - 1]), Part(t, x, e))) = Part(t, 1, e)
<1> DEFINE a == Part(t, 1, x - 2)
           o == Single(t[x - 1])
           r == Part(t, x, e)
           q == Joined(o, r)
           w == Joined(a, q)
           p == Part(t, 1, e)
<1>1. /\ Len(t) \in Nat /\ x \in Nat /\ e \in Nat
      /\ x - 1 \in 1 .. Len(t) /\ x \in 1 .. Len(t) + 1 /\ 1 \in 1 .. Len(t) + 1
      /\ x - 2 \in 1 - 1 .. Len(t) /\ e \in x - 1 .. Len(t) /\ e \in 1 - 1 .. Len(t)
  OBVIOUS
<1>2. /\ a \in Seq(S) /\ Len(a) = x - 2 - 1 + 1
      /\ \A i \in 1 .. x - 2 - 1 + 1 : a[i] = t[i + 1 - 1]
  BY <1>1, PartIs
<1>3. /\ r \in Seq(S) /\ Len(r) = e - x + 1
      /\ \A i \in 1 .. e - x + 1 : r[i] = t[i + x - 1]
  BY <1>1, PartIs
<1>4. /\ p \in Seq(S) /\ Len(p) = e - 1 + 1
      /\ \A i \in 1 .. e - 1 + 1 : p[i] = t[i + 1 - 1]
  BY <1>1, PartIs
<1>5. t[x - 1] \in S
  BY <1>1
<1>6. o \in Seq(S) /\ Len(o) = 1 /\ o[1] = t[x - 1]
  BY <1>5, SingleIs
<1> HIDE DEF a, o, r, p
<1>7. /\ q \in Seq(S) /\ Len(q) = Len(r) + 1 /\ q[1] = o[1]
      /\ \A i \in 1 .. Len(r) : q[i + 1] = r[i]
  <2>1. o \in Seq(S) /\ r \in Seq(S)
    BY <1>3, <1>6
  <2>2. Len(o) = 1 => /\ q \in Seq(S) /\ Len(q) = Len(r) + 1 /\ q[1] = o[1]
                      /\ \A i \in 1 .. Len(r) : q[i + 1] = r[i]
    BY <2>1, OneBefore
  <2> QED BY <1>6, <2>2, Zenon
<1> HIDE DEF q
<1>8. /\ w \in Seq(S) /\ Len(w) = Len(a) + Len(q)
      /\ \A i \in 1 .. Len(a) : w[i] = a[i]
      /\ \A i \in 1 .. Len(q) : w[i + Len(a)] = q[i]
  <2>1. a \in Seq(S) /\ q \in Seq(S)
    BY <1>2, <1>7
  <2>2. w \in Seq(S) /\ Len(w) = Len(a) + Len(q)
    BY <2>1, JoinedIs
  <2>3. \A i \in 1 .. Len(a) : w[i] = a[i]
    BY <2>1, JoinedIs
  <2>4. \A i \in 1 .. Len(q) : w[i + Len(a)] = q[i]
    BY <2>1, JoinedIs
  <2> QED BY <2>2, <2>3, <2>4
<1> HIDE DEF w
<1>9. Len(a) = x - 2 /\ Len(q) = e - x + 2 /\ Len(w) = e /\ Len(p) = e
  BY <1>1, <1>2, <1>3, <1>4, <1>7, <1>8
<1>10. ASSUME NEW i \in 1 .. e PROVE w[i] = p[i]
  <2>1. p[i] = t[i]
    BY <1>1, <1>4
  <2>2. CASE i \in 1 .. x - 2
    BY <1>1, <1>2, <1>8, <1>9, <2>1, <2>2
  <2>3. CASE i = x - 1
    <3>1. 1 \in 1 .. Len(q) /\ 1 + Len(a) = i
      BY <1>1, <1>9, <2>3
    <3>2. w[i] = q[1]
      BY <1>8, <3>1, Zenon
    <3> QED BY <1>6, <1>7, <2>1, <2>3, <3>2
  <2>4. CASE i \in x .. e
    <3> DEFINE j == i - x + 1
    <3>1. j \in 1 .. Len(r) /\ j + 1 \in 1 .. Len(q) /\ j + 1 + Len(a) = i /\ j + x - 1 = i
          /\ j \in 1 .. e - x + 1
      BY <1>1, <1>3, <1>9, <2>4
    <3> HIDE DEF j
    <3>2. w[i] = q[j + 1]
      BY <1>8, <3>1, Zenon
    <3>3. q[j + 1] = r[j]
      BY <1>7, <3>1, Zenon
    <3>4. r[j] = t[i]
      BY <1>3, <3>1
    <3> QED BY <2>1, <3>2, <3>3, <3>4
  <2> QED BY <1>1, <2>2, <2>3, <2>4
<1>11. w = p
  BY <1>4, <1>8, <1>9, <1>10, SameSeq
<1> QED BY <1>11, Zenon DEF a, o, r, q, w, p

\* A set of naturals that holds 0 and what follows each of its members
\* holds them all.
LEMMA AllNaturals ==
  ASSUME NEW S, 0 \in S, \A n \in S \cap Nat : n + 1 \in S
  PROVE  Nat \subseteq S
<1> SUFFICES ASSUME Nat \ S # {} PROVE FALSE
  OBVIOUS
<1>1. PICK x \in Nat \ S : \A y \in Nat \ S : ~(<<y, x>> \in OpToRel(<, Nat))
  BY WFMin, NatLessThanWellFounded
<1>2. x # 0 /\ x \in Nat
  BY <1>1
<1>3. x - 1 \in Nat /\ x - 1 < x /\ x - 1 + 1 = x
  BY <1>2
<1>4. <<x - 1, x>> \in OpToRel(<, Nat)
  BY <1>2, <1>3 DEF OpToRel
<1>5. x - 1 \in S
  BY <1>1, <1>3, <1>4
<1> QED BY <1>1, <1>3, <1>5

\* f goes from a by steps of g, m times, through values of T.
Iterates(f, T, a, g, m) ==
  f \in [0 .. m -> T] /\ f[0] = a /\ \A n \in 1 .. m : f[n] = g[<<n, f[n - 1]>>]

\* There is such a function for every length.
LEMMA RecursionExists ==
  ASSUME NEW T, NEW a \in T, NEW g \in [Nat \X T -> T], NEW m \in Nat
  PROVE  \E f : Iterates(f, T, a, g, m)
<1> DEFINE Sol(f, k) == Iterates(f, T, a, g, k)
           S == {k \in Nat : \E f : Sol(f, k)}
<1> USE DEF Iterates
<1>1. 0 \in S
  <2>1. Sol([n \in 0 .. 0 |-> a], 0)
    OBVIOUS
  <2> QED BY <2>1
<1>2. ASSUME NEW k \in S \cap Nat PROVE k + 1 \in S
  <2>1. PICK f : Sol(f, k)
    BY <1>2
  <2> DEFINE e == g[<<k + 1, f[k]>>]
             h == [n \in 0 .. k + 1 |-> IF n = k + 1 THEN e ELSE f[n]]
  <2>2. f[k] \in T /\ e \in T
    BY <2>1
  <2> HIDE DEF e
  <2>3. h \in [0 .. k + 1 -> T] /\ h[k + 1] = e /\ \A n \in 0 .. k : h[n] = f[n]
    BY <2>1, <2>2
  <2> HIDE DEF h
  <2>4. h[0] = a
    BY <2>1, <2>3
  <2>5. ASSUME NEW n \in 1 .. k + 1 PROVE h[n] = g[<<n, h[n - 1]>>]
    <3>1. CASE n = k + 1
      BY <2>3, <3>1 DEF e
    <3>2. CASE n \in 1 .. k
      BY <2>1, <2>3, <3>2
    <3> QED BY <3>1, <3>2
  <2>6. Sol(h, k + 1)
    BY <2>3, <2>4, <2>5
  <2> QED BY <2>6
<1> HIDE DEF S
<1>3. Nat \subseteq S
  BY <1>1, <1>2, AllNaturals
<1> QED BY <1>3 DEF S

\* Where the fields up to the m-th start.
StartsBy(f, t, m) == f = [n \in 0 .. m |-> IF n = 0 THEN 1 ELSE NextField(t, f[n - 1])]
Starts(t, m) == CHOOSE f : StartsBy(f, t, m)

\* Each is behind the bar that ends the one before.
LEMMA StartsAre ==
  ASSUME NEW t \in Seq(Chars), NEW m \in Nat
  PROVE  /\ Starts(t, m)[0] = 1
         /\ \A n \in 1 .. m : Starts(t, m)[n] = NextField(t, Starts(t, m)[n - 1])
         /\ Starts(t, m)[m] = FieldStart(t, m)
<1> DEFINE P == 0 .. Len(t) + 1
           g == [p \in Nat \X P |-> NextField(t, p[2])]
           a == 1
           s == Starts(t, m)
<1>1. Len(t) \in Nat /\ a \in P /\ 0 \in P
  OBVIOUS
<1>2. \A x \in P : NextField(t, x) \in P
  <2> TAKE x \in P
  <2>1. CASE x = 0 \/ Bar(t, x) = 0
    BY <1>1, <2>1, Zenon DEF NextField
  <2>2. CASE ~(x = 0 \/ Bar(t, x) = 0)
    <3>1. x \in 1 .. Len(t) + 1
      BY <1>1, <2>2
    <3>2. Bar(t, x) \in x .. Len(t)
      BY <2>2, <3>1, FieldIs, Zenon
    <3>3. NextField(t, x) = Bar(t, x) + 1
      BY <2>2, Zenon DEF NextField
    <3> QED BY <1>1, <3>1, <3>2, <3>3
  <2> QED BY <2>1, <2>2
<1> HIDE DEF P
<1>3. g \in [Nat \X P -> P]
  BY <1>2
<1> HIDE DEF a
<1>4. PICK f : Iterates(f, P, a, g, m)
  <2> HIDE DEF g
  <2> QED BY <1>1, <1>3, RecursionExists
<1>5. \A n \in 1 .. m : f[n] = NextField(t, f[n - 1])
  <2> TAKE n \in 1 .. m
  <2>1. n - 1 \in 0 .. m /\ n \in Nat
    OBVIOUS
  <2>2. f[n - 1] \in P /\ f[n] = g[<<n, f[n - 1]>>]
    BY <1>4, <2>1 DEF Iterates
  <2> QED BY <2>1, <2>2
<1>6. f[0] = 1 /\ DOMAIN f = 0 .. m
  BY <1>4 DEF Iterates, a
<1>7. StartsBy(f, t, m)
  <2> DEFINE r == [n \in 0 .. m |-> IF n = 0 THEN 1 ELSE NextField(t, f[n - 1])]
  <2>1. \A n \in 0 .. m : n = 0 \/ n \in 1 .. m
    OBVIOUS
  <2>2. \A n \in 0 .. m : f[n] = r[n]
    BY <1>5, <1>6, <2>1
  <2>3. f = [n \in 0 .. m |-> f[n]] /\ r = [n \in 0 .. m |-> r[n]]
    BY <1>4 DEF Iterates
  <2>4. f = r
    BY <2>2, <2>3
  <2> QED BY <2>4, Zenon DEF StartsBy
<1>8. StartsBy(s, t, m)
  BY <1>7, Zenon DEF Starts
<1> HIDE DEF s
<1>9. 0 \in 0 .. m /\ \A n \in 1 .. m : n \in 0 .. m /\ n # 0
  OBVIOUS
<1>10. s[0] = 1 /\ \A n \in 1 .. m : s[n] = NextField(t, s[n - 1])
  <2>1. \A n \in 0 .. m : s[n] = IF n = 0 THEN 1 ELSE NextField(t, s[n - 1])
    BY <1>8, Zenon DEF StartsBy
  <2> QED BY <1>9, <2>1
<1>11. s[m] = FieldStart(t, m)
  BY Zenon DEF s, Starts, StartsBy, FieldStart
<1> QED BY <1>10, <1>11, Zenon DEF s

\* A field starts behind the bar that ends the one before it.
LEMMA NextStart ==
  ASSUME NEW t \in Seq(Chars), NEW k \in Nat
  PROVE  FieldStart(t, k + 1) = NextField(t, FieldStart(t, k))
<1> DEFINE N == {n \in Nat : \A m \in Nat : n <= m => Starts(t, m)[n] = FieldStart(t, n)}
<1>1. 0 \in N
  <2>1. ASSUME NEW m \in Nat PROVE Starts(t, m)[0] = FieldStart(t, 0)
    BY StartsAre, StartOfFirst, Zenon
  <2> QED BY <2>1
<1>2. ASSUME NEW n \in N \cap Nat PROVE n + 1 \in N
  <2>1. n \in Nat /\ n + 1 \in Nat
    OBVIOUS
  <2>2. ASSUME NEW m \in Nat, n + 1 <= m
        PROVE  Starts(t, m)[n + 1] = NextField(t, FieldStart(t, n))
    <3>1. n + 1 \in 1 .. m /\ (n + 1) - 1 = n /\ n <= m
      BY <2>1, <2>2
    <3>2. Starts(t, m)[n + 1] = NextField(t, Starts(t, m)[(n + 1) - 1])
      BY <3>1, StartsAre, Zenon
    <3>3. Starts(t, m)[n] = FieldStart(t, n)
      BY <1>2, <3>1
    <3> QED BY <3>1, <3>2, <3>3
  <2>3. FieldStart(t, n + 1) = NextField(t, FieldStart(t, n))
    <3>1. n + 1 <= n + 1
      BY <2>1
    <3>2. Starts(t, n + 1)[n + 1] = FieldStart(t, n + 1)
      BY <2>1, StartsAre, Zenon
    <3> QED BY <2>1, <2>2, <3>1, <3>2, Zenon
  <2> QED BY <2>1, <2>2, <2>3
<1> HIDE DEF N
<1>3. Nat \subseteq N
  BY <1>1, <1>2, AllNaturals
<1>4. k \in N /\ k + 1 \in N /\ k + 1 \in Nat /\ k + 1 <= k + 1 /\ k <= k + 1 /\ k + 1 \in 1 .. k + 1
      /\ (k + 1) - 1 = k
  BY <1>3
<1>5. Starts(t, k + 1)[k] = FieldStart(t, k) /\ Starts(t, k + 1)[k + 1] = FieldStart(t, k + 1)
  BY <1>4, Zenon DEF N
<1>6. Starts(t, k + 1)[k + 1] = NextField(t, Starts(t, k + 1)[(k + 1) - 1])
  BY <1>4, StartsAre, Zenon
<1> QED BY <1>4, <1>5, <1>6

\* The bars of a text, and those before a place.
BarsOf(t) == {i \in DOMAIN t : t[i] = "|"}
BarsBefore(t, x) == {i \in BarsOf(t) : i < x}

\* There are so many.
LEMMA BarsAre ==
  ASSUME NEW t \in Seq(Chars)
  PROVE  /\ BarsOf(t) \subseteq 1 .. Len(t) /\ IsFiniteSet(BarsOf(t))
         /\ Cardinality(BarsOf(t)) \in Nat
         /\ \A x : /\ BarsBefore(t, x) \subseteq BarsOf(t) /\ IsFiniteSet(BarsBefore(t, x))
                   /\ Cardinality(BarsBefore(t, x)) \in Nat
                   /\ Cardinality(BarsBefore(t, x)) <= Cardinality(BarsOf(t))
                   /\ Cardinality(BarsBefore(t, x)) = Cardinality(BarsOf(t)) =>
                        BarsBefore(t, x) = BarsOf(t)
<1>1. DOMAIN t = 1 .. Len(t) /\ Len(t) \in Nat
  OBVIOUS
<1>2. BarsOf(t) \subseteq 1 .. Len(t)
  BY <1>1 DEF BarsOf
<1>3. IsFiniteSet(1 .. Len(t))
  BY <1>1, FS_Interval
<1>4. IsFiniteSet(BarsOf(t))
  BY <1>2, <1>3, FS_Subset
<1>5. Cardinality(BarsOf(t)) \in Nat
  BY <1>4, FS_CardinalityType
<1>6. ASSUME NEW x
      PROVE  /\ BarsBefore(t, x) \subseteq BarsOf(t) /\ IsFiniteSet(BarsBefore(t, x))
             /\ Cardinality(BarsBefore(t, x)) \in Nat
             /\ Cardinality(BarsBefore(t, x)) <= Cardinality(BarsOf(t))
             /\ Cardinality(BarsBefore(t, x)) = Cardinality(BarsOf(t)) =>
                  BarsBefore(t, x) = BarsOf(t)
  <2>1. BarsBefore(t, x) \subseteq BarsOf(t)
    BY DEF BarsBefore
  <2>2. /\ IsFiniteSet(BarsBefore(t, x))
        /\ Cardinality(BarsBefore(t, x)) <= Cardinality(BarsOf(t))
        /\ Cardinality(BarsOf(t)) = Cardinality(BarsBefore(t, x)) => BarsOf(t) = BarsBefore(t, x)
    BY <1>4, <2>1, FS_Subset, Zenon
  <2>3. Cardinality(BarsBefore(t, x)) \in Nat
    BY <2>2, FS_CardinalityType, Zenon
  <2> QED BY <2>1, <2>2, <2>3, Zenon
<1> QED BY <1>2, <1>4, <1>5, <1>6, Zenon

\* The k-th field starts behind the k-th bar.
LEMMA StartsBehindBars ==
  ASSUME NEW t \in Seq(Chars), NEW k \in 0 .. Cardinality(BarsOf(t))
  PROVE  /\ FieldStart(t, k) \in 1 .. Len(t) + 1
         /\ Cardinality(BarsBefore(t, FieldStart(t, k))) = k
<1> DEFINE bars == Cardinality(BarsOf(t))
           P(n) == /\ FieldStart(t, n) \in 1 .. Len(t) + 1
                   /\ Cardinality(BarsBefore(t, FieldStart(t, n))) = n
           N == {n \in Nat : n <= bars => P(n)}
<1>1. bars \in Nat /\ Len(t) \in Nat
  BY BarsAre
<1>2. P(0)
  <2>1. FieldStart(t, 0) = 1
    BY StartOfFirst
  <2>2. BarsBefore(t, 1) = {}
    <3>1. \A i \in BarsOf(t) : i \in Nat /\ ~(i < 1)
      BY BarsAre
    <3> QED BY <3>1 DEF BarsBefore
  <2>3. Cardinality({}) = 0
    BY FS_EmptySet
  <2>4. 1 \in 1 .. Len(t) + 1
    BY <1>1
  <2> QED BY <2>1, <2>2, <2>3, <2>4
<1> HIDE DEF bars
<1>3. ASSUME NEW n \in Nat, P(n), n + 1 <= bars PROVE P(n + 1)
  <2> DEFINE x == FieldStart(t, n)
             b == Bar(t, x)
  <2>1. x \in 1 .. Len(t) + 1 /\ Cardinality(BarsBefore(t, x)) = n
    BY <1>3
  <2>2. FieldStart(t, n + 1) = NextField(t, x)
    BY NextStart, Zenon
  <2> HIDE DEF x
  <2>3. b # 0
    <3>1. SUFFICES ASSUME b = 0 PROVE FALSE
      OBVIOUS
    <3>2. \A i \in x .. Len(t) : t[i] # "|"
      BY <2>1, <3>1, FieldIs, Zenon
    <3>3. ASSUME NEW i \in BarsOf(t) PROVE i < x
      <4>1. i \in 1 .. Len(t) /\ t[i] = "|"
        BY BarsAre DEF BarsOf
      <4>2. i \notin x .. Len(t)
        BY <3>2, <4>1
      <4> QED BY <2>1, <4>1, <4>2
    <3>4. BarsBefore(t, x) = BarsOf(t)
      BY <3>3 DEF BarsBefore
    <3>5. n = bars
      BY <2>1, <3>4, Zenon DEF bars
    <3> QED BY <1>1, <1>3, <3>5
  <2>4. /\ b \in x .. Len(t) /\ t[b] = "|"
        /\ \A i \in x .. b - 1 : t[i] # "|"
    BY <2>1, <2>3, FieldIs, Zenon
  <2>5. x # 0
    BY <2>1
  <2>6. FieldStart(t, n + 1) = b + 1
    BY <2>2, <2>3, <2>5, Zenon DEF NextField
  <2> HIDE DEF b
  <2>7. b + 1 \in 1 .. Len(t) + 1 /\ b \in 1 .. Len(t) /\ x \in Nat
    BY <1>1, <2>1, <2>4
  <2>8. BarsBefore(t, b + 1) = BarsBefore(t, x) \cup {b}
    <3>1. b \in BarsOf(t) /\ b < b + 1
      <4>1. DOMAIN t = 1 .. Len(t)
        OBVIOUS
      <4> QED BY <2>4, <2>7, <4>1 DEF BarsOf
    <3>2. ASSUME NEW i \in BarsOf(t) PROVE i < b + 1 <=> i < x \/ i = b
      <4>1. i \in 1 .. Len(t) /\ t[i] = "|"
        BY BarsAre DEF BarsOf
      <4>2. i \notin x .. b - 1
        BY <2>4, <4>1
      <4> QED BY <2>4, <2>7, <4>1, <4>2
    <3> QED BY <3>1, <3>2 DEF BarsBefore
  <2>9. b \notin BarsBefore(t, x)
    BY <2>4, <2>7 DEF BarsBefore
  <2>10. Cardinality(BarsBefore(t, x) \cup {b}) = n + 1
    <3>1. IsFiniteSet(BarsBefore(t, x))
      BY BarsAre, Zenon
    <3>2. Cardinality(BarsBefore(t, x) \cup {b}) = Cardinality(BarsBefore(t, x)) + 1
      BY <2>9, <3>1, FS_AddElement
    <3> QED BY <2>1, <3>2
  <2> QED BY <2>6, <2>7, <2>8, <2>10, Zenon
<1>4. 0 \in N
  BY <1>2
<1>5. ASSUME NEW n \in N \cap Nat PROVE n + 1 \in N
  <2>1. n \in Nat /\ n + 1 \in Nat /\ (n + 1 <= bars => n <= bars)
    BY <1>1
  <2>2. n <= bars => P(n)
    BY <1>5, Zenon
  <2> HIDE DEF P
  <2>3. n + 1 <= bars => P(n + 1)
    BY <1>3, <2>1, <2>2, Zenon
  <2> QED BY <2>1, <2>3
<1> HIDE DEF N, P
<1>6. Nat \subseteq N
  BY <1>4, <1>5, AllNaturals
<1>7. k \in Nat /\ k <= bars
  BY <1>1 DEF bars
<1>8. P(k)
  BY <1>6, <1>7 DEF N
<1> QED BY <1>8, Zenon DEF P

\* Behind the last bar is the last field.
LEMMA LastField ==
  ASSUME NEW t \in Seq(Chars)
  PROVE  /\ Bar(t, FieldStart(t, Cardinality(BarsOf(t)))) = 0
         /\ FieldStart(t, Cardinality(BarsOf(t)) + 1) = 0
<1> DEFINE bars == Cardinality(BarsOf(t))
           x == FieldStart(t, bars)
<1>1. bars \in Nat /\ bars \in 0 .. bars
  BY BarsAre
<1>2. x \in 1 .. Len(t) + 1 /\ Cardinality(BarsBefore(t, x)) = bars
  BY <1>1, StartsBehindBars, Zenon
<1>3. FieldStart(t, bars + 1) = NextField(t, x)
  BY <1>1, NextStart, Zenon
<1> HIDE DEF bars, x
<1>4. BarsBefore(t, x) = BarsOf(t)
  BY <1>2, BarsAre, Zenon DEF bars
<1>5. ASSUME NEW i \in x .. Len(t) PROVE t[i] # "|"
  <2>1. i \in DOMAIN t /\ ~(i < x)
    BY <1>2
  <2>2. i \notin BarsOf(t)
    BY <1>4, <2>1 DEF BarsBefore
  <2> QED BY <2>1, <2>2 DEF BarsOf
<1>6. Bar(t, x) = 0
  BY <1>2, <1>5, FieldIs, Zenon
<1>7. NextField(t, x) = 0
  BY <1>6, Zenon DEF NextField
<1> QED BY <1>3, <1>6, <1>7, Zenon DEF bars, x

\* Texts put one behind another, step by step.
FlatBy(flat, seqs, m) ==
  /\ FlattenSeq(seqs) = flat[m]
  /\ flat[1] = seqs[1]
  /\ \A i \in 2 .. m : flat[i] = Joined(flat[i - 1], seqs[i])

\* They can be.
LEMMA FlattenSteps ==
  ASSUME NEW S, NEW seqs \in Seq(Seq(S)), NEW m, m = Len(seqs), m # 0
  PROVE  \E flat : FlatBy(flat, seqs, m)
<1> DEFINE Q == Seq(S)
           G(f) == f = [i \in 1 .. m |-> IF i = 1 THEN seqs[i] ELSE f[i - 1] \o seqs[i]]
           flat == CHOOSE f : G(f)
           g == [p \in Nat \X Q |->
                   IF p[1] + 1 \in 1 .. m THEN Joined(p[2], seqs[p[1] + 1]) ELSE p[2]]
<1>1. m \in Nat /\ DOMAIN seqs = 1 .. m /\ \A i \in 1 .. m : seqs[i] \in Q
  OBVIOUS
<1>2. \A s, t \in Q : Joined(s, t) \in Q
  BY DEF Joined
<1>3. FlattenSeq(seqs) = flat[m]
  BY Zenon DEF FlattenSeq
<1>4. m # 0
  OBVIOUS
<1> HIDE DEF Q
<1>5. m - 1 \in Nat /\ 1 \in 1 .. m /\ m \in 1 .. m /\ seqs[1] \in Q
  BY <1>1, <1>4
<1>6. g \in [Nat \X Q -> Q]
  BY <1>1, <1>2
<1>7. PICK e : e \in [0 .. m - 1 -> Q] /\ e[0] = seqs[1]
               /\ \A n \in 1 .. m - 1 : e[n] = g[<<n, e[n - 1]>>]
  <2> HIDE DEF g
  <2> DEFINE k == m - 1
  <2>1. k \in Nat
    BY <1>5
  <2> HIDE DEF k
  <2>2. \E e : Iterates(e, Q, seqs[1], g, k)
    BY <1>5, <1>6, <2>1, RecursionExists
  <2> QED BY <2>2 DEF Iterates, k
<1> DEFINE f == [i \in 1 .. m |-> e[i - 1]]
<1>8. \A i \in 1 .. m : i # 1 => f[i] = Joined(f[i - 1], seqs[i])
  <2> TAKE i \in 1 .. m
  <2>1. SUFFICES ASSUME i # 1 PROVE f[i] = Joined(f[i - 1], seqs[i])
    OBVIOUS
  <2>2. i - 1 \in 1 .. m - 1 /\ i - 1 \in 1 .. m /\ i - 1 \in Nat /\ (i - 1) + 1 = i
        /\ (i - 1) - 1 \in 0 .. m - 1
    BY <1>1, <2>1
  <2>3. e[i - 1] = g[<<i - 1, e[(i - 1) - 1]>>] /\ e[(i - 1) - 1] \in Q
    BY <1>7, <2>2
  <2>4. g[<<i - 1, e[(i - 1) - 1]>>] = Joined(e[(i - 1) - 1], seqs[i])
    BY <2>2, <2>3
  <2> QED BY <2>2, <2>3, <2>4
<1>9. G(f)
  <2> DEFINE r == [i \in 1 .. m |-> IF i = 1 THEN seqs[i] ELSE f[i - 1] \o seqs[i]]
  <2>1. f[1] = seqs[1]
    BY <1>5, <1>7
  <2> HIDE DEF f
  <2>2. \A i \in 1 .. m : f[i] = r[i]
    BY <1>8, <2>1 DEF Joined
  <2>3. f = [i \in 1 .. m |-> f[i]] /\ r = [i \in 1 .. m |-> r[i]]
    BY DEF f
  <2>4. f = r
    BY <2>2, <2>3
  <2> QED BY <2>4, Zenon
<1>10. G(flat)
  BY <1>9, Zenon
<1> HIDE DEF flat
<1>11. \A i \in 1 .. m : flat[i] = IF i = 1 THEN seqs[i] ELSE Joined(flat[i - 1], seqs[i])
  BY <1>10, Zenon DEF Joined
<1>12. \A i \in 2 .. m : i \in 1 .. m /\ i # 1
  BY <1>1
<1>13. flat[1] = seqs[1] /\ \A i \in 2 .. m : flat[i] = Joined(flat[i - 1], seqs[i])
  BY <1>5, <1>11, <1>12
<1> QED BY <1>3, <1>13, Zenon DEF FlatBy

\* Where a field ends.
EndOf(t, x) == IF Bar(t, x) = 0 THEN Len(t) ELSE Bar(t, x) - 1

\* A field of a text, whole.
LEMMA FieldIsPart ==
  ASSUME NEW t \in Seq(Chars), Len(t) <= MaxLen,
         NEW k \in 0 .. Cardinality(BarsOf(t)), NEW x, x = FieldStart(t, k)
  PROVE  /\ attrTextField(t, k, MaxLen + 1).ok
         /\ attrTextField(t, k, MaxLen + 1).dst = Part(t, x, EndOf(t, x))
         /\ x \in 1 .. Len(t) + 1 /\ EndOf(t, x) \in x - 1 .. Len(t)
<1> DEFINE f == Field(t, x)
           e == EndOf(t, x)
           size == MaxLen + 1
<1>1. x \in 1 .. Len(t) + 1
  BY StartsBehindBars, Zenon
<1>2. Len(t) \in Nat /\ MaxLen \in Nat /\ x # 0 /\ size # 0
  BY <1>1, TextAssumption
<1>3. f = Part(t, x, e)
  BY Zenon DEF Field, Part, EndOf
<1>4. e \in x - 1 .. Len(t)
  <2>1. CASE Bar(t, x) = 0
    BY <1>1, <1>2, <2>1 DEF EndOf
  <2>2. CASE Bar(t, x) # 0
    <3>1. Bar(t, x) \in x .. Len(t)
      BY <1>1, <2>2, FieldIs, Zenon
    <3>2. e = Bar(t, x) - 1
      BY <2>2, Zenon DEF EndOf
    <3> HIDE DEF e
    <3> QED BY <1>1, <1>2, <3>1, <3>2
  <2> QED BY <2>1, <2>2
<1>5. attrTextField(t, k, size) = Into(f, size)
  BY <1>2, Zenon DEF attrTextField
<1> HIDE DEF f, e, size
<1>6. f \in Seq(Chars) /\ Len(f) = e - x + 1
  BY <1>1, <1>3, <1>4, PartIs
<1>7. Len(f) + 1 <= size /\ size - 1 = MaxLen /\ Len(f) <= MaxLen
  BY <1>1, <1>2, <1>4, <1>6 DEF size
<1>8. Into(f, size) = [ok |-> TRUE, dst |-> f]
  <2>1. Cut(f, size - 1) = f
    BY <1>7, Zenon DEF Cut
  <2>2. (Len(f) + 1 <= size) = TRUE
    BY <1>7
  <2> QED BY <2>1, <2>2, Zenon DEF Into
<1>9. [ok |-> TRUE, dst |-> f].ok /\ [ok |-> TRUE, dst |-> f].dst = f
  OBVIOUS
<1> QED BY <1>1, <1>3, <1>4, <1>5, <1>8, <1>9, Zenon DEF size, e

\* What is before a field, and the field.
Lead(i) == IF i = 1 THEN <<>> ELSE <<"|">>

\* Nothing is before the first field, a bar before the others.
LEMMA LeadIs ==
  ASSUME NEW S, NEW s \in Seq(S), "|" \in S
  PROVE  /\ Joined(Lead(1), s) = s
         /\ \A i \in Nat : i # 1 => Lead(i) = Single("|")
<1>1. Lead(1) = <<>> /\ \A i \in Nat : i # 1 => Lead(i) = Single("|")
  BY Zenon DEF Lead, Single
<1>2. <<>> \o s = s
  OBVIOUS
<1> QED BY <1>1, <1>2, Zenon DEF Joined

\* The fields with the bars between them are the text.
Pieces(t) == [i \in 1 .. Cardinality(BarsOf(t)) + 1 |->
                Lead(i) \o attrTextField(t, i - 1, MaxLen + 1).dst]

\* Put together they are the text.
LEMMA FieldsJoin ==
  ASSUME NEW t \in Seq(Chars), Len(t) <= MaxLen
  PROVE  FlattenSeq(Pieces(t)) = t
<1> DEFINE bars == Cardinality(BarsOf(t))
           seqs == Pieces(t)
           C == Chars \cup {"|"}
           X(i) == FieldStart(t, i - 1)
           E(i) == EndOf(t, X(i))
           F(i) == Part(t, X(i), E(i))
<1>1. /\ bars \in Nat /\ Len(t) \in Nat /\ bars + 1 \in Nat
      /\ \A i \in 1 .. bars + 1 : i - 1 \in 0 .. bars /\ i \in Nat
  BY BarsAre
<1>2. t \in Seq(C)
  BY Chars \subseteq C, WiderSeq
<1>3. "|" \in C
  OBVIOUS
<1>4. /\ \A i \in 1 .. bars + 1 :
           seqs[i] = Lead(i) \o attrTextField(t, i - 1, MaxLen + 1).dst
      /\ seqs = [i \in 1 .. bars + 1 |-> seqs[i]]
  BY DEF Pieces
<1> HIDE DEF C, seqs, bars
<1>5. ASSUME NEW i \in 1 .. bars + 1
      PROVE  /\ X(i) \in 1 .. Len(t) + 1 /\ E(i) \in X(i) - 1 .. Len(t)
             /\ attrTextField(t, i - 1, MaxLen + 1).dst = F(i)
             /\ F(i) \in Seq(C)
             /\ seqs[i] = Joined(Lead(i), F(i))
  <2>1. i - 1 \in 0 .. Cardinality(BarsOf(t))
    BY <1>1, Zenon DEF bars
  <2>2. /\ X(i) \in 1 .. Len(t) + 1 /\ E(i) \in X(i) - 1 .. Len(t)
        /\ attrTextField(t, i - 1, MaxLen + 1).dst = F(i)
    BY <2>1, FieldIsPart, Zenon
  <2>3. F(i) \in Seq(C)
    <3> HIDE DEF X, E
    <3> QED BY <1>2, <2>2, PartIs
  <2> QED BY <1>4, <2>2, <2>3, Zenon DEF Joined
<1>6. ASSUME NEW i \in 2 .. bars + 1
      PROVE  /\ i - 1 \in 1 .. bars + 1 /\ i \in 1 .. bars + 1
             /\ X(i) \in 2 .. Len(t) + 1 /\ t[X(i) - 1] = "|" /\ E(i - 1) = X(i) - 2
  <2> DEFINE j == i - 1
             x == X(j)
             b == Bar(t, x)
  <2>1. /\ i - 1 \in 1 .. bars + 1 /\ i \in 1 .. bars + 1
        /\ j \in 1 .. bars + 1 /\ j - 1 \in Nat /\ (j - 1) + 1 = i - 1
    BY <1>1
  <2>2. x \in 1 .. Len(t) + 1 /\ X(i) \in 1 .. Len(t) + 1
    BY <1>5, <2>1, Zenon
  <2>3. X(i) = NextField(t, x)
    <3>1. FieldStart(t, (j - 1) + 1) = NextField(t, FieldStart(t, j - 1))
      BY <2>1, NextStart
    <3> QED BY <2>1, <3>1
  <2> HIDE DEF x, X
  <2>4. x # 0 /\ b # 0 /\ X(i) = b + 1
    <3>1. X(i) # 0
      BY <2>2
    <3> QED BY <2>3, <3>1, Zenon DEF NextField
  <2>5. b \in x .. Len(t) /\ t[b] = "|"
    BY <2>2, <2>4, FieldIs, Zenon
  <2>6. E(i - 1) = b - 1
    BY <2>4, Zenon DEF EndOf, x
  <2> HIDE DEF b, E
  <2>7. b \in Nat /\ X(i) - 1 = b /\ X(i) \in 2 .. Len(t) + 1 /\ b - 1 = X(i) - 2
    BY <1>1, <2>2, <2>4, <2>5
  <2> QED BY <2>1, <2>5, <2>6, <2>7, Zenon
<1>7. \A i \in Nat : i # 1 => Lead(i) = Single("|")
  BY <1>2, <1>3, LeadIs
<1>8. seqs \in Seq(Seq(C)) /\ Len(seqs) = bars + 1
  <2>1. ASSUME NEW i \in 1 .. bars + 1 PROVE seqs[i] \in Seq(C)
    <3>1. CASE i = 1
      <4>1. seqs[1] = Joined(Lead(1), F(1)) /\ F(1) \in Seq(C)
        BY <1>5, <3>1, Zenon
      <4> HIDE DEF F
      <4>2. Joined(Lead(1), F(1)) = F(1)
        BY <1>3, <4>1, LeadIs
      <4> QED BY <3>1, <4>1, <4>2
    <3>2. CASE i # 1
      <4>1. Lead(i) = Single("|") /\ Single("|") \in Seq(C)
        BY <1>1, <1>3, <1>7, <3>2, SingleIs, Zenon
      <4>2. seqs[i] = Joined(Lead(i), F(i)) /\ F(i) \in Seq(C)
        BY <1>5, Zenon
      <4> HIDE DEF F
      <4>3. Joined(Single("|"), F(i)) \in Seq(C)
        BY <4>1, <4>2, JoinedIs
      <4> QED BY <4>1, <4>2, <4>3, Zenon
    <3> QED BY <3>1, <3>2
  <2>2. seqs = [i \in 1 .. bars + 1 |-> seqs[i]]
    BY <1>4
  <2> DEFINE Q == Seq(C)
             m == bars + 1
  <2>3. m \in Nat
    BY <1>1
  <2>4. \A i \in 1 .. m : seqs[i] \in Q
    BY <2>1, Zenon
  <2> HIDE DEF Q, m
  <2>5. [i \in 1 .. m |-> seqs[i]] \in Seq(Q) /\ Len([i \in 1 .. m |-> seqs[i]]) = m
    BY <2>3, <2>4
  <2> QED BY <2>2, <2>5, Zenon DEF Q, m
<1>9. PICK flat : FlatBy(flat, seqs, bars + 1)
  <2> DEFINE m == bars + 1
  <2>1. seqs \in Seq(Seq(C)) /\ m = Len(seqs) /\ m # 0
    BY <1>1, <1>8
  <2> HIDE DEF m
  <2>2. \E flat : FlatBy(flat, seqs, m)
    BY <2>1, FlattenSteps
  <2> QED BY <2>2, Zenon DEF m
<1>10. /\ FlattenSeq(seqs) = flat[bars + 1] /\ flat[1] = seqs[1]
       /\ \A i \in 2 .. bars + 1 : flat[i] = Joined(flat[i - 1], seqs[i])
  BY <1>9, Zenon DEF FlatBy
<1> DEFINE N == {n \in Nat : n + 1 <= bars + 1 => flat[n + 1] = Part(t, 1, E(n + 1))}
<1>11. 0 \in N
  <2>1. 1 \in 1 .. bars + 1
    BY <1>1
  <2>2. seqs[1] = Joined(Lead(1), F(1)) /\ F(1) \in Seq(C)
    BY <1>5, <2>1, Zenon
  <2>3. X(1) = 1
    <3>1. 1 - 1 = 0
      OBVIOUS
    <3> QED BY <3>1, StartOfFirst
  <2>4. F(1) = Part(t, 1, E(1))
    BY <2>3, Zenon
  <2> HIDE DEF F, E
  <2>5. Joined(Lead(1), F(1)) = F(1)
    BY <1>3, <2>2, LeadIs
  <2>6. 0 + 1 = 1
    OBVIOUS
  <2>7. flat[0 + 1] = Part(t, 1, E(0 + 1))
    BY <1>10, <2>2, <2>4, <2>5, <2>6, Zenon
  <2> QED BY <2>7
<1>12. ASSUME NEW n \in N \cap Nat PROVE n + 1 \in N
  <2> DEFINE i == (n + 1) + 1
  <2>1. SUFFICES ASSUME i <= bars + 1 PROVE flat[i] = Part(t, 1, E(i))
    OBVIOUS
  <2>2. n \in Nat /\ i \in 2 .. bars + 1 /\ i - 1 = n + 1 /\ n + 1 <= bars + 1 /\ i \in Nat /\ i # 1
    BY <1>1, <2>1
  <2>3. flat[i - 1] = Part(t, 1, E(i - 1))
    BY <1>12, <2>2
  <2> HIDE DEF i, N
  <2>4. /\ i \in 1 .. bars + 1 /\ X(i) \in 2 .. Len(t) + 1 /\ t[X(i) - 1] = "|"
        /\ E(i - 1) = X(i) - 2
    BY <1>6, <2>2, Zenon
  <2>5. seqs[i] = Joined(Lead(i), F(i)) /\ E(i) \in X(i) - 1 .. Len(t)
    BY <1>5, <2>4, Zenon
  <2>6. Lead(i) = Single(t[X(i) - 1])
    BY <1>7, <2>2, <2>4
  <2>7. flat[i] = Joined(flat[i - 1], seqs[i])
    BY <1>10, <2>2, Zenon
  <2>8. flat[i] = Joined(Part(t, 1, X(i) - 2), Joined(Single(t[X(i) - 1]), Part(t, X(i), E(i))))
    BY <2>3, <2>4, <2>5, <2>6, <2>7, Zenon
  <2> HIDE DEF X, E
  <2> QED BY <2>4, <2>5, <2>8, GlueIs
<1> HIDE DEF N
<1>13. Nat \subseteq N
  BY <1>11, <1>12, AllNaturals
<1>14. flat[bars + 1] = Part(t, 1, E(bars + 1))
  BY <1>1, <1>13 DEF N
<1>15. E(bars + 1) = Len(t)
  <2>1. (bars + 1) - 1 = bars
    BY <1>1
  <2>2. Bar(t, FieldStart(t, bars)) = 0
    BY LastField, Zenon DEF bars
  <2> QED BY <2>1, <2>2 DEF EndOf
<1> HIDE DEF E
<1>16. Part(t, 1, Len(t)) = t
  BY DEF Part
<1> QED BY <1>10, <1>14, <1>15, <1>16, Zenon DEF seqs

\* Read one after another and put together again, the fields are the text.
LEMMA FieldsAreTold ==
  ASSUME typed \in Seq(Chars), Len(typed) <= MaxLen
  PROVE  FieldsMakeTheText
<1> DEFINE bars == Cardinality(BarsOf(typed))
<1>1. FlattenSeq(Pieces(typed)) = typed
  BY FieldsJoin, Zenon
<1>2. \A f \in 0 .. bars : attrTextField(typed, f, MaxLen + 1).ok
  BY FieldIsPart, Zenon
<1>3. attrTextField(typed, bars + 1, MaxLen + 1) = Nothing
  BY LastField, Zenon DEF attrTextField
<1> QED BY <1>1, <1>2, <1>3, Zenon DEF FieldsMakeTheText, BarsOf, Lead, Pieces

\* A field is told the truth about in every buffer.
LEMMA FieldsCut ==
  ASSUME typed \in Seq(Chars), Len(typed) <= MaxLen
  PROVE  FieldsCutToFit
<1> SUFFICES ASSUME NEW f \in 0 .. Cardinality(BarsOf(typed))
             PROVE  /\ \A size \in 1 .. MaxLen :
                         Told(attrTextField(typed, f, size), attrTextField(typed, f, MaxLen + 1).dst, size)
                    /\ attrTextField(typed, f, 0) = Nothing
  BY Zenon DEF FieldsCutToFit, BarsOf
<1>1. attrTextField(typed, f, 0) = Nothing
  BY Zenon DEF attrTextField
<1>2. ASSUME NEW size \in 1 .. MaxLen
      PROVE  Told(attrTextField(typed, f, size), attrTextField(typed, f, MaxLen + 1).dst, size)
  <2> DEFINE x == FieldStart(typed, f)
             e == EndOf(typed, x)
  <2>1. /\ attrTextField(typed, f, MaxLen + 1).dst = Part(typed, x, e)
        /\ x \in 1 .. Len(typed) + 1 /\ e \in x - 1 .. Len(typed)
    BY FieldIsPart, Zenon
  <2>2. Field(typed, x) = Part(typed, x, e)
    BY Zenon DEF Field, Part, EndOf
  <2>3. size \in Nat /\ size # 0 /\ x # 0
    BY <2>1, TextAssumption
  <2>4. attrTextField(typed, f, size) = Into(Field(typed, x), size)
    BY <2>3, Zenon DEF attrTextField
  <2> HIDE DEF x, e
  <2>5. Part(typed, x, e) \in Seq(Chars)
    BY <2>1, PartIs
  <2>6. Told(Into(Part(typed, x, e), size), Part(typed, x, e), size)
    BY <2>3, <2>5, IntoTold
  <2> QED BY <2>1, <2>2, <2>4, <2>6
<1> QED BY <1>1, <1>2

\* The words are taken apart right: every text in every list of fields, every
\* entry of an enumeration, every text for a unit.
THEOREM WordsAlwaysTakenApart == TextSpec => []WordsTakenApart
<1>1. TextInv => WordsTakenApart
  <2> SUFFICES ASSUME typed \in Seq(Chars), Len(typed) <= MaxLen PROVE WordsTakenApart
    BY DEF TextInv
  <2>1. EnumByNumberAndPosition
    BY EnumIsOne, Zenon DEF EnumByNumberAndPosition
  <2> QED BY <2>1, FieldsAreTold, FieldsCut, UnitsAreTold DEF WordsTakenApart
<1> QED BY <1>1, TextInitInv, TextNextInv, PTL DEF TextSpec

-----------------------------------------------------------------------------
(* The lists behind the pointers                                           *)

\* The node at position i of a list, Null past its end.
At(s, i) == IF i \in 1 .. Len(s) THEN s[i] ELSE Null

On(h, s) == \E i \in 1 .. Len(s) : s[i] = h

\* The pointers hd and nx make the list L[a] of every attribute a.
ListedBy(hd, nx, L) ==
  /\ L \in [Attrs -> Seq(Hooks)]
  /\ \A a \in Attrs : hd[a] = At(L[a], 1)
  /\ \A a \in Attrs : \A i \in 1 .. Len(L[a]) : nx[L[a][i]] = At(L[a], i + 1)
  /\ \A a \in Attrs : \A i \in 1 .. Len(L[a]) : Source[L[a][i]] = a
  /\ \A a \in Attrs : \A i, j \in 1 .. Len(L[a]) : L[a][i] = L[a][j] => i = j
  /\ \A h \in Hooks : nx[h] # Null => On(h, L[Source[h]])

\* No list is longer than there are hooks.
LEMMA ListFits ==
  ASSUME NEW s \in Seq(Hooks), \A i, j \in 1 .. Len(s) : s[i] = s[j] => i = j
  PROVE  Len(s) <= Cardinality(Hooks) /\ Cardinality(Hooks) \in Nat
<1>1. IsFiniteSet(Hooks)
  BY HooksAssumption
<1>2. s \in Injection(1 .. Len(s), Hooks)
  BY DEF Injection, IsInjective
<1>3. Cardinality(1 .. Len(s)) <= Cardinality(Hooks) /\ Cardinality(Hooks) \in Nat
  BY <1>1, <1>2, FS_Injection, FS_CardinalityType
<1>4. Len(s) \in Nat /\ Cardinality(1 .. Len(s)) = IF 1 > Len(s) THEN 0 ELSE Len(s) - 1 + 1
  BY FS_Interval
<1> QED BY <1>3, <1>4

\* The recursion of Chain(a), as an equation.
Steps(a, f, m) ==
  f = [i \in 0 .. m |-> IF i = 0 THEN head[a]
                        ELSE IF f[i - 1] = Null THEN Null ELSE next[f[i - 1]]]

\* There is such a function for every length.
LEMMA StepsExist ==
  ASSUME NEW a, NEW m \in Nat
  PROVE  \E f : Steps(a, f, m)
<1> DEFINE S == {k \in Nat : \E f : Steps(a, f, k)}
<1>1. 0 \in S
  <2> DEFINE f == [i \in 0 .. 0 |-> head[a]]
  <2>1. Steps(a, f, 0)
    BY DEF Steps
  <2> QED BY <2>1
<1>2. ASSUME NEW k \in S \cap Nat PROVE k + 1 \in S
  <2>1. PICK f : Steps(a, f, k)
    BY <1>2
  <2> DEFINE e == IF f[k] = Null THEN Null ELSE next[f[k]]
             g == [i \in 0 .. k + 1 |-> IF i = k + 1 THEN e ELSE f[i]]
  <2>2. \A i \in 0 .. k : f[i] = IF i = 0 THEN head[a]
                                 ELSE IF f[i - 1] = Null THEN Null ELSE next[f[i - 1]]
    BY <2>1, Zenon DEF Steps
  <2>3. \A i \in 0 .. k : g[i] = f[i]
    OBVIOUS
  <2>4. g[k + 1] = IF g[k] = Null THEN Null ELSE next[g[k]]
    BY <2>3
  <2> HIDE DEF e
  <2>5. \A i \in 0 .. k + 1 :
          g[i] = IF i = 0 THEN head[a] ELSE IF g[i - 1] = Null THEN Null ELSE next[g[i - 1]]
    <3> TAKE i \in 0 .. k + 1
    <3>1. CASE i = k + 1
      BY <2>4, <3>1
    <3>2. CASE i \in 0 .. k
      BY <2>2, <2>3, <3>2
    <3> QED BY <3>1, <3>2
  <2>6. Steps(a, g, k + 1)
    <3> DEFINE r == [i \in 0 .. k + 1 |-> IF i = 0 THEN head[a]
                       ELSE IF g[i - 1] = Null THEN Null ELSE next[g[i - 1]]]
    <3>1. \A i \in 0 .. k + 1 : g[i] = r[i]
      BY <2>5, Zenon
    <3>2. DOMAIN g = 0 .. k + 1 /\ DOMAIN r = 0 .. k + 1
      OBVIOUS
    <3>3. g = r
      BY <3>1, <3>2
    <3> QED BY <3>3, Zenon DEF Steps
  <2> QED BY <2>6
<1>3. Nat \subseteq S
  BY <1>1, <1>2, AllNaturals
<1> QED BY <1>3

\* Chain(a) is the list behind the pointers of a's chain.
LEMMA ChainIs ==
  ASSUME NEW L, ListedBy(head, next, L), NEW a \in Attrs
  PROVE  Chain(a) = L[a]
<1> DEFINE N == Cardinality(Hooks)
           s == L[a]
           node == CHOOSE f : Steps(a, f, N)
<1>1. /\ s \in Seq(Hooks)
      /\ head[a] = At(s, 1)
      /\ \A i \in 1 .. Len(s) : next[s[i]] = At(s, i + 1)
      /\ \A i, j \in 1 .. Len(s) : s[i] = s[j] => i = j
  BY DEF ListedBy
<1>2. N \in Nat /\ Len(s) \in Nat /\ Len(s) <= N
  BY <1>1, ListFits
<1>3. Steps(a, node, N)
  BY <1>2, StepsExist
<1>4. Chain(a) = [i \in 1 .. Cardinality({j \in DOMAIN node : node[j] # Null}) |-> node[i - 1]]
  <2>1. DOMAIN node = 0 .. N
    BY <1>3 DEF Steps
  <2>2. Chain(a) = [i \in 1 .. Cardinality({j \in 0 .. N : node[j] # Null}) |-> node[i - 1]]
    BY Zenon DEF Chain, Steps
  <2> QED BY <2>1, <2>2
<1> HIDE DEF N, s, node
<1>5. \A i \in 0 .. N : node[i] = IF i = 0 THEN head[a]
                                   ELSE IF node[i - 1] = Null THEN Null ELSE next[node[i - 1]]
  BY <1>3, Zenon DEF Steps
<1>6. \A i \in 0 .. N : node[i] = At(s, i + 1)
  <2> DEFINE S == {i \in Nat : i \in 0 .. N => node[i] = At(s, i + 1)}
  <2>1. 0 \in S
    BY <1>1, <1>2, <1>5
  <2>2. ASSUME NEW i \in S \cap Nat PROVE i + 1 \in S
    <3>1. SUFFICES ASSUME i + 1 \in 0 .. N PROVE node[i + 1] = At(s, i + 1 + 1)
      BY <2>2
    <3>2. node[i] = At(s, i + 1)
      BY <1>2, <2>2, <3>1
    <3>3. node[i + 1] = IF node[i] = Null THEN Null ELSE next[node[i]]
      BY <1>5, <3>1
    <3>4. CASE i + 1 \in 1 .. Len(s)
      <4>1. node[i] = s[i + 1] /\ s[i + 1] # Null
        BY <1>1, <3>2, <3>4, HooksAssumption DEF At
      <4> QED BY <1>1, <3>3, <3>4, <4>1
    <3>5. CASE i + 1 \notin 1 .. Len(s)
      BY <1>2, <2>2, <3>2, <3>3, <3>5 DEF At
    <3> QED BY <3>4, <3>5
  <2> HIDE DEF S
  <2>3. Nat \subseteq S
    BY <2>1, <2>2, AllNaturals
  <2> QED BY <1>2, <2>3 DEF S
<1>7. DOMAIN node = 0 .. N
  BY <1>3 DEF Steps
<1>8. {j \in DOMAIN node : node[j] # Null} = 0 .. Len(s) - 1
  <2>1. \A j \in 0 .. N : node[j] # Null <=> j + 1 \in 1 .. Len(s)
    BY <1>1, <1>2, <1>6, HooksAssumption DEF At
  <2> QED BY <1>2, <1>7, <2>1
<1>9. Cardinality(0 .. Len(s) - 1) = Len(s)
  <2> DEFINE k == Len(s) - 1
  <2>1. k \in Int /\ Len(s) = k + 1 /\ k >= -1
    BY <1>2
  <2> HIDE DEF k
  <2>2. Cardinality(0 .. k) = IF 0 > k THEN 0 ELSE k - 0 + 1
    BY <2>1, FS_Interval
  <2> QED BY <2>1, <2>2 DEF k
<1>10. Chain(a) = [i \in 1 .. Len(s) |-> node[i - 1]]
  BY <1>4, <1>8, <1>9
<1>11. \A i \in 1 .. Len(s) : node[i - 1] = s[i]
  <2> TAKE i \in 1 .. Len(s)
  <2>1. i - 1 \in 0 .. N /\ i - 1 + 1 = i
    BY <1>2
  <2> QED BY <1>6, <2>1 DEF At
<1>12. s = [i \in 1 .. Len(s) |-> s[i]]
  BY <1>1
<1> QED BY <1>10, <1>11, <1>12 DEF s

\* The hooks on a's chain.
LEMMA OnChainIs ==
  ASSUME NEW L, ListedBy(head, next, L), NEW a \in Attrs, NEW h
  PROVE  OnChain(h, a) <=> On(h, L[a])
  BY ChainIs DEF OnChain, On

\* The list of every attribute.
Chains == [a \in Attrs |-> Chain(a)]

\* The chains are the lists behind the pointers.
LEMMA ChainsAre ==
  ASSUME NEW L, ListedBy(head, next, L)
  PROVE  Chains = L
<1>1. L = [a \in Attrs |-> L[a]]
  BY DEF ListedBy
<1> QED BY <1>1, ChainIs DEF Chains

-----------------------------------------------------------------------------
(* Adding and taking out                                                   *)

\* A list with one hook more at its end, and with the one at p taken out.
With(s, h) == [i \in 1 .. Len(s) + 1 |-> IF i <= Len(s) THEN s[i] ELSE h]
Without(s, p) == [i \in 1 .. Len(s) - 1 |-> IF i < p THEN s[i] ELSE s[i + 1]]

\* What With is.
LEMMA WithIs ==
  ASSUME NEW s \in Seq(Hooks), NEW h \in Hooks
  PROVE  /\ With(s, h) \in Seq(Hooks) /\ Len(With(s, h)) = Len(s) + 1
         /\ \A i \in 1 .. Len(s) : With(s, h)[i] = s[i]
         /\ With(s, h)[Len(s) + 1] = h
<1>1. Len(s) \in Nat
  OBVIOUS
<1>2. With(s, h) \in [1 .. Len(s) + 1 -> Hooks]
  BY DEF With
<1>3. With(s, h) \in Seq(Hooks) /\ Len(With(s, h)) = Len(s) + 1
  BY <1>1, <1>2
<1> QED BY <1>1, <1>3 DEF With

\* What Without is.
LEMMA WithoutIs ==
  ASSUME NEW s \in Seq(Hooks), NEW p \in 1 .. Len(s)
  PROVE  /\ Without(s, p) \in Seq(Hooks) /\ Len(Without(s, p)) = Len(s) - 1
         /\ \A i \in 1 .. Len(s) - 1 : Without(s, p)[i] = IF i < p THEN s[i] ELSE s[i + 1]
<1>1. Len(s) \in Nat /\ Len(s) - 1 \in Nat
  OBVIOUS
<1>2. Without(s, p) \in [1 .. Len(s) - 1 -> Hooks]
  BY DEF Without
<1>3. Without(s, p) \in Seq(Hooks) /\ Len(Without(s, p)) = Len(s) - 1
  BY <1>1, <1>2
<1> QED BY <1>1, <1>3 DEF Without

\* udiLinkAdd() puts the hook at the end of its attribute's list.
LEMMA AddListed ==
  ASSUME ListedBy(head, next, Chains), head \in [Attrs -> Node], next \in [Hooks -> Node],
         NEW h \in Hooks, \A a \in Attrs : ~OnChain(h, a), LinkAdd(Source[h], h)
  PROVE  /\ head' \in [Attrs -> Node] /\ next' \in [Hooks -> Node]
         /\ ListedBy(head', next', [Chains EXCEPT ![Source[h]] = With(Chains[Source[h]], h)])
<1> DEFINE L == Chains
           a == Source[h]
           s == L[a]
           M == [L EXCEPT ![a] = With(s, h)]
<1>1. a \in Attrs
  BY HooksAssumption
<1>2. /\ L \in [Attrs -> Seq(Hooks)]
      /\ \A b \in Attrs : head[b] = At(L[b], 1)
      /\ \A b \in Attrs : \A i \in 1 .. Len(L[b]) : next[L[b][i]] = At(L[b], i + 1)
      /\ \A b \in Attrs : \A i \in 1 .. Len(L[b]) : Source[L[b][i]] = b
      /\ \A b \in Attrs : \A i, j \in 1 .. Len(L[b]) : L[b][i] = L[b][j] => i = j
      /\ \A k \in Hooks : next[k] # Null => On(k, L[Source[k]])
  BY Zenon DEF ListedBy
<1>3. Chain(a) = s
  BY <1>1, ChainIs
<1>4. \A b \in Attrs : ~On(h, L[b])
  BY OnChainIs
<1>5. LinkAdd(a, h)
  OBVIOUS
<1> HIDE DEF L, a
<1>6. s \in Seq(Hooks) /\ Len(s) \in Nat
  BY <1>1, <1>2
<1>7. /\ With(s, h) \in Seq(Hooks) /\ Len(With(s, h)) = Len(s) + 1
      /\ \A i \in 1 .. Len(s) : With(s, h)[i] = s[i]
      /\ With(s, h)[Len(s) + 1] = h
  BY <1>6, WithIs
<1>8. /\ M \in [Attrs -> Seq(Hooks)] /\ M[a] = With(s, h)
      /\ \A b \in Attrs : b # a => M[b] = L[b]
  BY <1>1, <1>2, <1>7
<1>9. h \in Node /\ Null \in Node /\ Null # h
  BY HooksAssumption DEF Node
<1>10. s = << >> <=> Len(s) = 0
  BY <1>6
<1>11. /\ head' = IF Len(s) = 0 THEN [head EXCEPT ![a] = h] ELSE head
       /\ next' = IF Len(s) = 0 THEN [next EXCEPT ![h] = Null]
                  ELSE [next EXCEPT ![h] = Null, ![s[Len(s)]] = h]
  BY <1>3, <1>5, <1>10 DEF LinkAdd
<1>12. Len(s) # 0 => s[Len(s)] \in Hooks /\ s[Len(s)] # h
  BY <1>1, <1>4, <1>6 DEF On
<1>13. head' \in [Attrs -> Node] /\ next' \in [Hooks -> Node]
  BY <1>9, <1>11, <1>12
<1>14. \A k \in Hooks : next'[k] = IF Len(s) # 0 /\ k = s[Len(s)] THEN h
                                   ELSE IF k = h THEN Null ELSE next[k]
  BY <1>11, <1>12
<1>15. \A b \in Attrs : head'[b] = IF Len(s) = 0 /\ b = a THEN h ELSE head[b]
  BY <1>1, <1>11
<1> HIDE DEF s, M
<1>16. \A b \in Attrs : head'[b] = At(M[b], 1)
  <2> TAKE b \in Attrs
  <2>1. CASE b # a
    BY <1>2, <1>8, <1>15, <2>1
  <2>2. CASE b = a /\ Len(s) = 0
    BY <1>7, <1>8, <1>15, <2>2 DEF At
  <2>3. CASE b = a /\ Len(s) # 0
    BY <1>2, <1>6, <1>7, <1>8, <1>15, <2>3 DEF At, s
  <2> QED BY <2>1, <2>2, <2>3
<1>17. \A b \in Attrs : \A i \in 1 .. Len(M[b]) : next'[M[b][i]] = At(M[b], i + 1)
  <2> TAKE b \in Attrs
  <2> TAKE i \in 1 .. Len(M[b])
  <2>1. CASE b # a
    <3>1. i \in 1 .. Len(L[b]) /\ M[b] = L[b] /\ L[b] \in Seq(Hooks)
      BY <1>2, <1>8, <2>1
    <3>2. L[b][i] \in Hooks /\ L[b][i] # h /\ Source[L[b][i]] = b
      BY <1>2, <1>4, <3>1 DEF On
    <3>3. Len(s) # 0 => Source[s[Len(s)]] = a
      BY <1>1, <1>2, <1>6 DEF s
    <3>4. next'[L[b][i]] = next[L[b][i]]
      BY <1>14, <2>1, <3>2, <3>3
    <3> QED BY <1>2, <3>1, <3>4
  <2>2. CASE b = a /\ i = Len(s) + 1
    BY <1>6, <1>7, <1>8, <1>12, <1>14, <2>2 DEF At
  <2>3. CASE b = a /\ i = Len(s)
    BY <1>6, <1>7, <1>8, <1>12, <1>14, <2>3 DEF At
  <2>4. CASE b = a /\ i \in 1 .. Len(s) - 1
    <3>1. s[i] \in Hooks /\ s[i] # h
      BY <1>1, <1>4, <1>6, <2>4 DEF On, s
    <3>2. s[i] # s[Len(s)]
      BY <1>1, <1>2, <1>6, <2>4 DEF s
    <3>3. next'[s[i]] = next[s[i]]
      BY <1>14, <3>1, <3>2
    <3>4. next[s[i]] = s[i + 1]
      BY <1>1, <1>2, <1>6, <2>4 DEF At, s
    <3> QED BY <1>6, <1>7, <1>8, <2>4, <3>3, <3>4 DEF At
  <2> QED BY <1>6, <1>7, <1>8, <2>1, <2>2, <2>3, <2>4
<1>18. \A b \in Attrs : \A i \in 1 .. Len(M[b]) : Source[M[b][i]] = b
  <2> TAKE b \in Attrs
  <2>1. CASE b # a
    BY <1>2, <1>8, <2>1
  <2>2. CASE b = a
    <3>1. \A i \in 1 .. Len(s) : Source[s[i]] = a
      BY <1>1, <1>2 DEF s
    <3>2. Source[h] = a
      BY DEF a
    <3> QED BY <1>6, <1>7, <1>8, <2>2, <3>1, <3>2
  <2> QED BY <2>1, <2>2
<1>19. \A b \in Attrs : \A i, j \in 1 .. Len(M[b]) : M[b][i] = M[b][j] => i = j
  <2> TAKE b \in Attrs
  <2>1. CASE b # a
    BY <1>2, <1>8, <2>1
  <2>2. CASE b = a
    <3>1. \A i, j \in 1 .. Len(s) : s[i] = s[j] => i = j
      BY <1>1, <1>2 DEF s
    <3>2. \A i \in 1 .. Len(s) : s[i] # h
      BY <1>1, <1>4 DEF On, s
    <3> QED BY <1>6, <1>7, <1>8, <2>2, <3>1, <3>2
  <2> QED BY <2>1, <2>2
<1>20. \A k \in Hooks : next'[k] # Null => On(k, M[Source[k]])
  <2> TAKE k \in Hooks
  <2>1. Source[k] \in Attrs
    BY HooksAssumption
  <2>2. CASE Len(s) # 0 /\ k = s[Len(s)]
    <3>1. Source[k] = a
      BY <1>1, <1>2, <1>6, <2>2 DEF s
    <3> QED BY <1>6, <1>7, <1>8, <2>2, <3>1 DEF On
  <2>3. CASE On(k, L[Source[k]])
    <3>1. PICK i \in 1 .. Len(L[Source[k]]) : L[Source[k]][i] = k
      BY <2>3 DEF On
    <3>2. CASE Source[k] # a
      BY <1>8, <2>1, <3>1, <3>2 DEF On
    <3>3. CASE Source[k] = a
      <4>1. i \in 1 .. Len(s) /\ s[i] = k
        BY <3>1, <3>3 DEF s
      <4>2. i \in 1 .. Len(With(s, h)) /\ With(s, h)[i] = k
        BY <1>6, <1>7, <4>1
      <4> QED BY <1>8, <3>3, <4>2 DEF On
    <3> QED BY <3>2, <3>3
  <2> QED BY <1>2, <1>9, <1>14, <2>2, <2>3
<1> QED BY <1>8, <1>13, <1>16, <1>17, <1>18, <1>19, <1>20, Zenon DEF ListedBy, M, L, a, s

\* udiLinkRemove() takes the hook out of its attribute's list, wherever it
\* is on it, and leaves the pointers alone when it is not.
LEMMA RemoveListed ==
  ASSUME ListedBy(head, next, Chains), head \in [Attrs -> Node], next \in [Hooks -> Node],
         NEW h \in Hooks, NEW p \in 1 .. Len(Chains[Source[h]]),
         Chains[Source[h]][p] = h, LinkRemove(Source[h], h)
  PROVE  /\ head' \in [Attrs -> Node] /\ next' \in [Hooks -> Node]
         /\ ListedBy(head', next', [Chains EXCEPT ![Source[h]] = Without(Chains[Source[h]], p)])
<1> DEFINE L == Chains
           a == Source[h]
           s == L[a]
           M == [L EXCEPT ![a] = Without(s, p)]
<1>1. a \in Attrs
  BY HooksAssumption
<1>2. /\ L \in [Attrs -> Seq(Hooks)]
      /\ \A b \in Attrs : head[b] = At(L[b], 1)
      /\ \A b \in Attrs : \A i \in 1 .. Len(L[b]) : next[L[b][i]] = At(L[b], i + 1)
      /\ \A b \in Attrs : \A i \in 1 .. Len(L[b]) : Source[L[b][i]] = b
      /\ \A b \in Attrs : \A i, j \in 1 .. Len(L[b]) : L[b][i] = L[b][j] => i = j
      /\ \A k \in Hooks : next[k] # Null => On(k, L[Source[k]])
  BY Zenon DEF ListedBy
<1>3. \A k : OnChain(k, a) <=> On(k, s)
  BY <1>1, OnChainIs
<1>4. p \in 1 .. Len(s) /\ s[p] = h /\ LinkRemove(a, h)
  OBVIOUS
<1> HIDE DEF L, a
<1>5. s \in Seq(Hooks) /\ Len(s) \in Nat
  BY <1>1, <1>2
<1>6. /\ \A i, j \in 1 .. Len(s) : s[i] = s[j] => i = j
      /\ \A i \in 1 .. Len(s) : s[i] \in Hooks /\ Source[s[i]] = a /\ next[s[i]] = At(s, i + 1)
      /\ head[a] = At(s, 1)
  BY <1>1, <1>2, <1>5
<1>7. /\ Without(s, p) \in Seq(Hooks) /\ Len(Without(s, p)) = Len(s) - 1
      /\ \A i \in 1 .. Len(s) - 1 : Without(s, p)[i] = IF i < p THEN s[i] ELSE s[i + 1]
  BY <1>4, <1>5, WithoutIs
<1>8. /\ M \in [Attrs -> Seq(Hooks)] /\ M[a] = Without(s, p)
      /\ \A b \in Attrs : b # a => M[b] = L[b]
  BY <1>1, <1>2, <1>7
<1>9. h \in Node /\ Null \in Node /\ Null \notin Hooks
  BY HooksAssumption DEF Node
<1> HIDE DEF s, M
<1>10. head[a] = h <=> p = 1
  BY <1>4, <1>5, <1>6, <1>9 DEF At
<1>11. p # 1 => s[p - 1] \in Hooks /\ s[p - 1] # h
  BY <1>4, <1>5, <1>6
<1>12. /\ head' = IF p = 1 THEN [head EXCEPT ![a] = next[h]] ELSE head
       /\ next' = IF p = 1 THEN [next EXCEPT ![h] = Null]
                  ELSE [next EXCEPT ![s[p - 1]] = next[h], ![h] = Null]
  <2>1. OnChain(h, a)
    BY <1>3, <1>4 DEF On
  <2>2. CASE p = 1
    BY <1>4, <1>10, <2>1, <2>2, Zenon DEF LinkRemove
  <2>3. CASE p # 1
    <3> DEFINE P(k) == k \in Hooks /\ OnChain(k, a) /\ next[k] = h
               before == CHOOSE k \in Hooks : OnChain(k, a) /\ next[k] = h
    <3>1. next' = [next EXCEPT ![before] = next[h], ![h] = Null] /\ head' = head
      BY <1>4, <1>10, <2>1, <2>3, Zenon DEF LinkRemove
    <3>2. P(s[p - 1])
      <4>1. p - 1 \in 1 .. Len(s) /\ p - 1 + 1 = p
        BY <1>4, <1>5, <2>3
      <4>2. next[s[p - 1]] = s[p]
        BY <1>4, <1>6, <4>1 DEF At
      <4> QED BY <1>3, <1>4, <1>6, <4>1, <4>2 DEF On
    <3>3. ASSUME NEW k, P(k) PROVE k = s[p - 1]
      <4>1. PICK i \in 1 .. Len(s) : s[i] = k
        BY <1>3, <3>3 DEF On
      <4>2. next[k] = At(s, i + 1) /\ next[k] = h
        BY <1>6, <3>3, <4>1
      <4>3. i + 1 \in 1 .. Len(s) /\ s[i + 1] = s[p]
        BY <1>4, <1>9, <4>2 DEF At
      <4>4. i + 1 = p
        BY <1>4, <1>6, <4>3
      <4> QED BY <1>5, <4>1, <4>4
    <3>4. P(before)
      BY <3>2
    <3>5. before = s[p - 1]
      BY <3>3, <3>4
    <3> HIDE DEF before
    <3>6. next' = [next EXCEPT ![s[p - 1]] = next[h], ![h] = Null] /\ head' = head
      BY <3>1, <3>5
    <3> QED BY <2>3, <3>6
  <2> QED BY <2>2, <2>3
<1>13. next[h] = At(s, p + 1) /\ next[h] \in Node
  BY <1>4, <1>6
<1>14. head' \in [Attrs -> Node] /\ next' \in [Hooks -> Node]
  BY <1>9, <1>11, <1>12, <1>13
<1>15. \A k \in Hooks : next'[k] = IF k = h THEN Null
                                   ELSE IF p # 1 /\ k = s[p - 1] THEN next[h] ELSE next[k]
  BY <1>11, <1>12
<1>16. \A b \in Attrs : head'[b] = IF p = 1 /\ b = a THEN next[h] ELSE head[b]
  BY <1>1, <1>12
<1>17. \A b \in Attrs : head'[b] = At(M[b], 1)
  <2> TAKE b \in Attrs
  <2>1. CASE b # a
    BY <1>2, <1>8, <1>16, <2>1
  <2>2. CASE b = a /\ p = 1
    BY <1>5, <1>7, <1>8, <1>13, <1>16, <2>2 DEF At
  <2>3. CASE b = a /\ p # 1
    BY <1>4, <1>5, <1>6, <1>7, <1>8, <1>16, <2>3 DEF At
  <2> QED BY <2>1, <2>2, <2>3
<1>18. \A b \in Attrs : \A i \in 1 .. Len(M[b]) : next'[M[b][i]] = At(M[b], i + 1)
  <2> TAKE b \in Attrs
  <2> TAKE i \in 1 .. Len(M[b])
  <2>1. CASE b # a
    <3>1. i \in 1 .. Len(L[b]) /\ M[b] = L[b] /\ L[b] \in Seq(Hooks)
      BY <1>2, <1>8, <2>1
    <3>2. L[b][i] \in Hooks /\ Source[L[b][i]] = b
      BY <1>2, <3>1
    <3>3. p # 1 => Source[s[p - 1]] = a
      BY <1>4, <1>5, <1>6
    <3>4. L[b][i] # h
      BY <1>4, <1>6, <2>1, <3>2
    <3>5. next'[L[b][i]] = next[L[b][i]]
      BY <1>15, <2>1, <3>2, <3>3, <3>4
    <3> QED BY <1>2, <3>1, <3>5
  <2>2. CASE b = a
    <3>1. i \in 1 .. Len(s) - 1 /\ M[b] = Without(s, p)
      BY <1>7, <1>8, <2>2
    <3>2. CASE i >= p
      <4>1. i + 1 \in 1 .. Len(s) /\ i + 1 # p /\ (p # 1 => i + 1 # p - 1)
        BY <1>4, <1>5, <3>1, <3>2
      <4>2. s[i + 1] # h /\ (p # 1 => s[i + 1] # s[p - 1])
        BY <1>4, <1>5, <1>6, <4>1
      <4>3. next'[s[i + 1]] = At(s, i + 2)
        BY <1>6, <1>15, <4>1, <4>2
      <4> QED BY <1>4, <1>5, <1>7, <3>1, <3>2, <4>3 DEF At
    <3>3. CASE i < p /\ i # p - 1
      <4>1. i \in 1 .. Len(s) /\ i # p /\ (p # 1 => i # p - 1)
        BY <1>4, <1>5, <3>1, <3>3
      <4>2. s[i] # h /\ (p # 1 => s[i] # s[p - 1])
        BY <1>4, <1>5, <1>6, <4>1
      <4>3. next'[s[i]] = s[i + 1]
        BY <1>5, <1>6, <1>15, <3>1, <4>1, <4>2 DEF At
      <4>4. i + 1 \in 1 .. Len(s) - 1 /\ i + 1 < p /\ i \in 1 .. Len(s) - 1
        BY <1>4, <1>5, <3>1, <3>3
      <4>5. Without(s, p)[i] = s[i] /\ At(Without(s, p), i + 1) = s[i + 1]
        BY <1>5, <1>7, <3>3, <4>4 DEF At
      <4> QED BY <3>1, <4>3, <4>5
    <3>4. CASE i = p - 1
      <4>1. next'[s[i]] = At(s, p + 1)
        BY <1>4, <1>5, <1>11, <1>13, <1>15, <3>1, <3>4
      <4> QED BY <1>4, <1>5, <1>7, <3>1, <3>4, <4>1 DEF At
    <3> QED BY <1>4, <1>5, <3>1, <3>2, <3>3, <3>4
  <2> QED BY <2>1, <2>2
<1>19. \A b \in Attrs : \A i \in 1 .. Len(M[b]) : Source[M[b][i]] = b
  <2> TAKE b \in Attrs
  <2>1. CASE b # a
    BY <1>2, <1>8, <2>1
  <2>2. CASE b = a
    BY <1>4, <1>5, <1>6, <1>7, <1>8, <2>2
  <2> QED BY <2>1, <2>2
<1>20. \A b \in Attrs : \A i, j \in 1 .. Len(M[b]) : M[b][i] = M[b][j] => i = j
  <2> TAKE b \in Attrs
  <2>1. CASE b # a
    BY <1>2, <1>8, <2>1
  <2>2. CASE b = a
    <3> DEFINE from(i) == IF i < p THEN i ELSE i + 1
    <3>1. \A i \in 1 .. Len(M[b]) : from(i) \in 1 .. Len(s) /\ M[b][i] = s[from(i)]
      BY <1>4, <1>5, <1>7, <1>8, <2>2
    <3>2. \A i, j \in 1 .. Len(M[b]) : from(i) = from(j) => i = j
      BY <1>4, <1>5, <1>7, <1>8, <2>2
    <3> HIDE DEF from
    <3>3. SUFFICES ASSUME NEW i \in 1 .. Len(M[b]), NEW j \in 1 .. Len(M[b]), M[b][i] = M[b][j]
                   PROVE  i = j
      OBVIOUS
    <3>4. from(i) \in 1 .. Len(s) /\ from(j) \in 1 .. Len(s) /\ s[from(i)] = s[from(j)]
      BY <3>1, <3>3
    <3>5. from(i) = from(j)
      BY <1>6, <3>4
    <3> QED BY <3>2, <3>5
  <2> QED BY <2>1, <2>2
<1>21. \A k \in Hooks : next'[k] # Null => On(k, M[Source[k]])
  <2> TAKE k \in Hooks
  <2> HAVE next'[k] # Null
  <2>1. Source[k] \in Attrs
    BY HooksAssumption
  <2>2. k # h
    BY <1>15
  <2>3. On(k, L[Source[k]])
    <3>1. CASE p # 1 /\ k = s[p - 1]
      <4>1. p - 1 \in 1 .. Len(s)
        BY <1>4, <1>5, <3>1
      <4>2. Source[k] = a /\ On(k, s)
        BY <1>6, <3>1, <4>1 DEF On
      <4> QED BY <4>2 DEF s
    <3> QED BY <1>2, <1>15, <2>2, <3>1
  <2>4. PICK i \in 1 .. Len(L[Source[k]]) : L[Source[k]][i] = k
    BY <2>3 DEF On
  <2>5. CASE Source[k] # a
    BY <1>8, <2>1, <2>4, <2>5 DEF On
  <2>6. CASE Source[k] = a
    <3>1. i \in 1 .. Len(s) /\ s[i] = k /\ i # p
      BY <1>4, <2>2, <2>4, <2>6 DEF s
    <3>2. CASE i < p
      <4>1. i \in 1 .. Len(Without(s, p)) /\ Without(s, p)[i] = k
        BY <1>4, <1>5, <1>7, <3>1, <3>2
      <4> QED BY <1>8, <2>6, <4>1 DEF On
    <3>3. CASE i > p
      <4>1. i - 1 \in 1 .. Len(Without(s, p)) /\ Without(s, p)[i - 1] = k
        BY <1>4, <1>5, <1>7, <3>1, <3>3
      <4> QED BY <1>8, <2>6, <4>1 DEF On
    <3> QED BY <1>4, <1>5, <3>1, <3>2, <3>3
  <2> QED BY <2>5, <2>6
<1> QED BY <1>8, <1>14, <1>17, <1>18, <1>19, <1>20, <1>21, Zenon DEF ListedBy, M, L, a, s

\* The pointers that make a list make its chain, also after a step.
LEMMA ChainsAreNext ==
  \A L : ListedBy(head', next', L) => Chains' = L
<1>1. \A L : ListedBy(head, next, L) => Chains = L
  BY ChainsAre
<1>2. (\A L : ListedBy(head, next, L) => Chains = L)'
  BY <1>1, PTL
<1> QED BY <1>2

\* Taking out a hook that is on no list changes nothing.
LEMMA RemoveAbsent ==
  ASSUME ListedBy(head, next, Chains), NEW h \in Hooks,
         ~On(h, Chains[Source[h]]), LinkRemove(Source[h], h)
  PROVE  UNCHANGED <<head, next>>
<1>1. Source[h] \in Attrs
  BY HooksAssumption
<1>2. ~OnChain(h, Source[h])
  BY <1>1, OnChainIs
<1> QED BY <1>2 DEF LinkRemove

-----------------------------------------------------------------------------
(* Walks                                                                   *)

\* The walk f is at position q of the list s: it has called what the list
\* held before, and has the rest of the list to call.
Walk(f, s, q) ==
  /\ q \in 1 .. Len(s) + 1
  /\ f.at = At(s, q)
  /\ Len(f.chain) = Len(f.called) + Len(s) - q + 1
  /\ \A i \in 1 .. Len(f.called) : f.chain[i] = f.called[i]
  /\ \A i \in q .. Len(s) : f.chain[Len(f.called) + i - q + 1] = s[i]

\* The walk f has not called h yet.
Pending(h, f) ==
  /\ f.attr = Source[h]
  /\ \E i \in Len(f.called) + 1 .. Len(f.chain) : f.chain[i] = h

\* f after the call of its next hook.
Called(f, node) == [attr |-> f.attr, at |-> node,
                    called |-> Append(f.called, f.at), chain |-> f.chain]

\* Appending to a list of hooks.
LEMMA AppendIs ==
  ASSUME NEW s \in Seq(Hooks), NEW h \in Hooks
  PROVE  /\ Append(s, h) \in Seq(Hooks) /\ Len(Append(s, h)) = Len(s) + 1
         /\ \A i \in 1 .. Len(s) : Append(s, h)[i] = s[i]
         /\ Append(s, h)[Len(s) + 1] = h
  OBVIOUS

\* A walk starts at the first position.
LEMMA WalkStarts ==
  ASSUME NEW f \in Frame, NEW s \in Seq(Hooks),
         f.at = At(s, 1), f.called = << >>, f.chain = s
  PROVE  Walk(f, s, 1)
<1>1. Len(f.called) = 0 /\ Len(s) \in Nat
  OBVIOUS
<1> QED BY <1>1 DEF Walk

\* A walk whose next node is a hook stands on the list, and that hook is the
\* next of those it started with.
LEMMA WalkStands ==
  ASSUME NEW f \in Frame, NEW s \in Seq(Hooks), NEW q, Walk(f, s, q), f.at # Null
  PROVE  /\ q \in 1 .. Len(s) /\ f.at = s[q] /\ f.at \in Hooks
         /\ Len(f.called) + 1 \in 1 .. Len(f.chain)
         /\ f.chain[Len(f.called) + 1] = f.at
<1>1. q \in 1 .. Len(s) /\ f.at = s[q]
  BY DEF Walk, At
<1>2. /\ Len(f.called) \in Nat /\ Len(s) \in Nat
      /\ Len(f.chain) = Len(f.called) + Len(s) - q + 1
      /\ f.chain[Len(f.called) + q - q + 1] = s[q]
  BY <1>1 DEF Walk, Frame
<1>3. Len(f.called) + q - q + 1 = Len(f.called) + 1
  BY <1>1, <1>2
<1> QED BY <1>1, <1>2, <1>3

\* A call moves a walk on by one position.
LEMMA WalkGoesOn ==
  ASSUME NEW f \in Frame, NEW s \in Seq(Hooks), NEW q, Walk(f, s, q), f.at # Null
  PROVE  Walk(Called(f, At(s, q + 1)), s, q + 1)
<1> DEFINE g == Called(f, At(s, q + 1))
           n == Len(f.called)
<1>1. /\ q \in 1 .. Len(s) /\ f.at = s[q] /\ f.at \in Hooks
      /\ n + 1 \in 1 .. Len(f.chain) /\ f.chain[n + 1] = f.at
  BY WalkStands
<1>2. /\ n \in Nat /\ Len(s) \in Nat
      /\ Len(f.chain) = n + Len(s) - q + 1
      /\ \A i \in 1 .. n : f.chain[i] = f.called[i]
      /\ \A i \in q .. Len(s) : f.chain[n + i - q + 1] = s[i]
  BY DEF Walk, Frame
<1>3. /\ Len(g.called) = n + 1 /\ g.called[n + 1] = f.at
      /\ \A i \in 1 .. n : g.called[i] = f.called[i]
  BY <1>1, AppendIs DEF Called, Frame
<1>4. g.at = At(s, q + 1) /\ g.chain = f.chain
  BY DEF Called
<1> HIDE DEF g, n
<1>5. \A i \in 1 .. n + 1 : g.chain[i] = g.called[i]
  <2> TAKE i \in 1 .. n + 1
  <2>1. CASE i = n + 1
    BY <1>1, <1>3, <1>4, <2>1
  <2>2. CASE i \in 1 .. n
    BY <1>2, <1>3, <1>4, <2>2
  <2> QED BY <1>2, <2>1, <2>2
<1>6. \A i \in q + 1 .. Len(s) : g.chain[n + 1 + i - (q + 1) + 1] = s[i]
  <2> TAKE i \in q + 1 .. Len(s)
  <2>1. n + 1 + i - (q + 1) + 1 = n + i - q + 1 /\ i \in q .. Len(s)
    <3>1. n \in Nat /\ q \in Nat /\ Len(s) \in Nat /\ i \in q + 1 .. Len(s)
      BY <1>1, <1>2
    <3> QED BY <3>1
  <2> QED BY <1>2, <1>4, <2>1
<1>7. Len(g.chain) = n + 1 + Len(s) - (q + 1) + 1 /\ q + 1 \in 1 .. Len(s) + 1
  BY <1>1, <1>2, <1>4
<1> QED BY <1>3, <1>4, <1>5, <1>6, <1>7 DEF Walk, g

\* A hook that takes itself out leaves the walk at the hook that followed.
LEMMA WalkOutlives ==
  ASSUME NEW f \in Frame, NEW s \in Seq(Hooks), NEW q, Walk(f, s, q), f.at # Null
  PROVE  Walk(Called(f, At(s, q + 1)), Without(s, q), q)
<1> DEFINE g == Called(f, At(s, q + 1))
           n == Len(f.called)
           m == Len(s)
           r == Without(s, q)
<1>1. q \in 1 .. m /\ m \in Nat
  BY WalkStands
<1>2. Len(r) = m - 1 /\ \A i \in 1 .. m - 1 : r[i] = IF i < q THEN s[i] ELSE s[i + 1]
  BY <1>1, WithoutIs
<1>3. Walk(g, s, q + 1)
  BY WalkGoesOn
<1>4. Len(g.called) = n + 1 /\ n \in Nat
  BY WalkStands, AppendIs DEF Called, Frame
<1> HIDE DEF g, n, m, r
<1>5. /\ g.at = At(s, q + 1)
      /\ Len(g.chain) = n + 1 + m - (q + 1) + 1
      /\ \A i \in 1 .. n + 1 : g.chain[i] = g.called[i]
      /\ \A i \in q + 1 .. m : g.chain[n + 1 + i - (q + 1) + 1] = s[i]
  BY <1>3, <1>4 DEF Walk, m
<1>6. g.at = At(r, q)
  BY <1>1, <1>2, <1>5 DEF At, m
<1>7. \A i \in q .. m - 1 : g.chain[n + 1 + i - q + 1] = r[i]
  <2> TAKE i \in q .. m - 1
  <2>1. r[i] = s[i + 1] /\ i + 1 \in q + 1 .. m
    BY <1>1, <1>2
  <2>2. n + 1 + (i + 1) - (q + 1) + 1 = n + 1 + i - q + 1
    BY <1>1, <1>4
  <2> QED BY <1>5, <2>1, <2>2
<1>8. Len(g.chain) = n + 1 + (m - 1) - q + 1 /\ q \in 1 .. m - 1 + 1
  BY <1>1, <1>4, <1>5
<1> QED BY <1>2, <1>4, <1>5, <1>6, <1>7, <1>8 DEF Walk, g, r

\* A walk at the end of the list has called what it started with.
LEMMA WalkEnds ==
  ASSUME NEW f \in Frame, NEW s \in Seq(Hooks), NEW q, Walk(f, s, q), f.at = Null
  PROVE  f.called = f.chain
<1>1. q = Len(s) + 1
  <2>1. q \in 1 .. Len(s) => At(s, q) \in Hooks
    BY DEF At
  <2> QED BY <2>1, HooksAssumption DEF Walk
<1>2. f.called \in Seq(Hooks) /\ f.chain \in Seq(Hooks) /\ Len(s) \in Nat
  BY DEF Frame
<1>3. Len(f.chain) = Len(f.called) /\ \A i \in 1 .. Len(f.called) : f.chain[i] = f.called[i]
  BY <1>1, <1>2 DEF Walk
<1> QED BY <1>2, <1>3

\* A call leaves every other pending hook pending.
LEMMA StillPending ==
  ASSUME NEW f \in Frame, NEW s \in Seq(Hooks), NEW q, Walk(f, s, q), f.at # Null,
         NEW h, h # f.at, Pending(h, f), NEW node
  PROVE  Pending(h, Called(f, node))
<1> DEFINE n == Len(f.called)
<1>1. f.chain[n + 1] = f.at /\ n \in Nat /\ Len(Append(f.called, f.at)) = n + 1
  BY WalkStands, AppendIs DEF Frame
<1>2. PICK i \in n + 1 .. Len(f.chain) : f.chain[i] = h
  BY DEF Pending
<1>3. Len(f.chain) \in Nat
  BY DEF Frame
<1> HIDE DEF n
<1>4. i \in n + 1 + 1 .. Len(f.chain)
  BY <1>1, <1>2, <1>3
<1> QED BY <1>1, <1>2, <1>4 DEF Pending, Called

-----------------------------------------------------------------------------
(* The inductive invariant                                                 *)

\* Links lead to attributes of a higher rank.
Rank == CHOOSE rank \in [Attrs -> 0 .. Cardinality(Hooks)] :
          \A h \in Forwards : rank[Source[h]] < rank[Target[h]]

\* The walks in progress are at positions of their attributes' lists, and
\* each is over an attribute further down the links than the one around it.
WalksInv ==
  /\ \A k \in 1 .. Len(frames) : \E q : Walk(frames[k], Chains[frames[k].attr], q)
  /\ \A j, k \in 1 .. Len(frames) :
       j < k => Rank[frames[j].attr] < Rank[frames[k].attr]

Agree(h) == Type[Target[h]] # "text" => value[Target[h]] = Kept(Target[h], value[Source[h]])

\* What a link has carried still holds at both ends, or a walk in progress is
\* about to carry it again.
CarriedInv ==
  \A h \in carried :
    /\ h \in Forwards /\ On(h, Chains[Source[h]])
    /\ Agree(h) \/ \E k \in 1 .. Len(frames) : Pending(h, frames[k])

IInv == TypeOK /\ ListedBy(head, next, Chains) /\ WalksInv /\ CarriedInv

-----------------------------------------------------------------------------
(* What the steps do                                                       *)

\* There is such a rank.
LEMMA RankRises ==
  Rank \in [Attrs -> Nat] /\ \A h \in Forwards : Rank[Source[h]] < Rank[Target[h]]
<1>1. Rank \in [Attrs -> 0 .. Cardinality(Hooks)] /\ \A h \in Forwards : Rank[Source[h]] < Rank[Target[h]]
  BY LinksAssumption, Zenon DEF Rank
<1>2. Cardinality(Hooks) \in Nat
  BY HooksAssumption, FS_CardinalityType
<1> QED BY <1>1, <1>2

\* An attribute keeps of a number one its type can hold.
LEMMA KeptFits ==
  ASSUME NEW a \in Attrs, NEW v \in Nat, Type[a] # "text"
  PROVE  Kept(a, v) \in NumbersOf(a)
<1>1. NarrowMod \in Nat \ {0}
  BY HooksAssumption
<1>2. CASE Type[a] = "bool"
  BY <1>2 DEF Kept, NumbersOf
<1>3. CASE Type[a] = "narrow"
  <2>1. v % NarrowMod \in 0 .. NarrowMod - 1
    BY <1>1
  <2> QED BY <1>3, <2>1 DEF Kept, NumbersOf
<1>4. CASE Type[a] = "wide"
  BY <1>4 DEF Kept, NumbersOf
<1> QED BY <1>2, <1>3, <1>4, HooksAssumption

\* What an attribute holds is a natural number.
LEMMA NumbersAreNat ==
  ASSUME NEW a \in Attrs
  PROVE  NumbersOf(a) \subseteq Nat
<1>1. NarrowMod \in Nat \ {0}
  BY HooksAssumption
<1> QED BY <1>1, HooksAssumption DEF NumbersOf

\* The innermost walk.
LEMMA TopIs ==
  ASSUME TypeOK, ~Idle
  PROVE  Len(frames) \in Nat \ {0} /\ Top \in Frame /\ Top = frames[Len(frames)]
<1>1. frames \in Seq(Frame) /\ frames # << >>
  BY DEF TypeOK, Idle
<1>2. Len(frames) \in Nat /\ Len(frames) # 0
  BY <1>1
<1> QED BY <1>1, <1>2 DEF Top

\* A frame with another node and another record of its calls.
LEMMA FrameIs ==
  ASSUME NEW f \in Frame, NEW at, NEW called
  PROVE  [[f EXCEPT !.at = at] EXCEPT !.called = called] =
           [attr |-> f.attr, at |-> at, called |-> called, chain |-> f.chain]
<1> DEFINE r == [[f EXCEPT !.at = at] EXCEPT !.called = called]
           t == [attr |-> f.attr, at |-> at, called |-> called, chain |-> f.chain]
           D == {"attr", "at", "called", "chain"}
<1>1. DOMAIN f = D
  BY DEF Frame
<1>2. DOMAIN r = D /\ DOMAIN t = D
  BY <1>1
<1>3. /\ r["attr"] = t["attr"] /\ r["at"] = t["at"]
      /\ r["called"] = t["called"] /\ r["chain"] = t["chain"]
  BY <1>1
<1>4. r = [i \in D |-> r[i]] /\ t = [i \in D |-> t[i]]
  BY <1>2
<1> HIDE DEF r, t
<1>5. r = t
  BY <1>3, <1>4
<1> QED BY <1>5 DEF r, t

\* The step to the next hook moves the innermost walk on and no other, and
\* leaves it on the list with and without that hook.
LEMMA CallMoves ==
  ASSUME TypeOK, ListedBy(head, next, Chains), WalksInv, ~Idle, Top.at # Null
  PROVE  /\ Top.at \in Hooks /\ Top.attr \in Attrs /\ Source[Top.at] = Top.attr
         /\ Advanced \in Seq(Frame) /\ Len(Advanced) = Len(frames)
         /\ \A k \in 1 .. Len(frames) - 1 : Advanced[k] = frames[k]
         /\ Advanced[Len(frames)].attr = Top.attr
         /\ \E q \in 1 .. Len(Chains[Top.attr]) :
              /\ Chains[Top.attr][q] = Top.at
              /\ Walk(Advanced[Len(frames)], Chains[Top.attr], q + 1)
              /\ Walk(Advanced[Len(frames)], Without(Chains[Top.attr], q), q)
         /\ \A h : h # Top.at /\ (\E k \in 1 .. Len(frames) : Pending(h, frames[k]))
                   => \E k \in 1 .. Len(frames) : Pending(h, Advanced[k])
<1> DEFINE n == Len(frames)
           a == Top.attr
           s == Chains[a]
           f == Top
<1>1. n \in Nat \ {0} /\ f \in Frame /\ f = frames[n] /\ frames \in Seq(Frame)
  BY TopIs DEF TypeOK
<1>2. a \in Attrs
  BY <1>1 DEF Frame
<1>3. s \in Seq(Hooks)
  BY <1>2 DEF ListedBy
<1>4. PICK q : Walk(f, s, q)
  BY <1>1 DEF WalksInv
<1>5. /\ q \in 1 .. Len(s) /\ f.at = s[q] /\ f.at \in Hooks
      /\ Len(f.called) + 1 \in 1 .. Len(f.chain)
  BY <1>1, <1>3, <1>4, WalkStands
<1>6. Source[f.at] = a /\ next[f.at] = At(s, q + 1)
  BY <1>2, <1>5 DEF ListedBy
<1>7. Recorded(f.at) = Append(f.called, f.at)
  <2>1. Len(f.called) \in Nat /\ Len(f.chain) \in Nat
    BY <1>1 DEF Frame
  <2>2. ~(Len(f.called) > Len(f.chain))
    BY <1>5, <2>1
  <2> QED BY <2>2 DEF Recorded
<1>8. At(s, q + 1) \in Node
  BY <1>3 DEF At, Node
<1> DEFINE c == Called(f, At(s, q + 1))
<1>9. c \in Frame
  <2>1. Append(f.called, f.at) \in Seq(Hooks) /\ f.chain \in Seq(Hooks)
    BY <1>1, <1>5, AppendIs DEF Frame
  <2> QED BY <1>2, <1>8, <2>1 DEF Called, Frame
<1>10. Advanced = [frames EXCEPT ![n] = c]
  <2>1. Advanced = [frames EXCEPT ![n].at = At(s, q + 1), ![n].called = Append(f.called, f.at)]
    BY <1>6, <1>7 DEF Advanced
  <2>2. [[frames[n] EXCEPT !.at = At(s, q + 1)] EXCEPT !.called = Append(f.called, f.at)] = c
    BY <1>1, FrameIs DEF Called
  <2> QED BY <1>1, <2>1, <2>2
<1> HIDE DEF n, f, c, s, a
<1>11. /\ Advanced \in Seq(Frame) /\ Len(Advanced) = n
       /\ \A k \in 1 .. n - 1 : Advanced[k] = frames[k]
       /\ Advanced[n] = c
  BY <1>1, <1>9, <1>10 DEF n
<1>12. Walk(c, s, q + 1) /\ Walk(c, Without(s, q), q) /\ c.attr = a
  BY <1>1, <1>3, <1>4, <1>5, WalkGoesOn, WalkOutlives DEF c, Called, f, a
<1>13. ASSUME NEW h, h # f.at, NEW k \in 1 .. n, Pending(h, frames[k])
       PROVE  \E j \in 1 .. n : Pending(h, Advanced[j])
  <2>1. CASE k = n
    <3>1. Pending(h, c)
      BY <1>1, <1>3, <1>4, <1>13, <2>1, StillPending DEF c, f
    <3> QED BY <1>1, <1>11, <3>1
  <2>2. CASE k \in 1 .. n - 1
    BY <1>1, <1>11, <1>13, <2>2
  <2> QED BY <1>1, <2>1, <2>2
<1> QED BY <1>2, <1>5, <1>6, <1>11, <1>12, <1>13 DEF n, f, s, a

\* A store starts a walk over the attribute's list, unless it is a text.
LEMMA StorePushes ==
  ASSUME TypeOK, ListedBy(head, next, Chains),
         NEW a \in Attrs, NEW v \in Nat, NEW fs \in Seq(Frame), Store(a, v, fs)
  PROVE  /\ frames' \in Seq(Frame)
         /\ DOMAIN value' = Attrs /\ \A b \in Attrs : value'[b] \in NumbersOf(b)
         /\ \A b \in Attrs : b # a => value'[b] = value[b]
         /\ \A k \in 1 .. Len(fs) : frames'[k] = fs[k]
         /\ Type[a] = "text" => Len(frames') = Len(fs) /\ value' = value
         /\ Type[a] # "text" =>
              /\ Len(frames') = Len(fs) + 1
              /\ value'[a] = Kept(a, v)
              /\ frames'[Len(fs) + 1].attr = a
              /\ Walk(frames'[Len(fs) + 1], Chains[a], 1)
              /\ \A h : On(h, Chains[a]) /\ Source[h] = a => Pending(h, frames'[Len(fs) + 1])
<1> DEFINE f == NewFrame(a)
           s == Chains[a]
<1>1. DOMAIN value = Attrs /\ \A b \in Attrs : value[b] \in NumbersOf(b)
  BY DEF TypeOK
<1>2. CASE Type[a] = "text"
  BY <1>1, <1>2 DEF Store
<1>3. CASE Type[a] # "text"
  <2>1. Kept(a, v) \in NumbersOf(a)
    BY <1>3, KeptFits
  <2>2. s \in Seq(Hooks) /\ head[a] = At(s, 1)
    BY DEF ListedBy
  <2>3. Chain(a) = s
    BY ChainIs
  <2>4. head[a] \in Node
    BY DEF TypeOK
  <2>5. f \in Frame /\ f.at = At(s, 1) /\ f.called = << >> /\ f.chain = s /\ f.attr = a
    BY <2>2, <2>3, <2>4 DEF NewFrame, Frame
  <2>6. frames' = Append(fs, f) /\ value' = [value EXCEPT ![a] = Kept(a, v)]
    BY <1>3 DEF Store
  <2> HIDE DEF f, s
  <2>7. /\ frames' \in Seq(Frame) /\ Len(frames') = Len(fs) + 1 /\ frames'[Len(fs) + 1] = f
        /\ \A k \in 1 .. Len(fs) : frames'[k] = fs[k]
    BY <2>5, <2>6
  <2>8. Walk(f, s, 1)
    BY <2>2, <2>5, WalkStarts
  <2>9. ASSUME NEW h, On(h, s), Source[h] = a PROVE Pending(h, f)
    <3>1. Len(f.called) = 0
      BY <2>5
    <3> QED BY <2>5, <2>9, <3>1 DEF Pending, On
  <2> QED BY <1>1, <1>3, <2>1, <2>5, <2>6, <2>7, <2>8, <2>9 DEF s
<1> QED BY <1>2, <1>3

\* Adding a hook to a list keeps those on it.
LEMMA OnWith ==
  ASSUME NEW s \in Seq(Hooks), NEW h \in Hooks, NEW g, On(g, s)
  PROVE  On(g, With(s, h))
<1>1. PICK i \in 1 .. Len(s) : s[i] = g
  BY DEF On
<1>2. Len(With(s, h)) = Len(s) + 1 /\ With(s, h)[i] = g
  BY <1>1, WithIs
<1>3. i \in 1 .. Len(With(s, h))
  BY <1>1, <1>2
<1> QED BY <1>2, <1>3 DEF On

\* Taking a hook out of a list keeps the others on it.
LEMMA OnWithout ==
  ASSUME NEW s \in Seq(Hooks), NEW p \in 1 .. Len(s), NEW g, On(g, s), g # s[p]
  PROVE  On(g, Without(s, p))
<1> DEFINE r == Without(s, p)
<1>1. PICK i \in 1 .. Len(s) : s[i] = g
  BY DEF On
<1>2. /\ i # p /\ Len(r) = Len(s) - 1
      /\ \A j \in 1 .. Len(s) - 1 : r[j] = IF j < p THEN s[j] ELSE s[j + 1]
  BY <1>1, WithoutIs
<1> HIDE DEF r
<1>3. CASE i < p
  <2>1. i \in 1 .. Len(r) /\ r[i] = g
    BY <1>1, <1>2, <1>3
  <2> QED BY <2>1 DEF On, r
<1>4. CASE i > p
  <2>1. i - 1 \in 1 .. Len(r) /\ r[i - 1] = g
    BY <1>1, <1>2, <1>4
  <2> QED BY <2>1 DEF On, r
<1> QED BY <1>1, <1>2, <1>3, <1>4

\* Pointers that stay where they are make the lists they made.
LEMMA SameChains ==
  ASSUME ListedBy(head, next, Chains), UNCHANGED <<head, next>>
  PROVE  Chains' = Chains /\ ListedBy(head', next', Chains')
<1>1. head' = head /\ next' = next
  OBVIOUS
<1>2. ListedBy(head', next', Chains)
  BY <1>1
<1>3. Chains' = Chains
  BY <1>2, ChainsAreNext
<1> QED BY <1>2, <1>3

-----------------------------------------------------------------------------
(* The invariant is inductive                                              *)

\* It holds at the start.
LEMMA InvInit == Init => IInv
<1> SUFFICES ASSUME Init PROVE IInv
  OBVIOUS
<1> DEFINE M == [a \in Attrs |-> << >>]
<1>1. TypeOK
  <2>1. \A a \in Attrs : 0 \in NumbersOf(a)
    BY HooksAssumption DEF NumbersOf
  <2> QED BY <2>1 DEF Init, TypeOK, Node
<1>2. ListedBy(head, next, M)
  BY HooksAssumption DEF Init, ListedBy, At
<1>3. Chains = M
  BY <1>2, ChainsAre
<1>4. WalksInv /\ CarriedInv
  <2>1. Len(frames) = 0 /\ carried = {}
    BY DEF Init
  <2> QED BY <2>1 DEF WalksInv, CarriedInv
<1> QED BY <1>1, <1>2, <1>3, <1>4 DEF IInv

\* The framework adds a hook.
LEMMA LinkKeeps ==
  ASSUME IInv, NEW h \in Hooks, Link(h)
  PROVE  IInv'
<1> DEFINE a == Source[h]
           M == [Chains EXCEPT ![a] = With(Chains[a], h)]
<1>1. /\ frames = << >> /\ frames' = frames /\ value' = value /\ carried' = carried
      /\ (\A b \in Attrs : ~OnChain(h, b)) /\ LinkAdd(Source[h], h)
  BY DEF Link, Idle
<1>2. /\ TypeOK /\ ListedBy(head, next, Chains) /\ CarriedInv
      /\ head \in [Attrs -> Node] /\ next \in [Hooks -> Node] /\ carried \subseteq Hooks
  BY DEF IInv, TypeOK
<1>3. head' \in [Attrs -> Node] /\ next' \in [Hooks -> Node] /\ ListedBy(head', next', M)
  BY <1>1, <1>2, AddListed
<1>4. Chains' = M
  BY <1>3, ChainsAreNext
<1>5. TypeOK'
  BY <1>1, <1>2, <1>3 DEF TypeOK
<1>6. WalksInv'
  BY <1>1 DEF WalksInv
<1>7. CarriedInv'
  <2> SUFFICES ASSUME NEW g \in carried
               PROVE  /\ g \in Forwards /\ On(g, M[Source[g]])
                      /\ Agree(g)'
    BY <1>1, <1>4 DEF CarriedInv
  <2>1. g \in Forwards /\ On(g, Chains[Source[g]]) /\ Agree(g)
    BY <1>1, <1>2 DEF CarriedInv
  <2>2. Agree(g)'
    BY <1>1, <2>1 DEF Agree
  <2>3. a \in Attrs /\ Source[g] \in Attrs /\ Chains \in [Attrs -> Seq(Hooks)]
    BY <1>2, HooksAssumption DEF ListedBy
  <2>4. On(g, M[Source[g]])
    <3>1. CASE Source[g] = a
      <4>1. On(g, With(Chains[a], h))
        BY <2>1, <2>3, <3>1, OnWith
      <4> QED BY <2>3, <3>1, <4>1
    <3>2. CASE Source[g] # a
      BY <2>1, <2>3, <3>2
    <3> QED BY <3>1, <3>2
  <2> QED BY <2>1, <2>2, <2>4
<1> QED BY <1>3, <1>4, <1>5, <1>6, <1>7 DEF IInv

\* The framework takes a hook out.
LEMMA UnlinkKeeps ==
  ASSUME IInv, NEW h \in Hooks, Unlink(h)
  PROVE  IInv'
<1> DEFINE a == Source[h]
<1>1. /\ frames = << >> /\ frames' = frames /\ value' = value /\ carried' = carried \ {h}
      /\ LinkRemove(a, h)
  BY DEF Unlink, Idle
<1>2. /\ TypeOK /\ ListedBy(head, next, Chains) /\ CarriedInv
      /\ head \in [Attrs -> Node] /\ next \in [Hooks -> Node] /\ carried \subseteq Hooks
  BY DEF IInv, TypeOK
<1>3. a \in Attrs /\ Chains \in [Attrs -> Seq(Hooks)]
  BY <1>2, HooksAssumption DEF ListedBy
<1>4. PICK M : /\ head' \in [Attrs -> Node] /\ next' \in [Hooks -> Node]
               /\ ListedBy(head', next', M)
               /\ \A g \in Hooks \ {h} : On(g, Chains[Source[g]]) => On(g, M[Source[g]])
  <2>1. CASE On(h, Chains[a])
    <3>1. PICK p \in 1 .. Len(Chains[a]) : Chains[a][p] = h
      BY <2>1 DEF On
    <3> DEFINE N == [Chains EXCEPT ![a] = Without(Chains[a], p)]
    <3>2. head' \in [Attrs -> Node] /\ next' \in [Hooks -> Node] /\ ListedBy(head', next', N)
      BY <1>1, <1>2, <3>1, RemoveListed
    <3>3. ASSUME NEW g \in Hooks \ {h}, On(g, Chains[Source[g]]) PROVE On(g, N[Source[g]])
      <4>1. CASE Source[g] = a
        <5>1. On(g, Without(Chains[a], p))
          BY <1>3, <3>1, <3>3, <4>1, OnWithout
        <5> QED BY <1>3, <4>1, <5>1
      <4>2. CASE Source[g] # a
        BY <1>3, <3>3, <4>2, HooksAssumption
      <4> QED BY <4>1, <4>2
    <3> QED BY <3>2, <3>3
  <2>2. CASE ~On(h, Chains[a])
    <3>1. UNCHANGED <<head, next>>
      BY <1>1, <1>2, <2>2, RemoveAbsent
    <3>2. Chains' = Chains /\ ListedBy(head', next', Chains')
      BY <1>2, <3>1, SameChains
    <3> QED BY <1>2, <3>1, <3>2
  <2> QED BY <2>1, <2>2
<1>5. Chains' = M
  BY <1>4, ChainsAreNext
<1>6. TypeOK'
  BY <1>1, <1>2, <1>4 DEF TypeOK
<1>7. WalksInv'
  BY <1>1 DEF WalksInv
<1>8. CarriedInv'
  <2> SUFFICES ASSUME NEW g \in carried, g # h
               PROVE  /\ g \in Forwards /\ On(g, M[Source[g]])
                      /\ Agree(g)'
    BY <1>1, <1>5 DEF CarriedInv
  <2>1. g \in Forwards /\ On(g, Chains[Source[g]]) /\ Agree(g)
    BY <1>1, <1>2 DEF CarriedInv
  <2>2. Agree(g)'
    BY <1>1, <2>1 DEF Agree
  <2> QED BY <1>2, <1>4, <2>1, <2>2
<1> QED BY <1>4, <1>5, <1>6, <1>7, <1>8 DEF IInv

\* A device writes an attribute of its own: no link writes that one, and the
\* walk carries the value over every link from it.
LEMMA WriteKeeps ==
  ASSUME IInv, NEW a \in Roots, NEW v \in Values, Write(a, v)
  PROVE  IInv'
<1>1. /\ frames = << >> /\ Store(a, v, << >>)
      /\ head' = head /\ next' = next /\ carried' = carried
  BY DEF Write, Idle
<1>2. /\ TypeOK /\ ListedBy(head, next, Chains) /\ CarriedInv
      /\ head \in [Attrs -> Node] /\ next \in [Hooks -> Node] /\ carried \subseteq Hooks
  BY DEF IInv, TypeOK
<1>3. a \in Attrs /\ v \in Nat /\ << >> \in Seq(Frame)
  BY HooksAssumption
<1>4. Chains' = Chains /\ ListedBy(head', next', Chains')
  BY <1>1, <1>2, SameChains
<1>5. /\ frames' \in Seq(Frame)
      /\ DOMAIN value' = Attrs /\ \A b \in Attrs : value'[b] \in NumbersOf(b)
      /\ \A b \in Attrs : b # a => value'[b] = value[b]
      /\ IF Type[a] = "text" THEN Len(frames') = 0 /\ value' = value
         ELSE /\ Len(frames') = 1 /\ frames'[1].attr = a
              /\ Walk(frames'[1], Chains[a], 1)
              /\ \A h : On(h, Chains[a]) /\ Source[h] = a => Pending(h, frames'[1])
  <2> DEFINE fs == << >>
  <2>1. fs \in Seq(Frame) /\ Len(fs) = 0 /\ Len(fs) + 1 = 1 /\ Store(a, v, fs)
    BY <1>1, <1>3
  <2> HIDE DEF fs
  <2>2. /\ frames' \in Seq(Frame)
        /\ DOMAIN value' = Attrs /\ \A b \in Attrs : value'[b] \in NumbersOf(b)
        /\ \A b \in Attrs : b # a => value'[b] = value[b]
    BY <1>2, <1>3, <2>1, StorePushes
  <2>3. Type[a] = "text" => Len(frames') = Len(fs) /\ value' = value
    BY <1>2, <1>3, <2>1, StorePushes
  <2>4. Type[a] # "text" =>
          /\ Len(frames') = Len(fs) + 1
          /\ frames'[Len(fs) + 1].attr = a
          /\ Walk(frames'[Len(fs) + 1], Chains[a], 1)
          /\ \A h : On(h, Chains[a]) /\ Source[h] = a => Pending(h, frames'[Len(fs) + 1])
    BY <1>2, <1>3, <2>1, StorePushes
  <2> QED BY <2>1, <2>2, <2>3, <2>4
<1>6. TypeOK'
  BY <1>1, <1>2, <1>5 DEF TypeOK
<1>7. WalksInv'
  <2>1. CASE Type[a] = "text"
    BY <1>5, <2>1 DEF WalksInv
  <2>2. CASE Type[a] # "text"
    <3>1. Len(frames') = 1 /\ frames'[1].attr = a /\ Walk(frames'[1], Chains[a], 1)
      BY <1>5, <2>2
    <3>2. \A k \in 1 .. Len(frames') : k = 1
      BY <3>1
    <3>3. \A k \in 1 .. Len(frames') : \E q : Walk(frames'[k], Chains'[frames'[k].attr], q)
      BY <1>4, <3>1, <3>2
    <3>4. \A j, k \in 1 .. Len(frames') : ~(j < k)
      BY <3>1
    <3> QED BY <3>3, <3>4 DEF WalksInv
  <2> QED BY <2>1, <2>2
<1>8. CarriedInv'
  <2> SUFFICES ASSUME NEW g \in carried
               PROVE  /\ g \in Forwards /\ On(g, Chains[Source[g]])
                      /\ Agree(g)' \/ \E k \in 1 .. Len(frames') : Pending(g, frames'[k])
    BY <1>1, <1>4 DEF CarriedInv
  <2>1. g \in Forwards /\ On(g, Chains[Source[g]]) /\ Agree(g)
    BY <1>1, <1>2 DEF CarriedInv
  <2>2. g \in Hooks /\ Source[g] \in Attrs /\ Target[g] \in Attrs /\ Target[g] # a
    BY <1>2, HooksAssumption
  <2>3. CASE Source[g] = a /\ Type[a] # "text"
    <3>1. Len(frames') = 1 /\ Pending(g, frames'[1])
      BY <1>5, <2>1, <2>3
    <3> QED BY <2>1, <3>1
  <2>4. CASE Source[g] # a \/ Type[a] = "text"
    <3>1. value'[Source[g]] = value[Source[g]] /\ value'[Target[g]] = value[Target[g]]
      BY <1>5, <2>2, <2>4
    <3> QED BY <2>1, <3>1 DEF Agree
  <2> QED BY <2>1, <2>3, <2>4
<1> QED BY <1>4, <1>6, <1>7, <1>8 DEF IInv

\* A call leaves every walk on its list when it changes no list but that of
\* the innermost walk: the others are over other attributes.
LEMMA WalksGoOn ==
  ASSUME TypeOK, ListedBy(head, next, Chains), WalksInv, ~Idle, Top.at # Null,
         NEW M, \A b \in Attrs \ {Top.attr} : M[b] = Chains[b],
         \E q : Walk(Advanced[Len(frames)], M[Top.attr], q)
  PROVE  /\ \A k \in 1 .. Len(frames) : \E q : Walk(Advanced[k], M[Advanced[k].attr], q)
         /\ \A j, k \in 1 .. Len(frames) :
              j < k => Rank[Advanced[j].attr] < Rank[Advanced[k].attr]
<1> DEFINE n == Len(frames)
           A == Advanced
<1>1. /\ \A k \in 1 .. n - 1 : A[k] = frames[k]
      /\ A[n].attr = Top.attr /\ Top.attr \in Attrs
  BY CallMoves
<1>2. n \in Nat \ {0} /\ Top = frames[n] /\ \A k \in 1 .. n : frames[k] \in Frame
  BY TopIs DEF TypeOK
<1>3. /\ \A k \in 1 .. n : \E q : Walk(frames[k], Chains[frames[k].attr], q)
      /\ \A j, k \in 1 .. n : j < k => Rank[frames[j].attr] < Rank[frames[k].attr]
  BY DEF WalksInv
<1> HIDE DEF n, A
<1>4. \A k \in 1 .. n : A[k].attr = frames[k].attr
  <2> TAKE k \in 1 .. n
  <2>1. k = n \/ k \in 1 .. n - 1
    BY <1>2
  <2> QED BY <1>1, <1>2, <2>1
<1>5. \A k \in 1 .. n - 1 : frames[k].attr \in Attrs \ {Top.attr}
  <2> TAKE k \in 1 .. n - 1
  <2>1. k \in 1 .. n /\ n \in 1 .. n /\ k < n
    BY <1>2
  <2>2. Rank[frames[k].attr] < Rank[frames[n].attr] /\ frames[k] \in Frame
    BY <1>2, <1>3, <2>1
  <2>3. frames[k].attr \in Attrs
    BY <2>2 DEF Frame
  <2>4. Rank[frames[k].attr] \in Nat
    BY <2>3, RankRises
  <2> QED BY <1>2, <2>2, <2>3, <2>4
<1>6. \A k \in 1 .. n : \E q : Walk(A[k], M[A[k].attr], q)
  <2> TAKE k \in 1 .. n
  <2>1. CASE k = n
    BY <1>1, <2>1 DEF n, A
  <2>2. CASE k \in 1 .. n - 1
    <3>1. A[k] = frames[k] /\ M[frames[k].attr] = Chains[frames[k].attr]
      BY <1>1, <1>5, <2>2
    <3> QED BY <1>3, <3>1
  <2> QED BY <1>2, <2>1, <2>2
<1>7. \A j, k \in 1 .. n : j < k => Rank[A[j].attr] < Rank[A[k].attr]
  BY <1>3, <1>4
<1> QED BY <1>6, <1>7 DEF n, A

\* A hook that only watches.
LEMMA CallWatchKeeps ==
  ASSUME IInv, CallWatch
  PROVE  IInv'
<1>1. /\ ~Idle /\ Top.at # Null /\ Behaviour[Top.at] = "watch" /\ frames' = Advanced
      /\ head' = head /\ next' = next /\ value' = value /\ carried' = carried
  BY DEF CallWatch
<1>2. TypeOK /\ ListedBy(head, next, Chains) /\ WalksInv /\ CarriedInv
  BY DEF IInv
<1>3. Chains' = Chains /\ ListedBy(head', next', Chains')
  BY <1>1, <1>2, SameChains
<1>4. /\ Advanced \in Seq(Frame) /\ Len(Advanced) = Len(frames)
      /\ \A h : h # Top.at /\ (\E k \in 1 .. Len(frames) : Pending(h, frames[k]))
                => \E k \in 1 .. Len(frames) : Pending(h, Advanced[k])
      /\ \E q : Walk(Advanced[Len(frames)], Chains[Top.attr], q)
  BY <1>1, <1>2, CallMoves
<1>5. TypeOK'
  BY <1>1, <1>2, <1>4 DEF TypeOK
<1>6. WalksInv'
  <2>1. /\ \A k \in 1 .. Len(frames) : \E q : Walk(Advanced[k], Chains[Advanced[k].attr], q)
        /\ \A j, k \in 1 .. Len(frames) :
             j < k => Rank[Advanced[j].attr] < Rank[Advanced[k].attr]
    BY <1>1, <1>2, <1>4, WalksGoOn
  <2> QED BY <1>1, <1>3, <1>4, <2>1 DEF WalksInv
<1>7. CarriedInv'
  <2> SUFFICES ASSUME NEW g \in carried
               PROVE  /\ g \in Forwards /\ On(g, Chains[Source[g]])
                      /\ Agree(g)' \/ \E k \in 1 .. Len(frames) : Pending(g, Advanced[k])
    BY <1>1, <1>3, <1>4 DEF CarriedInv
  <2>1. /\ g \in Forwards /\ On(g, Chains[Source[g]])
        /\ Agree(g) \/ \E k \in 1 .. Len(frames) : Pending(g, frames[k])
    BY <1>2 DEF CarriedInv
  <2>2. g # Top.at
    BY <1>1, <2>1 DEF Forwards
  <2>3. Agree(g) => Agree(g)'
    BY <1>1 DEF Agree
  <2> QED BY <1>4, <2>1, <2>2, <2>3
<1> QED BY <1>3, <1>5, <1>6, <1>7 DEF IInv

\* A hook that takes itself out in the middle of the walk.
LEMMA CallOneShotKeeps ==
  ASSUME IInv, CallOneShot
  PROVE  IInv'
<1> DEFINE h == Top.at
           a == Top.attr
<1>1. /\ ~Idle /\ h # Null /\ Behaviour[h] = "oneshot" /\ frames' = Advanced
      /\ LinkRemove(Source[h], h) /\ value' = value /\ carried' = carried
  BY DEF CallOneShot
<1>2. /\ TypeOK /\ ListedBy(head, next, Chains) /\ WalksInv /\ CarriedInv
      /\ head \in [Attrs -> Node] /\ next \in [Hooks -> Node] /\ carried \subseteq Hooks
  BY DEF IInv, TypeOK
<1>3. /\ h \in Hooks /\ a \in Attrs /\ Source[h] = a
      /\ Advanced \in Seq(Frame) /\ Len(Advanced) = Len(frames)
      /\ \A g : g # h /\ (\E k \in 1 .. Len(frames) : Pending(g, frames[k]))
                => \E k \in 1 .. Len(frames) : Pending(g, Advanced[k])
  BY <1>1, <1>2, CallMoves
<1>4. PICK p \in 1 .. Len(Chains[a]) :
        /\ Chains[a][p] = h
        /\ Walk(Advanced[Len(frames)], Without(Chains[a], p), p)
  BY <1>1, <1>2, CallMoves
<1>5. Chains \in [Attrs -> Seq(Hooks)]
  BY <1>2 DEF ListedBy
<1> DEFINE M == [Chains EXCEPT ![a] = Without(Chains[a], p)]
<1>6. head' \in [Attrs -> Node] /\ next' \in [Hooks -> Node] /\ ListedBy(head', next', M)
  BY <1>1, <1>2, <1>3, <1>4, RemoveListed
<1>7. Chains' = M
  BY <1>6, ChainsAreNext
<1>8. M[a] = Without(Chains[a], p) /\ \A b \in Attrs \ {a} : M[b] = Chains[b]
  BY <1>3, <1>5
<1> HIDE DEF M
<1>9. TypeOK'
  BY <1>1, <1>2, <1>3, <1>6 DEF TypeOK
<1>10. WalksInv'
  <2>1. \E q : Walk(Advanced[Len(frames)], M[a], q)
    BY <1>4, <1>8
  <2>2. /\ \A k \in 1 .. Len(frames) : \E q : Walk(Advanced[k], M[Advanced[k].attr], q)
        /\ \A j, k \in 1 .. Len(frames) :
             j < k => Rank[Advanced[j].attr] < Rank[Advanced[k].attr]
    BY <1>1, <1>2, <1>8, <2>1, WalksGoOn
  <2> QED BY <1>1, <1>3, <1>7, <2>2 DEF WalksInv
<1>11. CarriedInv'
  <2> SUFFICES ASSUME NEW g \in carried
               PROVE  /\ g \in Forwards /\ On(g, M[Source[g]])
                      /\ Agree(g)' \/ \E k \in 1 .. Len(frames) : Pending(g, Advanced[k])
    BY <1>1, <1>3, <1>7 DEF CarriedInv
  <2>1. /\ g \in Forwards /\ On(g, Chains[Source[g]])
        /\ Agree(g) \/ \E k \in 1 .. Len(frames) : Pending(g, frames[k])
    BY <1>2 DEF CarriedInv
  <2>2. g # h /\ Source[g] \in Attrs
    BY <1>1, <2>1, HooksAssumption DEF Forwards
  <2>3. Agree(g) => Agree(g)'
    BY <1>1 DEF Agree
  <2>4. On(g, M[Source[g]])
    <3>1. CASE Source[g] = a
      <4>1. On(g, Without(Chains[a], p))
        BY <1>3, <1>4, <1>5, <2>1, <2>2, <3>1, OnWithout
      <4> QED BY <1>8, <3>1, <4>1
    <3>2. CASE Source[g] # a
      BY <1>8, <2>1, <2>2, <3>2
    <3> QED BY <3>1, <3>2
  <2> QED BY <1>3, <2>1, <2>2, <2>3, <2>4
<1> QED BY <1>6, <1>7, <1>9, <1>10, <1>11 DEF IInv

\* A sequence without its last element.
LEMMA FrontIs ==
  ASSUME NEW S, NEW s \in Seq(S), s # << >>
  PROVE  /\ SubSeq(s, 1, Len(s) - 1) \in Seq(S)
         /\ Len(SubSeq(s, 1, Len(s) - 1)) = Len(s) - 1
         /\ \A k \in 1 .. Len(s) - 1 : SubSeq(s, 1, Len(s) - 1)[k] = s[k]
<1> DEFINE m == Len(s) - 1
<1>1. Len(s) \in Nat \ {0}
  OBVIOUS
<1>2. m \in Nat /\ 1 \in Int /\ m \in Int /\ \A i \in 1 .. m : s[i] \in S
  BY <1>1
<1> HIDE DEF m
<1>3. /\ SubSeq(s, 1, m) \in Seq(S)
      /\ Len(SubSeq(s, 1, m)) = IF 1 <= m THEN m - 1 + 1 ELSE 0
      /\ \A i \in 1 .. m - 1 + 1 : SubSeq(s, 1, m)[i] = s[1 + i - 1]
  BY <1>2, SubSeqProperties
<1>4. m - 1 + 1 = m /\ \A i \in 1 .. m : 1 + i - 1 = i
  BY <1>2
<1>5. Len(SubSeq(s, 1, m)) = m /\ \A i \in 1 .. m : SubSeq(s, 1, m)[i] = s[i]
  BY <1>2, <1>3, <1>4
<1> QED BY <1>3, <1>5 DEF m

\* A walk that is over has nothing pending.
LEMMA ReturnKeeps ==
  ASSUME IInv, Return
  PROVE  IInv' /\ Top.called = Top.chain
<1> DEFINE n == Len(frames)
<1>1. /\ ~Idle /\ frames # << >> /\ Top.at = Null /\ frames' = SubSeq(frames, 1, n - 1)
      /\ head' = head /\ next' = next /\ value' = value /\ carried' = carried
  BY DEF Return, Idle
<1>2. /\ TypeOK /\ ListedBy(head, next, Chains) /\ WalksInv /\ CarriedInv
      /\ frames \in Seq(Frame)
  BY DEF IInv, TypeOK
<1>3. Chains' = Chains /\ ListedBy(head', next', Chains')
  BY <1>1, <1>2, SameChains
<1>4. n \in Nat \ {0} /\ Top \in Frame /\ Top = frames[n]
  BY <1>1, <1>2, TopIs
<1>5. frames' \in Seq(Frame) /\ Len(frames') = n - 1 /\ \A k \in 1 .. n - 1 : frames'[k] = frames[k]
  BY <1>1, <1>2, FrontIs
<1>6. Top.called = Top.chain
  <2>1. Chains[Top.attr] \in Seq(Hooks)
    BY <1>2, <1>4 DEF ListedBy, Frame
  <2>2. PICK q : Walk(Top, Chains[Top.attr], q)
    BY <1>2, <1>4 DEF WalksInv
  <2> QED BY <1>1, <1>4, <2>1, <2>2, WalkEnds
<1>7. \A h : ~Pending(h, Top)
  <2> DEFINE m == Len(Top.chain)
  <2>1. m \in Nat /\ Len(Top.called) = m
    BY <1>4, <1>6 DEF Frame
  <2>2. ~\E i \in m + 1 .. m : TRUE
    BY <2>1
  <2> QED BY <2>1, <2>2 DEF Pending
<1>8. TypeOK'
  BY <1>1, <1>2, <1>5 DEF TypeOK
<1> HIDE DEF n
<1>9. WalksInv'
  <2>1. /\ \A k \in 1 .. n : \E q : Walk(frames[k], Chains[frames[k].attr], q)
        /\ \A j, k \in 1 .. n : j < k => Rank[frames[j].attr] < Rank[frames[k].attr]
    BY <1>2 DEF WalksInv, n
  <2>2. \A k \in 1 .. n - 1 : k \in 1 .. n
    BY <1>4
  <2>3. \A k \in 1 .. n - 1 : \E q : Walk(frames'[k], Chains'[frames'[k].attr], q)
    BY <1>3, <1>5, <2>1, <2>2
  <2>4. \A j, k \in 1 .. n - 1 : j < k => Rank[frames'[j].attr] < Rank[frames'[k].attr]
    BY <1>5, <2>1, <2>2
  <2> QED BY <1>5, <2>3, <2>4 DEF WalksInv
<1>10. CarriedInv'
  <2> SUFFICES ASSUME NEW g \in carried
               PROVE  /\ g \in Forwards /\ On(g, Chains[Source[g]])
                      /\ Agree(g)' \/ \E k \in 1 .. n - 1 : Pending(g, frames'[k])
    BY <1>1, <1>3, <1>5 DEF CarriedInv
  <2>1. /\ g \in Forwards /\ On(g, Chains[Source[g]])
        /\ Agree(g) \/ \E k \in 1 .. n : Pending(g, frames[k])
    BY <1>2 DEF CarriedInv, n
  <2>2. Agree(g) => Agree(g)'
    BY <1>1 DEF Agree
  <2>3. ASSUME NEW k \in 1 .. n, Pending(g, frames[k]) PROVE \E j \in 1 .. n - 1 : Pending(g, frames'[j])
    <3>1. k # n
      BY <1>4, <1>7, <2>3
    <3>2. k \in 1 .. n - 1
      BY <1>4, <3>1
    <3> QED BY <1>5, <2>3, <3>2
  <2> QED BY <2>1, <2>2, <2>3
<1> QED BY <1>3, <1>6, <1>8, <1>9, <1>10 DEF IInv

\* A hook that forwards the value: only this link writes the target, and the
\* walk that starts there carries the value over every link from it.
LEMMA CallForwardKeeps ==
  ASSUME IInv, CallForward
  PROVE  IInv'
<1> DEFINE n == Len(frames)
           h == Top.at
           t == Target[h]
           v == value[Source[h]]
           A == Advanced
<1>1. /\ ~Idle /\ h # Null /\ Behaviour[h] = "forward" /\ Store(t, v, A)
      /\ carried' = carried \cup {h} /\ head' = head /\ next' = next
  BY DEF CallForward
<1>2. /\ TypeOK /\ ListedBy(head, next, Chains) /\ WalksInv /\ CarriedInv
      /\ head \in [Attrs -> Node] /\ next \in [Hooks -> Node] /\ carried \subseteq Hooks
  BY DEF IInv, TypeOK
<1>3. Chains' = Chains /\ ListedBy(head', next', Chains')
  BY <1>1, <1>2, SameChains
<1>4. /\ h \in Hooks /\ Source[h] = Top.attr /\ A \in Seq(Frame) /\ Len(A) = n
      /\ A[n].attr = Top.attr
      /\ \A g : g # h /\ (\E k \in 1 .. n : Pending(g, frames[k]))
                => \E k \in 1 .. n : Pending(g, A[k])
  BY <1>1, <1>2, CallMoves
<1>5. PICK p \in 1 .. Len(Chains[Top.attr]) :
        Chains[Top.attr][p] = h /\ Walk(A[n], Chains[Top.attr], p + 1)
  BY <1>1, <1>2, CallMoves
<1>6. n \in Nat \ {0}
  BY <1>1, <1>2, TopIs
<1>7. /\ h \in Forwards /\ Source[h] \in Attrs /\ t \in Attrs
      /\ Rank[Source[h]] < Rank[t] /\ t # Source[h]
      /\ Rank \in [Attrs -> Nat]
  BY <1>1, <1>4, HooksAssumption, RankRises DEF Forwards
<1>8. v \in Nat
  BY <1>2, <1>7, NumbersAreNat DEF TypeOK
<1>9. /\ \A k \in 1 .. n : \E q : Walk(A[k], Chains[A[k].attr], q)
      /\ \A j, k \in 1 .. n : j < k => Rank[A[j].attr] < Rank[A[k].attr]
  BY <1>1, <1>2, <1>5, WalksGoOn
<1> HIDE DEF n, h, t, v, A
<1>10. /\ frames' \in Seq(Frame)
       /\ DOMAIN value' = Attrs /\ \A b \in Attrs : value'[b] \in NumbersOf(b)
       /\ \A b \in Attrs : b # t => value'[b] = value[b]
       /\ \A k \in 1 .. n : frames'[k] = A[k]
  BY <1>1, <1>2, <1>4, <1>7, <1>8, StorePushes
<1>11. Type[t] = "text" => Len(frames') = n /\ value' = value
  BY <1>1, <1>2, <1>4, <1>7, <1>8, StorePushes
<1>12. Type[t] # "text" =>
         /\ Len(frames') = n + 1
         /\ value'[t] = Kept(t, v)
         /\ frames'[n + 1].attr = t
         /\ Walk(frames'[n + 1], Chains[t], 1)
         /\ \A g : On(g, Chains[t]) /\ Source[g] = t => Pending(g, frames'[n + 1])
  BY <1>1, <1>2, <1>4, <1>7, <1>8, StorePushes
<1>13. TypeOK'
  BY <1>1, <1>2, <1>4, <1>10 DEF TypeOK
<1>14. WalksInv'
  <2>1. \A k \in 1 .. n : \E q : Walk(frames'[k], Chains'[frames'[k].attr], q)
    BY <1>3, <1>9, <1>10
  <2>2. \A j, k \in 1 .. n : j < k => Rank[frames'[j].attr] < Rank[frames'[k].attr]
    BY <1>9, <1>10
  <2>3. CASE Type[t] = "text"
    BY <1>11, <2>1, <2>2, <2>3 DEF WalksInv
  <2>4. CASE Type[t] # "text"
    <3>1. Len(frames') = n + 1 /\ frames'[n + 1].attr = t /\ Walk(frames'[n + 1], Chains[t], 1)
      BY <1>12, <2>4
    <3>2. \A k \in 1 .. n + 1 : k \in 1 .. n \/ k = n + 1
      BY <1>6
    <3>3. \A k \in 1 .. n + 1 : \E q : Walk(frames'[k], Chains'[frames'[k].attr], q)
      BY <1>3, <2>1, <3>1, <3>2
    <3>4. \A j \in 1 .. n : Rank[frames'[j].attr] < Rank[t]
      <4> TAKE j \in 1 .. n
      <4>1. A[n].attr = Source[h] /\ frames'[j].attr = A[j].attr
        BY <1>4, <1>10
      <4>2. A[j].attr \in Attrs
        <5>1. A[j] \in Frame
          BY <1>4
        <5> QED BY <5>1 DEF Frame
      <4>3. j = n \/ (j < n /\ n \in 1 .. n)
        BY <1>6
      <4>4. Rank[A[j].attr] \in Nat /\ Rank[Source[h]] \in Nat /\ Rank[t] \in Nat
        BY <1>7, <4>2
      <4>5. CASE j = n
        BY <1>7, <4>1, <4>5
      <4>6. CASE j < n /\ n \in 1 .. n
        <5>1. Rank[A[j].attr] < Rank[Source[h]]
          BY <1>9, <4>1, <4>6
        <5> QED BY <1>7, <4>1, <4>4, <5>1
      <4> QED BY <4>3, <4>5, <4>6
    <3>5. ASSUME NEW j \in 1 .. n + 1, NEW k \in 1 .. n + 1, j < k
          PROVE  Rank[frames'[j].attr] < Rank[frames'[k].attr]
      <4>1. j \in 1 .. n
        BY <1>6, <3>5
      <4>2. CASE k = n + 1
        BY <3>1, <3>4, <4>1, <4>2
      <4>3. CASE k \in 1 .. n
        BY <2>2, <3>5, <4>1, <4>3
      <4> QED BY <3>2, <4>2, <4>3
    <3> QED BY <3>1, <3>3, <3>5 DEF WalksInv
  <2> QED BY <2>3, <2>4
<1>15. CarriedInv'
  <2> SUFFICES ASSUME NEW g \in carried \cup {h}
               PROVE  /\ g \in Forwards /\ On(g, Chains[Source[g]])
                      /\ Agree(g)' \/ \E k \in 1 .. Len(frames') : Pending(g, frames'[k])
    BY <1>1, <1>3 DEF CarriedInv
  <2>1. CASE g = h
    <3>1. On(h, Chains[Source[h]])
      BY <1>4, <1>5 DEF On
    <3>2. value'[Source[h]] = v
      BY <1>7, <1>10 DEF v
    <3>3. Agree(g)'
      BY <1>12, <2>1, <3>2 DEF Agree, t
    <3> QED BY <1>7, <2>1, <3>1, <3>3
  <2>2. CASE g # h
    <3>1. /\ g \in Forwards /\ On(g, Chains[Source[g]]) /\ g \in Hooks
          /\ Agree(g) \/ \E k \in 1 .. n : Pending(g, frames[k])
      BY <1>2, <2>2 DEF CarriedInv, n
    <3>2. Target[g] # t /\ Target[g] \in Attrs /\ Source[g] \in Attrs
      BY <1>7, <2>2, <3>1, LinksAssumption, HooksAssumption DEF t
    <3>3. CASE Source[g] = t /\ Type[t] # "text"
      <4>1. Len(frames') = n + 1 /\ n + 1 \in 1 .. n + 1
        BY <1>6, <1>12, <3>3
      <4>2. Pending(g, frames'[n + 1])
        BY <1>12, <3>1, <3>3
      <4> QED BY <3>1, <4>1, <4>2
    <3>4. CASE ~(Source[g] = t /\ Type[t] # "text")
      <4>1. value'[Source[g]] = value[Source[g]] /\ value'[Target[g]] = value[Target[g]]
        BY <1>10, <1>11, <3>2, <3>4
      <4>2. Agree(g) => Agree(g)'
        BY <4>1 DEF Agree
      <4>3. ASSUME NEW k \in 1 .. n, Pending(g, frames[k])
            PROVE  \E j \in 1 .. Len(frames') : Pending(g, frames'[j])
        <5>1. PICK j \in 1 .. n : Pending(g, A[j])
          BY <1>4, <2>2, <4>3
        <5>2. Len(frames') = n \/ Len(frames') = n + 1
          BY <1>11, <1>12
        <5>3. j \in 1 .. Len(frames')
          BY <1>6, <5>2
        <5>4. frames'[j] = A[j]
          BY <1>10
        <5> QED BY <5>1, <5>3, <5>4
      <4> QED BY <3>1, <4>2, <4>3
    <3> QED BY <3>3, <3>4
  <2> QED BY <2>1, <2>2
<1> QED BY <1>3, <1>13, <1>14, <1>15 DEF IInv

\* Every step keeps the invariant.
LEMMA InvNext == IInv /\ [Next]_vars => IInv'
<1> SUFFICES ASSUME IInv, [Next]_vars PROVE IInv'
  OBVIOUS
<1>1. ASSUME NEW h \in Hooks, Link(h) PROVE IInv'
  BY <1>1, LinkKeeps
<1>2. ASSUME NEW h \in Hooks, Unlink(h) PROVE IInv'
  BY <1>2, UnlinkKeeps
<1>3. ASSUME NEW a \in Roots, NEW v \in Values, Write(a, v) PROVE IInv'
  BY <1>3, WriteKeeps
<1>4. CASE CallForward
  BY <1>4, CallForwardKeeps
<1>5. CASE CallOneShot
  BY <1>5, CallOneShotKeeps
<1>6. CASE CallWatch
  BY <1>6, CallWatchKeeps
<1>7. CASE Return
  BY <1>7, ReturnKeeps
<1>8. CASE UNCHANGED vars
  <2>1. /\ head' = head /\ next' = next /\ value' = value
        /\ frames' = frames /\ carried' = carried
    BY <1>8 DEF vars
  <2>2. TypeOK /\ ListedBy(head, next, Chains) /\ WalksInv /\ CarriedInv
    BY DEF IInv
  <2>3. Chains' = Chains /\ ListedBy(head', next', Chains')
    BY <2>1, <2>2, SameChains
  <2>4. TypeOK'
    BY <2>1, <2>2 DEF TypeOK
  <2>5. WalksInv'
    BY <2>1, <2>2, <2>3 DEF WalksInv
  <2>6. CarriedInv'
    BY <2>1, <2>2, <2>3 DEF CarriedInv, Agree
  <2> QED BY <2>3, <2>4, <2>5, <2>6 DEF IInv
<1> QED BY <1>1, <1>2, <1>3, <1>4, <1>5, <1>6, <1>7, <1>8 DEF Next, FireStep

-----------------------------------------------------------------------------
(* Theorems                                                                *)

\* The invariant holds always.
LEMMA Inductive == Spec => []IInv
  BY InvInit, InvNext, PTL DEF Spec

\* Lists make well-formed chains.
LEMMA ListsAreWellFormed == IInv => WellFormed
<1> SUFFICES ASSUME IInv PROVE WellFormed
  OBVIOUS
<1> DEFINE L == Chains
<1>1. /\ L \in [Attrs -> Seq(Hooks)]
      /\ \A a \in Attrs : \A i \in 1 .. Len(L[a]) : Source[L[a][i]] = a
      /\ \A a \in Attrs : \A i, j \in 1 .. Len(L[a]) : L[a][i] = L[a][j] => i = j
      /\ \A h \in Hooks : next[h] # Null => On(h, L[Source[h]])
  BY DEF IInv, ListedBy
<1>2. \A a \in Attrs : Chain(a) = L[a]
  BY ChainIs DEF IInv
<1>3. \A h \in Hooks : OnChain(h, Source[h]) <=> On(h, L[Source[h]])
  BY OnChainIs, HooksAssumption DEF IInv
<1> HIDE DEF L
<1> DEFINE all == UNION {{<<a, i>> : i \in 1 .. Len(Chain(a))} : a \in Attrs}
<1>4. \A p \in all : \E a \in Attrs : \E i \in 1 .. Len(L[a]) : p = <<a, i>> /\ Chain(p[1])[p[2]] = L[a][i]
  BY <1>2
<1>5. \A p, q \in all : Chain(p[1])[p[2]] = Chain(q[1])[q[2]] => p = q
  <2> SUFFICES ASSUME NEW p \in all, NEW q \in all, Chain(p[1])[p[2]] = Chain(q[1])[q[2]]
               PROVE  p = q
    OBVIOUS
  <2>1. PICK a \in Attrs : \E i \in 1 .. Len(L[a]) : p = <<a, i>> /\ Chain(p[1])[p[2]] = L[a][i]
    BY <1>4
  <2>2. PICK i \in 1 .. Len(L[a]) : p = <<a, i>> /\ Chain(p[1])[p[2]] = L[a][i]
    BY <2>1
  <2>3. PICK b \in Attrs : \E j \in 1 .. Len(L[b]) : q = <<b, j>> /\ Chain(q[1])[q[2]] = L[b][j]
    BY <1>4
  <2>4. PICK j \in 1 .. Len(L[b]) : q = <<b, j>> /\ Chain(q[1])[q[2]] = L[b][j]
    BY <2>3
  <2>5. L[a][i] = L[b][j]
    BY <2>2, <2>4
  <2>6. a = b
    BY <1>1, <2>5
  <2>7. i = j
    BY <1>1, <2>5, <2>6
  <2> QED BY <2>2, <2>4, <2>6, <2>7
<1>6. \A p \in all : Source[Chain(p[1])[p[2]]] = p[1]
  <2> TAKE p \in all
  <2>1. PICK a \in Attrs : \E i \in 1 .. Len(L[a]) : p = <<a, i>> /\ Chain(p[1])[p[2]] = L[a][i]
    BY <1>4
  <2>2. PICK i \in 1 .. Len(L[a]) : p = <<a, i>> /\ Chain(p[1])[p[2]] = L[a][i]
    BY <2>1
  <2>3. Source[L[a][i]] = a
    BY <1>1
  <2> QED BY <2>2, <2>3
<1>7. \A h \in Hooks : ~OnChain(h, Source[h]) => next[h] = Null
  BY <1>1, <1>3
<1> HIDE DEF all
<1>8. ChainsWellFormed
  BY <1>5, <1>6, <1>7, Zenon DEF ChainsWellFormed, all
<1> QED BY <1>8 DEF WellFormed, IInv

\* The chains stay chains through every add, remove and one-shot that takes
\* itself out in the middle of a walk: they end, share no node, and hold
\* only the hooks meant for them.
THEOREM ChainsStayWellFormed == Spec => []WellFormed
  BY Inductive, ListsAreWellFormed, PTL

\* Every walk that returns has called the hooks that were on the chain when
\* it began, each once and in order.
THEOREM HooksCalledOnceInOrder == Spec => EveryHookOnceInOrder
<1>1. IInv /\ [Next]_vars => [Return => Top.called = Top.chain]_vars
  BY ReturnKeeps
<1> QED BY <1>1, Inductive, PTL DEF Spec, EveryHookOnceInOrder

\* Between writes both ends of every link that has carried a value agree.
THEOREM LinksKeepValuesEqual == Spec => []LinkedValuesAgree
<1>1. IInv => LinkedValuesAgree
  <2> SUFFICES ASSUME IInv, Idle, NEW h \in carried, Type[Target[h]] # "text"
               PROVE  value[Target[h]] = Kept(Target[h], value[Source[h]])
    BY DEF LinkedValuesAgree
  <2>1. Len(frames) = 0
    BY DEF Idle
  <2>2. Agree(h)
    BY <2>1 DEF IInv, CarriedInv
  <2> QED BY <2>2 DEF Agree
<1> QED BY <1>1, Inductive, PTL
=============================================================================
