---------------------------- MODULE Declarations ----------------------------
(***************************************************************************)
(* How a device's declarations become the list a framework walks           *)
(* (src/src/UdiDeclare.h, src/src/IDevice.h, src/src/UdiAttr.h).  The      *)
(* compiler reads a base class and a class derived from it, one macro      *)
(* after another; describe() of the finished device then visits the items  *)
(* one at a time, while the framework keeps what it is told.               *)
(*                                                                         *)
(* There is no registry: a declaration adds an overload of udiCount_() and *)
(* the next one finds the highest by overload resolution.  A class has its *)
(* own overloads, which hide those of its base.                            *)
(***************************************************************************)
EXTENDS Integers, FiniteSets, SequencesExt

CONSTANTS
  MaxItems,     \* UDI_MAX_ITEMS
  MaxCapacity,  \* the longest text an attribute can hold (65534 in the code)
  Decls,        \* the declarations a class may make: [macro, prefix, name] and
                \*   unit, given: of a number, with the limits and default given;
                \*   capacity, length: of a text and of its default
  Mounts,       \* values of the mount that decides the units
  Chosen(_, _)  \* unitFor(): the unit for a symbol under a mount, or ""

ASSUME DeclarationsAssumption == MaxItems \in Nat /\ MaxCapacity \in Nat

Classes == {"Base", "Derived"}

\* What a macro declares: the prefix it requires, class, direction, whether
\* it names a callback and whether it is a text.
Macro == [
  UDI_R        |-> [prefix |-> "r",   cls |-> "R",     dir |-> "NONE", cb |-> FALSE, str |-> FALSE],
  UDI_W        |-> [prefix |-> "w",   cls |-> "W",     dir |-> "NONE", cb |-> TRUE,  str |-> FALSE],
  UDI_MOUNT    |-> [prefix |-> "cnf", cls |-> "MOUNT", dir |-> "NONE", cb |-> FALSE, str |-> FALSE],
  UDI_SETUP    |-> [prefix |-> "cnf", cls |-> "SETUP", dir |-> "NONE", cb |-> FALSE, str |-> FALSE],
  UDI_SETUP_CB |-> [prefix |-> "cnf", cls |-> "SETUP", dir |-> "NONE", cb |-> TRUE,  str |-> FALSE],
  UDI_IN       |-> [prefix |-> "io",  cls |-> "IO",    dir |-> "IN",   cb |-> FALSE, str |-> FALSE],
  UDI_OUT      |-> [prefix |-> "io",  cls |-> "IO",    dir |-> "OUT",  cb |-> FALSE, str |-> FALSE]]

\* The same for a text: UDI_R_STR, UDI_W_STR and so on.
StrMacro == [
  UDI_R_STR        |-> [Macro["UDI_R"] EXCEPT !.str = TRUE],
  UDI_W_STR        |-> [Macro["UDI_W"] EXCEPT !.str = TRUE],
  UDI_MOUNT_STR    |-> [Macro["UDI_MOUNT"] EXCEPT !.str = TRUE],
  UDI_SETUP_STR    |-> [Macro["UDI_SETUP"] EXCEPT !.str = TRUE],
  UDI_SETUP_STR_CB |-> [Macro["UDI_SETUP_CB"] EXCEPT !.str = TRUE],
  UDI_IN_STR       |-> [Macro["UDI_IN"] EXCEPT !.str = TRUE],
  UDI_OUT_STR      |-> [Macro["UDI_OUT"] EXCEPT !.str = TRUE]]

ChildMacros == {"UDI_CHILD", "UDI_CHILD_OWN_NAME"}
Info(macro) == IF macro \in DOMAIN Macro THEN Macro[macro] ELSE StrMacro[macro]

VARIABLES
  class,      \* the class being compiled, "built", or "error"
  counts,     \* the ranks udiCount_() is overloaded for, in each class
  items,      \* udiItem_(Index<i>) of each class: its declarations by index
  declared,   \* ghost: what each class declared, in order
  unitMount,  \* the value of the mount
  at,         \* <<class, i>>: the next item describe() visits; <<>> at rest
  told,       \* what the framework was told in this walk
  before      \* ghost: what it was told in the last complete walk

declVars == <<class, counts, items, declared, unitMount, at, told, before>>

DeclTypeOK ==
  /\ class \in Classes \cup {"built", "error"}
  /\ \A c \in Classes :
       /\ counts[c] = 0 .. Len(declared[c])
       /\ DOMAIN items[c] = 0 .. Len(declared[c]) - 1
       /\ Len(declared[c]) <= MaxItems
  /\ unitMount \in Mounts
  /\ at # <<>> => /\ at[1] \in Classes
                   /\ at[2] \in 0 .. Cardinality(DOMAIN items[at[1]])

\* UDI_DEVICE and UDI_DEVICE_EXTENDS: each class starts to count at 0.
DeclInit ==
  /\ class = "Base"
  /\ counts = [c \in Classes |-> {0}]
  /\ items = [c \in Classes |-> <<>>]
  /\ declared = [c \in Classes |-> <<>>]
  /\ unitMount \in Mounts
  /\ at = <<>>
  /\ told = <<>>
  /\ before = <<>>

-----------------------------------------------------------------------------
(* The compiler                                                            *)

Highest(S) == CHOOSE n \in S : \A m \in S : m <= n

\* decltype(udiCount_(Rank<UDI_MAX_ITEMS>())): Rank<n> is a Rank<n - 1>, so
\* the overload of the highest rank up to the limit is the best match.
CountOf(c) == Highest({r \in counts[c] : r <= MaxItems})

\* The checks of UDI_ATTR_: the prefix, the reserved name, the unit.
AcceptedNumber(d) ==
  /\ d.prefix = Info(d.macro).prefix
  /\ <<d.prefix, d.name>> # <<"r", "State">>
  /\ d.unit # "bad"

\* Those of UDI_STR_, which has no reserved name.
AcceptedText(d) ==
  /\ d.prefix = Info(d.macro).prefix
  /\ d.capacity \in 1 .. MaxCapacity
  /\ d.length <= d.capacity

\* Whether the declaration under this index compiles; a class has no more
\* than UDI_MAX_ITEMS.
Accepted(d, index) ==
  /\ index < MaxItems
  /\ d.macro \in DOMAIN Macro => AcceptedNumber(d)
  /\ d.macro \in DOMAIN StrMacro => AcceptedText(d)

\* A declaration in the body of the class being compiled.  C++ itself
\* refuses a second member of the same name.
Declare(d) ==
  /\ class \in Classes
  /\ \A e \in ToSet(declared[class]) : <<e.prefix, e.name>> # <<d.prefix, d.name>>
  /\ LET i == CountOf(class)
     IN  IF Accepted(d, i)
           THEN /\ items' = [items EXCEPT ![class] =
                               [j \in DOMAIN @ \cup {i} |-> IF j = i THEN d ELSE @[j]]]
                /\ counts' = [counts EXCEPT ![class] = @ \cup {i + 1}]
                /\ declared' = [declared EXCEPT ![class] = Append(@, d)]
                /\ UNCHANGED class
           ELSE class' = "error" /\ UNCHANGED <<items, counts, declared>>
  /\ UNCHANGED <<unitMount, at, told, before>>

EndOfClass ==
  /\ class \in Classes
  /\ class' = IF class = "Base" THEN "Derived" ELSE "built"
  /\ UNCHANGED <<counts, items, declared, unitMount, at, told, before>>

-----------------------------------------------------------------------------
(* describe()                                                              *)

\* Mutant: the device is never asked.
Resolved_Never(unit) == unit
\* udiResolveUnit_(): a symbol is the unit unitFor() gives for it, or shown
\* as it is.
Resolved(unit) ==
  IF unit = "symbol" /\ Chosen(unitMount, unit) # "" THEN Chosen(unitMount, unit) ELSE unit

\* Mutant: the hook's context is the device as its framework holds it.
OwnerOf_Outermost(c) == "Derived"
\* The pointer a class passes for itself: its own part of the device.
OwnerOf(c) == c

\* The record of Describe(), as the framework keeps it.
Record(c, d) ==
  IF d.macro \in ChildMacros
    THEN [name |-> <<d.prefix, d.name>>, cls |-> "child", dir |-> "NONE",
          unit |-> "", flags |-> {}, ctx |-> "none"]
    ELSE LET m == Info(d.macro)
         IN  [name |-> <<d.prefix, d.name>>, cls |-> m.cls, dir |-> m.dir,
              unit |-> IF m.str THEN "" ELSE Resolved(d.unit),
              flags |-> IF ~m.str THEN d.given
                        ELSE IF d.length > 0 THEN {"MAX", "DEFAULT"} ELSE {"MAX"},
              ctx |-> IF m.cb THEN OwnerOf(c) ELSE "none"]

rState == [name |-> <<"r", "State">>, cls |-> "R", dir |-> "NONE", unit |-> "",
           flags |-> {"DEFAULT"}, ctx |-> "none"]

\* describe(): rState, then describeSelf(), which for an extending class
\* runs its base's first.
Describe ==
  /\ class = "built" /\ at = <<>>
  /\ told' = <<rState>>
  /\ at' = <<"Base", 0>>
  /\ UNCHANGED <<class, counts, items, declared, unitMount, before>>

More(c, i) == i < CountOf(c)

\* Each<Self, I, N>: item I, then the rest; N is the class's own count.
Visit ==
  /\ at # <<>>
  /\ LET c == at[1]  i == at[2]
     IN  IF More(c, i)
           THEN /\ told' = Append(told, Record(c, items[c][i]))
                /\ at' = <<c, i + 1>>
                /\ UNCHANGED before
           ELSE /\ at' = IF c = "Base" THEN <<"Derived", 0>> ELSE <<>>
                /\ before' = IF c = "Base" THEN before ELSE told
                /\ UNCHANGED told
  /\ UNCHANGED <<class, counts, items, declared, unitMount>>

\* Another program, with another mount.
Restart ==
  /\ class = "error" \/ (class = "built" /\ at = <<>> /\ before # <<>>)
  /\ class' = "Base"
  /\ counts' = [c \in Classes |-> {0}]
  /\ items' = [c \in Classes |-> <<>>]
  /\ declared' = [c \in Classes |-> <<>>]
  /\ unitMount' \in Mounts
  /\ told' = <<>>
  /\ before' = <<>>
  /\ UNCHANGED at

DeclNext == (\E d \in Decls : Declare(d)) \/ EndOfClass \/ Describe \/ Visit \/ Restart

DeclSpec == DeclInit /\ [][DeclNext]_declVars

-----------------------------------------------------------------------------
(* Properties                                                              *)

Walked == class = "built" /\ at = <<>> /\ before # <<>>
NamesOf(records) == [i \in DOMAIN records |-> records[i].name]
DeclaredNames(c) == [i \in DOMAIN declared[c] |-> <<declared[c][i].prefix, declared[c][i].name>>]

\* "Lists rState, then everything the device declared, in declaration
\* order", a base's first, up to a full class: no item is lost, doubled or
\* out of place at the limit of UDI_MAX_ITEMS or between the two classes.
EverythingInOrder ==
  Walked => NamesOf(before) =
              <<rState.name>> \o DeclaredNames("Base") \o DeclaredNames("Derived")

\* "A unit in braces is chosen by the device when it is described, from its
\* mounts", and of a symbol it does not know "the symbol itself is shown, so
\* the mistake is visible, never a wrong unit": a unit that was chosen is the
\* one shown, a symbol is shown exactly when there is none, and every other
\* unit is the one declared.
NeverAWrongUnit ==
  Walked =>
    LET all == declared["Base"] \o declared["Derived"]
    IN  \A i \in DOMAIN all :
          LET d == all[i]  shown == before[i + 1].unit
              chosen == Chosen(unitMount, d.unit)
          IN  d.macro \in DOMAIN Macro =>
                /\ d.unit # "symbol" => shown = d.unit
                /\ d.unit = "symbol" /\ chosen # "" => shown = chosen
                /\ d.unit = "symbol" /\ chosen = "" => shown = "symbol"

\* "The callback with the owning device as its context": the trampoline of
\* a callback casts its context to the class that declared it, so that is
\* what the record must carry, for a base's callbacks as well; and an
\* attribute that has no callback carries none.
HookGetsItsOwner ==
  Walked =>
    \A c \in Classes : \A i \in DOMAIN declared[c] :
      LET d == declared[c][i]
          r == before[1 + i + (IF c = "Base" THEN 0 ELSE Len(declared["Base"]))]
          cb == d.macro \notin ChildMacros /\ Info(d.macro).cb
      IN  r.ctx = IF cb THEN c ELSE "none"

\* describe() lists everything declared, in declaration order; a unit is the
\* one chosen for it, its symbol if there is none, or the one declared; and a
\* callback is described with the class that declared it as its context.
DescribedAsDeclared ==
  DeclTypeOK /\ EverythingInOrder /\ NeverAWrongUnit /\ HookGetsItsOwner

\* "RULES, all checked at compile time: ... rState is IDevice's own": a
\* framework that looks for rState finds the state of the device, and
\* nothing a class declared under that name.
OneRState ==
  Walked => \A i \in DOMAIN before : before[i].name = rState.name => i = 1
=============================================================================
