------------------------------ MODULE AttrText ------------------------------
(***************************************************************************)
(* Text in attributes: the helpers of src/src/Attr.h, the text half of     *)
(* src/src/UdiAttr.h, and the texts a device may use as a unit             *)
(* (src/src/UdiDeclare.h).  A text is a sequence of characters; a buffer   *)
(* is a sequence of capacity + 1 of them, Nul included, in which an        *)
(* earlier, longer text may still stand behind the terminator.             *)
(*                                                                         *)
(* A text is typed, then written to the first attribute of a chain of      *)
(* links, which the hooks carry on to the others.                          *)
(***************************************************************************)
EXTENDS Integers, SequencesExt, ForEach

CONSTANTS
  Chars,        \* characters, "|" and braces among them
  MaxLen,       \* bound: characters of a typed text
  Capacity,     \* the capacities of the attributes of the chain
  DefaultText,  \* their declared defaults
  Enum          \* a UDI_ENUM: its (number, NAME, "description") in order

Nul == "nul"
Junk == "junk"   \* what a buffer holds before it is constructed
TextCells == DOMAIN Capacity

\* Every attribute has a default; a UDI_ENUM has no more entries than
\* UDI_FOR_EACH takes.
ASSUME TextAssumption ==
  /\ MaxLen \in Nat /\ MaxArgs \in Nat
  /\ Nul \notin Chars /\ Junk \notin Chars
  /\ Capacity \in Seq(Nat)
  /\ DefaultText \in Seq(Seq(Chars)) /\ Len(DefaultText) = Len(Capacity)
  /\ Enum \in Seq([n : Int, id : STRING, text : Seq(Chars)]) /\ Len(Enum) <= MaxArgs

VARIABLES
  typed,   \* the text being typed
  buf,     \* the buffer of each attribute
  toCell,  \* the attribute the running hook writes to, 0 when none runs
  stored   \* ghost: has typed been written? "never" before the first write

textVars == <<typed, buf, toCell, stored>>

-----------------------------------------------------------------------------
(* The helpers                                                             *)

Least(S) == CHOOSE n \in S : \A m \in S : n <= m

\* The first of some places, 0 when there is none.
First(S) == IF S = {} THEN 0 ELSE Least(S)

\* The text in a buffer, up to its first Nul.
Str(mem) == SubSeq(mem, 1, First({i \in DOMAIN mem : mem[i] = Nul}) - 1)

\* s and its terminator over what a buffer held.
Put(mem, s) ==
  [i \in DOMAIN mem |->
     IF i <= Len(s) THEN s[i] ELSE IF i = Len(s) + 1 THEN Nul ELSE mem[i]]

Cut(s, n) == IF Len(s) <= n THEN s ELSE SubSeq(s, 1, n)

Nothing == [ok |-> FALSE, dst |-> <<>>]

\* The copy loops: s into a buffer of `size` > 0 characters, cut short and
\* reported so when it does not fit with its terminator.
Into(s, size) == [ok |-> Len(s) + 1 <= size, dst |-> Cut(s, size - 1)]

\* The bar that ends the field that starts at `start`, 0 for the last field.
Bar(list, start) == First({i \in start .. Len(list) : list[i] = "|"})

\* Where field `index` of a '|'-separated text starts, 0 if there is none.
NextField(list, start) ==
  IF start = 0 \/ Bar(list, start) = 0 THEN 0 ELSE Bar(list, start) + 1
FieldStart(list, index) ==
  LET start[f \in 0 .. index] == IF f = 0 THEN 1 ELSE NextField(list, start[f - 1])
  IN  start[index]

Field(list, start) ==
  SubSeq(list, start, IF Bar(list, start) = 0 THEN Len(list) ELSE Bar(list, start) - 1)

attrTextField(list, index, size) ==
  LET start == FieldStart(list, index)
  IN  IF size = 0 \/ start = 0 THEN Nothing ELSE Into(Field(list, start), size)

attrTextCopy(t, size) == attrTextField(t, 0, size)

\* attrTextEquals(), character by character and then the terminator.
attrTextEquals(t, s) ==
  /\ \A i \in 1 .. Len(s) : i <= Len(t) /\ t[i] = s[i]
  /\ Len(t) = Len(s)

\* The table UDI_ENUM makes in flash, and the number of a NAME.
Entries == UDI_FOR_EACH([e \in ToSet(Enum) |-> [value |-> e.n, text |-> e.text]], Enum)
NumberOf(id) == Enum[First({i \in DOMAIN Enum : Enum[i].id = id})].n

\* The first entry with number v, 0 if there is none.
EntryOf(v) == First({i \in DOMAIN Entries : Entries[i].value = v})

attrEnumCount == Len(Entries)
attrEnumEntry(i, size) ==
  IF i >= attrEnumCount THEN [value |-> {}, name |-> Nothing]
  ELSE [value |-> {Entries[i + 1].value},
        name |-> attrTextCopy(Entries[i + 1].text, size)]
attrEnumFind(v, size) ==
  IF EntryOf(v) = 0 THEN Nothing ELSE attrTextCopy(Entries[EntryOf(v)].text, size)
attrEnumHas(v) == EntryOf(v) # 0

\* IDevice::report(): what the error sink is told.
ReportText(code, size) ==
  LET name == attrEnumFind(code, size).dst
  IN  IF name # <<>> THEN name ELSE <<"Unknown error">>

\* UdiDeclare.h: noBraces(), symbolRest() and validUnit().
NoBraces(s) == \A i \in DOMAIN s : s[i] \notin {"{", "}"}
FirstBrace(s) == First({i \in DOMAIN s : s[i] \in {"{", "}"}})
\* Mutant: whatever follows the closing brace is let through.
SymbolRest_Tail(s) == FirstBrace(s) # 0 /\ s[FirstBrace(s)] = "}"
\* The first brace ends the text.
SymbolRest(s) ==
  FirstBrace(s) # 0 /\ s[FirstBrace(s)] = "}" /\ FirstBrace(s) = Len(s)
ValidUnit(s) ==
  IF s # <<>> /\ s[1] = "{"
    THEN Len(s) > 1 /\ s[2] # "}" /\ SymbolRest(Tail(s))
    ELSE NoBraces(s)

-----------------------------------------------------------------------------
(* Text attributes                                                         *)

TextTypeOK ==
  /\ typed \in Seq(Chars) /\ Len(typed) <= MaxLen
  /\ \A c \in TextCells : /\ Junk \notin ToSet(Str(buf[c]))
                      /\ buf[c] \in [1 .. Capacity[c] + 1 -> Chars \cup {Nul, Junk}]
                      /\ \E i \in DOMAIN buf[c] : buf[c][i] = Nul
  /\ toCell \in {0} \cup TextCells
  /\ stored \in {"never", "no", "yes"}

\* The constructor: the declared default over a buffer of anything.
TextInit ==
  /\ typed = <<>>
  /\ buf = [c \in TextCells |->
              Put([i \in 1 .. Capacity[c] + 1 |-> Junk],
                  attrTextCopy(DefaultText[c], Capacity[c] + 1).dst)]
  /\ toCell = 0
  /\ stored = "never"

TypeChar(c) ==
  /\ stored # "yes" /\ Len(typed) < MaxLen
  /\ typed' = Append(typed, c)
  /\ UNCHANGED <<buf, toCell, stored>>

\* Mutant: the capacity is taken for the size of the buffer.
storeText_OneLess(c, v) == buf' = [buf EXCEPT ![c] = Put(@, Cut(v, Capacity[c] - 1))]
storeText(c, v) == buf' = [buf EXCEPT ![c] = Put(@, Cut(v, Capacity[c]))]

Behind(c) == IF c < Len(Capacity) THEN c + 1 ELSE 0

WriteText ==
  /\ stored # "yes"
  /\ stored' = "yes"
  /\ storeText(1, typed)
  /\ toCell' = Behind(1)
  /\ UNCHANGED typed

CarryText ==
  /\ toCell # 0
  /\ storeText(toCell, Str(buf[toCell - 1]))
  /\ toCell' = Behind(toCell)
  /\ UNCHANGED <<typed, stored>>

\* Another text.
NewText ==
  /\ stored = "yes" /\ toCell = 0
  /\ typed' = <<>>
  /\ stored' = "no"
  /\ UNCHANGED <<buf, toCell>>

TextNext == (\E c \in Chars : TypeChar(c)) \/ WriteText \/ CarryText \/ NewText

TextSpec == TextInit /\ [][TextNext]_textVars

GetString(c) == Str(buf[c])

\* GetText() into a buffer of `size`.
GetText(c, size) == IF size = 0 THEN Nothing ELSE Into(GetString(c), size)

-----------------------------------------------------------------------------
(* Properties                                                              *)

TextAtRest == stored = "yes" /\ toCell = 0

\* "Text is cut to the capacity": at the end of a chain of links an
\* attribute holds the written text cut to the least capacity on the way,
\* with nothing of the longer text that was there before.
TextCutToLeastCapacity ==
  TextAtRest => \A c \in TextCells :
    GetString(c) = Cut(typed, Least({Capacity[d] : d \in 1 .. c}))

\* What a reader with a buffer of `size` must get of s: a prefix that fits
\* with its terminator, the longest that does, and the truth about whether
\* it is all of it.
Told(r, s, size) ==
  /\ IsPrefix(r.dst, s) /\ Len(r.dst) < size
  /\ r.ok <=> r.dst = s
  /\ ~r.ok => Len(r.dst) = size - 1

\* "The text into dst.  False when dst was too small (cut short)": every
\* reader of a text attribute is told the truth.
ReadersToldTheTruth ==
  \A c \in TextCells, size \in 1 .. MaxLen + 2 : Told(GetText(c, size), GetString(c), size)

\* Every buffer holds a text that ends; a text is cut to the least capacity on
\* its way, and to nothing less, and its readers are told whether they got
\* all of it.
TextsArrive == TextTypeOK /\ TextCutToLeastCapacity /\ ReadersToldTheTruth

\* "Field `index` of a '|'-separated text": read one after another and put
\* together again with their bars, the fields are the text, and there is
\* one more of them than there are bars.
FieldsMakeTheText ==
  LET bars == Cardinality({i \in DOMAIN typed : typed[i] = "|"})
      field(f) == attrTextField(typed, f, MaxLen + 1)
      joined == FlattenSeq([i \in 1 .. bars + 1 |->
                              (IF i = 1 THEN <<>> ELSE <<"|">>) \o field(i - 1).dst])
  IN  /\ \A f \in 0 .. bars : field(f).ok
      /\ joined = typed
      /\ attrTextField(typed, bars + 1, MaxLen + 1) = Nothing

\* "False if there is no such field or dst was too small (the text is then
\* cut short)": whatever room a reader has, down to none, it is told the
\* truth about the field, also when the field just fits or is a character
\* too long.
FieldsCutToFit ==
  \A f \in 0 .. Cardinality({i \in DOMAIN typed : typed[i] = "|"}) :
    /\ \A size \in 1 .. MaxLen :
         Told(attrTextField(typed, f, size), attrTextField(typed, f, MaxLen + 1).dst, size)
    /\ attrTextField(typed, f, 0) = Nothing

\* An enumeration is the same seen by NAME, by number and by position: the
\* number of every NAME is listed, a number is listed exactly when some
\* position has it, and is described as its first position is (a later
\* entry with the same number is never shown).
EnumByNumberAndPosition ==
  LET v == Len(typed)   \* any number will do: the length of the text
      at == {i \in 0 .. attrEnumCount : v \in attrEnumEntry(i, MaxLen).value}
  IN  /\ \A i \in DOMAIN Enum : attrEnumHas(NumberOf(Enum[i].id))
      /\ attrEnumHas(v) <=> at # {}
      /\ at # {} => attrEnumFind(v, MaxLen) = attrEnumEntry(Least(at), MaxLen).name
      /\ at = {} => ReportText(v, MaxLen) = <<"Unknown error">>

\* "Plain text with no braces, or a symbol the device chooses: {name},
\* braces only around it": what the compile-time check lets through is
\* exactly that, so udiResolveUnit_() asks unitFor() about whole symbols
\* only.
UnitsAreTextOrSymbol ==
  ValidUnit(typed) <=>
    \/ NoBraces(typed)
    \/ \E n \in 1 .. MaxLen - 2 :
         /\ Len(typed) = n + 2
         /\ attrTextEquals(typed, <<"{">> \o SubSeq(typed, 2, n + 1) \o <<"}">>)
         /\ NoBraces(SubSeq(typed, 2, n + 1))

\* The fields and the bars of a text make the text, a field is cut to the
\* room there is for it, an enumeration is the same by NAME, by number and
\* by position, and a unit is a plain text or a whole symbol.
WordsTakenApart ==
  /\ FieldsMakeTheText /\ FieldsCutToFit
  /\ EnumByNumberAndPosition /\ UnitsAreTextOrSymbol
=============================================================================
