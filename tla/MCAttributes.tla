---------------------------- MODULE MCAttributes ----------------------------
(***************************************************************************)
(* The modules about attributes, one TLC run for all: a behaviour is about *)
(* one of them, `about` says which, and the others stand still.            *)
(*                                                                         *)
(* LinkHooks: an output linked through an io server's narrower term to a   *)
(* pin, and also to a text attribute; a one-shot and a watcher share the   *)
(* output's chain, a one-shot the term's.                                  *)
(* AttrValue: integers of 2, 3 and 4 bits, floats exact up to 4, a chain   *)
(* of three attributes, and reals around every boundary.                   *)
(* AttrText: texts of up to four characters over a letter, a bar and       *)
(* braces, a chain of attributes of 3, 4 and 2 characters, and an          *)
(* enumeration with a number listed twice and gaps.                        *)
(***************************************************************************)
EXTENDS LinkHooks, AttrValue, AttrText

CONSTANTS
  out, term, coilPin, label,                 \* attributes
  toTerm, toLabel, toPin, once, termOnce, watcher   \* hooks

MCAttrs == {out, term, coilPin, label}
MCRoots == {out}
MCHooks == {toTerm, toLabel, toPin, once, termOnce, watcher}

MCSource == [h \in MCHooks |-> IF h \in {toPin, termOnce} THEN term ELSE out]

MCBehaviour == [h \in MCHooks |->
  CASE h \in {toTerm, toLabel, toPin} -> "forward"
    [] h \in {once, termOnce}         -> "oneshot"
    [] OTHER                          -> "watch"]

\* Hooks that forward nothing name a target all the same; it is not used.
MCTarget == [h \in MCHooks |->
  CASE h = toTerm  -> term
    [] h = toLabel -> label
    [] OTHER       -> coilPin]

MCType == [a \in MCAttrs |->
  CASE a = out     -> "wide"
    [] a = term    -> "narrow"
    [] a = coilPin -> "bool"
    [] OTHER       -> "text"]

\* 4 is cut to 0 by the narrow term.
MCValues == {0, 3, 4}
MCNarrowMod == 4

MCM8 == 4
MCM16 == 8
MCM32 == 16
MCFloatExact == 8
MCLength == 3
MCReals == (-18 .. 18) \cup {31, 32, 33, -40, 70}
MCTexts == {"", "a"}

MCChars == {"a", "|", "{", "}"}
MCCapacity == <<3, 4, 2>>
MCDefaultText == << <<"a">>, <<>>, <<"a", "a">> >>
MCEnum == << [n |-> 1, id |-> "ONE", text |-> <<"a">>],
             [n |-> 4, id |-> "FOUR", text |-> <<"a", "a">>],
             [n |-> 1, id |-> "UNO", text |-> <<"}">>],
             [n |-> 3, id |-> "BARE", text |-> <<>>] >>

ASSUME ValueAssumption

-----------------------------------------------------------------------------
VARIABLE about

allVars == <<about, vars, valueVars, textVars>>

MCInit ==
  /\ about \in {"links", "values", "texts"}
  /\ Init
  /\ ValueInit
  /\ TextInit
  /\ about # "values" => type = [c \in 1 .. 3 |-> "BOOL"]

OfLinks(A)  == about = "links"  /\ A /\ UNCHANGED <<about, valueVars, textVars>>
OfValues(A) == about = "values" /\ A /\ UNCHANGED <<about, vars, textVars>>
OfTexts(A)  == about = "texts"  /\ A /\ UNCHANGED <<about, vars, valueVars>>

MCNext == OfLinks(Next) \/ OfValues(ValueNext) \/ OfTexts(TextNext)

\* The fairness LinkHooks states; the others state none.
MCFairSpec == MCInit /\ [][MCNext]_allVars /\ WF_allVars(OfLinks(FireStep))
=============================================================================
