----------------------------- MODULE LinkHooks ------------------------------
(***************************************************************************)
(* Link hooks (src/src/UdiLink.h) and the writes that fire them            *)
(* (src/src/UdiAttr.h): each attribute owns a singly linked chain of hook  *)
(* nodes; storing a value walks the chain and calls every hook, and a hook *)
(* that forwards the value to another attribute starts a walk of that      *)
(* attribute's chain before its own walk goes on.                          *)
(*                                                                         *)
(* The walks are a stack of frames, one per udiFireLinks() call in         *)
(* progress, so that what a hook does to a chain happens in the middle of  *)
(* the walks that are using it.  The chains are changed from outside only  *)
(* between writes: the tree lock covers both.                              *)
(***************************************************************************)
EXTENDS Naturals, Sequences, FiniteSets

CONSTANTS
  Attrs,       \* attributes
  Roots,       \* the attributes a device writes itself
  Hooks,       \* hook nodes, all owned by the framework
  Null,        \* nullptr
  Source,      \* Source[h]: the attribute whose chain h is meant for
  Behaviour,   \* Behaviour[h]: what fn does, "forward", "oneshot" or "watch"
  Target,      \* Target[h]: the attribute a "forward" hook writes
  Type,        \* Type[a]: "wide", "narrow", "bool" or "text"
  Values,      \* the numbers a device writes
  NarrowMod    \* number of values of a "narrow" integer

\* Links lead away from the attributes devices write: no target is a root.
ASSUME HooksAssumption ==
  /\ Roots \subseteq Attrs
  /\ IsFiniteSet(Hooks)
  /\ Null \notin Hooks
  /\ Source \in [Hooks -> Attrs]
  /\ Behaviour \in [Hooks -> {"forward", "oneshot", "watch"}]
  /\ Target \in [Hooks -> Attrs \ Roots]
  /\ Type \in [Attrs -> {"wide", "narrow", "bool", "text"}]
  /\ Values \subseteq Nat
  /\ NarrowMod \in Nat \ {0}

Forwards == {h \in Hooks : Behaviour[h] = "forward"}

\* The links of an installation form trees: what one link writes no other
\* does, and none leads back to where it came from (a write that goes round
\* a circle of links would never return).
ASSUME LinksAssumption ==
  /\ \A g, h \in Forwards : Target[g] = Target[h] => g = h
  /\ \E rank \in [Attrs -> 0 .. Cardinality(Hooks)] :
       \A h \in Forwards : rank[Source[h]] < rank[Target[h]]

VARIABLES
  head,      \* head[a]: UdiAttr::links_
  next,      \* next[h]: UdiLinkHook::next
  value,     \* value[a]: UdiAttr::value_, 0 for a text attribute
  frames,    \* the udiFireLinks() calls in progress, innermost last
  carried    \* ghost: hooks on a chain that have run since they were added

vars == <<head, next, value, frames, carried>>

Node == Hooks \cup {Null}

\* The numbers an attribute of a's type can hold.
NumbersOf(a) == CASE Type[a] = "bool"   -> {0, 1}
              [] Type[a] = "narrow" -> 0 .. NarrowMod - 1
              [] Type[a] = "text"   -> {0}
              [] OTHER              -> Nat

\* A walk: the attribute, the node to call next, and (ghosts) the hooks called
\* so far and those on the chain at the start.
Frame == [attr : Attrs, at : Node, called : Seq(Hooks), chain : Seq(Hooks)]

TypeOK ==
  /\ head \in [Attrs -> Node]
  /\ next \in [Hooks -> Node]
  /\ \A a \in DOMAIN value : value[a] \in NumbersOf(a)
  /\ DOMAIN value = Attrs
  /\ frames \in Seq(Frame)
  /\ carried \subseteq Hooks

Init ==
  /\ head = [a \in Attrs |-> Null]
  /\ next = [h \in Hooks |-> Null]
  /\ value = [a \in Attrs |-> 0]
  /\ frames = << >>
  /\ carried = {}

-----------------------------------------------------------------------------
(* Chains                                                                  *)

\* The nodes from the head of a's chain on, one more than there are hooks
\* if they never end.
Chain(a) ==
  LET node[i \in 0 .. Cardinality(Hooks)] ==
        IF i = 0 THEN head[a]
        ELSE LET n == node[i - 1] IN IF n = Null THEN Null ELSE next[n]
      nodes == {i \in 0 .. Cardinality(Hooks) : node[i] # Null}
  IN  [i \in 1 .. Cardinality(nodes) |-> node[i - 1]]

OnChain(h, a) == \E i \in 1 .. Len(Chain(a)) : Chain(a)[i] = h

\* Mutant: the added node points back at the chain it was added to.
LinkAdd_Ring(a, h) ==
  LET c == Chain(a) IN
  IF c = << >>
    THEN /\ head' = [head EXCEPT ![a] = h]
         /\ next' = [next EXCEPT ![h] = Null]
    ELSE /\ next' = [next EXCEPT ![h] = head[a], ![c[Len(c)]] = h]
         /\ UNCHANGED head

\* udiLinkAdd(&head[a], h)
LinkAdd(a, h) ==
  LET c == Chain(a) IN
  IF c = << >>
    THEN /\ head' = [head EXCEPT ![a] = h]
         /\ next' = [next EXCEPT ![h] = Null]
    ELSE /\ next' = [next EXCEPT ![h] = Null, ![c[Len(c)]] = h]
         /\ UNCHANGED head

\* Mutant: taking out a node in the middle cuts off what follows it.
LinkRemove_CutsTail(a, h) ==
  IF ~OnChain(h, a) THEN UNCHANGED <<head, next>>
  ELSE IF head[a] = h
    THEN /\ head' = [head EXCEPT ![a] = next[h]]
         /\ next' = [next EXCEPT ![h] = Null]
    ELSE LET before == CHOOSE p \in Hooks : OnChain(p, a) /\ next[p] = h IN
         /\ next' = [next EXCEPT ![before] = Null, ![h] = Null]
         /\ UNCHANGED head

\* udiLinkRemove(&head[a], h): nothing when h is not on the chain.
LinkRemove(a, h) ==
  IF ~OnChain(h, a) THEN UNCHANGED <<head, next>>
  ELSE IF head[a] = h
    THEN /\ head' = [head EXCEPT ![a] = next[h]]
         /\ next' = [next EXCEPT ![h] = Null]
    ELSE LET before == CHOOSE p \in Hooks : OnChain(p, a) /\ next[p] = h IN
         /\ next' = [next EXCEPT ![before] = next[h], ![h] = Null]
         /\ UNCHANGED head

-----------------------------------------------------------------------------
(* Values                                                                  *)


\* storeInteger(): what an attribute of a's type keeps of the number v.
Kept(a, v) == CASE Type[a] = "bool"   -> IF v = 0 THEN 0 ELSE 1
                [] Type[a] = "narrow" -> v % NarrowMod
                [] OTHER              -> v

\* The call of udiFireLinks() at the end of a store into a.
NewFrame(a) == [attr |-> a, at |-> head[a],
                called |-> << >>, chain |-> Chain(a)]

\* Mutant: only a larger value is news for the hooks.
Store_FiresOnRise(a, v, fs) ==
  IF Type[a] = "text" THEN frames' = fs /\ UNCHANGED value
  ELSE /\ value' = [value EXCEPT ![a] = Kept(a, v)]
       /\ frames' = IF Kept(a, v) > value[a]
                      THEN Append(fs, NewFrame(a)) ELSE fs

\* UpdateValue() of a with a number, inside the walks fs: a text attribute
\* neither keeps it nor calls anybody.
Store(a, v, fs) ==
  IF Type[a] = "text" THEN frames' = fs /\ UNCHANGED value
  ELSE /\ value' = [value EXCEPT ![a] = Kept(a, v)]
       /\ frames' = Append(fs, NewFrame(a))

-----------------------------------------------------------------------------
(* Actions                                                                 *)

Idle == frames = << >>

\* The framework resolves a link: h is on no chain yet.
Link(h) ==
  /\ Idle
  /\ \A a \in Attrs : ~OnChain(h, a)
  /\ LinkAdd(Source[h], h)
  /\ UNCHANGED <<value, frames, carried>>

\* The framework stops a link (it may be gone already, as a one-shot is).
Unlink(h) ==
  /\ Idle
  /\ LinkRemove(Source[h], h)
  /\ carried' = carried \ {h}
  /\ UNCHANGED <<value, frames>>

\* A device writes one of its own attributes.
Write(a, v) ==
  /\ Idle
  /\ Store(a, v, << >>)
  /\ UNCHANGED <<head, next, carried>>

Top == frames[Len(frames)]

\* The walk's record of its calls, with one call too many at most: enough to
\* tell, and finite if a walk should never end.
Recorded(h) == IF Len(Top.called) > Len(Top.chain) THEN Top.called
               ELSE Append(Top.called, h)

\* The innermost walk calls its next hook, having read that hook's successor
\* first.
Advanced == [frames EXCEPT ![Len(frames)].at = next[Top.at],
                           ![Len(frames)].called = Recorded(Top.at)]

CallForward ==
  /\ ~Idle /\ Top.at # Null /\ Behaviour[Top.at] = "forward"
  /\ Store(Target[Top.at], value[Source[Top.at]], Advanced)
  /\ carried' = carried \cup {Top.at}
  /\ UNCHANGED <<head, next>>

\* Mutant: the successor is read after the call.
CallOneShot_NextAfterCall ==
  /\ ~Idle /\ Top.at # Null /\ Behaviour[Top.at] = "oneshot"
  /\ LinkRemove(Source[Top.at], Top.at)
  /\ frames' = [Advanced EXCEPT ![Len(frames)].at = next'[Top.at]]
  /\ UNCHANGED <<value, carried>>

CallOneShot ==
  /\ ~Idle /\ Top.at # Null /\ Behaviour[Top.at] = "oneshot"
  /\ frames' = Advanced
  /\ LinkRemove(Source[Top.at], Top.at)
  /\ UNCHANGED <<value, carried>>

CallWatch ==
  /\ ~Idle /\ Top.at # Null /\ Behaviour[Top.at] = "watch"
  /\ frames' = Advanced
  /\ UNCHANGED <<head, next, value, carried>>

\* The end of the chain: back to the caller.
Return ==
  /\ ~Idle /\ Top.at = Null
  /\ frames' = SubSeq(frames, 1, Len(frames) - 1)
  /\ UNCHANGED <<head, next, value, carried>>

FireStep == CallForward \/ CallOneShot \/ CallWatch \/ Return

Next ==
  \/ \E h \in Hooks : Link(h) \/ Unlink(h)
  \/ \E a \in Roots, v \in Values : Write(a, v)
  \/ FireStep

Spec == Init /\ [][Next]_vars

\* A thread in the middle of a write goes on with it.
FairSpec == Spec /\ WF_vars(FireStep)

-----------------------------------------------------------------------------
(* Properties                                                              *)

\* The chains stay chains: each ends, no node is on one twice or on two, a
\* node stays on the attribute it was meant for, and a node that was taken
\* out points nowhere.
ChainsWellFormed ==
  LET all == UNION {{<<a, i>> : i \in 1 .. Len(Chain(a))} : a \in Attrs} IN
  /\ \A p, q \in all :
       Chain(p[1])[p[2]] = Chain(q[1])[q[2]] => p = q
  /\ \A p \in all : Source[Chain(p[1])[p[2]]] = p[1]
  /\ \A h \in Hooks : ~OnChain(h, Source[h]) => next[h] = Null

\* The variables keep their types, and every chain of hooks is one, whatever
\* hooks came, went and took themselves out of it.
WellFormed == TypeOK /\ ChainsWellFormed

\* A walk that returns has called every hook that was on the chain when the
\* value was stored, each exactly once and in order, although hooks took
\* themselves out and inner walks ran meanwhile.
EveryHookOnceInOrder ==
  [][Return => Top.called = Top.chain]_vars

\* "A linked value moves on at once": when a write is over, both ends of
\* every link that has carried a value agree, along whole paths of links.
LinkedValuesAgree ==
  Idle => \A h \in carried :
    Type[Target[h]] # "text" => value[Target[h]] = Kept(Target[h], value[Source[h]])

\* Every write comes to an end, also one that goes through many links.
WritesEnd == ~Idle ~> Idle
=============================================================================
