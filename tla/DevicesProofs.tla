--------------------------- MODULE DevicesProofs ---------------------------
(***************************************************************************)
(* What a framework relies on when it starts devices and hears of their    *)
(* errors, for any devices, mounts, threads and sinks.                     *)
(*                                                                         *)
(* ErrorSink: the two unlocked pointers, for an application that installs  *)
(* its sink while no device reports.                                       *)
(*                                                                         *)
(* Declarations: the list of a device's items, as they are declared and as *)
(* describe() walks them, for every number and kind of declarations.       *)
(*                                                                         *)
(* StartUp: the handles' lists, the passes of mounted() and the resolution *)
(* of the handles, for every order in which devices are constructed and    *)
(* grow.                                                                   *)
(***************************************************************************)
EXTENDS ErrorSink, Declarations, StartUp, FiniteSetTheorems, TLAPS

-----------------------------------------------------------------------------
(* ErrorSink                                                               *)

\* The pointers agree with the last call of setGlobalErrorSink() except for
\* the stores it still has to make, and then nobody looks at them.
Stored ==
  /\ unstored # {} => reporting = {}
  /\ "sink" \notin unstored => globalErrorSink = given
  /\ "context" \notin unstored => globalErrorSinkContext = ContextOf(given)

\* Whoever found a sink still has one to call.
StillThere == checked # {} => given # Null

IInv == SinkTypeOK /\ Stored /\ StillThere /\ CalledWithItsContext

\* The inductive invariant holds of the static definitions.
LEMMA InitIInv == SinkInit => IInv
<1> SUFFICES ASSUME SinkInit PROVE IInv OBVIOUS
<1>1. NoCall \in [called : BOOLEAN, sink : Sinks \cup {Null}, context : Contexts]
  BY DEF NoCall, Contexts, ContextOf
<1>2. SinkTypeOK  BY <1>1 DEF SinkInit, SinkTypeOK, Contexts, ContextOf
<1>3. Stored /\ StillThere  BY DEF SinkInit, Stored, StillThere, ContextOf
<1>4. CalledWithItsContext  BY DEF SinkInit, CalledWithItsContext, NoCall
<1> QED BY <1>2, <1>3, <1>4 DEF IInv

\* Every step keeps it, if sinks are installed while no device reports.
LEMMA NextIInv == ASSUME Quiet, IInv, [SinkNext]_sinkVars PROVE IInv'
<1> USE DEF IInv
<1>1. ASSUME NEW sink \in Sinks \cup {Null}, Install(sink) PROVE IInv'
  <2>1. SinkTypeOK'  BY <1>1 DEF SinkTypeOK, Install, Stores
  <2>2. Stored' /\ StillThere'
    BY <1>1 DEF SinkTypeOK, Stored, StillThere, Install, Stores
  <2>3. CalledWithItsContext'  BY <1>1 DEF CalledWithItsContext, Install
  <2> QED BY <2>1, <2>2, <2>3
<1>2. CASE StoreSink
  <2>1. SinkTypeOK'  BY <1>2 DEF SinkTypeOK, StoreSink
  <2>2. Stored' /\ StillThere'  BY <1>2 DEF Stored, StillThere, StoreSink
  <2>3. CalledWithItsContext'  BY <1>2 DEF CalledWithItsContext, StoreSink
  <2> QED BY <2>1, <2>2, <2>3
<1>3. CASE StoreContext
  <2>1. SinkTypeOK'  BY <1>3 DEF SinkTypeOK, StoreContext, ContextStored, Contexts
  <2>2. Stored' /\ StillThere'
    BY <1>3 DEF Stored, StillThere, StoreContext, ContextStored
  <2>3. CalledWithItsContext'  BY <1>3 DEF CalledWithItsContext, StoreContext
  <2> QED BY <2>1, <2>2, <2>3
<1>4. ASSUME NEW t \in Threads, Report(t) PROVE IInv'
  <2>1. SinkTypeOK'  BY <1>4 DEF SinkTypeOK, Report
  <2>2. Stored' /\ StillThere'  BY <1>4 DEF Stored, StillThere, Report
  <2>3. CalledWithItsContext'  BY <1>4 DEF CalledWithItsContext, Report
  <2> QED BY <2>1, <2>2, <2>3
<1>5. ASSUME NEW t \in Threads, CheckSink(t) PROVE IInv'
  <2>1. globalErrorSink = given
    BY <1>5 DEF Stored, SinkTypeOK, CheckSink
  <2>2. CASE Missing
    <3>1. heard' = [heard EXCEPT ![t] = NoCall] /\ Leave(t)
          /\ UNCHANGED <<globalErrorSink, globalErrorSinkContext, given, unstored>>
      BY <1>5, <2>2 DEF CheckSink
    <3>2. NoCall \in [called : BOOLEAN, sink : Sinks \cup {Null}, context : Contexts]
      BY DEF NoCall, Contexts, ContextOf
    <3>3. SinkTypeOK'  BY <3>1, <3>2 DEF SinkTypeOK, Leave
    <3>4. Stored' /\ StillThere'  BY <3>1 DEF Stored, StillThere, Leave
    <3>5. CalledWithItsContext'
      BY <3>1 DEF CalledWithItsContext, SinkTypeOK, NoCall
    <3> QED BY <3>3, <3>4, <3>5
  <2>3. CASE ~Missing
    <3>1. checked' = checked \cup {t}
          /\ UNCHANGED <<globalErrorSink, globalErrorSinkContext, given, unstored,
                         reporting, heard>>
      BY <1>5, <2>3 DEF CheckSink
    <3>2. SinkTypeOK'  BY <1>5, <3>1 DEF SinkTypeOK, CheckSink
    <3>3. Stored' /\ StillThere'
      BY <2>1, <2>3, <3>1 DEF Stored, StillThere, Missing
    <3>4. CalledWithItsContext'  BY <3>1 DEF CalledWithItsContext
    <3> QED BY <3>2, <3>3, <3>4
  <2> QED BY <2>2, <2>3
<1>6. ASSUME NEW t \in Threads, CallSink(t) PROVE IInv'
  <2>1. globalErrorSink = given /\ given # Null
        /\ globalErrorSinkContext = Context(given)
    BY <1>6 DEF CallSink, SinkTypeOK, Stored, StillThere, ContextOf
  <2>2. TheCall(globalErrorSink, globalErrorSinkContext)
          \in [called : BOOLEAN, sink : Sinks \cup {Null}, context : Contexts]
    BY DEF SinkTypeOK, TheCall
  <2>3. SinkTypeOK'  BY <1>6, <2>2 DEF SinkTypeOK, CallSink, Leave
  <2>4. Stored' /\ StillThere'  BY <1>6 DEF CallSink, Stored, StillThere, Leave
  <2>5. CalledWithItsContext'
    BY <1>6, <2>1 DEF CalledWithItsContext, CallSink, SinkTypeOK, TheCall
  <2> QED BY <2>3, <2>4, <2>5
<1>7. CASE UNCHANGED sinkVars
  BY <1>7 DEF sinkVars, SinkTypeOK, Stored, StillThere, CalledWithItsContext
<1> QED BY <1>1, <1>2, <1>3, <1>4, <1>5, <1>6, <1>7 DEF SinkNext

\* It holds always, while installations are quiet.
LEMMA AlwaysIInv == Quiet => (SinkSpec => []IInv)
<1> SUFFICES ASSUME Quiet PROVE SinkSpec => []IInv  OBVIOUS
<1>1. IInv /\ [SinkNext]_sinkVars => IInv'  BY NextIInv
<1> QED BY <1>1, InitIInv, PTL DEF SinkSpec

\* The type invariant.
THEOREM SinkType == Quiet => (SinkSpec => []SinkTypeOK)
<1>1. IInv => SinkTypeOK  BY DEF IInv
<1> QED BY <1>1, AlwaysIInv, PTL

\* setGlobalErrorSink() and report(): a sink is called with the context that
\* was given with it, and never through a null pointer, by however many
\* threads report.
THEOREM OwnContext == Quiet => (SinkSpec => []CalledWithItsContext)
<1>1. IInv => CalledWithItsContext  BY DEF IInv
<1> QED BY <1>1, AlwaysIInv, PTL

\* One step of a report ends it as HeardByTheInstalled says.
LEMMA StepHeard ==
  ASSUME IInv, [SinkNext]_sinkVars, NEW t \in reporting \ reporting'
  PROVE  heard'[t].called = (given # Null) /\ heard'[t].sink = given
<1> USE DEF IInv
<1>1. CheckSink(t) \/ CallSink(t)
  BY DEF SinkNext, sinkVars, Install, StoreSink, StoreContext, Report, CheckSink, CallSink, Leave
<1>2. unstored = {} /\ globalErrorSink = given
  BY DEF Stored, SinkTypeOK
<1>3. CASE CheckSink(t)
  <2>1. Missing /\ heard' = [heard EXCEPT ![t] = NoCall]
    BY <1>3 DEF CheckSink
  <2> QED BY <1>2, <2>1 DEF Missing, NoCall, SinkTypeOK
<1>4. CASE CallSink(t)
  <2>1. given # Null  BY <1>4 DEF CallSink, StillThere
  <2> QED BY <1>2, <1>4, <2>1 DEF CallSink, TheCall, SinkTypeOK
<1> QED BY <1>1, <1>3, <1>4

\* report(): lost exactly when no sink is installed, else heard by the one
\* installed last.
THEOREM HeardByTheLast == Quiet => (SinkSpec => HeardByTheInstalled)
<1>1. ASSUME IInv, [SinkNext]_sinkVars
      PROVE  [\A t \in reporting \ reporting' :
                heard'[t].called = (given # Null) /\ heard'[t].sink = given]_sinkVars
  BY <1>1, StepHeard
<1> QED BY <1>1, AlwaysIInv, PTL DEF SinkSpec, HeardByTheInstalled

-----------------------------------------------------------------------------
(* Sequences                                                               *)

\* A set of naturals that holds 0 and what follows each of its members
\* holds them all.
LEMMA AllNaturals ==
  ASSUME NEW S, 0 \in S, \A n \in S \cap Nat : n + 1 \in S
  PROVE  Nat \subseteq S
<1> SUFFICES ASSUME Nat \ S # {} PROVE FALSE
  OBVIOUS
<1>1. PICK x \in Nat \ S : \A y \in Nat \ S : ~(<<y, x>> \in OpToRel(<, Nat))
  BY WFMin, NatLessThanWellFounded
<1>2. x # 0 /\ x \in Nat
  BY <1>1
<1>3. x - 1 \in Nat /\ x - 1 < x /\ x - 1 + 1 = x
  BY <1>2
<1>4. <<x - 1, x>> \in OpToRel(<, Nat)
  BY <1>2, <1>3 DEF OpToRel
<1>5. x - 1 \in S
  BY <1>1, <1>3, <1>4
<1> QED BY <1>1, <1>3, <1>5

\* The members of a finite set in some order are a sequence of them, each
\* once.
LEMMA SetToSeqIsSeq ==
  ASSUME NEW S, IsFiniteSet(S)
  PROVE  SetToSeq(S) \in Seq(S) /\ IsInjective(SetToSeq(S))
<1>1. Cardinality(S) \in Nat /\ ExistsBijection(1 .. Cardinality(S), S)
  BY FS_CardinalityType
<1>2. PICK f \in [1 .. Cardinality(S) -> S] : IsInjective(f)
  BY <1>1 DEF ExistsBijection, Bijection, Injection, IsInjective
<1>3. SetToSeq(S) \in [1 .. Cardinality(S) -> S] /\ IsInjective(SetToSeq(S))
  BY <1>2 DEF SetToSeq
<1> QED BY <1>1, <1>3

\* Devices that join a tree without them are in it once.
LEMMA JoinedOnce ==
  ASSUME NEW T, NEW s \in Seq(T), NEW t \in Seq(T), IsInjective(s), IsInjective(t),
         \A i \in DOMAIN t : t[i] \notin ToSet(s)
  PROVE  IsInjective(s \o t)
<1>1. DOMAIN s = 1 .. Len(s) /\ DOMAIN t = 1 .. Len(t) /\ DOMAIN (s \o t) = 1 .. Len(s) + Len(t)
  OBVIOUS
<1>2. \A i \in DOMAIN (s \o t) : (s \o t)[i] = IF i <= Len(s) THEN s[i] ELSE t[i - Len(s)]
  OBVIOUS
<1>3. \A i \in DOMAIN s : s[i] \in ToSet(s)
  BY DEF ToSet
<1> SUFFICES ASSUME NEW i \in DOMAIN (s \o t), NEW j \in DOMAIN (s \o t),
                    (s \o t)[i] = (s \o t)[j]
             PROVE  i = j
  BY DEF IsInjective
<1>4. CASE i <= Len(s) /\ j <= Len(s)
  BY <1>1, <1>2, <1>4 DEF IsInjective
<1>5. CASE i > Len(s) /\ j > Len(s)
  <2>1. i - Len(s) \in DOMAIN t /\ j - Len(s) \in DOMAIN t
    BY <1>1, <1>5
  <2>2. t[i - Len(s)] = t[j - Len(s)]
    BY <1>1, <1>2, <1>5
  <2>3. i - Len(s) = j - Len(s)
    BY <2>1, <2>2 DEF IsInjective
  <2> QED BY <1>1, <2>3
<1>6. CASE i <= Len(s) /\ j > Len(s)
  <2>1. i \in DOMAIN s /\ j - Len(s) \in DOMAIN t
    BY <1>1, <1>6
  <2> QED BY <1>1, <1>2, <1>3, <1>6, <2>1
<1>7. CASE i > Len(s) /\ j <= Len(s)
  <2>1. j \in DOMAIN s /\ i - Len(s) \in DOMAIN t
    BY <1>1, <1>7
  <2> QED BY <1>1, <1>2, <1>3, <1>7, <2>1
<1> QED BY <1>1, <1>4, <1>5, <1>6, <1>7

\* f goes from a by steps of g, m times, through values of T.
Iterates(f, T, a, g, m) ==
  f \in [0 .. m -> T] /\ f[0] = a /\ \A n \in 1 .. m : f[n] = g[<<n, f[n - 1]>>]

\* There is such a function for every length.
LEMMA RecursionExists ==
  ASSUME NEW T, NEW a \in T, NEW g \in [Nat \X T -> T], NEW m \in Nat
  PROVE  \E f : Iterates(f, T, a, g, m)
<1> DEFINE Sol(f, k) == Iterates(f, T, a, g, k)
           S == {k \in Nat : \E f : Sol(f, k)}
<1> USE DEF Iterates
<1>1. 0 \in S
  <2>1. Sol([n \in 0 .. 0 |-> a], 0)
    OBVIOUS
  <2> QED BY <2>1
<1>2. ASSUME NEW k \in S \cap Nat PROVE k + 1 \in S
  <2>1. PICK f : Sol(f, k)
    BY <1>2
  <2> DEFINE e == g[<<k + 1, f[k]>>]
             h == [n \in 0 .. k + 1 |-> IF n = k + 1 THEN e ELSE f[n]]
  <2>2. f[k] \in T /\ e \in T
    BY <2>1
  <2> HIDE DEF e
  <2>3. h \in [0 .. k + 1 -> T] /\ h[k + 1] = e /\ \A n \in 0 .. k : h[n] = f[n]
    BY <2>1, <2>2
  <2> HIDE DEF h
  <2>4. h[0] = a
    BY <2>1, <2>3
  <2>5. ASSUME NEW n \in 1 .. k + 1 PROVE h[n] = g[<<n, h[n - 1]>>]
    <3>1. CASE n = k + 1
      BY <2>3, <3>1 DEF e
    <3>2. CASE n \in 1 .. k
      BY <2>1, <2>3, <3>2
    <3> QED BY <3>1, <3>2
  <2>6. Sol(h, k + 1)
    BY <2>3, <2>4, <2>5
  <2> QED BY <2>6
<1> HIDE DEF S
<1>3. Nat \subseteq S
  BY <1>1, <1>2, AllNaturals
<1> QED BY <1>3 DEF S

\* The recursion of Among(hs, S), as an equation.
Nothing == << >>
AmongBy(f, T, hs, S) ==
  /\ f \in [0 .. Len(hs) -> Seq(T)]
  /\ f[0] = Nothing
  /\ \A n \in 1 .. Len(hs) :
       f[n] = IF hs[n] \in S THEN Append(f[n - 1], hs[n]) ELSE f[n - 1]
  /\ Among(hs, S) = f[Len(hs)]

\* It has a solution.
LEMMA AmongRecursion ==
  ASSUME NEW T, NEW hs \in Seq(T), NEW S
  PROVE  \E f : AmongBy(f, T, hs, S)
<1> DEFINE m == Len(hs)
           none == << >>
           Q == Seq(T)
           g == [p \in Nat \X Q |->
                   IF p[1] \in 1 .. m /\ hs[p[1]] \in S THEN Append(p[2], hs[p[1]]) ELSE p[2]]
           U(f) == f = [n \in 0 .. m |->
                          IF n = 0 THEN none
                          ELSE IF hs[n] \in S THEN Append(f[n - 1], hs[n]) ELSE f[n - 1]]
           up == CHOOSE f : U(f)
<1>1. m \in Nat /\ none \in Q /\ \A s \in Q, n \in 1 .. m : Append(s, hs[n]) \in Q
  OBVIOUS
<1>2. Among(hs, S) = up[m]
  BY Zenon DEF Among
<1> HIDE DEF m, none, Q
<1>3. g \in [Nat \X Q -> Q]
  BY <1>1
<1>4. PICK f : f \in [0 .. m -> Q] /\ f[0] = none /\ \A n \in 1 .. m : f[n] = g[<<n, f[n - 1]>>]
  <2> HIDE DEF g
  <2>1. m \in Nat /\ none \in Q
    BY <1>1
  <2>2. \E f : Iterates(f, Q, none, g, m)
    BY <1>3, <2>1, RecursionExists
  <2> QED BY <2>2 DEF Iterates
<1>5. \A n \in 1 .. m : f[n] = IF hs[n] \in S THEN Append(f[n - 1], hs[n]) ELSE f[n - 1]
  <2> TAKE n \in 1 .. m
  <2>1. f[n - 1] \in Q /\ n \in Nat
    BY <1>1, <1>4
  <2>2. g[<<n, f[n - 1]>>] = IF hs[n] \in S THEN Append(f[n - 1], hs[n]) ELSE f[n - 1]
    BY <2>1
  <2> QED BY <1>4, <2>2
<1>6. U(f)
  <2> DEFINE r == [n \in 0 .. m |->
                     IF n = 0 THEN none
                     ELSE IF hs[n] \in S THEN Append(f[n - 1], hs[n]) ELSE f[n - 1]]
  <2>1. ASSUME NEW n \in 0 .. m PROVE f[n] = r[n]
    <3>1. CASE n = 0
      BY <1>4, <3>1
    <3>2. CASE n # 0
      <4>1. n \in 1 .. m
        BY <1>1, <3>2
      <4> QED BY <1>5, <3>2, <4>1
    <3> QED BY <3>1, <3>2
  <2>2. f = [n \in 0 .. m |-> f[n]] /\ r = [n \in 0 .. m |-> r[n]]
    BY <1>4
  <2>3. f = r
    BY <2>1, <2>2
  <2> QED BY <2>3, Zenon
<1>7. U(up)
  BY <1>6, Zenon
<1> HIDE DEF up, g
<1>8. up[0] = none /\ \A n \in 1 .. m : up[n] = IF hs[n] \in S THEN Append(up[n - 1], hs[n]) ELSE up[n - 1]
  <2>1. \A n \in 0 .. m : up[n] = IF n = 0 THEN none
                          ELSE IF hs[n] \in S THEN Append(up[n - 1], hs[n]) ELSE up[n - 1]
    BY <1>7, Zenon
  <2> QED BY <1>1, <2>1
<1>9. up \in [0 .. m -> Q]
  <2> DEFINE N == {n \in Nat : n \in 0 .. m => up[n] \in Q}
  <2>1. 0 \in N
    BY <1>1, <1>8
  <2>2. ASSUME NEW n \in N \cap Nat PROVE n + 1 \in N
    <3>1. SUFFICES ASSUME n + 1 \in 0 .. m PROVE up[n + 1] \in Q
      OBVIOUS
    <3>2. n \in 0 .. m /\ n + 1 \in 1 .. m /\ up[n] \in Q
      BY <1>1, <2>2, <3>1
    <3>3. up[n + 1] = IF hs[n + 1] \in S THEN Append(up[n], hs[n + 1]) ELSE up[n]
      BY <1>8, <3>2
    <3> QED BY <1>1, <3>2, <3>3
  <2> HIDE DEF N
  <2>3. Nat \subseteq N
    BY <2>1, <2>2, AllNaturals
  <2>4. \A n \in 0 .. m : up[n] \in Q
    BY <1>1, <2>3 DEF N
  <2>5. up = [n \in 0 .. m |-> up[n]]
    <3>1. DOMAIN up = 0 .. m
      BY <1>7
    <3>2. up = [n \in DOMAIN up |-> up[n]]
      BY <1>7
    <3> QED BY <3>1, <3>2
  <2> QED BY <2>4, <2>5
<1> QED BY <1>2, <1>8, <1>9 DEF m, none, Q, AmongBy, Nothing

\* Among a sequence with one member more there is that member more, or none.
LEMMA AmongAppend ==
  ASSUME NEW T, NEW hs \in Seq(T), NEW h \in T, NEW S
  PROVE  Among(Append(hs, h), S) = IF h \in S THEN Append(Among(hs, S), h) ELSE Among(hs, S)
<1> DEFINE m == Len(hs)
           longer == Append(hs, h)
<1>1. /\ longer \in Seq(T) /\ m \in Nat /\ Len(longer) = m + 1 /\ longer[m + 1] = h
      /\ \A n \in 1 .. m : longer[n] = hs[n]
  OBVIOUS
<1> HIDE DEF longer
<1>2. PICK f : AmongBy(f, T, hs, S)
  BY AmongRecursion
<1>3. PICK e : AmongBy(e, T, longer, S)
  BY <1>1, AmongRecursion
<1> HIDE DEF m
<1>4. \A n \in 0 .. m : e[n] = f[n]
  <2> DEFINE N == {n \in Nat : n \in 0 .. m => e[n] = f[n]}
  <2>1. 0 \in N
    BY <1>2, <1>3 DEF AmongBy
  <2>2. ASSUME NEW n \in N \cap Nat PROVE n + 1 \in N
    <3>1. SUFFICES ASSUME n + 1 \in 0 .. m PROVE e[n + 1] = f[n + 1]
      OBVIOUS
    <3>2. n \in 0 .. m /\ n + 1 \in 1 .. m /\ n + 1 \in 1 .. m + 1 /\ e[n] = f[n] /\ n + 1 - 1 = n
      BY <1>1, <2>2, <3>1
    <3>3. longer[n + 1] = hs[n + 1]
      BY <1>1, <3>2
    <3>4. f[n + 1] = IF hs[n + 1] \in S THEN Append(f[n], hs[n + 1]) ELSE f[n]
      BY <1>2, <3>2 DEF AmongBy, m
    <3>5. e[n + 1] = IF longer[n + 1] \in S THEN Append(e[n], longer[n + 1]) ELSE e[n]
      BY <1>1, <1>3, <3>2 DEF AmongBy
    <3> QED BY <3>2, <3>3, <3>4, <3>5
  <2> HIDE DEF N
  <2>3. Nat \subseteq N
    BY <2>1, <2>2, AllNaturals
  <2> QED BY <1>1, <2>3 DEF N
<1>5. e[m] = f[m] /\ m + 1 \in 1 .. m + 1 /\ m + 1 - 1 = m
  BY <1>1, <1>4
<1>6. e[m + 1] = IF longer[m + 1] \in S THEN Append(e[m], longer[m + 1]) ELSE e[m]
  BY <1>1, <1>3, <1>5 DEF AmongBy
<1>7. Among(hs, S) = f[m] /\ Among(longer, S) = e[m + 1]
  BY <1>1, <1>2, <1>3 DEF AmongBy, m
<1> QED BY <1>1, <1>5, <1>6, <1>7 DEF longer

\* Among an empty sequence there is nothing.
LEMMA AmongNone == \A S : Among(<< >>, S) = << >>
<1>1. Nothing \in Seq({}) /\ Len(Nothing) = 0
  BY DEF Nothing
<1>2. ASSUME NEW S PROVE Among(Nothing, S) = Nothing
  <2>1. PICK f : AmongBy(f, {}, Nothing, S)
    BY <1>1, AmongRecursion
  <2> QED BY <1>1, <2>1 DEF AmongBy
<1> QED BY <1>2 DEF Nothing

\* The members of a sequence with one more.
LEMMA InAppended ==
  ASSUME NEW T, NEW s \in Seq(T), NEW e \in T, NEW x
  PROVE  x \in ToSet(Append(s, e)) <=> x \in ToSet(s) \/ x = e
<1>1. /\ Append(s, e) \in Seq(T) /\ Len(s) \in Nat
      /\ DOMAIN s = 1 .. Len(s) /\ DOMAIN Append(s, e) = 1 .. Len(s) + 1
      /\ Append(s, e)[Len(s) + 1] = e /\ \A i \in 1 .. Len(s) : Append(s, e)[i] = s[i]
  OBVIOUS
<1>2. \A i : i \in 1 .. Len(s) + 1 <=> i \in 1 .. Len(s) \/ i = Len(s) + 1
  BY <1>1
<1> QED BY <1>1, <1>2 DEF ToSet

\* What is among a sequence is just its members that are in the set.
LEMMA AmongIs ==
  ASSUME NEW T, NEW hs \in Seq(T), NEW S
  PROVE  /\ Among(hs, S) \in Seq(T)
         /\ \A x : x \in ToSet(Among(hs, S)) <=> x \in ToSet(hs) /\ x \in S
<1> DEFINE m == Len(hs)
           K(n) == {hs[i] : i \in 1 .. n}
<1>1. PICK f : AmongBy(f, T, hs, S)
  BY AmongRecursion
<1>2. m \in Nat /\ DOMAIN hs = 1 .. m
  OBVIOUS
<1>3. \A n \in 0 .. m : \A x : x \in ToSet(f[n]) <=> x \in K(n) /\ x \in S
  <2> DEFINE N == {n \in Nat : n \in 0 .. m =>
                     \A x : x \in ToSet(f[n]) <=> x \in K(n) /\ x \in S}
  <2>1. 0 \in N
    <3>1. \A x : x \notin K(0)
      OBVIOUS
    <3>2. \A x : x \notin ToSet(Nothing)
      BY DEF ToSet, Nothing
    <3> QED BY <1>1, <3>1, <3>2 DEF AmongBy
  <2>2. ASSUME NEW n \in N \cap Nat PROVE n + 1 \in N
    <3>1. SUFFICES ASSUME n + 1 \in 0 .. m
                   PROVE \A x : x \in ToSet(f[n + 1]) <=> x \in K(n + 1) /\ x \in S
      OBVIOUS
    <3>2. n \in 0 .. m /\ n + 1 \in 1 .. m /\ n + 1 - 1 = n
      BY <1>2, <2>2, <3>1
    <3>3. f[n] \in Seq(T) /\ hs[n + 1] \in T
      BY <1>1, <1>2, <3>2 DEF AmongBy
    <3>4. f[n + 1] = IF hs[n + 1] \in S THEN Append(f[n], hs[n + 1]) ELSE f[n]
      BY <1>1, <3>2 DEF AmongBy
    <3>5. \A x : x \in K(n + 1) <=> x \in K(n) \/ x = hs[n + 1]
      <4>1. \A i : i \in 1 .. n + 1 <=> i \in 1 .. n \/ i = n + 1
        BY <2>2
      <4> QED BY <4>1
    <3>6. \A x : x \in ToSet(Append(f[n], hs[n + 1])) <=> x \in ToSet(f[n]) \/ x = hs[n + 1]
      BY <3>3, InAppended
    <3>7. \A x : x \in ToSet(f[n]) <=> x \in K(n) /\ x \in S
      BY <2>2, <3>2
    <3> HIDE DEF K, N
    <3>8. CASE hs[n + 1] \in S
      BY <3>4, <3>5, <3>6, <3>7, <3>8
    <3>9. CASE hs[n + 1] \notin S
      BY <3>4, <3>5, <3>7, <3>9
    <3> QED BY <3>8, <3>9
  <2> HIDE DEF N
  <2>3. Nat \subseteq N
    BY <2>1, <2>2, AllNaturals
  <2> QED BY <1>2, <2>3 DEF N
<1>4. \A x : x \in ToSet(hs) <=> x \in K(m)
  BY <1>2 DEF ToSet
<1>5. Among(hs, S) = f[m] /\ f[m] \in Seq(T)
  BY <1>1, <1>2 DEF AmongBy
<1> HIDE DEF K, m
<1> QED BY <1>2, <1>3, <1>4, <1>5

\* A member of either of two sequences is one of both together.
LEMMA InJoined ==
  ASSUME NEW T, NEW s \in Seq(T), NEW t \in Seq(T)
  PROVE  s \o t \in Seq(T) /\ ToSet(s) \subseteq ToSet(s \o t) /\ ToSet(t) \subseteq ToSet(s \o t)
<1>1. s \o t \in Seq(T) /\ Len(s \o t) = Len(s) + Len(t) /\ Len(s) \in Nat /\ Len(t) \in Nat
      /\ DOMAIN s = 1 .. Len(s) /\ DOMAIN t = 1 .. Len(t)
      /\ DOMAIN (s \o t) = 1 .. Len(s) + Len(t)
  OBVIOUS
<1>2. \A i \in DOMAIN (s \o t) : (s \o t)[i] = IF i <= Len(s) THEN s[i] ELSE t[i - Len(s)]
  OBVIOUS
<1>3. ASSUME NEW i \in DOMAIN s PROVE s[i] \in ToSet(s \o t)
  <2>1. i \in DOMAIN (s \o t) /\ (s \o t)[i] = s[i]
    BY <1>1, <1>2
  <2> QED BY <2>1 DEF ToSet
<1>4. ASSUME NEW i \in DOMAIN t PROVE t[i] \in ToSet(s \o t)
  <2>1. i + Len(s) \in DOMAIN (s \o t) /\ ~(i + Len(s) <= Len(s)) /\ i + Len(s) - Len(s) = i
    BY <1>1
  <2>2. (s \o t)[i + Len(s)] = t[i]
    BY <1>2, <2>1
  <2> QED BY <2>1, <2>2 DEF ToSet
<1> QED BY <1>1, <1>3, <1>4 DEF ToSet

\* A sequence of sequences, one after another, has the members of them all.
LEMMA FlattenIs ==
  ASSUME NEW T, NEW seqs \in Seq(Seq(T))
  PROVE  /\ FlattenSeq(seqs) \in Seq(T)
         /\ \A i \in DOMAIN seqs : ToSet(seqs[i]) \subseteq ToSet(FlattenSeq(seqs))
<1> DEFINE m == Len(seqs)
           Q == Seq(T)
           G(f) == f = [i \in 1 .. m |-> IF i = 1 THEN seqs[i] ELSE f[i - 1] \o seqs[i]]
           flat == CHOOSE f : G(f)
           g == [p \in Nat \X Q |-> IF p[1] + 1 \in 1 .. m THEN p[2] \o seqs[p[1] + 1] ELSE p[2]]
<1>1. m \in Nat /\ DOMAIN seqs = 1 .. m /\ \A i \in 1 .. m : seqs[i] \in Q
  OBVIOUS
<1>2. \A s, t \in Q : s \o t \in Q
  OBVIOUS
<1>3. CASE m = 0
  <2>1. FlattenSeq(seqs) = seqs
    BY <1>3, Zenon DEF FlattenSeq
  <2>2. seqs \in Seq(T) /\ DOMAIN seqs = {}
    BY <1>3
  <2> QED BY <2>1, <2>2
<1>4. CASE m # 0
  <2>1. FlattenSeq(seqs) = flat[m]
    BY <1>4, Zenon DEF FlattenSeq
  <2> HIDE DEF m, Q
  <2>2. m - 1 \in Nat /\ 1 \in 1 .. m /\ m \in 1 .. m /\ seqs[1] \in Q
    BY <1>1, <1>4
  <2>3. g \in [Nat \X Q -> Q]
    BY <1>1, <1>2
  <2>4. PICK e : e \in [0 .. m - 1 -> Q] /\ e[0] = seqs[1]
                 /\ \A n \in 1 .. m - 1 : e[n] = g[<<n, e[n - 1]>>]
    <3> HIDE DEF g
    <3> DEFINE k == m - 1
    <3>1. k \in Nat
      BY <2>2
    <3> HIDE DEF k
    <3>2. \E e : Iterates(e, Q, seqs[1], g, k)
      BY <2>2, <2>3, <3>1, RecursionExists
    <3> QED BY <3>2 DEF Iterates, k
  <2> DEFINE f == [i \in 1 .. m |-> e[i - 1]]
  <2>5. \A i \in 1 .. m : i # 1 => f[i] = f[i - 1] \o seqs[i]
    <3> TAKE i \in 1 .. m
    <3>1. SUFFICES ASSUME i # 1 PROVE f[i] = f[i - 1] \o seqs[i]
      OBVIOUS
    <3>2. i - 1 \in 1 .. m - 1 /\ i - 1 \in 1 .. m /\ i - 1 \in Nat /\ i - 1 + 1 = i /\ i - 1 - 1 \in 0 .. m - 1
      BY <1>1, <3>1
    <3>3. e[i - 1] = g[<<i - 1, e[i - 1 - 1]>>] /\ e[i - 1 - 1] \in Q
      BY <2>4, <3>2
    <3>4. g[<<i - 1, e[i - 1 - 1]>>] = e[i - 1 - 1] \o seqs[i]
      BY <3>2, <3>3
    <3> QED BY <3>2, <3>3, <3>4
  <2>6. G(f)
    <3> DEFINE r == [i \in 1 .. m |-> IF i = 1 THEN seqs[i] ELSE f[i - 1] \o seqs[i]]
    <3>1. f[1] = seqs[1]
      BY <2>2, <2>4
    <3> HIDE DEF f
    <3>2. \A i \in 1 .. m : f[i] = r[i]
      BY <2>5, <3>1
    <3>3. f = [i \in 1 .. m |-> f[i]] /\ r = [i \in 1 .. m |-> r[i]]
      BY DEF f
    <3>4. f = r
      BY <3>2, <3>3
    <3> QED BY <3>4, Zenon
  <2>7. G(flat)
    BY <2>6, Zenon
  <2> HIDE DEF flat
  <2>8. \A i \in 1 .. m : flat[i] = IF i = 1 THEN seqs[i] ELSE flat[i - 1] \o seqs[i]
    BY <2>7, Zenon
  <2> DEFINE N == {k \in Nat : k + 1 \in 1 .. m =>
                     flat[k + 1] \in Q
                     /\ \A i \in 1 .. k + 1 : ToSet(seqs[i]) \subseteq ToSet(flat[k + 1])}
  <2>9. 0 \in N
    <3>1. flat[1] = seqs[1]
      BY <2>2, <2>8
    <3>2. \A i \in 1 .. 0 + 1 : i = 1
      OBVIOUS
    <3> QED BY <2>2, <3>1, <3>2
  <2>10. ASSUME NEW k \in N \cap Nat PROVE k + 1 \in N
    <3>1. SUFFICES ASSUME k + 1 + 1 \in 1 .. m
                   PROVE  flat[k + 1 + 1] \in Q
                     /\ \A i \in 1 .. k + 1 + 1 : ToSet(seqs[i]) \subseteq ToSet(flat[k + 1 + 1])
      OBVIOUS
    <3>2. k + 1 \in 1 .. m /\ k + 1 + 1 - 1 = k + 1 /\ k + 1 + 1 # 1
      BY <1>1, <2>10, <3>1
    <3>3. flat[k + 1 + 1] = flat[k + 1] \o seqs[k + 1 + 1]
      <4>1. flat[k + 1 + 1] = IF k + 1 + 1 = 1 THEN seqs[k + 1 + 1]
                              ELSE flat[k + 1 + 1 - 1] \o seqs[k + 1 + 1]
        BY <2>8, <3>1
      <4> QED BY <3>2, <4>1
    <3>4. flat[k + 1] \in Seq(T) /\ seqs[k + 1 + 1] \in Seq(T)
          /\ \A i \in 1 .. k + 1 : ToSet(seqs[i]) \subseteq ToSet(flat[k + 1])
      BY <1>1, <2>10, <3>1, <3>2 DEF Q
    <3>5. flat[k + 1 + 1] \in Seq(T) /\ ToSet(flat[k + 1]) \subseteq ToSet(flat[k + 1 + 1])
          /\ ToSet(seqs[k + 1 + 1]) \subseteq ToSet(flat[k + 1 + 1])
      BY <3>3, <3>4, InJoined
    <3>6. \A i \in 1 .. k + 1 + 1 : i \in 1 .. k + 1 \/ i = k + 1 + 1
      BY <2>10
    <3> HIDE DEF N
    <3> QED BY <3>4, <3>5, <3>6 DEF Q
  <2> HIDE DEF N
  <2>11. Nat \subseteq N
    BY <2>9, <2>10, AllNaturals
  <2>12. m - 1 \in N /\ m - 1 + 1 = m
    BY <1>1, <2>2, <2>11
  <2> QED BY <1>1, <2>1, <2>2, <2>12 DEF N, Q
<1> QED BY <1>3, <1>4

-----------------------------------------------------------------------------
(* Declarations                                                            *)

\* What describe() says of the n-th declaration, a base's before those of
\* the class that extends it.
TheItem(n) ==
  IF n <= Len(declared["Base"]) THEN Record("Base", declared["Base"][n])
  ELSE Record("Derived", declared["Derived"][n - Len(declared["Base"])])

\* What a framework was told by a walk that is n declarations on.
TheWalk(n) == [k \in 1 .. n + 1 |-> IF k = 1 THEN rState ELSE TheItem(k - 1)]

\* The walk's place, counted over both classes.
Place(c, i) == IF c = "Base" THEN i ELSE Len(declared["Base"]) + i
AllDeclared == Place("Derived", Len(declared["Derived"]))

DeclShapes ==
  /\ class \in Classes \cup {"built", "error"}
  /\ declared \in [Classes -> Seq(Decls)]
  /\ DOMAIN counts = Classes /\ DOMAIN items = Classes
  /\ unitMount \in Mounts

\* The overloads count the declarations, and the items are the declarations.
Indexed ==
  \A c \in Classes :
    /\ Len(declared[c]) <= MaxItems
    /\ counts[c] = 0 .. Len(declared[c])
    /\ items[c] = [j \in 0 .. Len(declared[c]) - 1 |-> declared[c][j + 1]]

\* A walk is of a finished class, and has told what it passed.
Walking ==
  at # <<>> =>
    /\ class = "built"
    /\ \E c \in Classes : \E i \in 0 .. Len(declared[c]) :
         at = <<c, i>> /\ told = TheWalk(Place(c, i))

\* What the last walk told is all of it.
Kept == before # <<>> => class = "built" /\ before = TheWalk(AllDeclared)

DeclInv == DeclShapes /\ Indexed /\ Walking /\ Kept

\* Nothing is declared yet.
LEMMA DeclInitInv == DeclInit => DeclInv
<1> SUFFICES ASSUME DeclInit PROVE DeclInv
  OBVIOUS
<1>1. DeclShapes
  BY DEF DeclInit, DeclShapes, Classes
<1>2. Indexed
  <2> SUFFICES ASSUME NEW c \in Classes
      PROVE /\ Len(declared[c]) <= MaxItems
            /\ counts[c] = 0 .. Len(declared[c])
            /\ items[c] = [j \in 0 .. Len(declared[c]) - 1 |-> declared[c][j + 1]]
    BY Zenon DEF Indexed
  <2>1. declared[c] = <<>> /\ counts[c] = {0} /\ items[c] = <<>>
    BY DEF DeclInit
  <2>2. Len(declared[c]) = 0 /\ 0 .. Len(declared[c]) = {0}
    BY <2>1
  <2>3. <<>> = [j \in 0 .. Len(declared[c]) - 1 |-> declared[c][j + 1]]
    BY <2>2
  <2> QED BY <2>1, <2>2, <2>3, DeclarationsAssumption
<1> QED BY <1>1, <1>2 DEF DeclInit, DeclInv, Walking, Kept

\* The overload found is the one of the highest rank there is.
LEMMA CountIs ==
  ASSUME Indexed, NEW c \in Classes, declared[c] \in Seq(Decls)
  PROVE  CountOf(c) = Len(declared[c])
<1> DEFINE n == Len(declared[c])
           S == {r \in counts[c] : r <= MaxItems}
<1>1. n \in Nat
  OBVIOUS
<1>2. counts[c] = 0 .. n /\ n <= MaxItems
  BY DEF Indexed
<1> HIDE DEF n
<1>3. n \in S /\ \A m \in S : m <= n /\ m \in Int
  BY <1>1, <1>2
<1> HIDE DEF S
<1>4. \A r \in S : (\A m \in S : m <= r) => r = n
  BY <1>1, <1>3
<1>5. Highest(S) = n
  BY <1>3, <1>4, Zenon DEF Highest
<1> QED BY <1>5, Zenon DEF CountOf, S, n

\* A declaration is counted under the next index, or is an error; an error,
\* and a class that is still being read, is never described.
LEMMA DeclareKeeps ==
  ASSUME DeclInv, NEW d \in Decls, Declare(d)
  PROVE  DeclInv'
<1>1. class \in Classes /\ class # "built"
  BY DEF Declare, Classes
<1>2. at = <<>> /\ before = <<>>
  BY <1>1, Zenon DEF DeclInv, Walking, Kept
<1>3. Walking' /\ Kept'
  BY <1>2, Zenon DEF Declare, Walking, Kept
<1> DEFINE i == CountOf(class)
<1>4. declared[class] \in Seq(Decls)
  BY <1>1 DEF DeclInv, DeclShapes
<1>5. i = Len(declared[class]) /\ i \in Nat
  BY <1>1, <1>4, CountIs DEF DeclInv
<1>6. CASE ~Accepted(d, i)
  <2>1. class' = "error" /\ UNCHANGED <<items, counts, declared, unitMount>>
    BY <1>6 DEF Declare
  <2> QED BY <1>3, <2>1 DEF DeclInv, DeclShapes, Indexed
<1>7. CASE Accepted(d, i)
  <2>1. /\ items' = [items EXCEPT ![class] =
                       [j \in DOMAIN items[class] \cup {i} |-> IF j = i THEN d ELSE items[class][j]]]
        /\ counts' = [counts EXCEPT ![class] = counts[class] \cup {i + 1}]
        /\ declared' = [declared EXCEPT ![class] = Append(declared[class], d)]
        /\ class' = class /\ unitMount' = unitMount
    BY <1>7 DEF Declare
  <2> HIDE DEF i
  <2>2. DeclShapes'
    <3>1. Append(declared[class], d) \in Seq(Decls)
      BY <1>4
    <3> QED BY <1>1, <2>1, <3>1 DEF DeclInv, DeclShapes
  <2>3. i < MaxItems
    BY <1>7 DEF Accepted
  <2>4. ASSUME NEW c \in Classes
        PROVE /\ Len(declared'[c]) <= MaxItems
              /\ counts'[c] = 0 .. Len(declared'[c])
              /\ items'[c] = [j \in 0 .. Len(declared'[c]) - 1 |-> declared'[c][j + 1]]
    <3>1. CASE c # class
      <4>1. declared'[c] = declared[c] /\ counts'[c] = counts[c] /\ items'[c] = items[c]
        BY <2>1, <2>4, <3>1 DEF DeclInv, DeclShapes
      <4> QED BY <2>4, <4>1 DEF DeclInv, Indexed
    <3>2. CASE c = class
      <4> DEFINE old == declared[c]
                 new == declared'[c]
      <4>1. /\ new = Append(old, d) /\ counts'[c] = counts[c] \cup {i + 1}
            /\ items'[c] = [j \in DOMAIN items[c] \cup {i} |-> IF j = i THEN d ELSE items[c][j]]
        BY <1>1, <2>1, <3>2 DEF DeclInv, DeclShapes
      <4>2. counts[c] = 0 .. i /\ items[c] = [j \in 0 .. i - 1 |-> old[j + 1]]
        BY <1>5, <2>4, <3>2 DEF DeclInv, Indexed
      <4>3. /\ Len(new) = i + 1 /\ new[i + 1] = d
            /\ \A j \in 0 .. i - 1 : new[j + 1] = old[j + 1]
        BY <1>4, <1>5, <3>2, <4>1
      <4> HIDE DEF new, old
      <4>4. counts'[c] = 0 .. i + 1
        BY <1>5, <4>1, <4>2
      <4>5. DOMAIN items[c] \cup {i} = 0 .. i
        BY <1>5, <4>2
      <4>6. items'[c] = [j \in 0 .. i |-> IF j = i THEN d ELSE items[c][j]]
        BY <4>1, <4>5, Zenon
      <4>7. ASSUME NEW j \in 0 .. i
            PROVE  (IF j = i THEN d ELSE items[c][j]) = new[j + 1]
        BY <1>5, <4>2, <4>3, <4>7
      <4>8. items'[c] = [j \in 0 .. i |-> new[j + 1]]
        BY <4>6, <4>7
      <4>9. Len(new) - 1 = i /\ Len(new) <= MaxItems
        BY <1>5, <2>3, <4>3, DeclarationsAssumption
      <4> QED BY <4>3, <4>4, <4>8, <4>9 DEF new
    <3> QED BY <3>1, <3>2
  <2>5. Indexed'
    BY <2>4 DEF Indexed
  <2> QED BY <1>3, <2>2, <2>5 DEF DeclInv
<1> QED BY <1>6, <1>7

\* One more item is told of.
LEMMA WalkGrows ==
  ASSUME NEW n \in Nat
  PROVE  Append(TheWalk(n), TheItem(n + 1)) = TheWalk(n + 1)
<1> DEFINE s == TheWalk(n)
           t == Append(s, TheItem(n + 1))
<1>1. s = [k \in 1 .. n + 1 |-> IF k = 1 THEN rState ELSE TheItem(k - 1)]
  BY Zenon DEF TheWalk
<1> HIDE DEF s
<1>2. s \in Seq({s[k] : k \in 1 .. n + 1}) /\ Len(s) = n + 1
  <2> DEFINE S == {s[k] : k \in 1 .. n + 1}
  <2>1. s \in [1 .. n + 1 -> S]
    BY <1>1, Zenon
  <2> HIDE DEF S
  <2>2. s \in Seq(S) /\ Len(s) = n + 1
    BY <2>1
  <2> QED BY <2>2 DEF S
<1>3. t = [k \in 1 .. n + 2 |-> IF k <= n + 1 THEN s[k] ELSE TheItem(n + 1)]
  BY <1>2
<1>4. ASSUME NEW k \in 1 .. n + 2
      PROVE  (IF k <= n + 1 THEN s[k] ELSE TheItem(n + 1)) = (IF k = 1 THEN rState ELSE TheItem(k - 1))
  <2>1. CASE k <= n + 1
    BY <1>1, <2>1
  <2>2. CASE k = n + 2
    BY <2>2
  <2> QED BY <2>1, <2>2
<1>5. t = [k \in 1 .. n + 2 |-> IF k = 1 THEN rState ELSE TheItem(k - 1)]
  BY <1>3, <1>4
<1>6. n + 2 = (n + 1) + 1
  OBVIOUS
<1> QED BY <1>5, <1>6, Zenon DEF TheWalk, s

\* An item told of is the one of that index of its class.
LEMMA ItemIs ==
  ASSUME DeclShapes, Indexed, NEW c \in Classes, NEW i \in 0 .. Len(declared[c]) - 1
  PROVE  /\ Record(c, items[c][i]) = TheItem(Place(c, i) + 1)
         /\ Place(c, i) \in Nat /\ Place(c, i + 1) = Place(c, i) + 1
<1>1. items[c][i] = declared[c][i + 1]
  BY DEF Indexed
<1>2. Len(declared["Base"]) \in Nat /\ Len(declared[c]) \in Nat
  BY DEF DeclShapes, Classes
<1>3. CASE c = "Base"
  <2>1. Place(c, i) = i /\ Place(c, i + 1) = i + 1
    BY <1>3, Zenon DEF Place
  <2>2. i \in Nat /\ i + 1 <= Len(declared["Base"])
    BY <1>2, <1>3
  <2>3. TheItem(i + 1) = Record("Base", declared["Base"][i + 1])
    BY <2>2, Zenon DEF TheItem
  <2> QED BY <1>1, <1>3, <2>1, <2>2, <2>3, Zenon
<1>4. CASE c = "Derived"
  <2> DEFINE b == Len(declared["Base"])
  <2>1. c # "Base"
    BY <1>4
  <2>2. Place(c, i) = b + i /\ Place(c, i + 1) = b + (i + 1)
    BY <2>1, Zenon DEF Place
  <2>3. i \in Nat /\ b \in Nat
    BY <1>2
  <2>4. TheItem((b + i) + 1) = Record("Derived", declared["Derived"][((b + i) + 1) - b]) \/ (b + i) + 1 <= b
    BY Zenon DEF TheItem
  <2> HIDE DEF b
  <2>5. ((b + i) + 1) - b = i + 1 /\ ~((b + i) + 1 <= b) /\ b + (i + 1) = (b + i) + 1 /\ b + i \in Nat
    BY <2>3
  <2> QED BY <1>1, <1>4, <2>2, <2>4, <2>5, Zenon
<1> QED BY <1>3, <1>4 DEF Classes

\* The walk leaves what is declared alone.
LEMMA SameWalk ==
  ASSUME UNCHANGED <<declared, unitMount>>
  PROVE  /\ \A n : TheWalk(n)' = TheWalk(n)
         /\ \A c, i : Place(c, i)' = Place(c, i)
         /\ AllDeclared' = AllDeclared
<1>1. \A u : Resolved(u)' = Resolved(u)
  BY Zenon DEF Resolved
<1>2. \A c, d : Record(c, d)' = Record(c, d)
  BY <1>1, Zenon DEF Record
<1>3. \A n : TheItem(n)' = TheItem(n)
  BY <1>2, Zenon DEF TheItem
<1>4. \A n : TheWalk(n)' = TheWalk(n)
  BY <1>3, Zenon DEF TheWalk
<1>5. \A c, i : Place(c, i)' = Place(c, i)
  BY Zenon DEF Place
<1>6. AllDeclared' = AllDeclared
  BY <1>5, Zenon DEF AllDeclared
<1> QED BY <1>4, <1>5, <1>6

\* describe() starts with rState, and before the first item of the base.
LEMMA DescribeKeeps ==
  ASSUME DeclInv, Describe
  PROVE  DeclInv'
<1>1. /\ class = "built" /\ told' = <<rState>> /\ at' = <<"Base", 0>>
      /\ UNCHANGED <<class, counts, items, declared, unitMount, before>>
  BY DEF Describe
<1>2. DeclShapes' /\ Indexed'
  BY <1>1, Zenon DEF DeclInv, DeclShapes, Indexed
<1>3. Kept'
  BY <1>1, SameWalk, Zenon DEF DeclInv, Kept
<1>4. Place("Base", 0) = 0
  BY Zenon DEF Place
<1>5. TheWalk(0) = <<rState>>
  <2>1. [k \in 1 .. 0 + 1 |-> IF k = 1 THEN rState ELSE TheItem(k - 1)] = <<rState>>
    OBVIOUS
  <2> QED BY <2>1, Zenon DEF TheWalk
<1>6. "Base" \in Classes /\ 0 \in 0 .. Len(declared["Base"])
  BY DEF DeclInv, DeclShapes, Classes
<1>7. at' = <<"Base", 0>> /\ told' = TheWalk(Place("Base", 0))' /\ class' = "built"
  BY <1>1, <1>4, <1>5, SameWalk, Zenon
<1>8. Walking'
  BY <1>1, <1>6, <1>7, Zenon DEF Walking
<1> QED BY <1>2, <1>3, <1>8 DEF DeclInv

\* One item, or the end of a class.
LEMMA VisitKeeps ==
  ASSUME DeclInv, Visit
  PROVE  DeclInv'
<1>1. at # <<>> /\ UNCHANGED <<class, counts, items, declared, unitMount>>
  BY DEF Visit
<1>2. PICK c \in Classes : \E i \in 0 .. Len(declared[c]) :
        at = <<c, i>> /\ told = TheWalk(Place(c, i))
  BY <1>1, Zenon DEF DeclInv, Walking
<1>3. PICK i \in 0 .. Len(declared[c]) : at = <<c, i>> /\ told = TheWalk(Place(c, i))
  BY <1>2
<1>4. class = "built" /\ class' = "built"
  BY <1>1, Zenon DEF DeclInv, Walking
<1>5. DeclShapes' /\ Indexed'
  BY <1>1, Zenon DEF DeclInv, DeclShapes, Indexed
<1>6. declared[c] \in Seq(Decls) /\ Len(declared[c]) \in Nat
  BY DEF DeclInv, DeclShapes
<1>7. More(c, i) <=> i < Len(declared[c])
  BY <1>6, CountIs DEF DeclInv, More
<1>8. CASE More(c, i)
  <2>1. told' = Append(told, Record(c, items[c][i])) /\ at' = <<c, i + 1>> /\ before' = before
    BY <1>3, <1>8 DEF Visit
  <2>2. i \in 0 .. Len(declared[c]) - 1 /\ i + 1 \in 0 .. Len(declared[c])
    BY <1>6, <1>7, <1>8
  <2>3. told' = TheWalk(Place(c, i + 1))
    BY <1>3, <2>1, <2>2, ItemIs, WalkGrows, Zenon DEF DeclInv
  <2>4. Walking'
    <3>1. i + 1 \in 0 .. Len(declared'[c]) /\ at' = <<c, i + 1>> /\ told' = TheWalk(Place(c, i + 1))'
      BY <1>1, <2>1, <2>2, <2>3, SameWalk, Zenon
    <3> QED BY <1>4, <3>1, Zenon DEF Walking
  <2>5. Kept'
    BY <1>1, <2>1, SameWalk, Zenon DEF DeclInv, Kept
  <2> QED BY <1>5, <2>4, <2>5 DEF DeclInv
<1>9. CASE ~More(c, i)
  <2>1. i = Len(declared[c])
    BY <1>6, <1>7, <1>9
  <2>2. CASE c = "Base"
    <3>1. at' = <<"Derived", 0>> /\ before' = before /\ told' = told
      BY <1>3, <1>9, <2>2 DEF Visit
    <3>2. Len(declared["Base"]) \in Nat /\ Len(declared["Derived"]) \in Nat /\ "Derived" # "Base"
      BY DEF DeclInv, DeclShapes, Classes
    <3>3. Place(c, i) = Len(declared["Base"]) /\ Place("Derived", 0) = Len(declared["Base"]) + 0
      BY <2>1, <2>2, <3>2, Zenon DEF Place
    <3>4. Place("Derived", 0) = Place(c, i)
      BY <3>2, <3>3
    <3>5. 0 \in 0 .. Len(declared'["Derived"]) /\ "Derived" \in Classes
      BY <1>1, <3>2 DEF Classes
    <3>6. told' = TheWalk(Place("Derived", 0))'
      BY <1>1, <1>3, <3>1, <3>4, SameWalk, Zenon
    <3>7. Walking'
      BY <1>4, <3>1, <3>5, <3>6, Zenon DEF Walking
    <3>8. Kept'
      BY <1>1, <3>1, SameWalk, Zenon DEF DeclInv, Kept
    <3> QED BY <1>5, <3>7, <3>8 DEF DeclInv
  <2>3. CASE c = "Derived"
    <3>1. at' = <<>> /\ before' = told /\ told' = told
      BY <1>3, <1>9, <2>3 DEF Visit
    <3>2. Walking'
      BY <3>1, Zenon DEF Walking
    <3>3. before' = TheWalk(AllDeclared)'
      BY <1>1, <1>3, <2>1, <2>3, <3>1, SameWalk, Zenon DEF AllDeclared
    <3> QED BY <1>4, <1>5, <3>2, <3>3 DEF DeclInv, Kept
  <2> QED BY <2>2, <2>3 DEF Classes
<1> QED BY <1>8, <1>9

\* The other steps touch no walk.
LEMMA DeclNextInv == DeclInv /\ [DeclNext]_declVars => DeclInv'
<1> SUFFICES ASSUME DeclInv, [DeclNext]_declVars PROVE DeclInv'
  OBVIOUS
<1>1. CASE \E d \in Decls : Declare(d)
  BY <1>1, DeclareKeeps
<1>2. CASE EndOfClass
  <2>1. at = <<>> /\ before = <<>> /\ class' \in {"Derived", "built"}
    <3>1. class # "built"
      BY <1>2 DEF EndOfClass, Classes
    <3> QED BY <1>2, <3>1 DEF EndOfClass, DeclInv, Walking, Kept
  <2>2. UNCHANGED <<counts, items, declared, unitMount, at, told, before>>
    BY <1>2 DEF EndOfClass
  <2> QED BY <2>1, <2>2 DEF DeclInv, DeclShapes, Indexed, Walking, Kept, Classes
<1>3. CASE Describe
  BY <1>3, DescribeKeeps
<1>4. CASE Visit
  BY <1>4, VisitKeeps
<1>5. CASE Restart
  <2>1. at = <<>>
    BY <1>5 DEF Restart, DeclInv, Walking
  <2>2. at' = <<>>
    BY <1>5, <2>1 DEF Restart
  <2>3. DeclInit'
    BY <1>5, <2>2 DEF Restart, DeclInit
  <2>4. DeclInit' => DeclInv'
    BY DeclInitInv, PTL
  <2> QED BY <2>3, <2>4
<1>6. CASE UNCHANGED declVars
  <2>1. UNCHANGED <<class, counts, items, declared, unitMount, at, told, before>>
    BY <1>6 DEF declVars
  <2>2. DeclShapes' /\ Indexed'
    BY <2>1, Zenon DEF DeclInv, DeclShapes, Indexed
  <2>3. Walking'
    BY <2>1, SameWalk, Zenon DEF DeclInv, Walking
  <2>4. Kept'
    BY <2>1, SameWalk, Zenon DEF DeclInv, Kept
  <2> QED BY <2>2, <2>3, <2>4 DEF DeclInv
<1> QED BY <1>1, <1>2, <1>3, <1>4, <1>5, <1>6 DEF DeclNext

\* What the walk tells of a declaration.
LEMMA TheItemIs ==
  ASSUME NEW c \in Classes, NEW d
  PROVE  /\ Record(c, d).name = <<d.prefix, d.name>>
         /\ Record(c, d).ctx = IF d.macro \notin ChildMacros /\ Info(d.macro).cb THEN c ELSE "none"
         /\ d.macro \in DOMAIN Macro => Record(c, d).unit = Resolved(d.unit)
<1>1. CASE d.macro \in ChildMacros
  <2>1. d.macro \notin DOMAIN Macro
    BY <1>1 DEF ChildMacros, Macro
  <2> QED BY <1>1, <2>1, Zenon DEF Record
<1>2. CASE d.macro \notin ChildMacros
  <2>1. d.macro \in DOMAIN Macro => ~Info(d.macro).str
    BY DEF Info, Macro
  <2> QED BY <1>2, <2>1, Zenon DEF Record, OwnerOf
<1> QED BY <1>1, <1>2

\* A unit is shown as it was declared, and a symbol as the unit chosen for it.
LEMMA UnitIs ==
  ASSUME NEW u
  PROVE  /\ u # "symbol" => Resolved(u) = u
         /\ u = "symbol" /\ Chosen(unitMount, u) # "" => Resolved(u) = Chosen(unitMount, u)
         /\ u = "symbol" /\ Chosen(unitMount, u) = "" => Resolved(u) = "symbol"
  BY Zenon DEF Resolved

\* After a walk, the framework has heard of every declaration in its place.
LEMMA WalkIsAll ==
  ASSUME DeclInv, Walked
  PROVE  \A c \in Classes : \A i \in DOMAIN declared[c] :
           before[1 + i + (IF c = "Base" THEN 0 ELSE Len(declared["Base"]))] = Record(c, declared[c][i])
<1>1. before = TheWalk(AllDeclared)
  BY Zenon DEF DeclInv, Kept, Walked
<1> DEFINE b == Len(declared["Base"])
           e == Len(declared["Derived"])
<1>2. b \in Nat /\ e \in Nat
  BY DEF DeclInv, DeclShapes, Classes
<1>3. AllDeclared = b + e
  <2>1. "Derived" # "Base"
    OBVIOUS
  <2> QED BY <2>1, Zenon DEF AllDeclared, Place
<1>4. before = [k \in 1 .. (b + e) + 1 |-> IF k = 1 THEN rState ELSE TheItem(k - 1)]
  BY <1>1, <1>3, Zenon DEF TheWalk
<1>5. /\ DOMAIN declared["Base"] = 1 .. b /\ DOMAIN declared["Derived"] = 1 .. e
  BY DEF DeclInv, DeclShapes, Classes
<1>6. ASSUME NEW n \in Nat PROVE n <= b => TheItem(n) = Record("Base", declared["Base"][n])
  BY Zenon DEF TheItem
<1>7. ASSUME NEW n PROVE ~(n <= b) => TheItem(n) = Record("Derived", declared["Derived"][n - b])
  BY Zenon DEF TheItem
<1> HIDE DEF b, e
<1>8. ASSUME NEW i \in 1 .. b
      PROVE  before[1 + i + 0] = Record("Base", declared["Base"][i])
  <2>1. 1 + i + 0 \in 1 .. (b + e) + 1 /\ 1 + i + 0 # 1 /\ (1 + i + 0) - 1 = i /\ i \in Nat /\ i <= b
    BY <1>2
  <2>2. before[1 + i + 0] = TheItem((1 + i + 0) - 1)
    BY <1>4, <2>1, Zenon
  <2> QED BY <1>6, <2>1, <2>2, Zenon
<1>9. ASSUME NEW i \in 1 .. e
      PROVE  before[1 + i + b] = Record("Derived", declared["Derived"][i])
  <2>1. /\ 1 + i + b \in 1 .. (b + e) + 1 /\ 1 + i + b # 1
        /\ ((1 + i + b) - 1) - b = i /\ ~((1 + i + b) - 1 <= b)
    BY <1>2
  <2>2. before[1 + i + b] = TheItem((1 + i + b) - 1)
    BY <1>4, <2>1, Zenon
  <2> QED BY <1>7, <2>1, <2>2, Zenon
<1>10. ASSUME NEW c \in Classes, NEW i \in DOMAIN declared[c]
       PROVE  before[1 + i + (IF c = "Base" THEN 0 ELSE b)] = Record(c, declared[c][i])
  <2>1. CASE c = "Base"
    BY <1>5, <1>8, <1>10, <2>1, Zenon
  <2>2. CASE c = "Derived"
    <3>1. c # "Base"
      BY <2>2
    <3> QED BY <1>5, <1>9, <1>10, <2>2, <3>1, Zenon
  <2> QED BY <2>1, <2>2 DEF Classes
<1> QED BY <1>10, Zenon DEF b

\* Two sequences, and a first element and two sequences, joined.
Two(s, t) == s \o t
Three(n, s, t) == <<n>> \o s \o t
OfThree(n, s, t, k) ==
  IF k = 1 THEN n ELSE IF k - 1 <= Len(s) THEN s[k - 1] ELSE t[(k - 1) - Len(s)]

\* Where the elements of two sequences are when they are joined.
LEMMA TwoJoined ==
  ASSUME NEW S, NEW s \in Seq(S), NEW t \in Seq(S)
  PROVE  /\ Two(s, t) \in Seq(S)
         /\ Two(s, t) = [k \in 1 .. Len(s) + Len(t) |-> IF k <= Len(s) THEN s[k] ELSE t[k - Len(s)]]
<1>1. s \o t \in Seq(S)
  OBVIOUS
<1> DEFINE b == Len(s)
           e == Len(t)
           At(k) == IF k <= b THEN s[k] ELSE t[k - b]
<1>2. DOMAIN (s \o t) = 1 .. b + e /\ Len(s \o t) = b + e
  OBVIOUS
<1>3. \A i \in 1 .. b + e : (s \o t)[i] = At(i)
  OBVIOUS
<1> DEFINE st == s \o t
<1>4. st \in Seq(S) /\ Len(st) = b + e
  BY <1>1, <1>2
<1> HIDE DEF b, e, st, At
<1>5. st = [k \in 1 .. b + e |-> st[k]]
  BY <1>4
<1>6. \A i \in 1 .. b + e : st[i] = At(i)
  BY <1>3, Zenon DEF st
<1>7. st = [k \in 1 .. b + e |-> At(k)]
  BY <1>5, <1>6, Zenon
<1> QED BY <1>1, <1>7, Zenon DEF Two, st, At, b, e

\* Where the elements of a first element and two sequences are.
LEMMA ThreeJoined ==
  ASSUME NEW S, NEW n \in S, NEW s \in Seq(S), NEW t \in Seq(S)
  PROVE  Three(n, s, t) = [k \in 1 .. (Len(s) + Len(t)) + 1 |-> OfThree(n, s, t, k)]
<1> DEFINE head == <<n>> \o s
<1>1. head \in Seq(S) /\ Len(head) = Len(s) + 1 /\ head[1] = n
  OBVIOUS
<1>2. ASSUME NEW i \in 1 .. Len(s) + 1, i # 1 PROVE head[i] = s[i - 1]
  BY <1>2
<1>3. Three(n, s, t) = Two(head, t)
  BY Zenon DEF Three, Two
<1> HIDE DEF head
<1>4. Two(head, t) = [k \in 1 .. Len(head) + Len(t) |-> IF k <= Len(head) THEN head[k] ELSE t[k - Len(head)]]
  BY <1>1, TwoJoined, Zenon
<1>5. Len(s) \in Nat /\ Len(t) \in Nat
  OBVIOUS
<1> DEFINE b == Len(s)
           e == Len(t)
           Left(k) == IF k <= b + 1 THEN head[k] ELSE t[k - (b + 1)]
           Right(k) == OfThree(n, s, t, k)
<1>6. Two(head, t) = [k \in 1 .. (b + 1) + e |-> Left(k)]
  BY <1>1, <1>4, Zenon
<1>7. ASSUME NEW k \in 1 .. (b + 1) + e PROVE Left(k) = Right(k)
  <2>1. CASE k = 1
    <3>1. k <= b + 1
      BY <1>5, <2>1
    <3> QED BY <1>1, <2>1, <3>1, Zenon DEF OfThree
  <2>2. CASE k # 1 /\ k <= b + 1
    <3>1. k \in 1 .. b + 1 /\ k - 1 <= b
      BY <1>5, <2>2
    <3> QED BY <1>2, <2>2, <3>1, Zenon DEF OfThree
  <2>3. CASE ~(k <= b + 1)
    <3>1. k # 1 /\ ~(k - 1 <= b) /\ k - (b + 1) = (k - 1) - b
      BY <1>5, <2>3
    <3> QED BY <2>3, <3>1, Zenon DEF OfThree
  <2> QED BY <2>1, <2>2, <2>3
<1>8. 1 .. (b + 1) + e = 1 .. (b + e) + 1
  BY <1>5
<1> HIDE DEF Left, Right
<1>9. [k \in 1 .. (b + 1) + e |-> Left(k)] = [k \in 1 .. (b + e) + 1 |-> Right(k)]
  BY <1>7, <1>8, Zenon
<1> QED BY <1>3, <1>6, <1>9, Zenon DEF Right

\* A description is complete, in order, and names the right units and owners,
\* however many items a class has, whatever they are, and whatever the
\* device chooses for a symbol.
THEOREM DescribedAsDeclaredAlways == DeclSpec => []DescribedAsDeclared
<1>1. DeclInv => DescribedAsDeclared
  <2> SUFFICES ASSUME DeclInv PROVE DescribedAsDeclared
    OBVIOUS
  <2> DEFINE b == Len(declared["Base"])
             e == Len(declared["Derived"])
  <2>1. b \in Nat /\ e \in Nat
    BY DEF DeclInv, DeclShapes, Classes
  <2>0. /\ declared["Base"] \in Seq(Decls) /\ declared["Derived"] \in Seq(Decls)
        /\ DOMAIN declared["Base"] = 1 .. b /\ DOMAIN declared["Derived"] = 1 .. e
    BY DEF DeclInv, DeclShapes, Classes
  <2>2. DeclTypeOK
    <3>1. ASSUME NEW c \in Classes
          PROVE  /\ counts[c] = 0 .. Len(declared[c])
                 /\ DOMAIN items[c] = 0 .. Len(declared[c]) - 1
                 /\ Len(declared[c]) <= MaxItems
      BY Zenon DEF DeclInv, Indexed
    <3>2. ASSUME at # <<>>
          PROVE  at[1] \in Classes /\ at[2] \in 0 .. Cardinality(DOMAIN items[at[1]])
      <4>1. PICK c \in Classes : \E i \in 0 .. Len(declared[c]) : at = <<c, i>>
        BY <3>2, Zenon DEF DeclInv, Walking
      <4>2. PICK i \in 0 .. Len(declared[c]) : at = <<c, i>>
        BY <4>1
      <4>3. Len(declared[c]) \in Nat
        BY DEF DeclInv, DeclShapes
      <4>4. Cardinality(0 .. Len(declared[c]) - 1) = Len(declared[c])
        BY <4>3, FS_Interval
      <4>5. at[1] = c /\ at[2] = i
        BY <4>2
      <4>6. Cardinality(DOMAIN items[at[1]]) = Len(declared[c])
        BY <3>1, <4>4, <4>5, Zenon
      <4> QED BY <4>5, <4>6, Zenon
    <3> QED BY <3>1, <3>2, Zenon DEF DeclTypeOK, DeclInv, DeclShapes
  <2>3. ASSUME Walked PROVE EverythingInOrder
    <3>1. before = TheWalk(AllDeclared) /\ AllDeclared = b + e
      <4>1. "Derived" # "Base"
        OBVIOUS
      <4> QED BY <2>3, <4>1, Zenon DEF DeclInv, Kept, Walked, AllDeclared, Place
    <3>2. DOMAIN before = 1 .. (b + e) + 1 /\ before[1] = rState
      <4>1. before = [k \in 1 .. (b + e) + 1 |-> IF k = 1 THEN rState ELSE TheItem(k - 1)]
        BY <3>1, Zenon DEF TheWalk
      <4> HIDE DEF b, e
      <4>2. 1 \in 1 .. (b + e) + 1
        BY <2>1
      <4> QED BY <4>1, <4>2, Zenon
    <3> DEFINE N1 == DeclaredNames("Base")
               N2 == DeclaredNames("Derived")
               Names == {rState.name}
                        \cup {<<declared["Base"][i].prefix, declared["Base"][i].name>> : i \in 1 .. b}
                        \cup {<<declared["Derived"][i].prefix, declared["Derived"][i].name>> : i \in 1 .. e}
    <3>3. /\ DOMAIN declared["Base"] = 1 .. b /\ DOMAIN declared["Derived"] = 1 .. e
          /\ "Base" \in Classes /\ "Derived" \in Classes /\ "Derived" # "Base"
      BY <2>0 DEF Classes
    <3>4. /\ N1 = [i \in 1 .. b |-> <<declared["Base"][i].prefix, declared["Base"][i].name>>]
          /\ N2 = [i \in 1 .. e |-> <<declared["Derived"][i].prefix, declared["Derived"][i].name>>]
      BY <3>3, Zenon DEF DeclaredNames
    <3>5. N1 \in Seq(Names) /\ Len(N1) = b /\ N2 \in Seq(Names) /\ Len(N2) = e
      <4>1. /\ \A i \in 1 .. b : <<declared["Base"][i].prefix, declared["Base"][i].name>> \in Names
            /\ \A i \in 1 .. e : <<declared["Derived"][i].prefix, declared["Derived"][i].name>> \in Names
        BY <3>3, Zenon
      <4>2. N1 \in [1 .. b -> Names] /\ N2 \in [1 .. e -> Names]
        BY <3>4, <4>1, Zenon
      <4> HIDE DEF b, e, N1, N2, Names
      <4> QED BY <2>1, <4>2
    <3>6. \A i \in 1 .. b : before[1 + i].name = N1[i]
      <4> TAKE i \in 1 .. b
      <4>1. 1 + i + 0 = 1 + i
        OBVIOUS
      <4>2. before[1 + i + 0] = Record("Base", declared["Base"][i])
        BY <2>3, <3>3, WalkIsAll, Zenon
      <4>3. Record("Base", declared["Base"][i]).name = <<declared["Base"][i].prefix, declared["Base"][i].name>>
        BY <3>3, TheItemIs, Zenon
      <4>4. N1[i] = <<declared["Base"][i].prefix, declared["Base"][i].name>>
        BY <3>4, Zenon
      <4> QED BY <4>1, <4>2, <4>3, <4>4, Zenon
    <3>7. \A i \in 1 .. e : before[1 + i + b].name = N2[i]
      <4> TAKE i \in 1 .. e
      <4>2. before[1 + i + b] = Record("Derived", declared["Derived"][i])
        BY <2>3, <3>3, WalkIsAll, Zenon
      <4>3. Record("Derived", declared["Derived"][i]).name = <<declared["Derived"][i].prefix, declared["Derived"][i].name>>
        BY <3>3, TheItemIs, Zenon
      <4>4. N2[i] = <<declared["Derived"][i].prefix, declared["Derived"][i].name>>
        BY <3>4, Zenon
      <4> QED BY <4>2, <4>3, <4>4, Zenon
    <3> DEFINE f == NamesOf(before)
    <3>8. f = [k \in 1 .. (b + e) + 1 |-> before[k].name]
      BY <3>2, Zenon DEF NamesOf
    <3> HIDE DEF b, e, N1, N2, Names
    <3>9. /\ DOMAIN f = 1 .. (b + e) + 1 /\ f = [k \in 1 .. (b + e) + 1 |-> f[k]]
          /\ f[1] = rState.name
          /\ \A i \in 1 .. b : f[1 + i] = N1[i]
          /\ \A i \in 1 .. e : f[1 + i + b] = N2[i]
      <4>1. /\ 1 \in 1 .. (b + e) + 1
            /\ \A i \in 1 .. b : 1 + i \in 1 .. (b + e) + 1
            /\ \A i \in 1 .. e : 1 + i + b \in 1 .. (b + e) + 1
        BY <2>1
      <4> QED BY <3>2, <3>6, <3>7, <3>8, <4>1, Zenon
    <3>10. rState.name \in Names
      BY Zenon DEF Names
    <3> HIDE DEF f
    <3> DEFINE first == rState.name
    <3>11. first \in Names /\ f[1] = first
      BY <3>9, <3>10
    <3> HIDE DEF first
    <3> DEFINE Right(k) == OfThree(first, N1, N2, k)
    <3>12. Three(first, N1, N2) = [k \in 1 .. (b + e) + 1 |-> Right(k)]
      <4>1. Three(first, N1, N2) = [k \in 1 .. (Len(N1) + Len(N2)) + 1 |-> Right(k)]
        <5>1. first \in Names /\ N1 \in Seq(Names) /\ N2 \in Seq(Names)
          BY <3>5, <3>11
        <5> QED BY <5>1, ThreeJoined
      <4> QED BY <3>5, <4>1, Zenon
    <3>13. ASSUME NEW k \in 1 .. (b + e) + 1 PROVE f[k] = Right(k)
      <4>1. CASE k = 1
        BY <3>11, <4>1, Zenon DEF OfThree
      <4>2. CASE k # 1 /\ k - 1 <= b
        <5>1. k - 1 \in 1 .. b /\ 1 + (k - 1) = k
          BY <2>1, <4>2
        <5> QED BY <3>5, <3>9, <4>2, <5>1, Zenon DEF OfThree
      <4>3. CASE ~(k - 1 <= b)
        <5>1. k # 1 /\ (k - 1) - b \in 1 .. e /\ 1 + ((k - 1) - b) + b = k
          BY <2>1, <4>3
        <5> QED BY <3>5, <3>9, <4>3, <5>1, Zenon DEF OfThree
      <4> QED BY <4>1, <4>2, <4>3
    <3> HIDE DEF Right
    <3>14. f = Three(first, N1, N2)
      BY <3>9, <3>12, <3>13, Zenon
    <3> QED BY <3>14, Zenon DEF EverythingInOrder, Three, f, first, N1, N2
  <2>4. ASSUME Walked PROVE NeverAWrongUnit
    <3> DEFINE all == declared["Base"] \o declared["Derived"]
    <3>1. all = [k \in 1 .. b + e |-> IF k <= b THEN declared["Base"][k] ELSE declared["Derived"][k - b]]
      BY <2>0, TwoJoined, Zenon DEF Two
    <3>2. /\ DOMAIN all = 1 .. b + e
          /\ \A i \in 1 .. b + e : i <= b => all[i] = declared["Base"][i]
          /\ \A i \in 1 .. b + e : ~(i <= b) => all[i] = declared["Derived"][i - b]
      BY <3>1, Zenon
    <3>3. /\ DOMAIN declared["Base"] = 1 .. b /\ DOMAIN declared["Derived"] = 1 .. e
          /\ "Base" \in Classes /\ "Derived" \in Classes /\ "Derived" # "Base"
      BY <2>0 DEF Classes
    <3>4. \A c \in Classes : \A i \in DOMAIN declared[c] :
            before[1 + i + (IF c = "Base" THEN 0 ELSE b)] = Record(c, declared[c][i])
      BY <2>4, WalkIsAll, Zenon
    <3> HIDE DEF all, b, e
    <3>5. ASSUME NEW i \in 1 .. b + e
          PROVE  \E c \in Classes : before[i + 1] = Record(c, all[i])
      <4>1. CASE i <= b
        <5>1. i \in 1 .. b /\ 1 + i + 0 = i + 1
          BY <2>1, <4>1
        <5> QED BY <4>1, <3>2, <3>3, <3>4, <5>1, Zenon
      <4>2. CASE ~(i <= b)
        <5>1. i - b \in 1 .. e /\ 1 + (i - b) + b = i + 1
          BY <2>1, <4>2
        <5>2. before[1 + (i - b) + b] = Record("Derived", declared["Derived"][i - b])
          BY <3>3, <3>4, <5>1, Zenon
        <5> QED BY <3>2, <3>3, <4>2, <5>1, <5>2, Zenon
      <4> QED BY <4>1, <4>2
    <3>6. ASSUME NEW i \in 1 .. b + e, all[i].macro \in DOMAIN Macro
          PROVE  LET chosen == Chosen(unitMount, all[i].unit)
                 IN  /\ all[i].unit # "symbol" => before[i + 1].unit = all[i].unit
                     /\ all[i].unit = "symbol" /\ chosen # "" => before[i + 1].unit = chosen
                     /\ all[i].unit = "symbol" /\ chosen = "" => before[i + 1].unit = "symbol"
      <4>1. PICK c \in Classes : before[i + 1] = Record(c, all[i])
        BY <3>5
      <4> DEFINE d == all[i]
      <4>2. Record(c, d).unit = Resolved(d.unit)
        BY <3>6, TheItemIs, Zenon
      <4> HIDE DEF d
      <4>3. before[i + 1].unit = Resolved(d.unit)
        BY <4>1, <4>2, Zenon DEF d
      <4> QED BY <4>3, UnitIs, Zenon DEF d
    <3> QED BY <3>2, <3>6, Zenon DEF NeverAWrongUnit, all
  <2>5. ASSUME Walked PROVE HookGetsItsOwner
    <3>1. ASSUME NEW c \in Classes, NEW i \in DOMAIN declared[c]
          PROVE  before[1 + i + (IF c = "Base" THEN 0 ELSE b)].ctx
                   = IF declared[c][i].macro \notin ChildMacros /\ Info(declared[c][i].macro).cb
                       THEN c ELSE "none"
      <4> DEFINE d == declared[c][i]
                 r == before[1 + i + (IF c = "Base" THEN 0 ELSE b)]
      <4>1. r = Record(c, d)
        BY <2>5, WalkIsAll, Zenon
      <4> HIDE DEF d, r
      <4>2. r.ctx = IF d.macro \notin ChildMacros /\ Info(d.macro).cb THEN c ELSE "none"
        BY <4>1, TheItemIs, Zenon
      <4> QED BY <4>2, Zenon DEF d, r
    <3> QED BY <3>1, Zenon DEF HookGetsItsOwner
  <2> QED BY <2>2, <2>3, <2>4, <2>5 DEF DescribedAsDeclared, EverythingInOrder, NeverAWrongUnit, HookGetsItsOwner
<1> QED BY <1>1, DeclInitInv, DeclNextInv, PTL DEF DeclSpec

-----------------------------------------------------------------------------
(* StartUp: the lists of handles                                           *)

\* The handle at position i of a device's list, Null past its end.
At(d, i) == IF i \in 1 .. made[d] THEN Needs[d][i] ELSE Null

\* The pointers make the list of the handles each device has constructed.
Pointers ==
  /\ made \in [Devices -> Nat] /\ \A d \in Devices : made[d] \in 0 .. Len(Needs[d])
  /\ udiNeeds \in [Devices -> Handles \cup {Null}]
  /\ next \in [Handles -> Handles \cup {Null}]
  /\ \A d \in Devices : udiNeeds[d] = At(d, 1)
  /\ \A d \in Devices : \A i \in 1 .. Len(Needs[d]) :
       next[Needs[d][i]] = IF i < made[d] THEN Needs[d][i + 1] ELSE Null

\* What a device's handles are.
LEMMA NeedsAre ==
  ASSUME NEW d \in Devices
  PROVE  /\ Needs[d] \in Seq(Handles) /\ Len(Needs[d]) \in Nat
         /\ DOMAIN Needs[d] = 1 .. Len(Needs[d])
         /\ \A i, j \in 1 .. Len(Needs[d]) : Needs[d][i] = Needs[d][j] => i = j
         /\ Len(Needs[d]) <= Cardinality(Handles) /\ Cardinality(Handles) \in Nat
<1> DEFINE s == Needs[d]
<1>1. s \in Seq(Handles) /\ Len(s) \in Nat /\ DOMAIN s = 1 .. Len(s)
  BY StartUpAssumption
<1>2. \A i, j \in 1 .. Len(s) : s[i] = s[j] => i = j
  BY <1>1, StartUpAssumption
<1>3. IsFiniteSet(Handles)
  BY StartUpAssumption
<1> HIDE DEF s
<1>4. s \in Injection(1 .. Len(s), Handles)
  BY <1>1, <1>2 DEF Injection, IsInjective
<1>5. Cardinality(1 .. Len(s)) <= Cardinality(Handles) /\ Cardinality(Handles) \in Nat
  BY <1>3, <1>4, FS_Injection, FS_CardinalityType
<1>6. Cardinality(1 .. Len(s)) = IF 1 > Len(s) THEN 0 ELSE Len(s) - 1 + 1
  BY <1>1, FS_Interval
<1>7. Len(s) <= Cardinality(Handles)
  BY <1>1, <1>5, <1>6
<1> QED BY <1>1, <1>2, <1>5, <1>7 DEF s

\* The recursion of ListOf(d), as an equation.
Steps(d, f, m) ==
  f = [i \in 0 .. m |-> IF i = 0 THEN udiNeeds[d]
                        ELSE IF f[i - 1] = Null THEN Null ELSE next[f[i - 1]]]

\* It has a solution.
LEMMA StepsExist ==
  ASSUME NEW d \in Devices, NEW m \in Nat, Pointers
  PROVE  \E f : Steps(d, f, m)
<1> DEFINE Q == Handles \cup {Null}
           g == [p \in Nat \X Q |-> IF p[2] = Null THEN Null ELSE next[p[2]]]
<1>1. udiNeeds[d] \in Q /\ g \in [Nat \X Q -> Q]
  BY DEF Pointers
<1> HIDE DEF Q
<1>2. PICK f : Iterates(f, Q, udiNeeds[d], g, m)
  <2> HIDE DEF g
  <2> QED BY <1>1, RecursionExists
<1>3. \A i \in 1 .. m : f[i] = IF f[i - 1] = Null THEN Null ELSE next[f[i - 1]]
  <2> TAKE i \in 1 .. m
  <2>1. i - 1 \in 0 .. m /\ i \in Nat
    OBVIOUS
  <2> HIDE DEF g
  <2>2. f[i - 1] \in Q /\ f[i] = g[<<i, f[i - 1]>>]
    BY <1>2, <2>1 DEF Iterates
  <2> QED BY <2>1, <2>2 DEF g
<1> DEFINE r == [i \in 0 .. m |-> IF i = 0 THEN udiNeeds[d]
                                  ELSE IF f[i - 1] = Null THEN Null ELSE next[f[i - 1]]]
<1>4. \A i \in 0 .. m : f[i] = r[i]
  <2> TAKE i \in 0 .. m
  <2>1. CASE i = 0
    BY <1>2, <2>1 DEF Iterates
  <2>2. CASE i # 0
    <3>1. i \in 1 .. m
      BY <2>2
    <3> QED BY <1>3, <2>2, <3>1
  <2> QED BY <2>1, <2>2
<1>5. f = [i \in 0 .. m |-> f[i]] /\ r = [i \in 0 .. m |-> r[i]]
  BY <1>2 DEF Iterates
<1>6. f = r
  BY <1>4, <1>5
<1> QED BY <1>6, Zenon DEF Steps

\* The list of a device is the handles it has constructed.
LEMMA ListIs ==
  ASSUME Pointers, NEW d \in Devices
  PROVE  ListOf(d) = [i \in 1 .. made[d] |-> Needs[d][i]]
<1> DEFINE N == Cardinality(Handles)
           node == CHOOSE f : Steps(d, f, N)
           k == made[d]
<1>1. /\ N \in Nat /\ k \in Nat /\ k <= N /\ k <= Len(Needs[d])
      /\ \A i \in 1 .. k : i \in 1 .. Len(Needs[d]) /\ Needs[d][i] \in Handles /\ Needs[d][i] # Null
  BY NeedsAre, StartUpAssumption DEF Pointers
<1>2. Steps(d, node, N)
  BY <1>1, StepsExist
<1>3. ListOf(d) = [i \in 1 .. Cardinality({j \in DOMAIN node : node[j] # Null}) |-> node[i - 1]]
  BY Zenon DEF ListOf, Steps
<1> HIDE DEF N, node, k
<1>4. \A i \in 0 .. N : node[i] = IF i = 0 THEN udiNeeds[d]
                                   ELSE IF node[i - 1] = Null THEN Null ELSE next[node[i - 1]]
  BY <1>2, Zenon DEF Steps
<1>5. DOMAIN node = 0 .. N
  BY <1>2 DEF Steps
<1>6. \A i \in 0 .. N : node[i] = At(d, i + 1)
  <2> DEFINE S == {i \in Nat : i \in 0 .. N => node[i] = At(d, i + 1)}
  <2>1. 0 \in S
    BY <1>1, <1>4 DEF Pointers
  <2>2. ASSUME NEW i \in S \cap Nat PROVE i + 1 \in S
    <3>1. SUFFICES ASSUME i + 1 \in 0 .. N PROVE node[i + 1] = At(d, i + 1 + 1)
      BY <2>2
    <3>2. node[i] = At(d, i + 1)
      BY <1>1, <2>2, <3>1
    <3>3. node[i + 1] = IF node[i] = Null THEN Null ELSE next[node[i]]
      BY <1>4, <3>1
    <3>4. CASE i + 1 \in 1 .. k
      <4>1. node[i] = Needs[d][i + 1] /\ node[i] # Null /\ i + 1 \in 1 .. Len(Needs[d])
        BY <1>1, <3>2, <3>4 DEF At, k
      <4>2. next[Needs[d][i + 1]] = IF i + 1 < k THEN Needs[d][i + 1 + 1] ELSE Null
        BY <4>1 DEF Pointers, k
      <4> QED BY <1>1, <2>2, <3>3, <4>1, <4>2 DEF At, k
    <3>5. CASE i + 1 \notin 1 .. k
      BY <1>1, <2>2, <3>2, <3>3, <3>5 DEF At, k
    <3> QED BY <3>4, <3>5
  <2> HIDE DEF S
  <2>3. Nat \subseteq S
    BY <2>1, <2>2, AllNaturals
  <2> QED BY <1>1, <2>3 DEF S
<1>7. {j \in DOMAIN node : node[j] # Null} = 0 .. k - 1
  <2>1. \A j \in 0 .. N : node[j] # Null <=> j + 1 \in 1 .. k
    BY <1>1, <1>6 DEF At, k
  <2> QED BY <1>1, <1>5, <2>1
<1>8. Cardinality(0 .. k - 1) = k
  <2> DEFINE b == k - 1
  <2>1. b \in Int /\ k = b + 1 /\ b >= -1
    BY <1>1
  <2> HIDE DEF b
  <2>2. Cardinality(0 .. b) = IF 0 > b THEN 0 ELSE b - 0 + 1
    BY <2>1, FS_Interval
  <2> QED BY <2>1, <2>2 DEF b
<1>9. \A i \in 1 .. k : node[i - 1] = Needs[d][i]
  <2> TAKE i \in 1 .. k
  <2>1. i - 1 \in 0 .. N /\ i - 1 + 1 = i
    BY <1>1
  <2> QED BY <1>6, <2>1 DEF At, k
<1>10. ListOf(d) = [i \in 1 .. k |-> node[i - 1]]
  BY <1>3, <1>7, <1>8
<1> QED BY <1>9, <1>10 DEF k

\* Its last handle is the one constructed last.
LEMMA LastIs ==
  ASSUME Pointers, NEW d \in Devices, made[d] # 0
  PROVE  Last(ListOf(d)) = Needs[d][made[d]]
<1> DEFINE k == made[d]
           s == ListOf(d)
<1>1. k \in Nat \ {0} /\ s = [i \in 1 .. k |-> Needs[d][i]]
  BY ListIs DEF Pointers
<1> HIDE DEF k, s
<1>2. Len(s) = k /\ s[k] = Needs[d][k]
  BY <1>1
<1>3. Last(s) = s[k]
  BY <1>2 DEF Last
<1> QED BY <1>2, <1>3 DEF s, k

\* It is the handles a device declares, as far as they are constructed.
LEMMA ListIsSubSeq ==
  ASSUME Pointers, NEW d \in Devices
  PROVE  /\ ListOf(d) = SubSeq(Needs[d], 1, made[d])
         /\ Complete(d) => ListOf(d) = Needs[d]
<1> DEFINE s == Needs[d]
           k == made[d]
<1>1. s \in Seq(Handles) /\ k \in 0 .. Len(s) /\ Len(s) \in Nat
  BY NeedsAre DEF Pointers
<1>2. ListOf(d) = [i \in 1 .. k |-> s[i]]
  BY ListIs
<1>3. Complete(d) <=> k = Len(s)
  BY DEF Complete
<1> HIDE DEF s, k
<1>4. SubSeq(s, 1, k) = [i \in 1 .. k |-> s[i]]
  <2>1. SubSeq(s, 1, k) = [i \in 1 .. (k - 1 + 1) |-> s[i + 1 - 1]]
    BY <1>1
  <2>2. k - 1 + 1 = k /\ \A i \in 1 .. k : i + 1 - 1 = i
    BY <1>1
  <2> QED BY <2>1, <2>2
<1>5. k = Len(s) => s = [i \in 1 .. k |-> s[i]]
  BY <1>1
<1> QED BY <1>2, <1>3, <1>4, <1>5 DEF s, k

-----------------------------------------------------------------------------
(* StartUp: what a device is asked for                                     *)

\* Every mount has one of its device's values, or none yet.
MountsTyped == \A d \in Devices : mount[d] \in MountValues[d] \cup {"none"}

\* What udiFeature(device, id) finds: the feature of what the device became.
Found(device, id) ==
  IF HasFeature(Became(device), id) THEN [device |-> Became(device), feature |-> id] ELSE Null

\* The macro expands to one test for every feature of a list.
LEMMA CasesAre ==
  ASSUME NEW d \in Devices, NEW c \in DOMAIN Lists[d]
  PROVE  Cases(Lists[d][c]) = ToSet(Lists[d][c])
<1> DEFINE args == Lists[d][c]
           k == Len(args)
           numbers == [i \in 1 .. MaxArgs + 1 |-> MaxArgs + 1 - i]
           M == [f \in ToSet(args) |-> f]
<1>1. args \in Seq(ToSet(args)) /\ k \in Nat /\ k <= MaxArgs /\ MaxArgs \in Nat /\ DOMAIN args = 1 .. k
  BY StartUpAssumption
<1> HIDE DEF args
<1>2. (args \o numbers)[MaxArgs + 1] = numbers[MaxArgs + 1 - k]
  <2>1. numbers \in Seq(Int) /\ Len(numbers) = MaxArgs + 1
    BY <1>1
  <2>2. MaxArgs + 1 \in 1 .. k + (MaxArgs + 1) /\ ~(MaxArgs + 1 <= k)
    BY <1>1
  <2> HIDE DEF numbers
  <2> QED BY <1>1, <2>1, <2>2
<1>3. Picked(args) = k
  <2>1. MaxArgs + 1 - k \in 1 .. MaxArgs + 1
    BY <1>1
  <2>2. numbers[MaxArgs + 1 - k] = MaxArgs + 1 - (MaxArgs + 1 - k)
    BY <2>1
  <2>3. MaxArgs + 1 - (MaxArgs + 1 - k) = k
    BY <1>1
  <2> QED BY <1>2, <2>2, <2>3 DEF Picked
<1>4. \A i \in 1 .. k : args[i] \in ToSet(args) /\ M[args[i]] = args[i]
  BY <1>1 DEF ToSet
<1>5. UDI_FOR_EACH(M, args) = [i \in 1 .. k |-> args[i]]
  BY <1>3, <1>4 DEF UDI_FOR_EACH
<1>6. [i \in 1 .. k |-> args[i]] = args
  BY <1>1
<1>7. UDI_FOR_EACH(M, args) = args
  BY <1>5, <1>6
<1> QED BY <1>7, Zenon DEF Cases, args

\* The tests of a device's classes find what it lists.
LEMMA OwnIs ==
  ASSUME NEW d \in Devices, NEW id
  PROVE  Own(d, id) = IF HasFeature(d, id) THEN [device |-> d, feature |-> id] ELSE Null
<1>1. id \in ListsOf(d) <=> \E c \in DOMAIN Lists[d] : id \in Cases(Lists[d][c])
  BY DEF ListsOf
<1>2. id \in ListsOf(d) <=> HasFeature(d, id)
  BY <1>1, CasesAre DEF HasFeature
<1> QED BY <1>2 DEF Own

\* The device itself or, if it hosts another, that one.
Hosted(d) == IF Host(d) = Null THEN d ELSE Host(d)

\* Hosting stays among the devices.
LEMMA HostedType == ASSUME MountsTyped, NEW d \in Devices PROVE Hosted(d) \in Devices
  BY StartUpAssumption DEF MountsTyped, Hosted, Host

\* The recursion of Became(d), as an equation, and its solution.
BecameBy(f, d, m) ==
  f = [n \in 0 .. m |-> IF n = 0 THEN d
                        ELSE IF Host(f[n - 1]) = Null THEN f[n - 1] ELSE Host(f[n - 1])]

\* It has a solution, which goes from each device to the one it hosts.
LEMMA BecameExists ==
  ASSUME MountsTyped, NEW d \in Devices, NEW m \in Nat
  PROVE  \E f : BecameBy(f, d, m)
<1> DEFINE g == [p \in Nat \X Devices |-> Hosted(p[2])]
<1>1. g \in [Nat \X Devices -> Devices]
  BY HostedType
<1>2. PICK f : Iterates(f, Devices, d, g, m)
  <2> HIDE DEF g
  <2> QED BY <1>1, RecursionExists
<1>3. \A n \in 1 .. m : f[n] = Hosted(f[n - 1])
  <2> TAKE n \in 1 .. m
  <2>1. n - 1 \in 0 .. m /\ n \in Nat
    OBVIOUS
  <2> HIDE DEF g
  <2>2. f[n - 1] \in Devices /\ f[n] = g[<<n, f[n - 1]>>]
    BY <1>2, <2>1 DEF Iterates
  <2> QED BY <2>1, <2>2 DEF g
<1> DEFINE r == [n \in 0 .. m |-> IF n = 0 THEN d
                        ELSE IF Host(f[n - 1]) = Null THEN f[n - 1] ELSE Host(f[n - 1])]
<1>4. \A n \in 0 .. m : f[n] = r[n]
  <2> TAKE n \in 0 .. m
  <2>1. CASE n = 0
    BY <1>2, <2>1 DEF Iterates
  <2>2. CASE n # 0
    <3>1. n \in 1 .. m
      BY <2>2
    <3> QED BY <1>3, <2>2, <3>1 DEF Hosted
  <2> QED BY <2>1, <2>2
<1>5. f = [n \in 0 .. m |-> f[n]] /\ r = [n \in 0 .. m |-> r[n]]
  BY <1>2 DEF Iterates
<1>6. f = r
  BY <1>4, <1>5
<1> QED BY <1>6, Zenon DEF BecameBy

\* What a solution does.
LEMMA BecameSteps ==
  ASSUME MountsTyped, NEW d \in Devices, NEW m \in Nat, NEW f, BecameBy(f, d, m)
  PROVE  f[0] = d /\ (\A n \in 1 .. m : f[n] = Hosted(f[n - 1])) /\ \A n \in 0 .. m : f[n] \in Devices
<1>1. \A n \in 0 .. m : f[n] = IF n = 0 THEN d
                          ELSE IF Host(f[n - 1]) = Null THEN f[n - 1] ELSE Host(f[n - 1])
  BY Zenon DEF BecameBy
<1>2. f[0] = d /\ \A n \in 1 .. m : f[n] = Hosted(f[n - 1])
  BY <1>1 DEF Hosted
<1>3. \A n \in 0 .. m : f[n] \in Devices
  <2> DEFINE N == {n \in Nat : n \in 0 .. m => f[n] \in Devices}
  <2>1. 0 \in N
    BY <1>2
  <2>2. ASSUME NEW n \in N \cap Nat PROVE n + 1 \in N
    <3>1. SUFFICES ASSUME n + 1 \in 0 .. m PROVE f[n + 1] \in Devices
      OBVIOUS
    <3>2. n \in 0 .. m /\ n + 1 \in 1 .. m /\ f[n] \in Devices /\ n + 1 - 1 = n
      BY <2>2, <3>1
    <3>3. f[n + 1] = Hosted(f[n])
      BY <1>2, <3>2
    <3> QED BY <3>2, <3>3, HostedType
  <2> HIDE DEF N
  <2>3. Nat \subseteq N
    BY <2>1, <2>2, AllNaturals
  <2> QED BY <2>3 DEF N
<1> QED BY <1>2, <1>3

\* What a device becomes in at most m steps of hosting.
Reached(d, m) == (CHOOSE f : BecameBy(f, d, Cardinality(Devices)))[m]

\* The first step of hosting and the ones after it are one walk.
LEMMA ReachedIs ==
  ASSUME MountsTyped
  PROVE  /\ Cardinality(Devices) \in Nat
         /\ \A d \in Devices : Became(d) = Reached(d, Cardinality(Devices))
         /\ \A d \in Devices, n \in 0 .. Cardinality(Devices) : Reached(d, n) \in Devices
         /\ \A d \in Devices : Reached(d, 0) = d
         /\ \A d \in Devices, n \in 1 .. Cardinality(Devices) :
              Reached(d, n) = Reached(Hosted(d), n - 1)
<1> DEFINE K == Cardinality(Devices)
           hosts(d) == CHOOSE f : BecameBy(f, d, K)
<1>1. K \in Nat
  BY StartUpAssumption, FS_CardinalityType
<1>2. \A d : Became(d) = hosts(d)[K]
  BY Zenon DEF Became, BecameBy
<1> HIDE DEF K
<1>3. ASSUME NEW d \in Devices PROVE BecameBy(hosts(d), d, K)
  BY <1>1, BecameExists
<1> HIDE DEF hosts
<1>4. \A d \in Devices : /\ hosts(d)[0] = d /\ \A n \in 1 .. K : hosts(d)[n] = Hosted(hosts(d)[n - 1])
                         /\ \A n \in 0 .. K : hosts(d)[n] \in Devices
  BY <1>1, <1>3, BecameSteps
<1>5. \A d, n : Reached(d, n) = hosts(d)[n]
  BY Zenon DEF Reached, hosts, K
<1>6. ASSUME NEW d \in Devices, NEW n \in 1 .. K PROVE hosts(d)[n] = hosts(Hosted(d))[n - 1]
  <2> DEFINE N == {k \in Nat : k + 1 \in 1 .. K => hosts(d)[k + 1] = hosts(Hosted(d))[k]}
  <2>1. Hosted(d) \in Devices
    BY HostedType
  <2>2. 0 \in N
    <3>1. SUFFICES ASSUME 0 + 1 \in 1 .. K PROVE hosts(d)[0 + 1] = hosts(Hosted(d))[0]
      OBVIOUS
    <3>2. hosts(d)[1] = Hosted(hosts(d)[1 - 1])
      BY <1>4, <3>1
    <3> QED BY <1>4, <2>1, <3>2
  <2>3. ASSUME NEW k \in N \cap Nat PROVE k + 1 \in N
    <3>1. SUFFICES ASSUME k + 1 + 1 \in 1 .. K PROVE hosts(d)[k + 1 + 1] = hosts(Hosted(d))[k + 1]
      OBVIOUS
    <3>2. k + 1 \in 1 .. K /\ k + 1 + 1 - 1 = k + 1 /\ k + 1 - 1 = k
      BY <1>1, <2>3, <3>1
    <3>3. hosts(d)[k + 1] = hosts(Hosted(d))[k]
      BY <2>3, <3>2
    <3>4. hosts(d)[k + 1 + 1] = Hosted(hosts(d)[k + 1 + 1 - 1])
      BY <1>4, <3>1
    <3>5. hosts(Hosted(d))[k + 1] = Hosted(hosts(Hosted(d))[k + 1 - 1])
      BY <1>4, <2>1, <3>2
    <3> HIDE DEF N
    <3> QED BY <3>2, <3>3, <3>4, <3>5
  <2> HIDE DEF N
  <2>4. Nat \subseteq N
    BY <2>2, <2>3, AllNaturals
  <2>5. n - 1 \in N /\ n - 1 + 1 = n
    BY <1>1, <2>4
  <2> QED BY <2>5 DEF N
<1>7. \A d \in Devices, n \in 0 .. K : Reached(d, n) \in Devices
  BY <1>4, <1>5
<1>8. \A d \in Devices : Became(d) = Reached(d, K) /\ Reached(d, 0) = d
  BY <1>2, <1>4, <1>5
<1>9. \A d \in Devices, n \in 1 .. K : Reached(d, n) = Reached(Hosted(d), n - 1)
  BY <1>5, <1>6
<1> QED BY <1>1, <1>7, <1>8, <1>9 DEF K

\* The recursion of udiFeature(), as an equation.
AskBy(f, id, m) ==
  f = [n \in 0 .. m |->
         [d \in Devices |-> IF n = 0 \/ Host(d) = Null THEN Own(d, id) ELSE f[n - 1][Host(d)]]]

\* It has a solution.
LEMMA AskExists ==
  ASSUME MountsTyped, NEW id, NEW m \in Nat
  PROVE  \E f : AskBy(f, id, m)
<1> DEFINE Q == [Devices -> {Own(d, id) : d \in Devices}]
           a == [d \in Devices |-> Own(d, id)]
           g == [p \in Nat \X Q |->
                   [d \in Devices |-> IF Host(d) = Null THEN Own(d, id) ELSE p[2][Host(d)]]]
<1>1. a \in Q
  OBVIOUS
<1>2. \A d \in Devices : Host(d) # Null => Host(d) \in Devices
  BY HostedType DEF Hosted
<1>3. g \in [Nat \X Q -> Q]
  BY <1>2
<1> HIDE DEF Q, a
<1>4. PICK f : Iterates(f, Q, a, g, m)
  <2> HIDE DEF g
  <2> QED BY <1>1, <1>3, RecursionExists
<1>5. \A n \in 1 .. m :
        f[n] = [d \in Devices |-> IF Host(d) = Null THEN Own(d, id) ELSE f[n - 1][Host(d)]]
  <2> TAKE n \in 1 .. m
  <2>1. n - 1 \in 0 .. m /\ n \in Nat
    OBVIOUS
  <2>2. f[n - 1] \in Q /\ f[n] = g[<<n, f[n - 1]>>]
    <3> HIDE DEF g
    <3> QED BY <1>4, <2>1 DEF Iterates
  <2> QED BY <2>1, <2>2
<1> DEFINE r == [n \in 0 .. m |->
         [d \in Devices |-> IF n = 0 \/ Host(d) = Null THEN Own(d, id) ELSE f[n - 1][Host(d)]]]
<1>6. \A n \in 0 .. m : f[n] = r[n]
  <2> TAKE n \in 0 .. m
  <2>1. CASE n = 0
    <3>1. r[0] = [d \in Devices |-> Own(d, id)]
      BY <2>1
    <3> QED BY <1>4, <2>1, <3>1 DEF Iterates, a
  <2>2. CASE n # 0
    <3>1. n \in 1 .. m
      BY <2>2
    <3>2. r[n] = [d \in Devices |-> IF Host(d) = Null THEN Own(d, id) ELSE f[n - 1][Host(d)]]
      BY <2>2
    <3> QED BY <1>5, <3>1, <3>2
  <2> QED BY <2>1, <2>2
<1>7. f = [n \in 0 .. m |-> f[n]] /\ r = [n \in 0 .. m |-> r[n]]
  BY <1>4 DEF Iterates
<1>8. f = r
  <2> HIDE DEF r
  <2> QED BY <1>6, <1>7
<1> QED BY <1>8, Zenon DEF AskBy

\* udiFeature() asks what the device became.
LEMMA UdiFeatureIs ==
  ASSUME MountsTyped, NEW device \in Devices, NEW id
  PROVE  udiFeature(device, id) = Found(device, id) /\ Became(device) \in Devices
<1> DEFINE K == Cardinality(Devices)
           ask == CHOOSE f : AskBy(f, id, K)
<1>1. K \in Nat
  BY ReachedIs
<1>2. udiFeature(device, id) = ask[K][device]
  BY Zenon DEF udiFeature, AskBy
<1>3. AskBy(ask, id, K)
  BY <1>1, AskExists
<1> HIDE DEF ask
<1>4. \A n \in 0 .. K, d \in Devices :
        ask[n][d] = IF n = 0 \/ Host(d) = Null THEN Own(d, id) ELSE ask[n - 1][Host(d)]
  <2>1. \A n \in 0 .. K : ask[n] = [d \in Devices |->
          IF n = 0 \/ Host(d) = Null THEN Own(d, id) ELSE ask[n - 1][Host(d)]]
    BY <1>3, Zenon DEF AskBy
  <2> QED BY <2>1
<1>5. \A d \in Devices, n \in 1 .. K : Reached(d, n) = Reached(Hosted(d), n - 1)
  BY ReachedIs
<1>6. \A n \in 0 .. K : \A d \in Devices : ask[n][d] = Own(Reached(d, n), id)
  <2> DEFINE N == {n \in Nat : n \in 0 .. K =>
                     \A d \in Devices : Own(Reached(d, n), id) = ask[n][d]
                                        /\ (Host(d) = Null => Reached(d, n) = d)}
  <2>1. 0 \in N
    <3>1. 0 \in 0 .. K
      BY <1>1
    <3>2. \A d \in Devices : ask[0][d] = Own(d, id) /\ Reached(d, 0) = d
      BY <1>4, <3>1, ReachedIs
    <3> QED BY <3>2
  <2>2. ASSUME NEW n \in N \cap Nat PROVE n + 1 \in N
    <3>1. SUFFICES ASSUME n + 1 \in 0 .. K, NEW d \in Devices
                   PROVE Own(Reached(d, n + 1), id) = ask[n + 1][d]
                         /\ (Host(d) = Null => Reached(d, n + 1) = d)
      OBVIOUS
    <3>2. n \in 0 .. K /\ n + 1 \in 1 .. K /\ n + 1 - 1 = n /\ n + 1 # 0
      BY <1>1, <2>2, <3>1
    <3>3. Reached(d, n + 1) = Reached(Hosted(d), n + 1 - 1)
      BY <1>5, <3>2
    <3>4. ask[n + 1][d] = IF n + 1 = 0 \/ Host(d) = Null THEN Own(d, id) ELSE ask[n + 1 - 1][Host(d)]
      BY <1>4, <3>1
    <3>5. \A e \in Devices : Own(Reached(e, n), id) = ask[n][e] /\ (Host(e) = Null => Reached(e, n) = e)
      BY <2>2, <3>2
    <3> HIDE DEF N, K
    <3>6. CASE Host(d) = Null
      <4>1. Hosted(d) = d
        BY <3>6 DEF Hosted
      <4>2. Reached(d, n + 1) = d
        BY <3>2, <3>3, <3>5, <3>6, <4>1
      <4> QED BY <3>4, <3>6, <4>2
    <3>7. CASE Host(d) # Null
      <4>1. Hosted(d) = Host(d) /\ Host(d) \in Devices
        BY <3>7, HostedType DEF Hosted
      <4>2. Own(Reached(Host(d), n), id) = ask[n][Host(d)]
        BY <3>5, <4>1
      <4> QED BY <3>2, <3>3, <3>4, <3>7, <4>1, <4>2
    <3> QED BY <3>6, <3>7
  <2> HIDE DEF N
  <2>3. Nat \subseteq N
    BY <2>1, <2>2, AllNaturals
  <2> QED BY <2>3 DEF N
<1>7. /\ Became(device) = Reached(device, K) /\ Became(device) \in Devices
      /\ ask[K][device] = Own(Reached(device, K), id)
  BY <1>1, <1>6, ReachedIs
<1> QED BY <1>2, <1>7, OwnIs DEF Found

-----------------------------------------------------------------------------
(* StartUp: the passes                                                     *)

\* The parts of the types that are counted with.
Counted ==
  /\ tree \in Seq(Devices) /\ IsInjective(tree)
  /\ pass \in Nat \ {0}
  /\ mountPass \in [Devices -> 0 .. pass]
  /\ calls \in [Devices -> {0, 1}]
  /\ DOMAIN mount = Devices
  /\ MountsTyped

\* A device seen is in the tree, whole, with its mounts applied.
SeenIsMounted ==
  \A d \in Devices : mountPass[d] # 0 => d \in ToSet(tree) /\ mount[d] # "none" /\ Complete(d)

\* mounted() is called only on devices seen.
CalledWasSeen == \A d \in Devices : calls[d] = 1 => mountPass[d] # 0

\* No pass leaves behind a device whose mounts it applied.
NoneLeftBehind ==
  \A d \in Devices : mountPass[d] # 0 /\ mountPass[d] < pass => calls[d] = 1

\* When the tree has stopped growing every device has been called.
AllCalled ==
  phase \notin {"see", "call"} => \A d \in Devices : d \in ToSet(tree) => calls[d] = 1

PassInv == Counted /\ SeenIsMounted /\ CalledWasSeen /\ NoneLeftBehind /\ AllCalled

StartInv == Pointers /\ PassInv

\* The root is alone and has not been seen, and no handle is constructed.
LEMMA StartInitInv == StartInit => StartInv
<1> SUFFICES ASSUME StartInit PROVE StartInv
  OBVIOUS
<1>1. tree \in Seq(Devices) /\ IsInjective(tree)
  BY StartUpAssumption DEF StartInit, IsInjective
<1>2. Counted
  BY <1>1 DEF StartInit, Counted, MountsTyped
<1>3. SeenIsMounted /\ CalledWasSeen /\ NoneLeftBehind /\ AllCalled
  BY DEF StartInit, SeenIsMounted, CalledWasSeen, NoneLeftBehind, AllCalled
<1>4. Pointers
  BY NeedsAre DEF StartInit, Pointers, At
<1> QED BY <1>2, <1>3, <1>4 DEF StartInv, PassInv

\* A handle joins the end of its owner's list.
LEMMA ConstructPointers ==
  ASSUME Pointers, NEW d \in Devices, Construct(d)
  PROVE  Pointers' /\ made' = [made EXCEPT ![d] = @ + 1]
<1> DEFINE k == made[d]
           h == Needs[d][k + 1]
<1>1. /\ k \in Nat /\ k + 1 \in 1 .. Len(Needs[d]) /\ made' = [made EXCEPT ![d] = k + 1] /\ Join(d, h)
      /\ \A e \in Devices : made[e] \in Nat
  BY NeedsAre DEF Construct, Complete, Pointers
<1>2. h \in Handles /\ h # Null
  BY <1>1, NeedsAre, StartUpAssumption
<1>3. \A e \in Devices : made'[e] = (IF e = d THEN k + 1 ELSE made[e]) /\ Len(Needs[e]) \in Nat
  BY <1>1, NeedsAre DEF Pointers
<1>4. made' \in [Devices -> Nat] /\ \A e \in Devices : made'[e] \in 0 .. Len(Needs[e])
  BY <1>1, <1>3 DEF Pointers
<1>5. CASE k = 0
  <2>1. udiNeeds[d] = Null
    BY <1>5 DEF Pointers, At
  <2>2. udiNeeds' = [udiNeeds EXCEPT ![d] = h] /\ next' = next
    BY <1>1, <2>1 DEF Join
  <2>3. \A e \in Devices : udiNeeds'[e] = At(e, 1)'
    BY <1>1, <1>3, <1>5, <2>2 DEF Pointers, At
  <2>4. \A e \in Devices : \A i \in 1 .. Len(Needs[e]) :
          next'[Needs[e][i]] = IF i < made'[e] THEN Needs[e][i + 1] ELSE Null
    BY <1>3, <1>5, <2>2 DEF Pointers
  <2>5. udiNeeds' \in [Devices -> Handles \cup {Null}] /\ next' \in [Handles -> Handles \cup {Null}]
    BY <1>2, <2>2 DEF Pointers
  <2> QED BY <1>1, <1>4, <2>3, <2>4, <2>5 DEF Pointers
<1>6. CASE k # 0
  <2> DEFINE last == Needs[d][k]
  <2>1. udiNeeds[d] # Null /\ last \in Handles /\ k \in 1 .. Len(Needs[d])
    <3>1. k \in 1 .. Len(Needs[d]) /\ 1 \in 1 .. Len(Needs[d]) /\ 1 \in 1 .. k
      BY <1>1, <1>6, NeedsAre
    <3>2. Needs[d][k] \in Handles /\ Needs[d][1] \in Handles
      BY <3>1, NeedsAre
    <3> QED BY <3>1, <3>2, StartUpAssumption DEF Pointers, At
  <2>2. Last(ListOf(d)) = last
    BY <1>6, LastIs
  <2>3. next' = [next EXCEPT ![last] = h] /\ udiNeeds' = udiNeeds
    BY <1>1, <2>1, <2>2 DEF Join
  <2>4. \A e \in Devices : udiNeeds'[e] = At(e, 1)'
    BY <1>1, <1>3, <1>6, <2>3 DEF Pointers, At
  <2>5. \A e \in Devices : \A i \in 1 .. Len(Needs[e]) :
          next'[Needs[e][i]] = IF i < made'[e] THEN Needs[e][i + 1] ELSE Null
    <3> TAKE e \in Devices
    <3> TAKE i \in 1 .. Len(Needs[e])
    <3>1. Needs[e][i] \in Handles
      BY NeedsAre
    <3>2. next[Needs[e][i]] = IF i < made[e] THEN Needs[e][i + 1] ELSE Null
      BY DEF Pointers
    <3>3. Needs[e][i] = last => e = d /\ i = k
      BY <2>1, NeedsAre, StartUpAssumption
    <3>4. CASE e = d /\ i = k
      BY <1>1, <1>3, <2>1, <2>3, <3>4 DEF Pointers
    <3>5. CASE ~(e = d /\ i = k)
      <4>1. next'[Needs[e][i]] = next[Needs[e][i]]
        BY <2>3, <3>1, <3>3, <3>5
      <4>2. e # d => made'[e] = made[e]
        BY <1>3
      <4>3. e = d => (i < k + 1 <=> i < k)
        BY <1>1, <3>5
      <4> QED BY <1>3, <3>2, <4>1, <4>2, <4>3
    <3> QED BY <3>4, <3>5
  <2>6. udiNeeds' \in [Devices -> Handles \cup {Null}] /\ next' \in [Handles -> Handles \cup {Null}]
    BY <1>2, <2>1, <2>3 DEF Pointers
  <2> QED BY <1>1, <1>4, <2>4, <2>5, <2>6 DEF Pointers
<1> QED BY <1>1, <1>5, <1>6

\* A device under construction has not been seen.
LEMMA ConstructInv ==
  ASSUME StartInv, NEW d \in Devices, Construct(d)
  PROVE  StartInv'
<1>1. /\ UNCHANGED <<phase, tree, mount, mountPass, pass, calls>> /\ ~Complete(d)
      /\ Pointers' /\ made' = [made EXCEPT ![d] = @ + 1]
  BY ConstructPointers DEF StartInv, Construct
<1>2. \A e \in Devices : Complete(e) => Complete(e)'
  BY <1>1 DEF Complete, StartInv, Pointers
<1>3. Counted'
  BY <1>1 DEF StartInv, PassInv, Counted, MountsTyped
<1>4. SeenIsMounted'
  BY <1>1, <1>2 DEF StartInv, PassInv, SeenIsMounted
<1>5. CalledWasSeen' /\ NoneLeftBehind' /\ AllCalled'
  BY <1>1 DEF StartInv, PassInv, CalledWasSeen, NoneLeftBehind, AllCalled
<1> QED BY <1>1, <1>3, <1>4, <1>5 DEF StartInv, PassInv

\* A device is seen, in this pass.
LEMMA SeeInv ==
  ASSUME StartInv, NEW d \in Devices, NEW value \in MountValues[d], See(d, value)
  PROVE  StartInv'
<1> USE DEF StartInv, PassInv
<1>1. /\ mountPass' = [mountPass EXCEPT ![d] = pass] /\ mount' = [mount EXCEPT ![d] = value]
      /\ d \in ToSet(tree) /\ mountPass[d] = 0 /\ phase = "see" /\ Complete(d)
      /\ UNCHANGED <<phase, tree, made, udiNeeds, next, pass, calls>>
  BY DEF See, Mark
<1>2. value # "none"
  BY StartUpAssumption
<1>3. Counted'
  BY <1>1 DEF Counted, MountsTyped
<1>4. SeenIsMounted'
  BY <1>1, <1>2 DEF Counted, SeenIsMounted, Complete
<1>5. CalledWasSeen' /\ AllCalled'
  BY <1>1 DEF Counted, CalledWasSeen, AllCalled
<1>6. NoneLeftBehind'
  BY <1>1 DEF Counted, NoneLeftBehind
<1>7. Pointers'
  BY <1>1 DEF Pointers, At
<1> QED BY <1>3, <1>4, <1>5, <1>6, <1>7

\* A device due is called, and the tree grows.
LEMMA MountedInv ==
  ASSUME StartInv, NEW d \in Devices, Mounted(d)
  PROVE  StartInv'
<1> USE DEF StartInv, PassInv
<1> DEFINE joining == Grows(d, mount[d]) \ ToSet(tree)
           grown == SetToSeq(joining)
<1>1. /\ calls' = [calls EXCEPT ![d] = @ + 1] /\ tree' = tree \o grown
      /\ calls[d] = 0 /\ mountPass[d] = pass /\ phase = "call"
      /\ UNCHANGED <<phase, made, udiNeeds, next, mount, mountPass, pass>>
  BY DEF Mounted, Due
<1>2. mount[d] \in MountValues[d]
  BY <1>1 DEF Counted, MountsTyped, SeenIsMounted
<1>3. IsFiniteSet(Grows(d, mount[d])) /\ Grows(d, mount[d]) \subseteq Devices
  BY <1>2, StartUpAssumption
<1>4. grown \in Seq(joining) /\ IsInjective(grown)
  <2>1. IsFiniteSet(joining)
    BY <1>3, FS_Difference
  <2> QED BY <2>1, SetToSeqIsSeq
<1>5. grown \in Seq(Devices) /\ \A i \in DOMAIN grown : grown[i] \notin ToSet(tree)
  <2> HIDE DEF grown
  <2>1. \A i \in DOMAIN grown : grown[i] \in joining
    BY <1>4
  <2>2. joining \subseteq Devices
    BY <1>3
  <2>3. grown \in Seq(Devices)
    <3> HIDE DEF joining
    <3> QED BY <1>4, <2>2
  <2> QED BY <2>1, <2>3
<1> HIDE DEF grown
<1>6. tree' \in Seq(Devices) /\ ToSet(tree) \subseteq ToSet(tree')
  BY <1>1, <1>5, InJoined DEF Counted
<1>7. IsInjective(tree')
  BY <1>1, <1>4, <1>5, JoinedOnce DEF Counted
<1>8. Counted'
  BY <1>1, <1>6, <1>7 DEF Counted, MountsTyped
<1>9. SeenIsMounted'
  BY <1>1, <1>6 DEF Counted, SeenIsMounted, Complete
<1>10. CalledWasSeen' /\ NoneLeftBehind' /\ AllCalled'
  <2>1. pass # 0
    BY DEF Counted
  <2> QED BY <1>1, <2>1 DEF Counted, CalledWasSeen, NoneLeftBehind, AllCalled
<1>11. Pointers'
  BY <1>1 DEF Pointers, At
<1> QED BY <1>8, <1>9, <1>10, <1>11

\* A pass ends when nobody it applied mounts to waits for mounted().
LEMMA EndOfPassInv ==
  ASSUME StartInv, EndOfPass
  PROVE  StartInv'
<1> USE DEF StartInv, PassInv
<1>1. UNCHANGED <<tree, made, udiNeeds, next, mount, mountPass, calls>>
  BY DEF EndOfPass
<1>2. \A d \in Devices : mountPass[d] = pass => calls[d] = 1
  BY DEF EndOfPass, Due, Counted, SeenIsMounted
<1>3. \A d \in Devices : mountPass[d] # 0 => calls[d] = 1
  BY <1>2 DEF Counted, NoneLeftBehind
<1>4. Pointers'
  BY <1>1 DEF Pointers, At
<1>5. CASE Grown
  <2>1. phase' = "see" /\ pass' = pass + 1
    BY <1>5 DEF EndOfPass
  <2>2. Counted'
    BY <1>1, <2>1 DEF Counted, MountsTyped
  <2>3. SeenIsMounted' /\ CalledWasSeen' /\ NoneLeftBehind' /\ AllCalled'
    BY <1>1, <1>3, <2>1 DEF SeenIsMounted, CalledWasSeen, NoneLeftBehind, AllCalled, Complete
  <2> QED BY <1>4, <2>2, <2>3
<1>6. CASE ~Grown
  <2>1. phase' = "resolve" /\ pass' = pass
    BY <1>6 DEF EndOfPass
  <2>2. \A d \in ToSet(tree) : mountPass[d] # 0
    BY <1>6 DEF Grown, AllSeen
  <2>3. Counted' /\ SeenIsMounted' /\ CalledWasSeen' /\ NoneLeftBehind'
    BY <1>1, <2>1 DEF Counted, MountsTyped, SeenIsMounted, CalledWasSeen, NoneLeftBehind, Complete
  <2>4. AllCalled'
    BY <1>1, <1>3, <2>2 DEF AllCalled
  <2> QED BY <1>4, <2>3, <2>4
<1> QED BY <1>5, <1>6

\* Nothing else sees, calls or grows, nor goes back to a pass.
LEMMA OtherInv ==
  ASSUME StartInv, UNCHANGED <<tree, made, udiNeeds, next, mount, mountPass, pass, calls>>,
         phase \in {"see", "call"} \/ phase' \notin {"see", "call"},
         phase' \in {"see", "call"} \/ phase \notin {"see", "call"}
  PROVE  StartInv'
  BY DEF StartInv, Pointers, At, PassInv, Counted, MountsTyped, SeenIsMounted, Complete,
         CalledWasSeen, NoneLeftBehind, AllCalled

\* Every step keeps the lists and the passes right.
LEMMA StartNextInv == StartInv /\ [StartNext]_startVars => StartInv'
<1> SUFFICES ASSUME StartInv, [StartNext]_startVars PROVE StartInv'
  OBVIOUS
<1>1. ASSUME NEW d \in Devices, Construct(d) PROVE StartInv'
  BY <1>1, ConstructInv
<1>2. ASSUME NEW d \in Devices, NEW value \in MountValues[d], See(d, value) PROVE StartInv'
  BY <1>2, SeeInv
<1>3. ASSUME NEW d \in Devices, Mounted(d) PROVE StartInv'
  BY <1>3, MountedInv
<1>4. CASE EndOfSee
  BY <1>4, OtherInv DEF EndOfSee
<1>5. CASE EndOfPass
  BY <1>5, EndOfPassInv
<1>6. ASSUME NEW h \in Handles, Resolve(h) PROVE StartInv'
  BY <1>6, OtherInv DEF Resolve
<1>7. CASE EndOfResolve
  <2>1. phase = "resolve" /\ phase' \in {"stopped", "begin"}
    BY <1>7 DEF EndOfResolve
  <2> QED BY <1>7, <2>1, OtherInv DEF EndOfResolve
<1>8. CASE Begin
  BY <1>8, OtherInv DEF Begin
<1>9. CASE UNCHANGED startVars
  BY <1>9, OtherInv DEF startVars
<1> QED BY <1>1, <1>2, <1>3, <1>4, <1>5, <1>6, <1>7, <1>8, <1>9 DEF StartNext

-----------------------------------------------------------------------------
(* StartUp: the resolution                                                 *)

\* Every handle of the tree, in the order of the tree and the declarations.
All == FlattenSeq([i \in DOMAIN tree |-> Needs[tree[i]]])

\* All is a sequence with every handle of every device of the tree.
LEMMA AllIs ==
  ASSUME tree \in Seq(Devices)
  PROVE  /\ All \in Seq(Handles)
         /\ \A i \in DOMAIN tree : ToSet(Needs[tree[i]]) \subseteq ToSet(All)
<1> DEFINE seqs == [i \in DOMAIN tree |-> Needs[tree[i]]]
<1>1. DOMAIN tree = 1 .. Len(tree) /\ Len(tree) \in Nat /\ \A i \in DOMAIN tree : tree[i] \in Devices
  OBVIOUS
<1>2. \A i \in DOMAIN tree : Needs[tree[i]] \in Seq(Handles) /\ seqs[i] = Needs[tree[i]]
  BY <1>1, NeedsAre
<1>3. seqs \in Seq(Seq(Handles)) /\ DOMAIN seqs = DOMAIN tree
  BY <1>1, <1>2
<1> HIDE DEF seqs
<1>4. FlattenSeq(seqs) \in Seq(Handles) /\ \A i \in DOMAIN seqs : ToSet(seqs[i]) \subseteq ToSet(FlattenSeq(seqs))
  BY <1>3, FlattenIs
<1>5. All = FlattenSeq(seqs)
  BY DEF All, seqs
<1> QED BY <1>2, <1>3, <1>4, <1>5

\* Once the passes are over the framework's walk finds them all.
LEMMA WalkIs ==
  ASSUME StartInv, phase \notin {"see", "call"}
  PROVE  Walk = All
<1>1. \A i \in DOMAIN tree : tree[i] \in Devices /\ tree[i] \in ToSet(tree)
  BY DEF StartInv, PassInv, Counted, ToSet
<1>2. \A i \in DOMAIN tree : Complete(tree[i])
  BY <1>1 DEF StartInv, PassInv, AllCalled, CalledWasSeen, SeenIsMounted
<1>3. \A i \in DOMAIN tree : ListOf(tree[i]) = Needs[tree[i]]
  BY <1>1, <1>2, ListIsSubSeq DEF StartInv
<1>4. [i \in DOMAIN tree |-> ListOf(tree[i])] = [i \in DOMAIN tree |-> Needs[tree[i]]]
  BY <1>3
<1> QED BY <1>4, Zenon DEF Walk, All

\* The framework has asked for the first handles of All, has listed those of
\* them that are lacking, and has resolved the others.
ResolveInv ==
  /\ phase \in {"see", "call", "resolve", "begin", "scan", "stopped"}
  /\ DOMAIN feature = Handles
  /\ asked \in Seq(Handles)
  /\ phase \in {"see", "call"} => asked = Nothing
  /\ phase \notin {"see", "call", "resolve"} => asked = All
  /\ Len(asked) <= Len(All) /\ \A i \in 1 .. Len(asked) : asked[i] = All[i]
  /\ missing = Among(asked, Lacking)
  /\ \A i \in 1 .. Len(asked) : feature[asked[i]] = Found(From[asked[i]], Wanted[asked[i]])
  /\ phase = "stopped" => missing # Nothing
  /\ phase \in {"begin", "scan"} => missing = Nothing

\* Nothing is asked for at first.
LEMMA ResolveInit == StartInit => ResolveInv
<1> SUFFICES ASSUME StartInit PROVE ResolveInv
  OBVIOUS
<1>1. asked = Nothing /\ missing = Nothing /\ phase = "see" /\ DOMAIN feature = Handles
  BY DEF StartInit, Nothing
<1>2. Nothing \in Seq(Handles) /\ Len(Nothing) = 0
  BY DEF Nothing
<1>3. missing = Among(asked, Lacking)
  BY <1>1, AmongNone DEF Nothing
<1>4. Len(All) \in Nat
  BY StartInitInv, AllIs DEF StartInv, PassInv, Counted
<1> QED BY <1>1, <1>2, <1>3, <1>4 DEF ResolveInv

\* In the passes nothing is asked for.
LEMMA PassesResolve ==
  ASSUME StartInv', ResolveInv, phase \in {"see", "call"}, phase' \in {"see", "call", "resolve"},
         UNCHANGED <<feature, asked, missing>>
  PROVE  ResolveInv'
<1>1. asked = Nothing /\ asked' = Nothing /\ missing' = missing /\ feature' = feature
  BY DEF ResolveInv
<1>2. Nothing \in Seq(Handles) /\ Len(Nothing) = 0
  BY DEF Nothing
<1>3. \A S : Among(Nothing, S) = Nothing
  BY AmongNone DEF Nothing
<1>4. missing = Nothing
  BY <1>1, <1>3 DEF ResolveInv
<1>5. Len(All') \in Nat
  <2>1. tree' \in Seq(Devices)
    BY DEF StartInv, PassInv, Counted
  <2>2. \A t \in Seq(Devices) : FlattenSeq([i \in DOMAIN t |-> Needs[t[i]]]) \in Seq(Handles)
    <3> TAKE t \in Seq(Devices)
    <3> DEFINE seqs == [i \in DOMAIN t |-> Needs[t[i]]]
    <3>1. DOMAIN t = 1 .. Len(t) /\ Len(t) \in Nat /\ \A i \in DOMAIN t : t[i] \in Devices
      OBVIOUS
    <3>2. \A i \in DOMAIN t : Needs[t[i]] \in Seq(Handles)
      BY <3>1, NeedsAre
    <3>3. seqs \in Seq(Seq(Handles))
      BY <3>1, <3>2
    <3> HIDE DEF seqs
    <3> QED BY <3>3, FlattenIs DEF seqs
  <2>3. All' \in Seq(Handles)
    BY <2>1, <2>2 DEF All
  <2> QED BY <2>3
<1>6. missing' = Among(asked', Lacking')
  BY <1>1, <1>3, <1>4
<1> QED BY <1>1, <1>2, <1>4, <1>5, <1>6 DEF ResolveInv

\* What a device became, and so what is lacking, depends on the mounts only.
LEMMA BecameStays ==
  ASSUME mount' = mount
  PROVE  /\ Lacking' = Lacking
         /\ \A d, id : Found(d, id)' = Found(d, id)
<1>1. \A d : Became(d)' = Became(d)
  BY Zenon DEF Became, Host
<1>2. Lacking' = Lacking
  BY <1>1 DEF Lacking, HasFeature
<1> QED BY <1>1, <1>2 DEF Found, HasFeature

\* After them the handles that are asked for are those that were listed.
LEMMA StandsResolve ==
  ASSUME ResolveInv, UNCHANGED <<tree, mount, feature, asked, missing>>,
         phase \in {"see", "call"} <=> phase' \in {"see", "call"},
         phase' \in {"see", "call", "resolve", "begin", "scan", "stopped"},
         phase' \notin {"see", "call", "resolve"} => asked = All,
         phase' = "stopped" => missing # Nothing,
         phase' \in {"begin", "scan"} => missing = Nothing
  PROVE  ResolveInv'
<1>1. Lacking' = Lacking /\ \A d, id : Found(d, id)' = Found(d, id)
  BY BecameStays
<1>2. All' = All
  BY DEF All
<1> QED BY <1>1, <1>2 DEF ResolveInv

\* One handle more is asked for.
LEMMA ResolveResolve ==
  ASSUME StartInv, ResolveInv, NEW h \in Handles, Resolve(h)
  PROVE  ResolveInv'
<1>1. /\ phase = "resolve" /\ phase' = phase /\ tree' = tree /\ mount' = mount
      /\ Len(asked) < Len(Walk) /\ h = Walk[Len(asked) + 1]
      /\ feature' = [feature EXCEPT ![h] = udiFeature(From[h], Wanted[h])]
      /\ missing' = IF feature'[h] = Null THEN missing \o Listed(h) ELSE missing
      /\ asked' = Append(asked, h)
  BY DEF Resolve
<1>2. Walk = All
  BY <1>1, WalkIs
<1>3. Lacking' = Lacking /\ \A d, id : Found(d, id)' = Found(d, id)
  BY <1>1, BecameStays
<1>4. All' = All /\ All \in Seq(Handles)
  BY <1>1, AllIs DEF All, StartInv, PassInv, Counted
<1>5. /\ asked \in Seq(Handles) /\ asked' \in Seq(Handles) /\ Len(asked') = Len(asked) + 1
      /\ Len(asked) \in Nat /\ asked'[Len(asked) + 1] = h
      /\ \A i \in 1 .. Len(asked) : asked'[i] = asked[i]
  BY <1>1 DEF ResolveInv
<1>6. Len(asked') <= Len(All) /\ \A i \in 1 .. Len(asked') : asked'[i] = All[i]
  <2>1. Len(asked) + 1 <= Len(All) /\ h = All[Len(asked) + 1]
    BY <1>1, <1>2, <1>4, <1>5
  <2>2. \A i \in 1 .. Len(asked) : asked'[i] = All[i]
    BY <1>5 DEF ResolveInv
  <2> QED BY <1>5, <2>1, <2>2
<1>7. From[h] \in Devices /\ MountsTyped
  BY StartUpAssumption DEF StartInv, PassInv, Counted
<1>8. udiFeature(From[h], Wanted[h]) = Found(From[h], Wanted[h]) /\ Became(From[h]) \in Devices
  BY <1>7, UdiFeatureIs
<1>9. DOMAIN feature' = Handles /\ feature'[h] = Found(From[h], Wanted[h])
      /\ \A k \in Handles : k # h => feature'[k] = feature[k]
  BY <1>1, <1>8 DEF ResolveInv
<1>10. \A i \in 1 .. Len(asked') : feature'[asked'[i]] = Found(From[asked'[i]], Wanted[asked'[i]])
  <2> TAKE i \in 1 .. Len(asked')
  <2>1. CASE asked'[i] = h
    BY <1>9, <2>1
  <2>2. CASE asked'[i] # h
    <3>1. i \in 1 .. Len(asked) /\ asked'[i] = asked[i] /\ asked[i] \in Handles
      BY <1>5, <2>2
    <3>2. feature[asked[i]] = Found(From[asked[i]], Wanted[asked[i]])
      BY <3>1 DEF ResolveInv
    <3> QED BY <1>9, <2>2, <3>1, <3>2
  <2> QED BY <2>1, <2>2
<1>11. feature'[h] = Null <=> h \in Lacking
  <2> DEFINE found == [device |-> Became(From[h]), feature |-> Wanted[h]]
  <2>1. found \in [device : Devices, feature : Features]
    BY <1>8 DEF Features
  <2> HIDE DEF found
  <2>2. found # Null
    BY <2>1, StartUpAssumption
  <2>3. Found(From[h], Wanted[h]) = IF HasFeature(Became(From[h]), Wanted[h]) THEN found ELSE Null
    BY DEF Found, found
  <2>4. h \in Lacking <=> ~HasFeature(Became(From[h]), Wanted[h])
    BY DEF Lacking
  <2> QED BY <1>9, <2>2, <2>3, <2>4
<1>12. missing' = Among(asked', Lacking)
  <2>1. missing = Among(asked, Lacking) /\ missing \in Seq(Handles)
    BY <1>5, AmongIs DEF ResolveInv
  <2>2. Among(asked', Lacking) = IF h \in Lacking THEN Append(missing, h) ELSE missing
    <3>1. \A S : Among(Append(asked, h), S)
                   = IF h \in S THEN Append(Among(asked, S), h) ELSE Among(asked, S)
      BY <1>5, AmongAppend
    <3> QED BY <1>1, <2>1, <3>1
  <2>3. missing \o Listed(h) = Append(missing, h)
    BY <2>1 DEF Listed
  <2> QED BY <1>1, <1>11, <2>2, <2>3
<1>13. missing' = Among(asked', Lacking') /\ Len(asked') <= Len(All')
       /\ \A i \in 1 .. Len(asked') : asked'[i] = All'[i]
  BY <1>3, <1>4, <1>6, <1>12
<1>14. \A i \in 1 .. Len(asked') :
         feature'[asked'[i]] = (IF HasFeature(Became(From[asked'[i]]), Wanted[asked'[i]])
           THEN [device |-> Became(From[asked'[i]]), feature |-> Wanted[asked'[i]]] ELSE Null)
  BY <1>10 DEF Found
<1>15. \A d : Became(d)' = Became(d)
  BY <1>1, Zenon DEF Became, Host
<1>16. (\A i \in 1 .. Len(asked) : feature[asked[i]] = Found(From[asked[i]], Wanted[asked[i]]))'
  BY <1>14, <1>15 DEF Found, HasFeature
<1> QED BY <1>1, <1>5, <1>9, <1>13, <1>16 DEF ResolveInv

\* Every step keeps the resolution right.
LEMMA ResolveNext ==
  ASSUME StartInv, StartInv', ResolveInv, [StartNext]_startVars
  PROVE  ResolveInv'
<1>1. ASSUME NEW d \in Devices, Construct(d) PROVE ResolveInv'
  BY <1>1, PassesResolve DEF Construct
<1>2. ASSUME NEW d \in Devices, NEW value \in MountValues[d], See(d, value) PROVE ResolveInv'
  BY <1>2, PassesResolve DEF See
<1>3. ASSUME NEW d \in Devices, Mounted(d) PROVE ResolveInv'
  BY <1>3, PassesResolve DEF Mounted
<1>4. CASE EndOfSee
  BY <1>4, PassesResolve DEF EndOfSee
<1>5. CASE EndOfPass
  BY <1>5, PassesResolve DEF EndOfPass
<1>6. ASSUME NEW h \in Handles, Resolve(h) PROVE ResolveInv'
  BY <1>6, ResolveResolve
<1>7. CASE EndOfResolve
  <2>1. /\ phase = "resolve" /\ Len(asked) = Len(Walk)
        /\ phase' = IF missing # << >> THEN "stopped" ELSE "begin"
        /\ UNCHANGED <<tree, mount, feature, asked, missing>>
    BY <1>7 DEF EndOfResolve
  <2>2. Walk = All /\ All \in Seq(Handles)
    BY <2>1, WalkIs, AllIs DEF StartInv, PassInv, Counted
  <2>3. asked = All
    <3>1. asked \in Seq(Handles) /\ Len(asked) = Len(All) /\ \A i \in 1 .. Len(asked) : asked[i] = All[i]
      BY <2>1, <2>2 DEF ResolveInv
    <3> QED BY <2>2, <3>1
  <2>4. (missing # << >>) = (missing # Nothing)
    BY DEF Nothing
  <2>5. (phase' = "stopped" /\ missing # Nothing) \/ (phase' = "begin" /\ missing = Nothing)
    BY <2>1, <2>4
  <2> QED BY <2>1, <2>3, <2>5, StandsResolve
<1>8. CASE Begin
  BY <1>8, StandsResolve DEF Begin, ResolveInv
<1>9. CASE UNCHANGED startVars
  BY <1>9, StandsResolve DEF startVars, ResolveInv
<1> QED BY <1>1, <1>2, <1>3, <1>4, <1>5, <1>6, <1>7, <1>8, <1>9 DEF StartNext

\* The two hold always.
LEMMA StartInvariant == StartSpec => [](StartInv /\ ResolveInv)
<1>1. StartInit => StartInv /\ ResolveInv
  BY StartInitInv, ResolveInit
<1>2. StartInv /\ ResolveInv /\ [StartNext]_startVars => (StartInv /\ ResolveInv)'
  BY StartNextInv, ResolveNext
<1> QED BY <1>1, <1>2, PTL DEF StartSpec

\* From begin() on every handle of the tree is what its device became.
LEMMA ResolvedIs ==
  ASSUME StartInv, ResolveInv, phase \in {"begin", "scan"},
         NEW i \in DOMAIN tree, NEW h \in ToSet(Needs[tree[i]])
  PROVE  feature[h] = [device |-> Became(From[h]), feature |-> Wanted[h]]
<1>1. asked = All /\ missing = Nothing /\ missing = Among(asked, Lacking) /\ asked \in Seq(Handles)
  BY DEF ResolveInv
<1>2. h \in ToSet(All) /\ All \in Seq(Handles)
  BY AllIs DEF StartInv, PassInv, Counted
<1>3. h \in Handles
  BY <1>2 DEF ToSet
<1>4. h \notin Lacking
  <2>1. \A S : \A x : x \in ToSet(Among(asked, S)) <=> x \in ToSet(asked) /\ x \in S
    BY <1>1, AmongIs
  <2>2. \A x : x \notin ToSet(Nothing)
    BY DEF ToSet, Nothing
  <2> QED BY <1>1, <1>2, <2>1, <2>2
<1>5. HasFeature(Became(From[h]), Wanted[h])
  BY <1>3, <1>4 DEF Lacking
<1>6. PICK k \in 1 .. Len(asked) : h = asked[k]
  BY <1>1, <1>2 DEF ToSet
<1>7. feature[h] = Found(From[h], Wanted[h])
  BY <1>6 DEF ResolveInv
<1> QED BY <1>5, <1>7 DEF Found

\* Together they say what a start comes to.
LEMMA InvStartRightly == StartInv /\ ResolveInv => StartRightly
<1> SUFFICES ASSUME StartInv, ResolveInv PROVE StartRightly
  OBVIOUS
<1>1. StartTypeOK
  <2>1. ToSet(missing) \subseteq ToSet(asked)
    BY AmongIs DEF ResolveInv
  <2> QED BY <2>1 DEF StartTypeOK, StartInv, Pointers, PassInv, Counted, MountsTyped, ResolveInv
<1>2. HandlesInOrder
  BY ListIsSubSeq DEF HandlesInOrder, StartInv
<1>3. MountedOnce
  <2> USE DEF StartInv, PassInv, Counted
  <2>1. \A d \in Devices : calls[d] <= 1
    OBVIOUS
  <2>2. \A d \in Devices : calls[d] = 1 => mount[d] # "none"
    BY DEF SeenIsMounted, CalledWasSeen
  <2> QED BY <2>1, <2>2 DEF AllCalled, MountedOnce
<1>4. StartOnlyResolved
  BY ResolvedIs DEF StartOnlyResolved
<1>5. AllMissingListed
  <2>1. SUFFICES ASSUME phase \notin {"see", "call", "resolve"}
                 PROVE  missing = Among(All, Lacking) /\ (phase = "stopped" <=> Among(All, Lacking) # << >>)
    BY Zenon DEF AllMissingListed, All
  <2>2. asked = All /\ missing = Among(asked, Lacking)
    BY <2>1 DEF ResolveInv
  <2>3. phase = "stopped" <=> missing # Nothing
    BY <2>1 DEF ResolveInv
  <2> QED BY <2>2, <2>3 DEF Nothing
<1> QED BY <1>1, <1>2, <1>3, <1>4, <1>5 DEF StartRightly

\* However the tree grows and whatever its mounts choose, mounted() is called
\* exactly once on every device of it, after the device's own mounts and
\* before a handle is resolved.
THEOREM MountedOnceAlways == StartSpec => []MountedOnce
<1>1. StartInv /\ ResolveInv => MountedOnce
  BY InvStartRightly DEF StartRightly
<1> QED BY <1>1, StartInvariant, PTL

\* UdiFeature.h: however constructions interleave each device's list has its
\* handles in declaration order, a start resolves every one of them to what
\* the mounts made of the device it names, and a start that stops has listed
\* every one that is missing.
THEOREM StartsRightly == StartSpec => []StartRightly
<1>1. StartInv /\ ResolveInv => StartRightly
  BY InvStartRightly
<1> QED BY <1>1, StartInvariant, PTL
=============================================================================
