--------------------------- MODULE SolenoidProofs ---------------------------
(***************************************************************************)
(* Theorems about Solenoid, for every counter width, limit set and scan    *)
(* gap that SolenoidAssumption allows.                                     *)
(***************************************************************************)
EXTENDS Solenoid, TLAPS

-----------------------------------------------------------------------------
(* Unsigned differences                                                    *)

\* A sum on an unsigned type stays on the type.
LEMMA PlusInRange ==
  ASSUME NEW m \in Nat, NEW a \in 0 .. m - 1, NEW b \in 0 .. m - 1
  PROVE  Plus(a, b, m) \in 0 .. m - 1
  BY DEF Plus

\* So does a difference.
LEMMA MinusInRange ==
  ASSUME NEW m \in Nat, NEW a \in 0 .. m - 1, NEW b \in 0 .. m - 1
  PROVE  Minus(a, b, m) \in 0 .. m - 1
  BY DEF Minus

\* A clock that has just been read is zero away from itself.
LEMMA MinusSelf ==
  ASSUME NEW m \in Nat, NEW a \in 0 .. m - 1
  PROVE  Minus(a, a, m) = 0
  BY DEF Minus

\* The difference to a fixed instant grows by exactly the step of the clock,
\* wrap or no wrap, as long as the total fits the type.
LEMMA MinusAdvances ==
  ASSUME NEW m \in Nat, NEW now0 \in 0 .. m - 1, NEW since \in 0 .. m - 1,
         NEW d \in Nat, Minus(now0, since, m) + d < m
  PROVE  Minus(Plus(now0, d, m), since, m) = Minus(now0, since, m) + d
  BY DEF Minus, Plus

-----------------------------------------------------------------------------
(* The inductive invariant                                                 *)

\* The part of SolenoidAssumption that is not about the limits.
LEMMA ConstantTypes ==
  /\ TimeMod \in Nat \ {0}
  /\ MaxStep \in Nat \ {0}
  /\ MaxStep < TimeMod
  BY SolenoidAssumption

\* What stays below a limit leaves the room the limit leaves.
LEMMA BelowLimitFits ==
  ASSUME NEW a \in Nat, NEW l \in Nat, NEW s \in Nat, NEW m \in Nat,
         a < l, l + s < m
  PROVE  a + s < m
  OBVIOUS

\* The on-time of a coil that is on leaves room for one more scan gap: what
\* makes the unsigned difference of the next scan exact.
HeldFits == rEnergized => held + MaxStep < TimeMod

\* The ghost counts nothing for a coil that is off.
HeldOnlyWhileOn == ~rEnergized => held = 0

IInv ==
  /\ TypeOK
  /\ EnergizedOnlineUnfaulted
  /\ ErroredIffFault
  /\ NoStaleEnergize
  /\ MeasuredTimeIsTrue
  /\ HeldFits
  /\ HeldOnlyWhileOn

\* The limit in force is a natural number of microseconds that leaves room
\* for one scan gap.
LEMMA LimitFits ==
  ASSUME cnfMaxOnTimeMs \in Limits \cup {0}
  PROVE  LimitUs \in Nat /\ LimitUs + MaxStep < TimeMod
<1>1. CASE cnfMaxOnTimeMs \in Limits
  BY <1>1, SolenoidAssumption DEF LimitUs
<1>2. CASE cnfMaxOnTimeMs = 0
  BY <1>2, SolenoidAssumption DEF LimitUs
<1> QED BY <1>1, <1>2

\* The on-time still fits the clock at the next scan.
LEMMA HeldCannotSaturate ==
  ASSUME IInv, rEnergized, NEW d \in 0 .. MaxStep
  PROVE  held + d < TimeMod
<1>1. held \in Nat /\ held + MaxStep < TimeMod
  BY DEF IInv, TypeOK, HeldFits
<1> QED BY <1>1, ConstantTypes

\* What a scan at time t sees of a coil that was on before it: the true
\* on-time, d later.
LEMMA ScanMeasuresTrueTime ==
  ASSUME IInv, rEnergized, NEW d \in 0 .. MaxStep
  PROVE  Minus(Plus(now, d, TimeMod), energizedAtUs, TimeMod) = held + d
<1>1. /\ TimeMod \in Nat /\ now \in 0 .. TimeMod - 1
      /\ energizedAtUs \in 0 .. TimeMod - 1 /\ d \in Nat /\ held \in Nat
  BY SolenoidAssumption DEF IInv, TypeOK, Time
<1>2. Minus(now, energizedAtUs, TimeMod) = held
  BY DEF IInv, MeasuredTimeIsTrue
<1>3. held + d < TimeMod
  BY HeldCannotSaturate
<1> QED BY <1>1, <1>2, <1>3, MinusAdvances

\* A device as constructed satisfies the invariant.
LEMMA InitInvariant == Init => IInv
<1> SUFFICES ASSUME Init PROVE IInv
  OBVIOUS
<1>1. 0 \in Time
  BY ConstantTypes DEF Time
<1>2. TypeOK
  BY <1>1
  DEF Init, TypeOK, States, Errors, Commands
<1> QED
  BY <1>2
  DEF Init, IInv, EnergizedOnlineUnfaulted, ErroredIffFault,
      NoStaleEnergize, MeasuredTimeIsTrue, HeldFits, HeldOnlyWhileOn

\* begin(), whether it succeeds or not.
LEMMA BeginInvariant == IInv /\ Begin => IInv'
<1> SUFFICES ASSUME IInv, Begin PROVE IInv'
  OBVIOUS
<1>1. TypeOK'
  BY DEF Begin, IInv, TypeOK, States, Errors, Commands
<1> QED
  BY <1>1
  DEF Begin, IInv, EnergizedOnlineUnfaulted, ErroredIffFault,
      NoStaleEnergize, MeasuredTimeIsTrue, HeldFits, HeldOnlyWhileOn

\* A request, accepted or refused.
LEMMA AcceptInvariant ==
  ASSUME IInv, NEW c \in Commands \cup {Unlisted}, Accept(c),
         wCommand' \in Commands
  PROVE  IInv'
  BY DEF Accept, Accepts, IInv, TypeOK, States, Errors, Commands, Unlisted,
      EnergizedOnlineUnfaulted, ErroredIffFault, NoStaleEnergize,
      MeasuredTimeIsTrue, HeldFits, HeldOnlyWhileOn

\* A new limit moves nothing the invariant speaks of.
LEMMA SetLimitInvariant ==
  ASSUME IInv, NEW v \in Limits, SetLimit(v)
  PROVE  IInv'
  BY SolenoidAssumption
  DEF SetLimit, IInv, TypeOK, States, Errors, Commands,
      EnergizedOnlineUnfaulted, ErroredIffFault, NoStaleEnergize,
      MeasuredTimeIsTrue, HeldFits, HeldOnlyWhileOn

\* update(t) of an offline device only moves the caller's clock.
LEMMA ScanOfflineInvariant ==
  ASSUME IInv, NEW d \in 0 .. MaxStep, ScanOffline(d)
  PROVE  IInv'
<1>1. Plus(now, d, TimeMod) \in Time
  BY PlusInRange, SolenoidAssumption DEF IInv, TypeOK, Time
<1> QED
  BY <1>1
  DEF ScanOffline, IInv, TypeOK, States, Errors, Commands,
      EnergizedOnlineUnfaulted, ErroredIffFault, NoStaleEnergize,
      MeasuredTimeIsTrue, HeldFits, HeldOnlyWhileOn

\* The scan of an online device, one conjunct of the invariant at a time.
LEMMA ScanOnlineInvariant ==
  ASSUME IInv, NEW d \in 0 .. MaxStep, ScanOnline(d)
  PROVE  IInv'
<1> DEFINE t == Plus(now, d, TimeMod)
<1>1. t \in Time
  BY PlusInRange, SolenoidAssumption DEF IInv, TypeOK, Time
<1>2. now' = t /\ energizedAtUs' = Since(t) /\ held' = HeldAfter(t, d)
      /\ rEnergized' = (OnAfterCommand /\ ~Expired(t))
  BY DEF ScanOnline
<1>3. ~rEnergized' => held' = 0
  BY <1>2 DEF HeldAfter
\* The coil that stays on: measured and true time agree, below the limit.
<1>4. ASSUME rEnergized', rEnergized
      PROVE  /\ energizedAtUs' = energizedAtUs
             /\ held' = held + d
             /\ held' = Minus(t, energizedAtUs, TimeMod)
             /\ held' < LimitUs
  <2>1. Since(t) = energizedAtUs
    BY <1>4 DEF Since, SwitchesOn
  <2>2. HeldAfter(t, d) = held + d
    BY <1>2, <1>4, HeldCannotSaturate DEF HeldAfter
  <2>3. Minus(t, energizedAtUs, TimeMod) = held + d
    BY <1>4, ScanMeasuresTrueTime
  <2>4. ~(Minus(t, energizedAtUs, TimeMod) >= LimitUs)
    BY <1>2, <1>4, <2>1 DEF Expired
  <2>5. LimitUs \in Nat /\ held + d \in Nat
    BY LimitFits DEF IInv, TypeOK
  <2> QED BY <1>2, <2>1, <2>2, <2>3, <2>4, <2>5
\* The coil switched on in this scan: nothing measured yet.
<1>5. ASSUME rEnergized', ~rEnergized
      PROVE  energizedAtUs' = t /\ held' = 0
  BY <1>2, <1>5 DEF Since, OnAfterCommand, HeldAfter
<1>6. TypeOK'
  <2>1. Since(t) \in Time
    BY <1>1 DEF Since, IInv, TypeOK
  <2>2. HeldAfter(t, d) \in Nat
    BY ConstantTypes DEF HeldAfter, IInv, TypeOK
  <2>3. rEnergized' \in BOOLEAN /\ ioCoil' \in BOOLEAN
    BY DEF ScanOnline, IInv, TypeOK, OnAfterCommand, Expired
  <2>4. rState' \in States /\ rError' \in Errors
    BY DEF ScanOnline, IInv, TypeOK, ErrorAfterCommand, StateAfterCommand,
           States, Errors
  <2> QED
    BY <1>1, <1>2, <2>1, <2>2, <2>3, <2>4
    DEF ScanOnline, IInv, TypeOK, Commands, Errors
<1>7. EnergizedOnlineUnfaulted'
  BY DEF ScanOnline, IInv, TypeOK, EnergizedOnlineUnfaulted, OnAfterCommand,
         SwitchesOn, SwitchesOff, Expired, ErrorAfterCommand,
         StateAfterCommand
<1>8. ErroredIffFault'
  BY DEF ScanOnline, IInv, EnergizedOnlineUnfaulted, ErroredIffFault,
         OnAfterCommand, SwitchesOn, SwitchesOff, ErrorAfterCommand,
         StateAfterCommand
<1>9. NoStaleEnergize'
  BY DEF ScanOnline, NoStaleEnergize
<1>10. MeasuredTimeIsTrue'
  <2>1. Minus(t, t, TimeMod) = 0
    BY <1>1, MinusSelf, SolenoidAssumption DEF Time
  <2> QED BY <1>2, <1>4, <1>5, <2>1 DEF MeasuredTimeIsTrue
<1>11. HeldFits'
  <2>1. LimitUs \in Nat /\ LimitUs + MaxStep < TimeMod
    BY LimitFits DEF IInv, TypeOK
  <2>2. held' \in Nat
    BY <1>6 DEF TypeOK
  <2> SUFFICES ASSUME rEnergized' PROVE held' + MaxStep < TimeMod
    BY DEF HeldFits
  <2>3. CASE rEnergized
    <3>1. held' < LimitUs
      BY <1>4, <2>3
    <3> QED BY <2>1, <2>2, <3>1, ConstantTypes, BelowLimitFits
  <2>4. CASE ~rEnergized
    <3>1. held' = 0
      BY <1>5, <2>4
    <3> QED BY <3>1, ConstantTypes
  <2> QED BY <2>3, <2>4
<1> QED BY <1>3, <1>6, <1>7, <1>8, <1>9, <1>10, <1>11
        DEF IInv, HeldOnlyWhileOn

\* Every handler preserves the invariant.
LEMMA NextInvariant == IInv /\ [Next]_vars => IInv'
<1> SUFFICES ASSUME IInv, [Next]_vars PROVE IInv'
  OBVIOUS
<1>1. CASE Begin
  BY <1>1, BeginInvariant
<1>2. ASSUME NEW d \in 0 .. MaxStep, Scan(d) PROVE IInv'
  BY <1>2, ScanOnlineInvariant, ScanOfflineInvariant DEF Scan
<1>3. ASSUME NEW c \in Commands \cup {Unlisted}, SetCommand(c) PROVE IInv'
  <2>1. wCommand' \in Commands
    BY <1>3 DEF SetCommand, Accepts, IInv, TypeOK, Commands, Unlisted
  <2> QED BY <1>3, <2>1, AcceptInvariant DEF SetCommand
<1>4. ASSUME NEW c \in Commands \ {"NONE"}, Request(c) PROVE IInv'
  BY <1>4, AcceptInvariant DEF Request, IInv, TypeOK
<1>5. ASSUME NEW v \in Limits, SetLimit(v) PROVE IInv'
  BY <1>5, SetLimitInvariant
<1>6. CASE UNCHANGED vars
  BY <1>6
  DEF vars, IInv, TypeOK, EnergizedOnlineUnfaulted, ErroredIffFault,
      NoStaleEnergize, MeasuredTimeIsTrue, HeldFits, HeldOnlyWhileOn
<1> QED BY <1>1, <1>2, <1>3, <1>4, <1>5, <1>6 DEF Next

\* The invariant holds throughout.
LEMMA Invariant == Spec => []IInv
  BY InitInvariant, NextInvariant, PTL DEF Spec

-----------------------------------------------------------------------------
(* The theorems                                                            *)

\* Every attribute and member keeps the type its declaration gives it, for
\* every sequence of handler calls.
THEOREM TypeCorrect == Spec => []TypeOK
  BY Invariant, PTL DEF IInv

\* drive()'s comment, "energized implies online and not faulted", and the
\* agreement of the drive with rEnergized, between any two handler calls.
THEOREM CoilSafety == Spec => []EnergizedOnlineUnfaulted
  BY Invariant, PTL DEF IInv

\* rState and rError are never out of step about a fault.
THEOREM FaultStateAgrees == Spec => []ErroredIffFault
  BY Invariant, PTL DEF IInv

\* accept() leaves no ENERGIZE waiting in a device that may not energize.
THEOREM NoStaleRequest == Spec => []NoStaleEnergize
  BY Invariant, PTL DEF IInv

\* The difference update(t) computes is the true on-time of the coil, for
\* any width of the clock the assumption admits.
THEOREM MeasuresTrueTime == Spec => []MeasuredTimeIsTrue
  BY Invariant, PTL DEF IInv

\* Nothing restarts the timer of a coil that stays on.
THEOREM TimerKept == Spec => TimerNeverRestarts
<1>1. IInv /\ [Next]_vars
        => [rEnergized /\ rEnergized' => energizedAtUs' = energizedAtUs]_vars
  <2> SUFFICES ASSUME IInv, [Next]_vars, rEnergized, rEnergized'
               PROVE  energizedAtUs' = energizedAtUs
    OBVIOUS
  <2>1. CASE Begin
    BY <2>1 DEF Begin
  <2>2. ASSUME NEW d \in 0 .. MaxStep, Scan(d)
        PROVE  energizedAtUs' = energizedAtUs
    BY <2>2 DEF Scan, ScanOnline, ScanOffline, Since, SwitchesOn
  <2>3. ASSUME NEW c \in Commands \cup {Unlisted}, SetCommand(c)
        PROVE  energizedAtUs' = energizedAtUs
    BY <2>3 DEF SetCommand, Accept
  <2>4. ASSUME NEW c \in Commands \ {"NONE"}, Request(c)
        PROVE  energizedAtUs' = energizedAtUs
    BY <2>4 DEF Request, Accept
  <2>5. ASSUME NEW v \in Limits, SetLimit(v)
        PROVE  energizedAtUs' = energizedAtUs
    BY <2>5 DEF SetLimit
  <2>6. CASE UNCHANGED vars
    BY <2>6 DEF vars
  <2> QED BY <2>1, <2>2, <2>3, <2>4, <2>5, <2>6 DEF Next
<1> QED BY <1>1, Invariant, PTL DEF Spec, TimerNeverRestarts

\* The cutoff is reported in the call that latches the fault and in no other.
THEOREM ReportedOnce == Spec => ReportedExactlyWhenLatched
<1> DEFINE Once == reported' = "ON_TIME_EXCEEDED"
                     <=> rError = "NONE" /\ rError' # "NONE"
<1>1. IInv /\ [Next]_vars => [Once]_vars
  <2> SUFFICES ASSUME IInv, Next PROVE Once
    OBVIOUS
  <2>1. CASE Begin
    BY <2>1 DEF Begin
  <2>2. ASSUME NEW d \in 0 .. MaxStep, ScanOnline(d) PROVE Once
    BY <2>2 DEF ScanOnline, Expired, OnAfterCommand, SwitchesOn, SwitchesOff,
                ErrorAfterCommand, IInv, EnergizedOnlineUnfaulted
  <2>3. ASSUME NEW d \in 0 .. MaxStep, ScanOffline(d) PROVE Once
    BY <2>3 DEF ScanOffline
  <2>4. ASSUME NEW c \in Commands \cup {Unlisted}, SetCommand(c) PROVE Once
    BY <2>4 DEF SetCommand, Accept
  <2>5. ASSUME NEW c \in Commands \ {"NONE"}, Request(c) PROVE Once
    BY <2>5 DEF Request, Accept
  <2>6. ASSUME NEW v \in Limits, SetLimit(v) PROVE Once
    BY <2>6 DEF SetLimit
  <2> QED BY <2>1, <2>2, <2>3, <2>4, <2>5, <2>6 DEF Next, Scan
<1> QED BY <1>1, Invariant, PTL DEF Spec, ReportedExactlyWhenLatched

-----------------------------------------------------------------------------
(* What whoever composes this device with a clock and a pin needs of it.   *)

\* A coil that a scan leaves on has been on for all the time since the scan
\* before, or has just been switched on; either way for less than the limit.
LEMMA ScanAddsGap ==
  ASSUME IInv, NEW d \in 0 .. MaxStep, Scan(d), rEnergized'
  PROVE  /\ held' = IF rEnergized THEN held + d ELSE 0
         /\ held' < LimitUs
<1>1. CASE ScanOffline(d)
  BY <1>1 DEF ScanOffline, IInv, EnergizedOnlineUnfaulted
<1>2. CASE ScanOnline(d)
  <2> DEFINE t == Plus(now, d, TimeMod)
  <2>1. held' = HeldAfter(t, d) /\ OnAfterCommand /\ ~Expired(t)
    BY <1>2 DEF ScanOnline
  <2>2. LimitUs \in Nat /\ held \in Nat
    BY LimitFits DEF IInv, TypeOK
  <2>3. CASE rEnergized
    <3>1. Since(t) = energizedAtUs
      BY <2>3 DEF Since, SwitchesOn
    <3>2. held' = held + d
      BY <2>1, <2>3, HeldCannotSaturate DEF HeldAfter
    <3>3. Minus(t, Since(t), TimeMod) = held + d
      BY <2>3, <3>1, ScanMeasuresTrueTime
    <3> QED BY <2>1, <2>2, <2>3, <3>2, <3>3 DEF Expired
  <2>4. CASE ~rEnergized
    <3>1. Since(t) = t /\ held' = 0
      BY <2>1, <2>4 DEF OnAfterCommand, Since, HeldAfter
    <3>2. t \in Time
      BY PlusInRange, SolenoidAssumption DEF IInv, TypeOK, Time
    <3>3. Minus(t, Since(t), TimeMod) = 0
      BY <3>1, <3>2, MinusSelf, SolenoidAssumption DEF Time
    <3> QED BY <2>1, <2>2, <2>4, <3>1, <3>3 DEF Expired
  <2> QED BY <2>3, <2>4
<1> QED BY <1>1, <1>2 DEF Scan

\* The coil has been on for less than a limit it was given, although the
\* limit in force may be another by now.
HeldBelowALimit == rEnergized => \E l \in Limits : held < l * UsPerMs

\* Every handler keeps that so.
LEMMA HeldBelowStep ==
  ASSUME IInv, HeldBelowALimit, [Next]_vars
  PROVE  HeldBelowALimit'
<1>1. CASE Begin
  BY <1>1 DEF Begin, HeldBelowALimit
<1>2. ASSUME NEW d \in 0 .. MaxStep, Scan(d) PROVE HeldBelowALimit'
  <2> SUFFICES ASSUME rEnergized' PROVE \E l \in Limits : held' < l * UsPerMs
    BY DEF HeldBelowALimit
  <2>1. held' < LimitUs /\ held' \in Nat
    <3>1. held' = IF rEnergized THEN held + d ELSE 0
      BY <1>2, ScanAddsGap
    <3>2. held \in Nat
      BY DEF IInv, TypeOK
    <3> QED BY <1>2, <3>1, <3>2, ScanAddsGap
  <2>2. cnfMaxOnTimeMs # 0
    BY <2>1, ConstantTypes, SolenoidAssumption DEF LimitUs
  <2> QED BY <2>1, <2>2 DEF LimitUs, IInv, TypeOK
<1>3. ASSUME NEW c \in Commands \cup {Unlisted}, SetCommand(c) \/ Request(c)
      PROVE  HeldBelowALimit'
  BY <1>3 DEF SetCommand, Request, Accept, HeldBelowALimit
<1>4. ASSUME NEW v \in Limits, SetLimit(v) PROVE HeldBelowALimit'
  BY <1>4 DEF SetLimit, HeldBelowALimit
<1>5. CASE UNCHANGED vars
  BY <1>5 DEF vars, HeldBelowALimit
<1> QED BY <1>1, <1>2, <1>3, <1>4, <1>5 DEF Next

\* A coil is on for less than a limit, between any two handler calls.
LEMMA HeldBelow == Spec => []HeldBelowALimit
<1>1. Init => HeldBelowALimit
  BY DEF Init, HeldBelowALimit
<1> QED BY <1>1, HeldBelowStep, Invariant, PTL DEF Spec

-----------------------------------------------------------------------------
(* The refinement: every step of the device is a step of CoilGuard or      *)
(* leaves the guard's state alone.                                         *)

\* A device as constructed is a guard that has not been started.
LEMMA GuardInit == Init => Guard!Init
  BY SolenoidAssumption DEF Init, Guard!Init, Phase, LimitUs

\* What the guard sees of an online device between two handler calls.
LEMMA PhaseOnline ==
  ASSUME IInv, rState # "OFFLINE"
  PROVE  /\ Phase = "on" <=> rEnergized
         /\ Phase = "tripped" <=> rError # "NONE"
         /\ Phase = "off" <=> ~rEnergized /\ rError = "NONE"
  BY DEF IInv, EnergizedOnlineUnfaulted, Phase

\* A handler that moves nothing the guard sees.
LEMMA GuardStutters ==
  ASSUME UNCHANGED <<rState, rError, rEnergized, cnfMaxOnTimeMs, held>>
  PROVE  UNCHANGED Guard!vars
  BY DEF Guard!vars, Phase, LimitUs

\* The scan of an online device, by what it does to the coil.
LEMMA GuardScan ==
  ASSUME IInv, IInv', NEW d \in 0 .. MaxStep, ScanOnline(d)
  PROVE  Guard!Pass(d) \/ UNCHANGED Guard!vars
<1> DEFINE t == Plus(now, d, TimeMod)
<1>1. LimitUs' = LimitUs /\ LimitUs \in Nat
  <2>1. LimitUs' = LimitUs
    BY DEF ScanOnline, LimitUs
  <2> QED BY <2>1, LimitFits DEF IInv, TypeOK
<1>2. rState # "OFFLINE" /\ rState' # "OFFLINE"
  <2>1. rState # "OFFLINE"
    BY DEF ScanOnline
  <2>2. StateAfterCommand # "OFFLINE"
    BY <2>1 DEF StateAfterCommand
  <2> QED BY <2>1, <2>2 DEF ScanOnline
<1>3. /\ Phase = "on" <=> rEnergized
      /\ Phase = "tripped" <=> rError # "NONE"
      /\ Phase = "off" <=> ~rEnergized /\ rError = "NONE"
  BY <1>2, PhaseOnline
<1>4. /\ Phase' = "on" <=> rEnergized'
      /\ Phase' = "tripped" <=> rError' # "NONE"
      /\ Phase' = "off" <=> ~rEnergized' /\ rError' = "NONE"
  BY <1>2 DEF IInv, EnergizedOnlineUnfaulted, Phase
<1>5. held' = HeldAfter(t, d) /\ rEnergized' = (OnAfterCommand /\ ~Expired(t))
      /\ rError' = IF Expired(t) THEN "ON_TIME_EXCEEDED"
                   ELSE ErrorAfterCommand
  BY DEF ScanOnline
\* A coil that was on and whose latched command leaves it on.
<1>6. CASE rEnergized /\ OnAfterCommand
  <2>1. Since(t) = energizedAtUs
    BY <1>6 DEF Since, SwitchesOn
  <2>2. Expired(t) <=> held + d >= LimitUs
    BY <1>6, <2>1, ScanMeasuresTrueTime DEF Expired
  <2>3. ErrorAfterCommand = "NONE"
    BY <1>6 DEF ErrorAfterCommand, IInv, EnergizedOnlineUnfaulted
  <2>4. held \in Nat
    BY DEF IInv, TypeOK
  <2>5. CASE Expired(t)
    <3>1. held' = 0 /\ rError' # "NONE"
      BY <1>5, <2>5 DEF HeldAfter
    <3>2. Guard!Trip(d)
      BY <1>3, <1>4, <1>6, <2>2, <2>5, <3>1 DEF Guard!Trip
    <3> QED BY <1>1, <3>2 DEF Guard!Pass
  <2>6. CASE ~Expired(t)
    <3>1. held' = held + d /\ rEnergized'
      BY <1>5, <1>6, <2>6, HeldCannotSaturate DEF HeldAfter
    <3>2. held + d < LimitUs
      BY <1>1, <2>2, <2>4, <2>6
    <3>3. Guard!StayOn(d)
      BY <1>3, <1>4, <1>6, <3>1, <3>2 DEF Guard!StayOn
    <3> QED BY <1>1, <3>3 DEF Guard!Pass
  <2> QED BY <2>5, <2>6
\* A coil released by the latched command.
<1>7. CASE rEnergized /\ ~OnAfterCommand
  <2>1. SwitchesOff /\ ~Expired(t) /\ ErrorAfterCommand = "NONE"
    BY <1>7 DEF OnAfterCommand, Expired, ErrorAfterCommand, SwitchesOff,
                IInv, EnergizedOnlineUnfaulted
  <2>2. held' = 0 /\ ~rEnergized' /\ rError' = "NONE"
    BY <1>5, <1>7, <2>1 DEF HeldAfter
  <2>3. Guard!SwitchOff
    BY <1>3, <1>4, <1>7, <2>2 DEF Guard!SwitchOff
  <2> QED BY <1>1, <2>3 DEF Guard!Pass
\* A coil switched on, which a limit of zero trips in the same scan.
<1>8. CASE ~rEnergized /\ SwitchesOn
  <2>1. OnAfterCommand /\ Since(t) = t /\ ErrorAfterCommand = "NONE"
    BY <1>8 DEF OnAfterCommand, Since, SwitchesOn, SwitchesOff,
                ErrorAfterCommand
  <2>2. Minus(t, t, TimeMod) = 0
    <3>1. t \in Time
      BY PlusInRange, SolenoidAssumption DEF IInv, TypeOK, Time
    <3> QED BY <3>1, MinusSelf, SolenoidAssumption DEF Time
  <2>3. Expired(t) <=> LimitUs = 0
    BY <1>1, <2>1, <2>2 DEF Expired
  <2>4. held' = 0
    BY <1>5, <1>8 DEF HeldAfter
  <2>5. Phase = "off"
    BY <1>3, <1>8 DEF SwitchesOn
  <2>6. Phase' = IF LimitUs = 0 THEN "tripped" ELSE "on"
    BY <1>4, <1>5, <2>1, <2>3
  <2>7. Guard!SwitchOn
    BY <2>4, <2>5, <2>6 DEF Guard!SwitchOn
  <2> QED BY <1>1, <2>7 DEF Guard!Pass
\* A coil that was off and stays off: a fault may be cleared.
<1>9. CASE ~rEnergized /\ ~SwitchesOn
  <2>1. ~OnAfterCommand /\ ~Expired(t)
    BY <1>9 DEF OnAfterCommand, Expired
  <2>2. held' = 0 /\ held = 0 /\ ~rEnergized'
    BY <1>5, <1>9, <2>1 DEF HeldAfter, IInv, HeldOnlyWhileOn
  <2>3. rError' = ErrorAfterCommand
    BY <1>5, <2>1
  <2>4. CASE rError # "NONE" /\ rError' = "NONE"
    <3>1. Guard!Clear
      BY <1>3, <1>4, <2>2, <2>4 DEF Guard!Clear
    <3> QED BY <1>1, <3>1 DEF Guard!Pass
  <2>5. CASE rError = "NONE" \/ rError' # "NONE"
    <3>1. rError' # "NONE" <=> rError # "NONE"
      BY <2>3, <2>5 DEF ErrorAfterCommand
    <3>2. Phase' = Phase
      BY <1>3, <1>4, <1>9, <2>2, <3>1
    <3> QED BY <1>1, <2>2, <3>2 DEF Guard!vars
  <2> QED BY <2>4, <2>5
<1> QED BY <1>6, <1>7, <1>8, <1>9

\* Every other handler.
LEMMA GuardNext ==
  ASSUME IInv, IInv', [Next]_vars
  PROVE  [Guard!Next]_Guard!vars
<1>1. CASE Begin
  <2>1. LimitUs' = LimitUs /\ held' = 0 /\ ~rEnergized'
    BY <1>1 DEF Begin, LimitUs
  <2>2. CASE cnfMaxOnTimeMs = 0
    <3>1. LimitUs = 0
      BY <2>2, SolenoidAssumption DEF LimitUs
    <3>2. Phase' = IF Phase = "on" THEN "off" ELSE Phase
      BY <1>1, <2>1, <2>2 DEF Begin, Phase, IInv, EnergizedOnlineUnfaulted
    <3> QED BY <2>1, <3>1, <3>2 DEF Guard!Next, Guard!RefusedStart
  <2>3. CASE cnfMaxOnTimeMs # 0
    <3>1. LimitUs # 0
      <4>1. cnfMaxOnTimeMs \in Nat \ {0} /\ UsPerMs \in Nat \ {0}
        BY <2>3, SolenoidAssumption DEF IInv, TypeOK
      <4> QED BY <4>1 DEF LimitUs
    <3>2. Phase' = "off"
      BY <1>1, <2>1, <2>3 DEF Begin, Phase
    <3> QED BY <2>1, <3>1, <3>2 DEF Guard!Next, Guard!Start
  <2> QED BY <2>2, <2>3
<1>2. ASSUME NEW d \in 0 .. MaxStep, Scan(d)
      PROVE  [Guard!Next]_Guard!vars
  <2>1. CASE ScanOnline(d)
    BY <2>1, GuardScan DEF Guard!Next
  <2>2. CASE ScanOffline(d)
    BY <2>2, GuardStutters DEF ScanOffline
  <2> QED BY <1>2, <2>1, <2>2 DEF Scan
<1>3. ASSUME NEW c \in Commands \cup {Unlisted}, SetCommand(c)
      PROVE  [Guard!Next]_Guard!vars
  BY <1>3, GuardStutters DEF SetCommand, Accept
<1>4. ASSUME NEW c \in Commands \ {"NONE"}, Request(c)
      PROVE  [Guard!Next]_Guard!vars
  BY <1>4, GuardStutters DEF Request, Accept
<1>5. ASSUME NEW v \in Limits, SetLimit(v)
      PROVE  [Guard!Next]_Guard!vars
  <2>1. LimitUs' = v * UsPerMs /\ Phase' = Phase /\ held' = held
    BY <1>5 DEF SetLimit, LimitUs, Phase
  <2>2. Guard!SetLimit(v * UsPerMs)
    BY <2>1 DEF Guard!SetLimit
  <2> QED BY <2>2 DEF Guard!Next
<1>6. CASE UNCHANGED vars
  BY <1>6, GuardStutters DEF vars
<1> QED BY <1>1, <1>2, <1>3, <1>4, <1>5, <1>6 DEF Next

\* SolenoidDevice keeps CoilGuard's promise: a coil is on for less than its
\* limit at every scan that leaves it on, is cut only at the limit, and is
\* not on again before the fault is cleared or the device restarted.
THEOREM RefinesGuard == Spec => ImplementsGuard
<1>1. IInv /\ IInv' /\ [Next]_vars => [Guard!Next]_Guard!vars
  BY GuardNext
<1> QED BY <1>1, GuardInit, Invariant, PTL
        DEF Spec, Guard!Spec, ImplementsGuard

-----------------------------------------------------------------------------
(* StatePrecedence, of a device whose limits its setup's minimum allows    *)

\* An online device has a limit, and is BUSY only with its coil on.
Rated ==
  /\ rState # "OFFLINE" => cnfMaxOnTimeMs # 0
  /\ rState = "BUSY" => rEnergized

\* No step makes such a device lose its limit, or BUSY outlive the coil.
LEMMA RatedStep ==
  ASSUME 0 \notin Limits, IInv, Rated, [Next]_vars
  PROVE  Rated'
<1>1. CASE Begin
  BY <1>1 DEF Begin, Rated
<1>2. ASSUME NEW d \in 0 .. MaxStep, ScanOnline(d) PROVE Rated'
  <2> DEFINE t == Plus(now, d, TimeMod)
  <2>1. rEnergized' = (OnAfterCommand /\ ~Expired(t)) /\ cnfMaxOnTimeMs' = cnfMaxOnTimeMs
        /\ rState' = IF Expired(t) THEN "ERRORED" ELSE StateAfterCommand
    BY <1>2 DEF ScanOnline
  <2>2. StateAfterCommand = "BUSY" => OnAfterCommand
    BY DEF StateAfterCommand, OnAfterCommand, SwitchesOn, SwitchesOff, Rated, IInv, TypeOK
  <2>3. rState # "OFFLINE"  BY <1>2 DEF ScanOnline
  <2> HIDE DEF t
  <2> QED BY <2>1, <2>2, <2>3 DEF Rated
<1>3. ASSUME NEW d \in 0 .. MaxStep, ScanOffline(d) PROVE Rated'
  BY <1>3 DEF ScanOffline, Rated
<1>4. ASSUME NEW c \in Commands \cup {Unlisted}, SetCommand(c) \/ Request(c) PROVE Rated'
  BY <1>4 DEF SetCommand, Request, Accept, Rated
<1>5. ASSUME NEW v \in Limits, SetLimit(v) PROVE Rated'
  BY <1>5 DEF SetLimit, Rated
<1>6. CASE UNCHANGED vars
  BY <1>6 DEF vars, Rated
<1> QED BY <1>1, <1>2, <1>3, <1>4, <1>5, <1>6 DEF Next, Scan

\* enumDeviceState: an online device shows its fault, else whether its coil
\* is on, whatever the setup's limits are, as long as none is zero.
THEOREM PrecedenceKept == 0 \notin Limits => (Spec => []StatePrecedence)
<1> SUFFICES ASSUME 0 \notin Limits PROVE Spec => []StatePrecedence  OBVIOUS
<1>1. Init => Rated  BY DEF Init, Rated
<1>2. IInv /\ Rated /\ [Next]_vars => Rated'  BY RatedStep
<1>3. IInv /\ Rated => StatePrecedence
  BY DEF IInv, TypeOK, States, Errors, Rated, StatePrecedence,
         EnergizedOnlineUnfaulted, ErroredIffFault
<1> QED BY <1>1, <1>2, <1>3, Invariant, PTL DEF Spec

-----------------------------------------------------------------------------
(* PrecedenceKeptByHandlers, with limits of zero too                       *)

\* BUSY goes with the coil, but for a begin() that fails.
LEMMA BusyStep ==
  ASSUME IInv, StatePrecedence, [Next]_vars, ~(Begin /\ cnfMaxOnTimeMs = 0)
  PROVE  rState' = "BUSY" => rEnergized'
<1>0. rState = "BUSY" => rEnergized
  BY DEF StatePrecedence
<1>1. CASE Begin
  BY <1>1 DEF Begin
<1>2. ASSUME NEW d \in 0 .. MaxStep, ScanOnline(d) PROVE rState' = "BUSY" => rEnergized'
  <2> DEFINE t == Plus(now, d, TimeMod)
  <2>1. rEnergized' = (OnAfterCommand /\ ~Expired(t))
        /\ rState' = IF Expired(t) THEN "ERRORED" ELSE StateAfterCommand
    BY <1>2 DEF ScanOnline
  <2>2. StateAfterCommand = "BUSY" => OnAfterCommand
    BY <1>0 DEF StateAfterCommand, OnAfterCommand, SwitchesOn, SwitchesOff, IInv, TypeOK
  <2> HIDE DEF t
  <2> QED BY <2>1, <2>2
<1>3. ASSUME NEW d \in 0 .. MaxStep, ScanOffline(d) PROVE rState' = "BUSY" => rEnergized'
  BY <1>0, <1>3 DEF ScanOffline
<1>4. ASSUME NEW c \in Commands \cup {Unlisted}, SetCommand(c) \/ Request(c)
      PROVE  rState' = "BUSY" => rEnergized'
  BY <1>0, <1>4 DEF SetCommand, Request, Accept
<1>5. ASSUME NEW v \in Limits, SetLimit(v) PROVE rState' = "BUSY" => rEnergized'
  BY <1>0, <1>5 DEF SetLimit
<1>6. CASE UNCHANGED vars
  BY <1>0, <1>6 DEF vars
<1> QED BY <1>1, <1>2, <1>3, <1>4, <1>5, <1>6 DEF Next, Scan

\* enumDeviceState: whatever the limits, only a begin() that fails on a
\* device already online can make rState contradict the fault and the coil.
THEOREM PrecedenceKeptAlways == Spec => PrecedenceKeptByHandlers
<1>1. IInv /\ IInv' /\ [Next]_vars
      => [StatePrecedence /\ ~(Begin /\ cnfMaxOnTimeMs = 0) => StatePrecedence']_vars
  <2> SUFFICES ASSUME IInv, IInv', [Next]_vars, StatePrecedence,
                      ~(Begin /\ cnfMaxOnTimeMs = 0)
               PROVE  StatePrecedence'
    OBVIOUS
  <2>1. rState' = "BUSY" => rEnergized'  BY BusyStep
  <2> QED BY <2>1 DEF IInv, TypeOK, States, Errors, StatePrecedence,
                      EnergizedOnlineUnfaulted, ErroredIffFault
<1> QED BY <1>1, Invariant, PTL DEF Spec, PrecedenceKeptByHandlers
=============================================================================
