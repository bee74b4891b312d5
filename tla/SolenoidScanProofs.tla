------------------------- MODULE SolenoidScanProofs -------------------------
(***************************************************************************)
(* Theorems about SolenoidScan: what the proofs about the clock and about  *)
(* the device say of the pin, for every width, limit, gap and latency that *)
(* ScanAssumption allows.                                                  *)
(*                                                                         *)
(* The argument is compositional.  The clock's invariant shows that the    *)
(* scan calls update(t) the way Solenoid assumes (DeviceAssumptionKept);   *)
(* hence the device's theorems hold here, and with them the pin's own      *)
(* invariant follows, one statement of scan() at a time.                   *)
(***************************************************************************)
EXTENDS SolenoidScan, TLAPS

DevP == INSTANCE SolenoidProofs WITH MaxStep <- MaxGap
ClkP == INSTANCE ClockWidenerProofs

-----------------------------------------------------------------------------
(* The lemmas of SolenoidProofs and ClockWidenerProofs speak of instances  *)
(* of their own, which have the same definitions as Dev and Clk.           *)

\* The assumptions under which those lemmas were proved: those about the device.
LEMMA DeviceConstants == DevP!SolenoidAssumption
  BY ScanAssumption DEF Dev!SolenoidAssumption, DevP!SolenoidAssumption

\* Those about the clock.
LEMMA ClockConstants == ClkP!WidenerAssumption
  BY ScanAssumption DEF Clk!WidenerAssumption, ClkP!WidenerAssumption

\* The constants, as the steps below need them.
LEMMA ConstantTypes ==
  /\ RawMod \in Nat /\ TimeMod \in Nat /\ MaxGap \in Nat /\ MaxLatency \in Nat
  /\ 0 < TimeMod /\ 0 < MaxGap /\ MaxGap < RawMod /\ RawMod <= TimeMod
  /\ MaxLatency <= MaxGap
  /\ \A l \in Limits : l * UsPerMs \in Nat
  BY ScanAssumption DEF Dev!SolenoidAssumption, Clk!WidenerAssumption

\* The clock's actions.
LEMMA SameClock ==
  /\ Clk!Init <=> ClkP!Init
  /\ Clk!Advance <=> ClkP!Advance
  /\ Clk!Tick(1) <=> ClkP!Tick(1)
  BY Zenon DEF Clk!Init, ClkP!Init, Clk!RawTime, ClkP!RawTime,
     Clk!Advance, ClkP!Advance, Clk!FirstAdvance, ClkP!FirstAdvance,
     Clk!LaterAdvance, ClkP!LaterAdvance, Clk!Tick, ClkP!Tick, Clk!Elapse, ClkP!Elapse,
     Clk!Plus, ClkP!Plus, Clk!Minus, ClkP!Minus

\* The device's scan.
LEMMA SameScan ==
  ASSUME NEW d
  PROVE  Dev!Scan(d) <=> DevP!Scan(d)
  BY Zenon DEF Dev!Scan, DevP!Scan, Dev!ScanOnline, DevP!ScanOnline,
     Dev!ScanOffline, DevP!ScanOffline, Dev!Plus, DevP!Plus, Dev!Minus, DevP!Minus,
     Dev!Expired, DevP!Expired, Dev!OnAfterCommand, DevP!OnAfterCommand,
     Dev!Since, DevP!Since, Dev!SwitchesOn, DevP!SwitchesOn,
     Dev!SwitchesOff, DevP!SwitchesOff, Dev!LimitUs, DevP!LimitUs,
     Dev!ErrorAfterCommand, DevP!ErrorAfterCommand,
     Dev!StateAfterCommand, DevP!StateAfterCommand, Dev!HeldAfter, DevP!HeldAfter

\* The device's steps, and so its specification.
LEMMA SameStep == [Dev!Next]_(Dev!vars) <=> [DevP!Next]_(DevP!vars)
<1>1. Dev!Next <=> DevP!Next
  BY SameScan, Zenon DEF Dev!Next, DevP!Next, Dev!Begin, DevP!Begin,
     Dev!SetCommand, DevP!SetCommand, Dev!Request, DevP!Request, Dev!Accept, DevP!Accept,
     Dev!Accepts, DevP!Accepts, Dev!SetLimit, DevP!SetLimit,
     Dev!Commands, DevP!Commands, Dev!Unlisted, DevP!Unlisted
<1> QED BY <1>1 DEF Dev!vars, DevP!vars

\* Its initial states too.
LEMMA SameSpec == Dev!Spec <=> DevP!Spec
<1>1. Dev!Init <=> DevP!Init
  BY DEF Dev!Init, DevP!Init
<1> QED BY <1>1, SameStep, PTL DEF Dev!Spec, DevP!Spec

-----------------------------------------------------------------------------
(* The clock and the device's idea of it                                   *)

\* What a clock has moved by, read from its two values.
LEMMA MinusOfPlus ==
  ASSUME NEW m \in Nat, NEW a \in 0 .. m - 1, NEW d \in Nat, d < m
  PROVE  Dev!Minus(ClkP!Plus(a, d, m), a, m) = d
  BY DEF Dev!Minus, ClkP!Plus

\* Moving a clock by its distance to another gives the other.
LEMMA PlusOfMinus ==
  ASSUME NEW m \in Nat, NEW a \in 0 .. m - 1, NEW b \in 0 .. m - 1
  PROVE  Dev!Plus(a, Dev!Minus(b, a, m), m) = b
  BY DEF Dev!Minus, Dev!Plus

\* The device's latest scan is the clock's latest sample, but between a
\* sample and its update(t) it is one period behind, and dtUs is that period.
ClockAhead ==
  /\ step = "update" => started /\ dtUs <= MaxGap /\ Dev!Minus(nowUs, now, TimeMod) = dtUs
  /\ step # "update" => now = nowUs
  /\ now \in 0 .. TimeMod - 1

ClockInv == ClkP!IInv /\ ClockAhead

\* The parts of the clock's invariant that are used here.
LEMMA ClockFacts ==
  ASSUME ClkP!IInv
  PROVE  /\ nowUs \in 0 .. TimeMod - 1 /\ dtUs \in Nat /\ gap \in 0 .. MaxGap
         /\ started \in BOOLEAN
         /\ started => ClkP!Minus(raw, lastRaw, RawMod) = gap
         /\ ~started => gap = 0 /\ nowUs = 0
  BY ConstantTypes DEF ClkP!IInv, ClkP!TypeOK, ClkP!Time, ClkP!RawTime, ClkP!RawTracksGap,
     ClkP!NothingBeforeStart

\* Nothing has been sampled and nothing scanned.
LEMMA ClockInit == Init => ClockInv
<1> SUFFICES ASSUME Init PROVE ClockInv
  OBVIOUS
<1>1. ClkP!IInv
  BY SameClock, ClkP!InitInvariant, ClockConstants DEF Init
<1>2. now = 0 /\ nowUs = 0 /\ step = "sample"
  BY DEF Init, Dev!Init, Clk!Init
<1> QED BY <1>1, <1>2, ConstantTypes DEF ClockInv, ClockAhead

\* A sample: the first one finds both clocks at zero, a later one moves one of
\* them on by the true time since the sample before.
LEMMA ClockSample == ClockInv /\ Sample => ClockInv'
<1> SUFFICES ASSUME ClockInv, Sample PROVE ClockInv'
  OBVIOUS
<1>1. ClkP!Advance /\ step = "sample" /\ step' = "update" /\ now' = now
  BY SameClock DEF Sample, devVars
<1>2. ClkP!IInv'
  BY <1>1, ClkP!FirstAdvanceInvariant, ClkP!LaterAdvanceInvariant, ClockConstants
     DEF ClockInv, ClkP!Advance
<1>3. now = nowUs /\ now \in 0 .. TimeMod - 1
  BY <1>1 DEF ClockInv, ClockAhead
<1>4. CASE ClkP!FirstAdvance
  <2>1. nowUs = 0
    BY <1>4, ClockFacts DEF ClockInv, ClkP!FirstAdvance
  <2>2. Dev!Minus(0, 0, TimeMod) = 0
    BY DEF Dev!Minus
  <2> QED BY <1>1, <1>2, <1>3, <1>4, <2>1, <2>2, ConstantTypes
          DEF ClockInv, ClockAhead, ClkP!FirstAdvance
<1>5. CASE ClkP!LaterAdvance
  <2>1. dtUs' = gap /\ nowUs' = ClkP!Plus(nowUs, gap, TimeMod) /\ started'
    BY <1>5, ClockFacts DEF ClockInv, ClkP!LaterAdvance
  <2>2. gap \in Nat /\ gap <= MaxGap /\ gap < TimeMod
    BY ClockFacts, ConstantTypes DEF ClockInv
  <2>3. Dev!Minus(nowUs', now, TimeMod) = gap
    BY <1>3, <2>1, <2>2, ConstantTypes, MinusOfPlus
  <2> QED BY <1>1, <1>2, <1>3, <2>1, <2>2, <2>3 DEF ClockInv, ClockAhead
<1> QED BY <1>1, <1>4, <1>5 DEF ClkP!Advance

\* update(t) brings the device to the sample.
LEMMA ClockUpdate == ClockInv /\ Update => ClockInv'
<1> SUFFICES ASSUME ClockInv, Update PROVE ClockInv'
  OBVIOUS
<1>1. ClkP!IInv'
  BY DEF ClockInv, Update, clkVars, ClkP!IInv, ClkP!TypeOK, ClkP!ClockIsTrue,
         ClkP!RawTracksGap, ClkP!NothingBeforeStart
<1>2. now' = Dev!Plus(now, Dev!Minus(nowUs, now, TimeMod), TimeMod)
  BY DEF Update, Dev!Scan, Dev!ScanOnline, Dev!ScanOffline
<1>3. nowUs \in 0 .. TimeMod - 1 /\ now \in 0 .. TimeMod - 1
  BY ClockFacts DEF ClockInv, ClockAhead
<1>4. now' = nowUs /\ nowUs' = nowUs /\ step' = "link"
  BY <1>2, <1>3, ConstantTypes, PlusOfMinus DEF Update, clkVars
<1> QED BY <1>1, <1>3, <1>4 DEF ClockInv, ClockAhead

\* A microsecond moves neither the sample nor the scan.
LEMMA ClockTick == ClockInv /\ Tick => ClockInv'
<1> SUFFICES ASSUME ClockInv, Tick PROVE ClockInv'
  OBVIOUS
<1>1. ClkP!IInv'
  BY SameClock, ClkP!TickInvariant, ClockConstants, ConstantTypes DEF ClockInv, Tick
<1>2. UNCHANGED <<started, nowUs, dtUs, now, step>>
  BY DEF Tick, Clk!Tick, Clk!Elapse, devVars
<1> QED BY <1>1, <1>2 DEF ClockInv, ClockAhead

\* Everything else leaves the clock and the device's idea of it alone.
LEMMA ClockElsewhere ==
  ASSUME ClockInv, Link \/ Drive \/ Begin \/ Request \/ Configure \/ UNCHANGED vars
  PROVE  ClockInv'
<1>1. UNCHANGED <<clkVars, now>> /\ (step' = "update" <=> step = "update")
  BY DEF Link, Drive, Begin, Request, Configure, vars, devVars, clkVars, ioVars,
         Dev!Begin, Dev!Request, Dev!Accept, Dev!SetLimit
<1>2. ClkP!IInv'
  BY <1>1 DEF ClockInv, clkVars, ClkP!IInv, ClkP!TypeOK, ClkP!ClockIsTrue,
              ClkP!RawTracksGap, ClkP!NothingBeforeStart
<1> QED BY <1>1, <1>2 DEF ClockInv, ClockAhead, clkVars

\* Every step.
LEMMA ClockStep == ClockInv /\ [Next]_vars => ClockInv'
  BY ClockSample, ClockUpdate, ClockTick, ClockElsewhere DEF Next, ScanStep

\* So the clock's invariant holds always.
LEMMA ClockInvariant == Spec => []ClockInv
  BY ClockInit, ClockStep, PTL DEF Spec

-----------------------------------------------------------------------------
(* The device is called as its own theorems assume                         *)

\* Every step of the scan and of the application is one of Solenoid, or none.
LEMMA DeviceStep == ClockInv /\ [Next]_vars => [Dev!Next]_(Dev!vars)
<1> SUFFICES ASSUME ClockInv, [Next]_vars PROVE [Dev!Next]_(Dev!vars)
  OBVIOUS
<1>1. CASE Update
  <2>1. Dev!Minus(nowUs, now, TimeMod) \in 0 .. MaxGap
    BY <1>1, ClockFacts DEF ClockInv, ClockAhead, Update
  <2> QED BY <1>1, <2>1 DEF Update, Dev!Next
<1>2. CASE Begin
  BY <1>2 DEF Begin, Dev!Next
<1>3. CASE Request
  BY <1>3 DEF Request, Dev!Next, Dev!Commands
<1>4. CASE Configure
  BY <1>4 DEF Configure, Dev!Next
<1>5. CASE Sample \/ Link \/ Drive \/ Tick \/ UNCHANGED vars
  BY <1>5 DEF Sample, Link, Drive, Tick, vars, devVars, Dev!vars
<1> QED BY <1>1, <1>2, <1>3, <1>4, <1>5 DEF Next, ScanStep

\* update(t) sets the device's clock to the sample, and the sample is true.
LEMMA SeesTrueTime ==
  ASSUME ClockInv, ClockInv', Update
  PROVE  Dev!Plus(now', gap, TimeMod) = trueUs
<1>1. /\ step = "update" /\ step' = "link"
      /\ UNCHANGED <<started, nowUs, gap, trueUs>>
  BY DEF Update, clkVars
<1>2. started /\ now' = nowUs
  BY <1>1 DEF ClockInv, ClockAhead
<1>3. ClkP!Plus(nowUs, gap, TimeMod) = trueUs
  BY <1>2 DEF ClockInv, ClkP!IInv, ClkP!ClockIsTrue
<1> QED BY <1>2, <1>3 DEF Dev!Plus, ClkP!Plus

\* The clock keeps what Solenoid assumes of its caller: the calls of update(t)
\* are one scan gap apart at most in the time they are given, and the time
\* they are given is the true time of their samples, for every pair of
\* counter widths and however often either counter wraps.
THEOREM DeviceAssumptionKept == Spec => KeepsSolenoidAssumption
<1>1. Init => Dev!Init
  BY DEF Init
<1>2. ClockInv /\ ClockInv' /\ [Next]_vars
        => [Update => Dev!Plus(now', gap, TimeMod) = trueUs]_vars
  BY SeesTrueTime
<1> QED BY <1>1, <1>2, DeviceStep, ClockInvariant, PTL
        DEF Spec, Dev!Spec, KeepsSolenoidAssumption

\* What the pin's invariant needs of the device.
DeviceInv == DevP!IInv /\ DevP!HeldBelowALimit

\* It holds here, because the device is called as Solenoid assumes.
LEMMA DeviceInvariant == Spec => []DeviceInv
<1>1. DevP!Spec => []DevP!IInv
  BY DevP!Invariant, DeviceConstants
<1>2. DevP!Spec => []DevP!HeldBelowALimit
  BY DevP!HeldBelow, DeviceConstants
<1> QED BY <1>1, <1>2, DeviceAssumptionKept, SameSpec, PTL
        DEF KeepsSolenoidAssumption, DeviceInv

\* The parts of the device's invariant that are used here.
LEMMA DeviceFacts ==
  ASSUME DeviceInv
  PROVE  /\ Dev!TypeOK
         /\ ioCoil = rEnergized /\ rEnergized \in BOOLEAN /\ held \in Nat
         /\ rEnergized => rState # "OFFLINE"
         /\ rEnergized => \E l \in Limits : held < l * UsPerMs
  BY DEF DeviceInv, DevP!IInv, DevP!EnergizedOnlineUnfaulted, DevP!HeldBelowALimit,
     Dev!TypeOK, DevP!TypeOK, Dev!States, DevP!States, Dev!Errors, DevP!Errors,
     Dev!Commands, DevP!Commands, Dev!Time, DevP!Time

-----------------------------------------------------------------------------
(* The pin                                                                 *)

\* Where the pin is in the scan: it shows the coil until the next update(t),
\* and the server's copy does once the link has run.
PinFollows ==
  /\ step \in {"sample", "update", "link", "drive"}
  /\ serverCoil \in BOOLEAN /\ pin \in BOOLEAN /\ pinHeld \in Nat
  /\ step \in {"sample", "update"} => (pin <=> rEnergized)
  /\ step = "drive" => (serverCoil <=> rEnergized)
  /\ ~started => step = "sample" /\ ~pin
  /\ step # "sample" => gap <= MaxLatency

\* How long it has been HIGH: no longer than the coil has been on at the last
\* scan and the time that has passed since; and a coil that has just been
\* switched off was on for less than a limit one scan before.
PinHeldFits ==
  /\ pin /\ step = "sample" => pinHeld <= held + gap
  /\ pin /\ step = "update" => pinHeld <= held + dtUs + gap
  /\ pin /\ step \in {"link", "drive"} =>
       /\ rEnergized => pinHeld <= held + gap
       /\ \E l \in Limits : pinHeld < l * UsPerMs + MaxGap + gap

PinInv == PinFollows /\ PinHeldFits

\* The pin is LOW.
LEMMA PinInit == Init => PinInv
<1> SUFFICES ASSUME Init PROVE PinInv
  OBVIOUS
<1>1. rEnergized = FALSE /\ started = FALSE /\ pin = FALSE
  BY DEF Init, Dev!Init, Clk!Init
<1>2. step = "sample" /\ serverCoil = FALSE /\ pinHeld = 0
  BY DEF Init
<1> QED BY <1>1, <1>2 DEF PinInv, PinFollows, PinHeldFits

\* A sample starts a period: what has passed until now is dtUs.
LEMMA PinSample ==
  ASSUME ClockInv, ClockInv', DeviceInv, PinInv, Sample
  PROVE  PinInv'
<1>1. UNCHANGED <<held, rEnergized, serverCoil, pin, pinHeld>> /\ step = "sample" /\ step' = "update"
  BY DEF Sample, devVars
<1>2. gap' = 0 /\ started' /\ (started => dtUs' = gap) /\ dtUs' \in Nat
  <2>1. started => dtUs' = gap
    BY SameClock, ClockFacts DEF Sample, ClockInv, ClkP!Advance, ClkP!FirstAdvance, ClkP!LaterAdvance
  <2>2. dtUs' \in Nat
    BY DEF ClockInv, ClkP!IInv, ClkP!TypeOK, ClkP!RawTime
  <2> QED BY <2>1, <2>2 DEF Sample, Clk!Advance, Clk!FirstAdvance, Clk!LaterAdvance
<1>3. PinFollows'
  BY <1>1, <1>2, ConstantTypes DEF PinInv, PinFollows
<1>4. pin => pinHeld <= held + dtUs' + gap'
  <2>1. held \in Nat /\ gap \in Nat
    BY DeviceFacts, ClockFacts DEF ClockInv
  <2> SUFFICES ASSUME pin PROVE pinHeld <= held + dtUs' + gap'
    OBVIOUS
  <2>2. started /\ pinHeld <= held + gap
    BY <1>1 DEF PinInv, PinFollows, PinHeldFits
  <2> QED BY <1>2, <2>1, <2>2
<1>5. PinHeldFits'
  BY <1>1, <1>4 DEF PinHeldFits
<1> QED BY <1>3, <1>5 DEF PinInv

\* update(t): a coil that stays on has been on for dtUs more; one that does
\* not was on for less than a limit at the scan before, dtUs ago.
LEMMA PinUpdate ==
  ASSUME ClockInv, DeviceInv, DeviceInv', PinInv, Update
  PROVE  PinInv'
<1>1. UNCHANGED <<started, gap, dtUs, serverCoil, pin, pinHeld>> /\ step = "update" /\ step' = "link"
  BY DEF Update, clkVars
<1>2. dtUs \in 0 .. MaxGap /\ gap \in Nat /\ held \in Nat /\ held' \in Nat
  BY <1>1, ClockFacts, DeviceFacts, ConstantTypes DEF ClockInv, ClockAhead, DeviceInv, DevP!IInv, DevP!TypeOK
<1>3. rEnergized' /\ rEnergized => held' = held + dtUs
  <2>1. DevP!Scan(dtUs)
    BY <1>1, SameScan DEF Update, ClockInv, ClockAhead
  <2> QED BY <1>2, <2>1, DevP!ScanAddsGap, DeviceConstants DEF DeviceInv
<1>4. PinFollows'
  BY <1>1 DEF PinInv, PinFollows
<1>5. ASSUME pin
      PROVE  /\ rEnergized' => pinHeld <= held' + gap
             /\ \E l \in Limits : pinHeld < l * UsPerMs + MaxGap + gap
  <2>1. rEnergized /\ pinHeld <= held + dtUs + gap /\ pinHeld \in Nat
    BY <1>1, <1>5 DEF PinInv, PinFollows, PinHeldFits
  <2>2. PICK l \in Limits : held < l * UsPerMs
    BY <2>1, DeviceFacts
  <2>3. pinHeld < l * UsPerMs + MaxGap + gap
    BY <1>2, <2>1, <2>2, ConstantTypes
  <2> QED BY <1>3, <2>1, <2>3
<1>6. PinHeldFits'
  BY <1>1, <1>5 DEF PinHeldFits
<1> QED BY <1>4, <1>6 DEF PinInv

\* The link brings the server what the device decided.
LEMMA PinLink ==
  ASSUME DeviceInv, PinInv, Link
  PROVE  PinInv'
<1>1. UNCHANGED <<started, gap, held, rEnergized, pin, pinHeld>> /\ step = "link" /\ step' = "drive"
  BY DEF Link, clkVars, devVars
<1>2. serverCoil' = rEnergized /\ rEnergized \in BOOLEAN
  BY DeviceFacts DEF Link
<1>3. PinFollows'
  BY <1>1, <1>2 DEF PinInv, PinFollows
<1> QED BY <1>1, <1>3 DEF PinInv, PinHeldFits

\* The pin write: a pin that goes HIGH starts at zero, one that stays HIGH
\* goes on.
LEMMA PinDrive ==
  ASSUME ClockInv, DeviceInv, PinInv, Drive
  PROVE  PinInv'
<1>1. UNCHANGED <<started, gap, held, rEnergized, serverCoil>> /\ step = "drive" /\ step' = "sample"
  BY DEF Drive, clkVars, devVars
<1>2. pin' = serverCoil /\ pinHeld' = IF pin /\ serverCoil THEN pinHeld ELSE 0
  BY DEF Drive
<1>3. (serverCoil <=> rEnergized) /\ pinHeld \in Nat /\ serverCoil \in BOOLEAN /\ started
  BY <1>1 DEF PinInv, PinFollows
<1>4. held \in Nat /\ gap \in Nat
  BY ClockFacts, DeviceFacts DEF ClockInv
<1>5. PinFollows'
  BY <1>1, <1>2, <1>3 DEF PinFollows
<1>6. pin' => pinHeld' <= held + gap
  BY <1>1, <1>2, <1>3, <1>4 DEF PinInv, PinHeldFits
<1>7. PinHeldFits'
  BY <1>1, <1>6 DEF PinHeldFits
<1> QED BY <1>5, <1>7 DEF PinInv

\* A microsecond is one more for the pin, and one more since the sample.
LEMMA PinTick ==
  ASSUME ClockInv, DeviceInv, PinInv, Tick
  PROVE  PinInv'
<1>1. /\ UNCHANGED <<started, dtUs, held, rEnergized, step, serverCoil, pin>>
      /\ started => gap' = gap + 1
      /\ ~started => gap' = gap
      /\ step # "sample" => gap < MaxLatency
  BY DEF Tick, Clk!Tick, Clk!Elapse, devVars
<1>2. pinHeld' = IF pin /\ pinHeld < 2 * TimeMod THEN pinHeld + 1 ELSE pinHeld
  BY DEF Tick
<1>3. pinHeld \in Nat /\ gap \in Nat /\ held \in Nat /\ dtUs \in Nat /\ (pin \/ step # "sample" => started)
  BY ClockFacts, DeviceFacts DEF ClockInv, PinInv, PinFollows
<1>4. pinHeld' \in Nat /\ pinHeld' <= pinHeld + 1
  BY <1>2, <1>3
<1>5. PinFollows'
  BY <1>1, <1>3, <1>4, ConstantTypes DEF PinInv, PinFollows
<1>6. ASSUME pin, step = "sample" PROVE pinHeld' <= held + gap'
  BY <1>1, <1>3, <1>4, <1>6 DEF PinInv, PinHeldFits
<1>7. ASSUME pin, step = "update" PROVE pinHeld' <= held + dtUs + gap'
  BY <1>1, <1>3, <1>4, <1>7 DEF PinInv, PinHeldFits
<1>8. ASSUME pin, step \in {"link", "drive"}
      PROVE  /\ rEnergized => pinHeld' <= held + gap'
             /\ \E l \in Limits : pinHeld' < l * UsPerMs + MaxGap + gap'
  <2>1. rEnergized => pinHeld <= held + gap
    BY <1>8 DEF PinInv, PinHeldFits
  <2>2. PICK l \in Limits : pinHeld < l * UsPerMs + MaxGap + gap
    BY <1>8 DEF PinInv, PinHeldFits
  <2>3. gap' = gap + 1
    BY <1>1, <1>3, <1>8
  <2>4. pinHeld' < l * UsPerMs + MaxGap + gap'
    BY <1>3, <1>4, <2>2, <2>3, ConstantTypes
  <2> QED BY <1>3, <1>4, <2>1, <2>3, <2>4
<1>9. PinHeldFits'
  BY <1>1, <1>6, <1>7, <1>8 DEF PinHeldFits
<1> QED BY <1>5, <1>9 DEF PinInv

\* begin() of an offline device finds the coil, and so the pin, off; requests
\* and limits touch neither.
LEMMA PinElsewhere ==
  ASSUME DeviceInv, PinInv, Begin \/ Request \/ Configure \/ UNCHANGED vars
  PROVE  PinInv'
<1>1. UNCHANGED <<started, dtUs, gap, step, serverCoil, pin, pinHeld>>
  BY DEF Begin, Request, Configure, vars, clkVars, ioVars
<1>2. CASE Begin
  <2>1. step = "sample" /\ ~rEnergized /\ ~rEnergized'
    BY <1>2, DeviceFacts DEF Begin, Dev!Begin
  <2>2. ~pin
    BY <2>1 DEF PinInv, PinFollows
  <2> QED BY <1>1, <2>1, <2>2 DEF PinInv, PinFollows, PinHeldFits
<1>3. CASE Request \/ Configure \/ UNCHANGED vars
  <2>1. UNCHANGED <<rEnergized, held>>
    BY <1>3 DEF Request, Configure, vars, devVars, Dev!Request, Dev!Accept, Dev!SetLimit
  <2> QED BY <1>1, <2>1 DEF PinInv, PinFollows, PinHeldFits
<1> QED BY <1>2, <1>3

\* The pin's invariant holds throughout.
LEMMA PinInvariant == Spec => []PinInv
<1>1. ClockInv /\ ClockInv' /\ DeviceInv /\ DeviceInv' /\ PinInv /\ [Next]_vars => PinInv'
  BY PinSample, PinUpdate, PinLink, PinDrive, PinTick, PinElsewhere DEF Next, ScanStep
<1> QED BY <1>1, PinInit, ClockInvariant, DeviceInvariant, PTL DEF Spec

-----------------------------------------------------------------------------
(* The theorems                                                            *)

\* Every variable of the scan, of the device and of the clock keeps its type.
THEOREM ScanType == Spec => []TypeOK
<1>1. ClockInv /\ DeviceInv /\ PinInv => TypeOK
  BY DeviceFacts DEF TypeOK, ClockInv, ClkP!IInv, PinInv, PinFollows,
     Clk!TypeOK, ClkP!TypeOK, Clk!RawTime, ClkP!RawTime, Clk!Time, ClkP!Time
<1> QED BY <1>1, ClockInvariant, DeviceInvariant, PinInvariant, PTL

\* "What the logic decided this period": between two scans the pin shows what
\* the device believes of its coil.
THEOREM PinShowsCoil == Spec => []PinIsTheCoil
<1>1. PinInv => PinIsTheCoil
  BY DEF PinInv, PinFollows, PinIsTheCoil
<1> QED BY <1>1, PinInvariant, PTL

\* "The device enforces a maximum continuous on-time": at the pin it is below
\* a limit that was configured, one gap between samples and one latency,
\* however wide the counters are and however often they wrap.
THEOREM PinBounded == Spec => []PinOnTimeBounded
<1>1. ASSUME ClockInv, DeviceInv, PinInv PROVE PinOnTimeBounded
  <2> SUFFICES ASSUME pin
               PROVE  \E l \in Limits : pinHeld < l * UsPerMs + MaxGap + MaxLatency
    BY DEF PinOnTimeBounded
  <2>1. /\ gap \in 0 .. MaxGap /\ dtUs \in Nat /\ held \in Nat /\ pinHeld \in Nat
        /\ step # "sample" => gap <= MaxLatency
    BY <1>1, ClockFacts, DeviceFacts DEF ClockInv, PinInv, PinFollows
  <2>2. CASE step = "sample"
    <3>1. rEnergized /\ pinHeld <= held + gap
      BY <1>1, <2>2 DEF PinInv, PinFollows, PinHeldFits
    <3>2. PICK l \in Limits : held < l * UsPerMs
      BY <1>1, <3>1, DeviceFacts
    <3>3. pinHeld < l * UsPerMs + MaxGap + MaxLatency
      BY <2>1, <3>1, <3>2, ConstantTypes
    <3> QED BY <3>3
  <2>3. CASE step = "update"
    <3>1. rEnergized /\ pinHeld <= held + dtUs + gap /\ dtUs <= MaxGap
      BY <1>1, <2>3 DEF ClockInv, ClockAhead, PinInv, PinFollows, PinHeldFits
    <3>2. PICK l \in Limits : held < l * UsPerMs
      BY <1>1, <3>1, DeviceFacts
    <3>3. pinHeld < l * UsPerMs + MaxGap + MaxLatency
      BY <2>1, <2>3, <3>1, <3>2, ConstantTypes
    <3> QED BY <3>3
  <2>4. CASE step \in {"link", "drive"}
    <3>1. PICK l \in Limits : pinHeld < l * UsPerMs + MaxGap + gap
      BY <1>1, <2>4 DEF PinInv, PinHeldFits
    <3>2. pinHeld < l * UsPerMs + MaxGap + MaxLatency
      BY <2>1, <2>4, <3>1, ConstantTypes
    <3> QED BY <3>2
  <2> QED BY <1>1, <2>2, <2>3, <2>4 DEF PinInv, PinFollows
<1> QED BY <1>1, ClockInvariant, DeviceInvariant, PinInvariant, PTL
=============================================================================
