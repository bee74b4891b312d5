--------------------------- MODULE SketchesProofs ---------------------------
(***************************************************************************)
(* The example sketches on any clocks: whatever a delay and a line may     *)
(* take, wherever millis() stands and however often it goes back to 0, for *)
(* every limit and every period their figures leave room for.              *)
(*                                                                         *)
(* The invariants say of every statement how the device stands and how     *)
(* late it may be; what the sketches measure from a reading of millis() is *)
(* related to true time first.                                             *)
(***************************************************************************)
EXTENDS SolenoidDemo, CoilPulses, WallClockDemo, TLAPS

-----------------------------------------------------------------------------
(* The coil                                                                *)

\* The limit in microseconds.
MaxOnUs == MAX_ON_MS * UsPerMs

\* A device whose attributes agree on what it is, with a request latched.
Device(state, error, on, request) ==
  /\ rState = state /\ rError = error /\ pending = request
  /\ rEnergized = on /\ ioCoil = on /\ pin = on
  /\ cnfMaxOnTimeMs = MAX_ON_MS

Idle(request) == Device("IDLE", "NONE", FALSE, request)
On(request) == Device("BUSY", "NONE", TRUE, request)
Errored(request) == Device("ERRORED", "ON_TIME_EXCEEDED", FALSE, request)

\* What the device measures is the true on-time, which is below the limit.
Timed ==
  /\ now \in 0 .. TimeMod - 1 /\ energizedAtUs \in 0 .. TimeMod - 1 /\ held \in Nat
  /\ rEnergized => held = Minus(now, energizedAtUs, TimeMod) /\ held < MaxOnUs

\* The constants.
LEMMA SketchConstants ==
  /\ TimeMod \in Nat /\ UsPerMs \in Nat \ {0} /\ MsMod \in Nat \ {0} /\ MAX_ON_MS \in Nat \ {0}
  /\ MinDelay \in Nat /\ MaxDelay \in Nat /\ MaxPrint \in Nat /\ MaxLoop \in Nat
  /\ 0 < MinDelay /\ MinDelay <= MaxDelay /\ MaxLoop = MaxDelay + 2 * MaxPrint
  /\ MaxOnUs \in Nat /\ 0 < MaxOnUs /\ MaxOnUs + MaxLoop < TimeMod
<1>1. /\ TimeMod \in Nat /\ UsPerMs \in Nat \ {0} /\ MsMod \in Nat \ {0} /\ MAX_ON_MS \in Nat \ {0}
      /\ MinDelay \in Nat \ {0} /\ MaxDelay \in Nat /\ MaxPrint \in Nat /\ MinDelay <= MaxDelay
      /\ MAX_ON_MS * UsPerMs + MaxLoop < TimeMod
  BY SketchAssumption
<1>2. MAX_ON_MS * UsPerMs \in Nat /\ 0 < MAX_ON_MS * UsPerMs
  BY <1>1
<1> QED BY <1>1, <1>2 DEF MaxOnUs, MaxLoop

\* The clock a scan is called with.
LEMMA NextNow ==
  ASSUME Timed, NEW d \in 0 .. TimeMod - 1, Dev!Scan(d)
  PROVE  /\ now' = Plus(now, d, TimeMod) /\ now' \in 0 .. TimeMod - 1
         /\ Plus(now, d, TimeMod) = Dev!Plus(now, d, TimeMod)
<1>1. now' = Dev!Plus(now, d, TimeMod)
  BY DEF Dev!Scan, Dev!ScanOnline, Dev!ScanOffline
<1> QED BY <1>1, SketchConstants DEF Timed, Plus, Dev!Plus

\* A scan of a device that is off with nothing to do.
LEMMA ScanRests ==
  ASSUME Timed, NEW d \in 0 .. TimeMod - 1, Dev!Scan(d), pin' = Pin,
         NEW state \in {"IDLE", "ERRORED"}, NEW error, Device(state, error, FALSE, "NONE")
  PROVE  Device(state, error, FALSE, "NONE")' /\ Timed' /\ reported' = "NONE"
<1>1. Dev!ScanOnline(d)
  BY DEF Device, Dev!Scan, Dev!ScanOffline
<1>2. ~Dev!SwitchesOn /\ ~Dev!SwitchesOff /\ ~Dev!OnAfterCommand
  BY DEF Device, Dev!SwitchesOn, Dev!SwitchesOff, Dev!OnAfterCommand
<1>3. \A t : ~Dev!Expired(t)
  BY <1>2 DEF Dev!Expired
<1>4. Device(state, error, FALSE, "NONE")' /\ reported' = "NONE"
  BY <1>1, <1>2, <1>3 DEF Dev!ScanOnline, Device, Pin, Dev!ErrorAfterCommand, Dev!StateAfterCommand
<1>5. now' \in 0 .. TimeMod - 1 /\ energizedAtUs' = energizedAtUs /\ held' = 0
  BY <1>1, <1>2, NextNow DEF Dev!ScanOnline, Dev!Since, Dev!HeldAfter
<1>6. Timed'
  BY <1>4, <1>5 DEF Timed, Device
<1> QED BY <1>4, <1>6

\* A scan that finds an ENERGIZE.
LEMMA ScanEnergizes ==
  ASSUME Timed, NEW d \in 0 .. TimeMod - 1, Dev!Scan(d), pin' = Pin, Idle("ENERGIZE")
  PROVE  On("NONE")' /\ Timed' /\ held' = 0 /\ reported' = "NONE"
<1>1. Dev!ScanOnline(d)
  BY DEF Idle, Device, Dev!Scan, Dev!ScanOffline
<1>2. Dev!SwitchesOn /\ ~Dev!SwitchesOff /\ Dev!OnAfterCommand
  BY DEF Idle, Device, Dev!SwitchesOn, Dev!SwitchesOff, Dev!OnAfterCommand
<1> DEFINE t == Dev!Plus(now, d, TimeMod)
<1>3. Dev!Since(t) = t /\ now' = t /\ t \in 0 .. TimeMod - 1
  BY <1>1, <1>2, NextNow DEF Dev!Since, Dev!ScanOnline
<1>4. Dev!Minus(t, Dev!Since(t), TimeMod) = 0 /\ Minus(t, t, TimeMod) = 0
  BY <1>3, SketchConstants DEF Dev!Minus, Minus
<1>5. Dev!LimitUs = MaxOnUs
  BY DEF Idle, Device, Dev!LimitUs, MaxOnUs
<1>6. ~Dev!Expired(t)
  BY <1>4, <1>5, SketchConstants DEF Dev!Expired
<1>7. On("NONE")' /\ reported' = "NONE"
  BY <1>1, <1>2, <1>6 DEF Dev!ScanOnline, Idle, On, Device, Pin, Dev!ErrorAfterCommand, Dev!StateAfterCommand
<1>8. energizedAtUs' = t /\ held' = 0
  BY <1>1, <1>2, <1>3 DEF Dev!ScanOnline, Dev!HeldAfter, Idle, Device
<1>9. Timed'
  BY <1>3, <1>4, <1>8, SketchConstants DEF Timed
<1> QED BY <1>7, <1>8, <1>9

\* The difference to a fixed instant grows with the clock, wrap or no wrap.
LEMMA MinusAdvances ==
  ASSUME NEW m \in Nat, NEW a \in 0 .. m - 1, NEW since \in 0 .. m - 1,
         NEW d \in Nat, Minus(a, since, m) + d < m
  PROVE  /\ Minus(Plus(a, d, m), since, m) = Minus(a, since, m) + d
         /\ Plus(a, d, m) \in 0 .. m - 1
  BY DEF Minus, Plus

\* A scan of a coil that is on, with no request: it stays on below the limit,
\* and is cut at the limit.
LEMMA ScanMeasures ==
  ASSUME Timed, NEW d \in 0 .. MaxLoop, Dev!Scan(d), pin' = Pin, On("NONE")
  PROVE  /\ Timed'
         /\ held + d < MaxOnUs => On("NONE")' /\ held' = held + d /\ reported' = "NONE"
         /\ held + d >= MaxOnUs => Errored("NONE")' /\ reported' = "ON_TIME_EXCEEDED"
<1>1. Dev!ScanOnline(d) /\ d \in 0 .. TimeMod - 1
  BY SketchConstants DEF On, Device, Dev!Scan, Dev!ScanOffline
<1>2. ~Dev!SwitchesOn /\ ~Dev!SwitchesOff /\ Dev!OnAfterCommand
  BY DEF On, Device, Dev!SwitchesOn, Dev!SwitchesOff, Dev!OnAfterCommand
<1> DEFINE t == Dev!Plus(now, d, TimeMod)
<1>3. /\ Dev!Since(t) = energizedAtUs /\ now' = t /\ t = Plus(now, d, TimeMod)
      /\ t \in 0 .. TimeMod - 1
  BY <1>1, <1>2, NextNow DEF Dev!Since, Dev!ScanOnline
<1>4. held = Minus(now, energizedAtUs, TimeMod) /\ held < MaxOnUs /\ held + d < TimeMod
      /\ now \in 0 .. TimeMod - 1 /\ energizedAtUs \in 0 .. TimeMod - 1 /\ held \in Nat /\ d \in Nat
  BY SketchConstants DEF Timed, On, Device
<1>5. Minus(t, energizedAtUs, TimeMod) = held + d
  BY <1>3, <1>4, MinusAdvances, SketchConstants
<1>6. Dev!Minus(t, Dev!Since(t), TimeMod) = held + d
  BY <1>3, <1>5 DEF Minus, Dev!Minus
<1>7. Dev!LimitUs = MaxOnUs
  BY DEF On, Device, Dev!LimitUs, MaxOnUs
<1>8. Dev!Expired(t) <=> held + d >= MaxOnUs
  BY <1>2, <1>6, <1>7 DEF Dev!Expired
<1>9. energizedAtUs' = energizedAtUs
  BY <1>1, <1>3 DEF Dev!ScanOnline
<1>10. CASE held + d < MaxOnUs
  <2>1. ~Dev!Expired(t)
    BY <1>4, <1>8, <1>10, SketchConstants
  <2>2. On("NONE")' /\ reported' = "NONE"
    BY <1>1, <1>2, <2>1 DEF Dev!ScanOnline, On, Device, Pin, Dev!ErrorAfterCommand, Dev!StateAfterCommand
  <2>3. held' = held + d
    BY <1>1, <1>2, <1>4, <2>1 DEF Dev!ScanOnline, Dev!HeldAfter, On, Device
  <2>4. Timed'
    BY <1>3, <1>4, <1>5, <1>9, <1>10, <2>3 DEF Timed
  <2> QED BY <1>4, <1>10, <2>2, <2>3, <2>4, SketchConstants
<1>11. CASE held + d >= MaxOnUs
  <2>1. Dev!Expired(t)
    BY <1>8, <1>11
  <2>2. Errored("NONE")' /\ reported' = "ON_TIME_EXCEEDED"
    BY <1>1, <2>1 DEF Dev!ScanOnline, On, Errored, Device, Pin
  <2>3. held' = 0
    BY <1>1, <2>1 DEF Dev!ScanOnline, Dev!HeldAfter
  <2>4. Timed'
    BY <1>3, <1>4, <1>9, <2>2, <2>3 DEF Timed, Errored, Device
  <2> QED BY <1>4, <1>11, <2>2, <2>4, SketchConstants
<1> QED BY <1>4, <1>10, <1>11, SketchConstants

\* A scan that finds a RELEASE of a coil that is on.
LEMMA ScanReleases ==
  ASSUME Timed, NEW d \in 0 .. TimeMod - 1, Dev!Scan(d), pin' = Pin, On("RELEASE")
  PROVE  Idle("NONE")' /\ Timed' /\ reported' = "NONE"
<1>1. Dev!ScanOnline(d)
  BY DEF On, Device, Dev!Scan, Dev!ScanOffline
<1>2. ~Dev!SwitchesOn /\ Dev!SwitchesOff /\ ~Dev!OnAfterCommand
  BY DEF On, Device, Dev!SwitchesOn, Dev!SwitchesOff, Dev!OnAfterCommand
<1>3. \A t : ~Dev!Expired(t)
  BY <1>2 DEF Dev!Expired
<1>4. ioCoil' = FALSE
  <2>1. Dev!OnAfterCommand = FALSE
    BY <1>2 DEF Dev!OnAfterCommand
  <2> QED BY <1>1, <1>2, <1>3, <2>1 DEF Dev!ScanOnline
<1>5. Idle("NONE")' /\ reported' = "NONE"
  BY <1>1, <1>2, <1>3, <1>4 DEF Dev!ScanOnline, On, Idle, Device, Pin, Dev!ErrorAfterCommand, Dev!StateAfterCommand
<1>6. now' \in 0 .. TimeMod - 1 /\ energizedAtUs' = energizedAtUs /\ held' = 0
  BY <1>1, <1>2, NextNow DEF Dev!ScanOnline, Dev!Since, Dev!HeldAfter
<1>7. Timed'
  BY <1>5, <1>6 DEF Timed, Idle, Device
<1> QED BY <1>5, <1>7

\* A scan that finds a CLEAR_FAULT.
LEMMA ScanClears ==
  ASSUME Timed, NEW d \in 0 .. TimeMod - 1, Dev!Scan(d), pin' = Pin, Errored("CLEAR_FAULT")
  PROVE  Idle("NONE")' /\ Timed' /\ reported' = "NONE"
<1>1. Dev!ScanOnline(d)
  BY DEF Errored, Device, Dev!Scan, Dev!ScanOffline
<1>2. ~Dev!SwitchesOn /\ ~Dev!SwitchesOff /\ ~Dev!OnAfterCommand
  BY DEF Errored, Device, Dev!SwitchesOn, Dev!SwitchesOff, Dev!OnAfterCommand
<1>3. \A t : ~Dev!Expired(t)
  BY <1>2 DEF Dev!Expired
<1>4. Idle("NONE")' /\ reported' = "NONE"
  BY <1>1, <1>2, <1>3 DEF Dev!ScanOnline, Errored, Idle, Device, Pin, Dev!ErrorAfterCommand, Dev!StateAfterCommand
<1>5. now' \in 0 .. TimeMod - 1 /\ energizedAtUs' = energizedAtUs /\ held' = 0
  BY <1>1, <1>2, NextNow DEF Dev!ScanOnline, Dev!Since, Dev!HeldAfter
<1>6. Timed'
  BY <1>4, <1>5 DEF Timed, Idle, Device
<1> QED BY <1>4, <1>6

-----------------------------------------------------------------------------
(* millis()                                                                *)

\* What millis() takes to go back to 0.
LapUs == MsMod * UsPerMs

\* Microseconds since the millisecond ms began, on the clock of millis().
SinceMs(ms) == Minus(us, ms * UsPerMs, MsMod * UsPerMs)

\* A number of milliseconds in microseconds.
LEMMA MsInUs ==
  ASSUME NEW u \in Nat \ {0}, NEW m \in Nat \ {0}, NEW l \in 0 .. m - 1
  PROVE  l * u \in 0 .. m * u - 1 /\ m * u \in Nat
<1>1. l * u \in Nat /\ m * u \in Nat /\ (m - l) * u = (m * u) - (l * u)
  OBVIOUS
<1>2. (m - l) * u >= 1 * u
  OBVIOUS
<1> QED BY <1>1, <1>2

\* Whole multiples in a number that lies between two of them.
LEMMA QuotientIs ==
  ASSUME NEW u \in Nat \ {0}, NEW q \in Int, NEW r \in 0 .. u - 1, NEW n \in Int
  PROVE  q >= n <=> u * q + r >= n * u
<1>1. CASE q >= n
  <2>1. u * q >= u * n
    BY <1>1
  <2> QED BY <1>1, <2>1
<1>2. CASE q <= n - 1
  <2>1. u * q <= u * (n - 1)
    BY <1>2
  <2>2. u * (n - 1) = (u * n) - u
    OBVIOUS
  <2> QED BY <1>2, <2>1, <2>2
<1> QED BY <1>1, <1>2

\* A difference of two readings of millis() is the whole milliseconds since
\* the first of them began.
LEMMA MillisSince ==
  ASSUME NEW u \in Nat \ {0}, NEW m \in Nat \ {0}, NEW l \in 0 .. m - 1, NEW a \in 0 .. m * u - 1,
         NEW n \in Nat
  PROVE  /\ a \div u \in 0 .. m - 1
         /\ Minus(a \div u, l, m) >= n <=> Minus(a, l * u, m * u) >= n * u
<1> DEFINE q == a \div u
           r == a % u
<1>1. q \in Nat /\ r \in 0 .. u - 1 /\ a = (u * q) + r
  OBVIOUS
<1> HIDE DEF q, r
<1>2. u * m = m * u /\ u * l = l * u /\ m * u \in Nat /\ l * u \in Nat /\ u * q \in Nat
  BY <1>1
<1>3. q \in 0 .. m - 1
  <2>1. q >= m <=> u * q + r >= m * u
    BY <1>1, QuotientIs
  <2> QED BY <1>1, <1>2, <2>1
<1>4. q >= l <=> u * q + r >= l * u
  BY <1>1, QuotientIs
<1>5. CASE q >= l
  <2>1. u * (q - l) = (u * q) - (u * l)
    BY <1>1
  <2>2. q - l >= n <=> u * (q - l) + r >= n * u
    BY <1>1, QuotientIs
  <2>3. Minus(q, l, m) = q - l /\ Minus(a, l * u, m * u) = u * (q - l) + r
    BY <1>1, <1>2, <1>4, <1>5, <2>1 DEF Minus
  <2> QED BY <1>3, <2>2, <2>3 DEF q
<1>6. CASE q < l
  <2>1. u * ((q - l) + m) = ((u * q) - (u * l)) + (u * m)
    BY <1>1
  <2>2. (q - l) + m >= n <=> u * ((q - l) + m) + r >= n * u
    BY <1>1, QuotientIs
  <2>3. Minus(q, l, m) = (q - l) + m /\ Minus(a, l * u, m * u) = u * ((q - l) + m) + r
    BY <1>1, <1>2, <1>4, <1>6, <2>1 DEF Minus
  <2> QED BY <1>3, <2>2, <2>3 DEF q
<1> QED BY <1>1, <1>5, <1>6
\* The milliseconds of a reading, in microseconds.
LEMMA Readings ==
  ASSUME NEW l \in 0 .. MsMod - 1
  PROVE  l * UsPerMs \in 0 .. LapUs - 1
  BY SketchConstants, MsInUs DEF LapUs

\* A reading of millis() is of the millisecond that has begun.
LEMMA MillisNow ==
  ASSUME us \in 0 .. LapUs - 1
  PROVE  millis \in 0 .. MsMod - 1 /\ SinceMs(millis) \in 0 .. UsPerMs - 1
<1>1. us \in 0 .. MsMod * UsPerMs - 1 /\ us \in Nat
  BY SketchConstants DEF LapUs
<1>2. us \div UsPerMs \in 0 .. MsMod - 1
  <2>1. 0 \in 0 .. MsMod - 1 /\ 0 \in Nat
    BY SketchConstants
  <2> QED BY <1>1, <2>1, MillisSince, SketchConstants
<1>3. us = (UsPerMs * (us \div UsPerMs)) + (us % UsPerMs) /\ us % UsPerMs \in 0 .. UsPerMs - 1
  BY <1>1, SketchConstants
<1>4. us - ((us \div UsPerMs) * UsPerMs) \in 0 .. UsPerMs - 1 /\ (us \div UsPerMs) * UsPerMs \in Nat
  BY <1>1, <1>2, <1>3, SketchConstants
<1>5. Minus(us, (us \div UsPerMs) * UsPerMs, MsMod * UsPerMs) = us - ((us \div UsPerMs) * UsPerMs)
  BY <1>1, <1>4 DEF Minus
<1> QED BY <1>2, <1>4, <1>5 DEF SinceMs, millis

\* Time passes on the clock of millis().
LEMMA SinceMsAdvances ==
  ASSUME us \in 0 .. LapUs - 1, NEW ms \in 0 .. MsMod - 1, NEW d \in Nat,
         us' = Later(d), SinceMs(ms) + d < LapUs
  PROVE  /\ us' \in 0 .. LapUs - 1
         /\ Minus(us', ms * UsPerMs, LapUs) = SinceMs(ms) + d
<1>1. us' = Plus(us, d, LapUs) /\ LapUs \in Nat
  BY SketchConstants DEF Later, LapUs
<1>2. ms * UsPerMs \in 0 .. LapUs - 1
  BY Readings
<1>3. SinceMs(ms) = Minus(us, ms * UsPerMs, LapUs)
  BY DEF SinceMs, LapUs
<1> QED BY <1>1, <1>2, <1>3, MinusAdvances

\* The values of SinceMs.
LEMMA SinceMsValue ==
  ASSUME us \in 0 .. LapUs - 1, NEW ms \in 0 .. MsMod - 1
  PROVE  SinceMs(ms) \in 0 .. LapUs - 1
<1>1. LapUs \in Nat /\ ms * UsPerMs \in 0 .. LapUs - 1
  BY Readings, SketchConstants DEF LapUs
<1>2. SinceMs(ms) = Minus(us, ms * UsPerMs, LapUs)
  BY DEF SinceMs, LapUs
<1> QED BY <1>1, <1>2 DEF Minus

\* An offline device: its limit, and nothing else, may have been set.
Offline(limit) ==
  /\ rState = "OFFLINE" /\ rError = "NONE" /\ pending = "NONE"
  /\ rEnergized = FALSE /\ ioCoil = FALSE /\ pin = FALSE
  /\ cnfMaxOnTimeMs = limit

\* A scan of an offline device.
LEMMA ScanOffline ==
  ASSUME Timed, NEW d \in 0 .. TimeMod - 1, Dev!Scan(d), pin' = Pin, NEW limit, Offline(limit)
  PROVE  Offline(limit)' /\ Timed' /\ reported' = "NONE"
<1>1. Dev!ScanOffline(d)
  BY DEF Offline, Dev!Scan, Dev!ScanOnline
<1>2. Offline(limit)' /\ reported' = "NONE"
  BY <1>1 DEF Dev!ScanOffline, Offline, Pin
<1>3. now' \in 0 .. TimeMod - 1 /\ energizedAtUs' = energizedAtUs /\ held' = held
  BY <1>1, NextNow DEF Dev!ScanOffline
<1> QED BY <1>2, <1>3 DEF Timed, Offline

\* begin() of an offline device.
LEMMA BeginStarts ==
  ASSUME Timed, NEW limit, Offline(limit), Dev!Begin, pin' = pin
  PROVE  /\ limit = 0 => Offline(limit)'
         /\ limit = MAX_ON_MS => Idle("NONE")'
         /\ Timed' /\ reported' = "NONE"
<1>1. Timed' /\ reported' = "NONE"
  BY DEF Timed, Offline, Dev!Begin
<1>2. CASE limit = 0
  BY <1>1, <1>2, SketchConstants DEF Offline, Dev!Begin
<1>3. CASE limit = MAX_ON_MS
  <2>1. limit # 0
    BY <1>3, SketchConstants
  <2> QED BY <1>1, <1>3, <2>1 DEF Offline, Idle, Device, Dev!Begin
<1> QED BY <1>1, <1>2, <1>3

\* An accepted request is latched, for an idle coil.
LEMMA RequestLatches ==
  ASSUME Timed, NEW state, NEW error, NEW on, NEW c \in {"ENERGIZE", "RELEASE", "CLEAR_FAULT"},
         Device(state, error, on, "NONE"), state # "OFFLINE", c = "ENERGIZE" => error = "NONE",
         Dev!Accept(c), pin' = pin
  PROVE  Device(state, error, on, c)' /\ Timed' /\ reported' = "NONE"
<1>1. Dev!Accepts(c)
  BY DEF Dev!Accepts, Device
<1>2. reported' = "NONE"
  BY DEF Dev!Accept, Device
<1>3. Device(state, error, on, c)'
  BY <1>1 DEF Dev!Accept, Device
<1> QED BY <1>2, <1>3 DEF Dev!Accept, Timed

-----------------------------------------------------------------------------
(* SolenoidDemo                                                            *)

\* The statements of the script by number.
LEMMA Statements ==
  /\ Len(Script) = 25 /\ Len(setup) = 8
  /\ Script[1] = Do("print", "constructed")
  /\ Script[2] = Do("begin", "print")
  /\ Script[3] = Do("write", "ENERGIZE")
  /\ Script[4] = Do("scan", "none")
  /\ Script[5] = Do("print", "EnergizeTooEarly")
  /\ Script[6] = Do("configure", MAX_ON_MS)
  /\ Script[7] = Do("begin", "none")
  /\ Script[8] = Do("print", "Begun")
  /\ Script[9] = Do("write", "ENERGIZE")
  /\ Script[10] = Do("scan", "none")
  /\ Script[11] = Do("print", "Energize")
  /\ Script[12] = Do("runFor", SAFE_PULSE_MS)
  /\ Script[13] = Do("write", "RELEASE")
  /\ Script[14] = Do("scan", "none")
  /\ Script[15] = Do("print", "Release")
  /\ Script[16] = Do("runFor", Pause)
  /\ Script[17] = Do("write", "ENERGIZE")
  /\ Script[18] = Do("scan", "none")
  /\ Script[19] = Do("print", "NeverRelease")
  /\ Script[20] = Do("runFor", MAX_ON_MS + Margin)
  /\ Script[21] = Do("print", "CutOff")
  /\ Script[22] = Do("write", "CLEAR_FAULT")
  /\ Script[23] = Do("scan", "none")
  /\ Script[24] = Do("print", "ClearFault")
  /\ Script[25] = Do("runFor", LastPause)
<1> DEFINE s1 == Do("print", "constructed")
           s2 == Do("begin", "print")
           s3 == Do("write", "ENERGIZE")
           s4 == Do("scan", "none")
           s5 == Do("print", "EnergizeTooEarly")
           s6 == Do("configure", MAX_ON_MS)
           s7 == Do("begin", "none")
           s8 == Do("print", "Begun")
           s9 == Do("write", "ENERGIZE")
           s10 == Do("scan", "none")
           s11 == Do("print", "Energize")
           s12 == Do("runFor", SAFE_PULSE_MS)
           s13 == Do("write", "RELEASE")
           s14 == Do("scan", "none")
           s15 == Do("print", "Release")
           s16 == Do("runFor", Pause)
           s17 == Do("write", "ENERGIZE")
           s18 == Do("scan", "none")
           s19 == Do("print", "NeverRelease")
           s20 == Do("runFor", MAX_ON_MS + Margin)
           s21 == Do("print", "CutOff")
           s22 == Do("write", "CLEAR_FAULT")
           s23 == Do("scan", "none")
           s24 == Do("print", "ClearFault")
           s25 == Do("runFor", LastPause)
<1>1. setup = <<s1, s2, s3, s4, s5, s6, s7, s8>>
  BY DEF setup
<1>2. loop = <<s9, s10, s11, s12, s13, s14, s15, s16, s17, s18, s19, s20, s21, s22, s23, s24, s25>>
  BY DEF loop
<1> HIDE DEF s1, s2, s3, s4, s5, s6, s7, s8, s9, s10, s11, s12, s13, s14, s15, s16, s17, s18, s19, s20, s21, s22, s23, s24, s25
<1>3. /\ Len(Script) = 25 /\ Len(setup) = 8
      /\ Script[1] = s1 /\ Script[2] = s2
      /\ Script[3] = s3 /\ Script[4] = s4
      /\ Script[5] = s5 /\ Script[6] = s6
      /\ Script[7] = s7 /\ Script[8] = s8
      /\ Script[9] = s9 /\ Script[10] = s10
      /\ Script[11] = s11 /\ Script[12] = s12
      /\ Script[13] = s13 /\ Script[14] = s14
      /\ Script[15] = s15 /\ Script[16] = s16
      /\ Script[17] = s17 /\ Script[18] = s18
      /\ Script[19] = s19 /\ Script[20] = s20
      /\ Script[21] = s21 /\ Script[22] = s22
      /\ Script[23] = s23 /\ Script[24] = s24
      /\ Script[25] = s25
  BY <1>1, <1>2 DEF Script
<1> QED BY <1>3 DEF s1, s2, s3, s4, s5, s6, s7, s8, s9, s10, s11, s12, s13, s14, s15, s16, s17, s18, s19, s20, s21, s22, s23, s24, s25

\* What each kind of statement may be, and what follows it.
LEMMA Kinds ==
  ASSUME line \in 1 .. 25
  PROVE  /\ Here("write") => /\ line \in {3, 9, 13, 17, 22}
                             /\ line \in {3, 9, 17} => Script[line].value = "ENERGIZE"
                             /\ line = 13 => Script[line].value = "RELEASE"
                             /\ line = 22 => Script[line].value = "CLEAR_FAULT"
         /\ Here("scan") => line \in {4, 10, 14, 18, 23}
         /\ Here("print") => line \in {1, 5, 8, 11, 15, 19, 21, 24}
         /\ Here("begin") => line \in {2, 7}
         /\ Here("configure") => line = 6 /\ Script[line].value = MAX_ON_MS
         /\ Here("runFor") => line \in {12, 16, 20, 25}
         /\ NextLine => line' = IF line = 25 THEN 9 ELSE line + 1
<1>1. line \in {1, 2, 3, 4, 5, 6, 7, 8, 9, 10, 11, 12, 13, 14, 15, 16, 17, 18, 19, 20, 21, 22, 23, 24, 25}
  OBVIOUS
<1> QED BY <1>1, Statements DEF Here, NextLine, Do

\* How long the runFor() here runs, in microseconds.
RunUs == Script[line].value * UsPerMs

\* The device at each statement.
DeviceHere ==
  /\ line \in 1 .. 7 => Offline(IF line = 7 THEN MAX_ON_MS ELSE 0)
  /\ line \in {8, 9, 15, 16, 17, 24, 25} => Idle("NONE")
  /\ line \in {10, 18} => Idle("ENERGIZE")
  /\ line \in {11, 12, 13, 19} => On("NONE")
  /\ line = 14 => On("RELEASE")
  /\ line = 20 => On("NONE") \/ Errored("NONE")
  /\ line \in {21, 22} => Errored("NONE")
  /\ line = 23 => Errored("CLEAR_FAULT")

\* What the sink has printed there.
PrintedHere ==
  /\ line \in {4, 5} => printed = <<"NOT_ONLINE">>
  /\ line = 21 \/ (line = 20 /\ rState = "ERRORED") => printed = <<"ON_TIME_EXCEEDED">>
  /\ line \notin {4, 5, 20, 21} \/ (line = 20 /\ rState = "BUSY") => printed = <<>>

\* How long ago the device was scanned.
GapHere ==
  /\ sinceScan \in Nat
  /\ line \in {1, 5, 11, 15, 19, 24} => sinceScan = 0
  /\ line = 2 => sinceScan <= MaxPrint
  /\ line = 3 => sinceScan <= 2 * MaxPrint
  /\ line = 4 => sinceScan <= 3 * MaxPrint
  /\ line \in {9, 10, 22, 23} => sinceScan <= MaxLoop
  /\ line \notin {3, 4, 9, 10, 22, 23} => sinceScan <= MaxDelay + MaxPrint
  /\ pause => sinceScan <= MaxPrint
  /\ pause /\ (line = 20 => rEnergized) => sinceScan = 0

\* Inside runFor(): its clock against true time, and the coil's against both.
Running ==
  /\ line \in {12, 16, 20, 25} /\ t0 \in 0 .. MsMod - 1
  /\ waited <= SinceMs(t0) /\ SinceMs(t0) < waited + UsPerMs
  /\ waited > 0 => /\ SinceMs(t0) < RunUs + MaxPrint + MaxDelay
                   /\ line = 20 /\ rEnergized => sinceScan <= MaxDelay
  /\ pause => SinceMs(t0) < RunUs + MaxPrint
  /\ line = 12 => held + sinceScan <= waited + MaxPrint
  /\ line = 20 /\ rEnergized => held + sinceScan >= waited

TimesHere ==
  /\ us \in 0 .. LapUs - 1 /\ waited \in Nat
  /\ t0 # -1 => Running
  /\ t0 = -1 => /\ pause = FALSE
                /\ line = 11 => held = 0
                /\ line = 12 => held + sinceScan <= MaxPrint

DemoInv ==
  /\ line \in 1 .. 25
  /\ Timed /\ DeviceHere /\ PrintedHere /\ GapHere /\ TimesHere
  /\ ShownAsAnnounced

\* The times of the four runs.
LEMMA RunLengths ==
  ASSUME line \in {12, 16, 20, 25}
  PROVE  /\ Script[line].value \in Nat /\ RunUs \in Nat /\ LapUs \in Nat
         /\ RunUs + MaxPrint + MaxDelay <= LapUs
         /\ line = 12 => RunUs + MaxLoop < MaxOnUs
         /\ line = 20 => RunUs >= MaxOnUs + MaxDelay + UsPerMs
<1>1. /\ SAFE_PULSE_MS \in Nat /\ Margin \in Nat /\ Pause \in Nat /\ LastPause \in Nat
      /\ SAFE_PULSE_MS * UsPerMs + MaxLoop < MaxOnUs
      /\ MaxDelay + UsPerMs <= Margin * UsPerMs
      /\ \A ms \in Runs : ms * UsPerMs + MaxPrint + MaxDelay <= LapUs
  BY DemoAssumption DEF MaxOnUs, LapUs
<1>2. /\ Script[12].value = SAFE_PULSE_MS /\ Script[16].value = Pause
      /\ Script[20].value = MAX_ON_MS + Margin /\ Script[25].value = LastPause
  BY Statements DEF Do
<1>3. Script[line].value \in Nat /\ Script[line].value \in Runs
  BY <1>1, <1>2, SketchConstants DEF Runs
<1>4. (MAX_ON_MS + Margin) * UsPerMs = MaxOnUs + (Margin * UsPerMs) /\ Margin * UsPerMs \in Nat
  BY <1>1, SketchConstants DEF MaxOnUs
<1>5. line = 20 => RunUs >= MaxOnUs + MaxDelay + UsPerMs
  BY <1>1, <1>2, <1>4, SketchConstants DEF RunUs
<1>6. line = 12 => RunUs + MaxLoop < MaxOnUs
  BY <1>1, <1>2 DEF RunUs
<1>7. RunUs \in Nat /\ LapUs \in Nat
  BY <1>3, SketchConstants DEF RunUs, LapUs
<1> QED BY <1>1, <1>3, <1>5, <1>6, <1>7 DEF RunUs

\* millis() does not go back to 0 within one loop.
LEMMA LoopIsShort == MaxLoop < LapUs
<1>1. MAX_ON_MS + Margin \in Runs /\ Margin \in Nat /\ SAFE_PULSE_MS \in Nat
  BY DemoAssumption DEF Runs
<1>2. ((MAX_ON_MS + Margin) * UsPerMs) + MaxPrint + MaxDelay <= LapUs /\ SAFE_PULSE_MS * UsPerMs + MaxLoop < MaxOnUs
  BY <1>1, DemoAssumption DEF LapUs, MaxOnUs
<1>3. (MAX_ON_MS + Margin) * UsPerMs = MaxOnUs + (Margin * UsPerMs) /\ Margin * UsPerMs \in Nat
  BY <1>1, SketchConstants DEF MaxOnUs
<1>4. SAFE_PULSE_MS * UsPerMs \in Nat /\ LapUs \in Nat
  BY <1>1, SketchConstants DEF LapUs
<1> QED BY <1>2, <1>3, <1>4, SketchConstants

\* Nor does the clock's counter.
LEMMA GapsFit == 3 * MaxPrint < TimeMod /\ MaxLoop < TimeMod
<1>1. SAFE_PULSE_MS \in Nat /\ SAFE_PULSE_MS * UsPerMs + MaxLoop < MaxOnUs
  BY DemoAssumption DEF MaxOnUs
<1>2. SAFE_PULSE_MS * UsPerMs \in Nat
  BY <1>1, SketchConstants
<1> QED BY <1>1, <1>2, SketchConstants

\* What the test of runFor() means in true time.
LEMMA TimeLeftMeans ==
  ASSUME us \in 0 .. LapUs - 1, t0 \in 0 .. MsMod - 1, line \in {12, 16, 20, 25}
  PROVE  TimeLeft(Script[line].value) <=> SinceMs(t0) < RunUs
<1>1. us \in 0 .. MsMod * UsPerMs - 1 /\ Script[line].value \in Nat
  BY RunLengths DEF LapUs
<1>2. /\ us \div UsPerMs \in 0 .. MsMod - 1
      /\ Minus(us \div UsPerMs, t0, MsMod) >= Script[line].value
           <=> Minus(us, t0 * UsPerMs, MsMod * UsPerMs) >= Script[line].value * UsPerMs
  BY <1>1, MillisSince, SketchConstants
<1>3. Minus(us \div UsPerMs, t0, MsMod) \in Int
  BY <1>2, SketchConstants DEF Minus
<1>4. SinceMs(t0) \in Int /\ RunUs \in Int
  BY SinceMsValue, RunLengths
<1> QED BY <1>1, <1>2, <1>3, <1>4 DEF TimeLeft, SinceMs, RunUs, millis

\* A step that does not print.
LEMMA ShownStays ==
  ASSUME ShownAsAnnounced, UNCHANGED shown
  PROVE  ShownAsAnnounced'
  BY DEF ShownAsAnnounced, Shows

\* Only runFor() has a t0.
LEMMA NotRunning ==
  ASSUME DemoInv, line \notin {12, 16, 20, 25}
  PROVE  t0 = -1 /\ pause = FALSE
  BY DEF DemoInv, TimesHere, Running

\* The clock of millis() stays on its dial.
LEMMA LaterIsOnTheClock ==
  ASSUME us \in 0 .. LapUs - 1, NEW d \in Nat, d < LapUs
  PROVE  Later(d) \in 0 .. LapUs - 1
  BY SketchConstants DEF Later, Plus, LapUs

\* What a statement outside runFor() prints takes time.
LEMMA PrintingTakesTime ==
  ASSUME DemoInv, t0 = -1, NEW since \in Nat, NEW d \in 0 .. MaxPrint, Elapse(since, d)
  PROVE  /\ d \in Nat /\ d <= MaxPrint
         /\ us' \in 0 .. LapUs - 1 /\ sinceScan' = since + d /\ waited' = waited
<1>1. us \in 0 .. LapUs - 1 /\ d \in Nat /\ d <= MaxPrint
  BY SketchConstants DEF DemoInv, TimesHere
<1>2. LapUs \in Nat /\ d < LapUs
  BY <1>1, LoopIsShort, SketchConstants DEF LapUs
<1> QED BY <1>1, <1>2, LaterIsOnTheClock DEF Elapse

\* command(c), first part.
LEMMA WriteKeeps ==
  ASSUME DemoInv, WriteCommand
  PROVE  DemoInv'
<1>1. /\ line \in {3, 9, 13, 17, 22} /\ line' = line + 1
      /\ line \in {3, 9, 17} => Script[line].value = "ENERGIZE"
      /\ line = 13 => Script[line].value = "RELEASE"
      /\ line = 22 => Script[line].value = "CLEAR_FAULT"
      /\ Dev!Accept(Script[line].value) /\ Sink
      /\ UNCHANGED <<t0, pause, pin, shown>>
  BY Kinds DEF DemoInv, WriteCommand
<1>2. Timed /\ t0 = -1 /\ pause = FALSE
  <2>1. t0 = -1 /\ pause = FALSE
    <3>1. line \notin {12, 16, 20, 25}
      BY <1>1
    <3> QED BY <3>1, NotRunning
  <2> QED BY <2>1 DEF DemoInv
<1>3. Timed' /\ DeviceHere' /\ PrintedHere' /\ (line # 3 => reported' = "NONE")
  <2>1. CASE line = 3
    <3>1. Offline(0) /\ printed = <<>> /\ Dev!Accept("ENERGIZE")
      BY <1>1, <2>1 DEF DemoInv, DeviceHere, PrintedHere
    <3>2. Offline(0)' /\ reported' = "NOT_ONLINE" /\ Timed'
      BY <1>1, <1>2, <3>1 DEF Offline, Dev!Accept, Dev!Accepts, Timed
    <3>3. printed' = <<"NOT_ONLINE">>
      BY <1>1, <3>1, <3>2 DEF Sink
    <3> QED BY <1>1, <2>1, <3>2, <3>3 DEF DeviceHere, PrintedHere
  <2>2. CASE line \in {9, 17}
    <3>1. Idle("NONE") /\ printed = <<>> /\ Dev!Accept("ENERGIZE")
      BY <1>1, <2>2 DEF DemoInv, DeviceHere, PrintedHere
    <3>2. Idle("ENERGIZE")' /\ reported' = "NONE" /\ Timed'
      BY <1>1, <1>2, <3>1, RequestLatches DEF Idle
    <3> QED BY <1>1, <2>2, <3>1, <3>2 DEF DeviceHere, PrintedHere, Sink
  <2>3. CASE line = 13
    <3>1. On("NONE") /\ printed = <<>> /\ Dev!Accept("RELEASE")
      BY <1>1, <2>3 DEF DemoInv, DeviceHere, PrintedHere
    <3>2. On("RELEASE")' /\ reported' = "NONE" /\ Timed'
      BY <1>1, <1>2, <3>1, RequestLatches DEF On
    <3> QED BY <1>1, <2>3, <3>1, <3>2 DEF DeviceHere, PrintedHere, Sink
  <2>4. CASE line = 22
    <3>1. Errored("NONE") /\ printed = <<>> /\ Dev!Accept("CLEAR_FAULT")
      BY <1>1, <2>4 DEF DemoInv, DeviceHere, PrintedHere
    <3>2. Errored("CLEAR_FAULT")' /\ reported' = "NONE" /\ Timed'
      BY <1>1, <1>2, <3>1, RequestLatches DEF Errored
    <3> QED BY <1>1, <2>4, <3>1, <3>2 DEF DeviceHere, PrintedHere, Sink
  <2> QED BY <1>1, <2>1, <2>2, <2>3, <2>4
<1>4. PICK d \in SinkTime : Elapse(sinceScan, d)
  BY DEF WriteCommand
<1>5. /\ us' \in 0 .. LapUs - 1 /\ sinceScan' = sinceScan + d /\ waited' = waited
      /\ d \in Nat /\ d <= MaxPrint /\ (line # 3 => d = 0)
  <2>1. d \in 0 .. MaxPrint /\ sinceScan \in Nat /\ (line # 3 => d = 0)
    BY <1>3, SketchConstants DEF SinkTime, DemoInv, GapHere
  <2> QED BY <1>2, <1>4, <2>1, PrintingTakesTime
<1>6. GapHere'
  BY <1>1, <1>2, <1>5, SketchConstants DEF DemoInv, GapHere
<1>7. TimesHere'
  BY <1>1, <1>2, <1>5, SketchConstants DEF DemoInv, TimesHere
<1> QED BY <1>1, <1>3, <1>6, <1>7, ShownStays DEF DemoInv

\* command(c), second part.
LEMMA ScanCommandKeeps ==
  ASSUME DemoInv, ScanCommand
  PROVE  DemoInv'
<1>1. /\ line \in {4, 10, 14, 18, 23} /\ line' = line + 1
      /\ Dev!Scan(sinceScan) /\ Sink /\ pin' = Pin
      /\ UNCHANGED <<t0, pause, shown>>
  BY Kinds DEF DemoInv, ScanCommand, Scan
<1>2. /\ Timed /\ t0 = -1 /\ pause = FALSE
      /\ sinceScan \in 0 .. TimeMod - 1
  <2>1. t0 = -1 /\ pause = FALSE
    <3>1. line \notin {12, 16, 20, 25}
      BY <1>1
    <3> QED BY <3>1, NotRunning
  <2>2. sinceScan \in Nat /\ (sinceScan <= MaxLoop \/ sinceScan <= 3 * MaxPrint)
    BY <1>1, SketchConstants DEF DemoInv, GapHere
  <2>3. 3 * MaxPrint < TimeMod /\ MaxLoop < TimeMod
    BY GapsFit
  <2> QED BY <2>1, <2>2, <2>3, SketchConstants DEF DemoInv
<1>3. /\ Timed' /\ DeviceHere' /\ reported' = "NONE" /\ (line' = 11 => held' = 0)
  <2>1. CASE line = 4
    <3>1. Offline(0)' /\ Timed' /\ reported' = "NONE"
      BY <1>1, <1>2, <2>1, ScanOffline DEF DemoInv, DeviceHere
    <3> QED BY <1>1, <2>1, <3>1 DEF DeviceHere
  <2>2. CASE line \in {10, 18}
    <3>1. On("NONE")' /\ Timed' /\ held' = 0 /\ reported' = "NONE"
      BY <1>1, <1>2, <2>2, ScanEnergizes DEF DemoInv, DeviceHere
    <3> QED BY <1>1, <2>2, <3>1 DEF DeviceHere
  <2>3. CASE line = 14
    <3>1. Idle("NONE")' /\ Timed' /\ reported' = "NONE"
      BY <1>1, <1>2, <2>3, ScanReleases DEF DemoInv, DeviceHere
    <3> QED BY <1>1, <2>3, <3>1 DEF DeviceHere
  <2>4. CASE line = 23
    <3>1. Idle("NONE")' /\ Timed' /\ reported' = "NONE"
      BY <1>1, <1>2, <2>4, ScanClears DEF DemoInv, DeviceHere
    <3> QED BY <1>1, <2>4, <3>1 DEF DeviceHere
  <2> QED BY <1>1, <2>1, <2>2, <2>3, <2>4
<1>4. /\ us' \in 0 .. LapUs - 1 /\ sinceScan' = 0 /\ waited' = waited
  <2>1. PICK d \in SinkTime : Elapse(0, d)
    BY DEF ScanCommand, Scan
  <2>2. d = 0 /\ d \in 0 .. MaxPrint /\ 0 \in Nat
    BY <1>3, <2>1, SketchConstants DEF SinkTime
  <2> QED BY <1>2, <2>1, <2>2, PrintingTakesTime
<1>5. PrintedHere' /\ GapHere' /\ TimesHere'
  <2>1. printed' = printed
    BY <1>1, <1>3 DEF Sink
  <2>2. PrintedHere' /\ GapHere'
    BY <1>1, <1>2, <1>4, <2>1, SketchConstants DEF DemoInv, PrintedHere, GapHere
  <2> QED BY <1>1, <1>2, <1>3, <1>4, <2>2 DEF DemoInv, TimesHere
<1> QED BY <1>1, <1>3, <1>5, ShownStays DEF DemoInv

\* A statement that leaves the device and its pin alone, on another line.
LEMMA DeviceHereStays ==
  ASSUME UNCHANGED <<devVars, pin>>
  PROVE  /\ Timed' <=> Timed
         /\ held' = held /\ rEnergized' = rEnergized /\ rState' = rState
         /\ \A limit : Offline(limit)' <=> Offline(limit)
         /\ \A request : Idle(request)' <=> Idle(request)
         /\ \A request : On(request)' <=> On(request)
         /\ \A request : Errored(request)' <=> Errored(request)
  BY DEF devVars, Timed, Idle, On, Errored, Device, Offline

\* printState()
LEMMA PrintKeeps ==
  ASSUME DemoInv, PrintState
  PROVE  DemoInv'
<1>1. PICK d \in 0 .. MaxPrint : Elapse(sinceScan, d)
  BY DEF PrintState
<1>2. /\ line \in {1, 5, 8, 11, 15, 19, 21, 24} /\ line' = line + 1
      /\ shown' = [what |-> Script[line].value, state |-> rState, error |-> rError,
                   energized |-> rEnergized, pin |-> pin, printed |-> printed]
      /\ printed' = <<>>
      /\ UNCHANGED <<devVars, t0, pause, pin>>
  BY Kinds DEF DemoInv, PrintState
<1>3. /\ us' \in 0 .. LapUs - 1 /\ sinceScan' = sinceScan + d /\ waited' = waited
      /\ t0 = -1 /\ pause = FALSE /\ d \in Nat /\ d <= MaxPrint
  <2>1. t0 = -1 /\ pause = FALSE
    <3>1. line \notin {12, 16, 20, 25}
      BY <1>2
    <3> QED BY <3>1, NotRunning
  <2>2. sinceScan \in Nat
    BY DEF DemoInv, GapHere
  <2> QED BY <1>1, <2>1, <2>2, PrintingTakesTime
<1>4. DeviceHere' /\ Timed' /\ PrintedHere'
  <2>1. Timed'
    BY <1>2, DeviceHereStays DEF DemoInv
  <2>2. CASE line \in {1, 5}
    <3>1. Offline(0)'
      BY <1>2, <2>2, DeviceHereStays DEF DemoInv, DeviceHere
    <3> QED BY <1>2, <2>1, <2>2, <3>1 DEF DeviceHere, PrintedHere
  <2>3. CASE line \in {8, 15, 24}
    <3>1. Idle("NONE")'
      BY <1>2, <2>3, DeviceHereStays DEF DemoInv, DeviceHere
    <3> QED BY <1>2, <2>1, <2>3, <3>1 DEF DeviceHere, PrintedHere
  <2>4. CASE line \in {11, 19}
    <3>1. On("NONE")'
      BY <1>2, <2>4, DeviceHereStays DEF DemoInv, DeviceHere
    <3>2. rState' = "BUSY"
      BY <3>1 DEF On, Device
    <3> QED BY <1>2, <2>1, <2>4, <3>1, <3>2 DEF DeviceHere, PrintedHere
  <2>5. CASE line = 21
    <3>1. Errored("NONE")'
      BY <1>2, <2>5, DeviceHereStays DEF DemoInv, DeviceHere
    <3> QED BY <1>2, <2>1, <2>5, <3>1 DEF DeviceHere, PrintedHere
  <2> QED BY <1>2, <2>2, <2>3, <2>4, <2>5
<1>5. GapHere'
  BY <1>2, <1>3, SketchConstants DEF DemoInv, GapHere
<1>6. TimesHere'
  <2>1. line' = 12 => held' + sinceScan' <= MaxPrint
    BY <1>2, <1>3, DeviceHereStays, SketchConstants DEF DemoInv, TimesHere, GapHere
  <2> QED BY <1>2, <1>3, <2>1 DEF DemoInv, TimesHere
<1>7. ShownAsAnnounced'
  <2>1. CASE line = 1
    <3>1. Offline(0) /\ printed = <<>> /\ Script[line].value = "constructed"
      BY <2>1, Statements DEF DemoInv, DeviceHere, PrintedHere, Do
    <3> QED BY <1>2, <3>1, DeviceHereStays DEF ShownAsAnnounced, Shows, Offline
  <2>2. CASE line = 5
    <3>1. Offline(0) /\ printed = <<"NOT_ONLINE">> /\ Script[line].value = "EnergizeTooEarly"
      BY <2>2, Statements DEF DemoInv, DeviceHere, PrintedHere, Do
    <3> QED BY <1>2, <3>1 DEF ShownAsAnnounced, Shows, Offline
  <2>3. CASE line \in {8, 15, 24}
    <3>1. Idle("NONE") /\ printed = <<>> /\ Script[line].value \in {"Begun", "Release", "ClearFault"}
      BY <2>3, Statements DEF DemoInv, DeviceHere, PrintedHere, Do
    <3> QED BY <1>2, <3>1 DEF ShownAsAnnounced, Shows, Idle, Device
  <2>4. CASE line \in {11, 19}
    <3>1. On("NONE") /\ printed = <<>> /\ Script[line].value \in {"Energize", "NeverRelease"}
      BY <2>4, Statements DEF DemoInv, DeviceHere, PrintedHere, Do
    <3> QED BY <1>2, <3>1 DEF ShownAsAnnounced, Shows, On, Device
  <2>5. CASE line = 21
    <3>1. Errored("NONE") /\ printed = <<"ON_TIME_EXCEEDED">> /\ Script[line].value = "CutOff"
      BY <2>5, Statements DEF DemoInv, DeviceHere, PrintedHere, Do
    <3> QED BY <1>2, <3>1 DEF ShownAsAnnounced, Shows, Errored, Device
  <2> QED BY <1>2, <2>1, <2>2, <2>3, <2>4, <2>5
<1> QED BY <1>2, <1>4, <1>5, <1>6, <1>7 DEF DemoInv

\* latch.begin()
LEMMA CallBeginKeeps ==
  ASSUME DemoInv, CallBegin
  PROVE  DemoInv'
<1>1. /\ line \in {2, 7} /\ line' = line + 1 /\ Dev!Begin /\ Sink
      /\ UNCHANGED <<t0, pause, pin, shown>>
  BY Kinds DEF DemoInv, CallBegin
<1>2. Timed /\ t0 = -1 /\ pause = FALSE
  <2>1. t0 = -1 /\ pause = FALSE
    <3>1. line \notin {12, 16, 20, 25}
      BY <1>1
    <3> QED BY <3>1, NotRunning
  <2> QED BY <2>1 DEF DemoInv
<1>3. DeviceHere' /\ Timed' /\ reported' = "NONE"
  <2>1. CASE line = 2
    <3>1. Offline(0)' /\ Timed' /\ reported' = "NONE"
      BY <1>1, <1>2, <2>1, BeginStarts DEF DemoInv, DeviceHere
    <3> QED BY <1>1, <2>1, <3>1 DEF DeviceHere
  <2>2. CASE line = 7
    <3>1. Idle("NONE")' /\ Timed' /\ reported' = "NONE"
      BY <1>1, <1>2, <2>2, BeginStarts DEF DemoInv, DeviceHere
    <3> QED BY <1>1, <2>2, <3>1 DEF DeviceHere
  <2> QED BY <1>1, <2>1, <2>2
<1>4. /\ us' \in 0 .. LapUs - 1 /\ waited' = waited /\ sinceScan \in Nat
      /\ sinceScan' \in Nat /\ sinceScan' <= sinceScan + MaxPrint /\ (line = 7 => sinceScan' = sinceScan)
  <2>1. PICK d \in IF Script[line].value = "print" THEN 0 .. MaxPrint ELSE {0} : Elapse(sinceScan, d)
    BY DEF CallBegin
  <2>2. d \in 0 .. MaxPrint /\ sinceScan \in Nat /\ (line = 7 => d = 0)
    <3>1. line = 7 => Script[line].value = "none"
      BY Statements DEF Do
    <3> QED BY <2>1, <3>1, SketchConstants DEF DemoInv, GapHere
  <2>3. d \in Nat /\ d <= MaxPrint /\ us' \in 0 .. LapUs - 1 /\ sinceScan' = sinceScan + d /\ waited' = waited
    BY <1>2, <2>1, <2>2, PrintingTakesTime
  <2> QED BY <2>2, <2>3, SketchConstants
<1>5. PrintedHere' /\ GapHere' /\ TimesHere'
  BY <1>1, <1>2, <1>3, <1>4, SketchConstants DEF DemoInv, PrintedHere, GapHere, TimesHere, Sink
<1> QED BY <1>1, <1>3, <1>5, ShownStays DEF DemoInv

\* latch.cnfMaxOnTimeMs.UpdateValue(MAX_ON_MS)
LEMMA ConfigureKeeps ==
  ASSUME DemoInv, Configure
  PROVE  DemoInv'
<1>1. /\ line = 6 /\ line' = 7 /\ Dev!SetLimit(MAX_ON_MS)
      /\ UNCHANGED <<us, sinceScan, waited, t0, pause, pin, printed, shown>>
  BY Kinds DEF DemoInv, Configure
<1>2. Timed /\ t0 = -1 /\ pause = FALSE /\ Offline(0)
  BY <1>1, NotRunning DEF DemoInv, DeviceHere
<1>3. Offline(MAX_ON_MS)' /\ Timed'
  BY <1>1, <1>2 DEF Offline, Timed, Dev!SetLimit
<1>4. DeviceHere' /\ PrintedHere' /\ GapHere' /\ TimesHere'
  BY <1>1, <1>2, <1>3 DEF DemoInv, DeviceHere, PrintedHere, GapHere, TimesHere
<1> QED BY <1>1, <1>3, <1>4, ShownStays DEF DemoInv

\* A statement that is not over leaves DeviceHere and PrintedHere as they are.
LEMMA HereStays ==
  ASSUME UNCHANGED <<devVars, pin, line, printed>>
  PROVE  /\ Timed' <=> Timed
         /\ DeviceHere' <=> DeviceHere
         /\ PrintedHere' <=> PrintedHere
  BY DeviceHereStays DEF DeviceHere, PrintedHere

\* runFor(): uint32_t t0 = millis()
LEMMA StartRunKeeps ==
  ASSUME DemoInv, StartRun
  PROVE  DemoInv'
<1>1. /\ line \in {12, 16, 20, 25} /\ t0 = -1 /\ t0' = millis /\ waited' = 0
      /\ UNCHANGED <<devVars, us, sinceScan, line, pause, pin, printed, shown>>
  BY Kinds DEF DemoInv, StartRun
<1>2. DeviceHere' /\ PrintedHere' /\ Timed'
  BY <1>1, HereStays DEF DemoInv
<1>3. /\ us \in 0 .. LapUs - 1 /\ pause = FALSE /\ GapHere
      /\ line = 12 => held + sinceScan <= MaxPrint
      /\ held \in Nat /\ sinceScan \in Nat
  BY <1>1 DEF DemoInv, TimesHere, GapHere, Timed
<1>4. millis \in 0 .. MsMod - 1 /\ SinceMs(millis) \in 0 .. UsPerMs - 1
  BY <1>3, MillisNow
<1>5. SinceMs(t0)' \in 0 .. UsPerMs - 1 /\ held' = held
  BY <1>1, <1>4, DeviceHereStays DEF SinceMs
<1>6. GapHere'
  BY <1>1, <1>3 DEF GapHere
<1>7. Running'
  BY <1>1, <1>3, <1>4, <1>5, SketchConstants DEF Running
<1>8. TimesHere'
  <2>1. t0' # -1 /\ us' \in 0 .. LapUs - 1 /\ waited' \in Nat
    BY <1>1, <1>3, <1>4, SketchConstants
  <2> QED BY <1>7, <2>1 DEF TimesHere
<1> QED BY <1>1, <1>2, <1>6, <1>8, ShownStays DEF DemoInv

\* scan() in runFor()
LEMMA RunScanKeeps ==
  ASSUME DemoInv, RunScan
  PROVE  DemoInv'
<1>1. /\ t0 # -1 /\ ~pause /\ pause' = TRUE /\ TimeLeft(Script[line].value)
      /\ Dev!Scan(sinceScan) /\ Sink /\ pin' = Pin
      /\ UNCHANGED <<line, t0, shown>>
  BY DEF RunScan, Scan
<1>2. Running /\ Timed /\ us \in 0 .. LapUs - 1 /\ waited \in Nat
  BY <1>1 DEF DemoInv, TimesHere
<1>3. /\ line \in {12, 16, 20, 25} /\ t0 \in 0 .. MsMod - 1
      /\ waited <= SinceMs(t0) /\ SinceMs(t0) < waited + UsPerMs
  BY <1>2 DEF Running
<1>4. SinceMs(t0) < RunUs /\ SinceMs(t0) \in 0 .. LapUs - 1 /\ RunUs \in Nat
  BY <1>1, <1>2, <1>3, TimeLeftMeans, RunLengths, SinceMsValue
<1>5. sinceScan \in 0 .. MaxLoop /\ sinceScan \in 0 .. TimeMod - 1 /\ sinceScan \in Nat
  BY <1>3, SketchConstants DEF DemoInv, GapHere
<1>6. /\ Timed' /\ DeviceHere' /\ PrintedHere'
      /\ line = 12 => held' = held + sinceScan
      /\ line = 20 /\ rEnergized' => rEnergized /\ held' = held + sinceScan
      /\ (line = 20 => rEnergized') => reported' = "NONE"
  <2>1. CASE line = 12
    <3>1. On("NONE") /\ printed = <<>>
      BY <2>1 DEF DemoInv, DeviceHere, PrintedHere
    <3>2. held + sinceScan <= waited + MaxPrint /\ held \in Nat
      BY <1>2, <2>1 DEF Running, Timed
    <3>3. held + sinceScan < MaxOnUs
      <4>1. RunUs + MaxLoop < MaxOnUs
        BY <2>1, RunLengths
      <4> QED BY <1>2, <1>3, <1>4, <1>5, <3>2, <4>1, SketchConstants
    <3>4. On("NONE")' /\ Timed' /\ held' = held + sinceScan /\ reported' = "NONE"
      BY <1>1, <1>2, <1>5, <3>1, <3>3, ScanMeasures
    <3> QED BY <1>1, <2>1, <3>1, <3>4 DEF DeviceHere, PrintedHere, Sink
  <2>2. CASE line \in {16, 25}
    <3>1. Idle("NONE") /\ printed = <<>>
      BY <2>2 DEF DemoInv, DeviceHere, PrintedHere
    <3>2. Idle("NONE")' /\ Timed' /\ reported' = "NONE"
      BY <1>1, <1>2, <1>5, <3>1, ScanRests DEF Idle
    <3> QED BY <1>1, <2>2, <3>1, <3>2 DEF DeviceHere, PrintedHere, Sink
  <2>3. CASE line = 20 /\ On("NONE")
    <3>1. printed = <<>> /\ rEnergized
      BY <2>3 DEF DemoInv, PrintedHere, On, Device
    <3>2. CASE held + sinceScan < MaxOnUs
      <4>1. On("NONE")' /\ Timed' /\ held' = held + sinceScan /\ reported' = "NONE"
        BY <1>1, <1>2, <1>5, <2>3, <3>2, ScanMeasures
      <4>2. rState' = "BUSY" /\ printed' = <<>>
        BY <1>1, <3>1, <4>1 DEF On, Device, Sink
      <4> QED BY <1>1, <2>3, <3>1, <4>1, <4>2 DEF DeviceHere, PrintedHere
    <3>3. CASE held + sinceScan >= MaxOnUs
      <4>1. Errored("NONE")' /\ Timed' /\ reported' = "ON_TIME_EXCEEDED"
        BY <1>1, <1>2, <1>5, <2>3, <3>3, ScanMeasures
      <4>2. rState' = "ERRORED" /\ rEnergized' = FALSE /\ printed' = <<"ON_TIME_EXCEEDED">>
        BY <1>1, <3>1, <4>1 DEF Errored, Device, Sink
      <4> QED BY <1>1, <2>3, <4>1, <4>2 DEF DeviceHere, PrintedHere
    <3>4. held + sinceScan \in Int /\ MaxOnUs \in Int
      BY <1>2, <1>5, SketchConstants DEF Timed
    <3> QED BY <3>2, <3>3, <3>4
  <2>4. CASE line = 20 /\ Errored("NONE")
    <3>1. printed = <<"ON_TIME_EXCEEDED">>
      BY <2>4 DEF DemoInv, PrintedHere, Errored, Device
    <3>2. Errored("NONE")' /\ Timed' /\ reported' = "NONE"
      BY <1>1, <1>2, <1>5, <2>4, ScanRests DEF Errored
    <3>3. rState' = "ERRORED" /\ rEnergized' = FALSE /\ printed' = printed
      BY <1>1, <3>2 DEF Errored, Device, Sink
    <3> QED BY <1>1, <2>4, <3>1, <3>2, <3>3 DEF DeviceHere, PrintedHere
  <2>5. line = 20 => On("NONE") \/ Errored("NONE")
    BY DEF DemoInv, DeviceHere
  <2> QED BY <1>3, <2>1, <2>2, <2>3, <2>4, <2>5
<1>7. PICK d \in SinkTime : Elapse(0, d)
  BY DEF RunScan, Scan
<1>8. /\ us' = Later(d) /\ sinceScan' = d /\ waited' = waited + d
      /\ d \in Nat /\ d <= MaxPrint /\ ((line = 20 => rEnergized') => d = 0)
  BY <1>1, <1>6, <1>7, SketchConstants DEF SinkTime, Elapse
<1>9. us' \in 0 .. LapUs - 1 /\ SinceMs(t0)' = SinceMs(t0) + d /\ RunUs' = RunUs
  <2>1. SinceMs(t0) + d < LapUs
    <3>1. RunUs + MaxPrint + MaxDelay <= LapUs /\ LapUs \in Nat
      BY <1>3, RunLengths
    <3> QED BY <1>4, <1>8, <3>1, SketchConstants
  <2>2. us' \in 0 .. LapUs - 1 /\ Minus(us', t0 * UsPerMs, LapUs) = SinceMs(t0) + d
    BY <1>2, <1>3, <1>8, <2>1, SinceMsAdvances
  <2> QED BY <1>1, <2>2 DEF SinceMs, LapUs, RunUs
<1>10. Running'
  <2>1. held \in Nat /\ (line = 12 => held + sinceScan <= waited + MaxPrint)
        /\ (line = 20 /\ rEnergized => held + sinceScan >= waited)
    BY <1>2 DEF Running, Timed
  <2>2. line' = 12 => held' + sinceScan' <= waited' + MaxPrint
    BY <1>1, <1>2, <1>5, <1>6, <1>8, <2>1, SketchConstants
  <2>3. line' = 20 /\ rEnergized' => held' + sinceScan' >= waited' /\ sinceScan' <= MaxDelay
    BY <1>1, <1>2, <1>5, <1>6, <1>8, <2>1, SketchConstants
  <2>4. SinceMs(t0)' < RunUs' + MaxPrint /\ SinceMs(t0)' < RunUs' + MaxPrint + MaxDelay
    BY <1>4, <1>8, <1>9, SketchConstants
  <2>5. waited' <= SinceMs(t0)' /\ SinceMs(t0)' < waited' + UsPerMs
    BY <1>2, <1>3, <1>4, <1>8, <1>9, SketchConstants
  <2> QED BY <1>1, <1>3, <2>2, <2>3, <2>4, <2>5 DEF Running
<1>11. TimesHere'
  <2>1. t0' # -1 /\ waited' \in Nat
    BY <1>1, <1>2, <1>8
  <2> QED BY <1>9, <1>10, <2>1 DEF TimesHere
<1>12. GapHere'
  BY <1>1, <1>3, <1>8, SketchConstants DEF GapHere
<1> QED BY <1>1, <1>3, <1>6, <1>11, <1>12, ShownStays DEF DemoInv

\* delay(10)
LEMMA DelayKeeps ==
  ASSUME DemoInv, Delay
  PROVE  DemoInv'
<1>1. PICK d \in MinDelay .. MaxDelay : Elapse(sinceScan, d)
  BY DEF Delay
<1>2. /\ pause /\ pause' = FALSE
      /\ UNCHANGED <<devVars, line, t0, pin, printed, shown>>
  BY DEF Delay
<1>3. /\ t0 # -1 /\ Running /\ us \in 0 .. LapUs - 1 /\ waited \in Nat /\ held \in Nat
      /\ sinceScan \in Nat /\ sinceScan <= MaxPrint
      /\ ((line = 20 => rEnergized) => sinceScan = 0)
  BY <1>2 DEF DemoInv, TimesHere, GapHere, Timed
<1>4. /\ us' = Later(d) /\ sinceScan' = sinceScan + d /\ waited' = waited + d
      /\ d \in Nat /\ d > 0 /\ d <= MaxDelay
  BY <1>1, <1>3, SketchConstants DEF Elapse
<1>5. /\ line \in {12, 16, 20, 25} /\ t0 \in 0 .. MsMod - 1
      /\ waited <= SinceMs(t0) /\ SinceMs(t0) < waited + UsPerMs /\ SinceMs(t0) < RunUs + MaxPrint
      /\ line = 12 => held <= waited + MaxPrint
      /\ line = 20 /\ rEnergized => held >= waited
  BY <1>2, <1>3, SketchConstants DEF Running
<1>6. SinceMs(t0) \in 0 .. LapUs - 1 /\ RunUs \in Nat /\ RunUs + MaxPrint + MaxDelay <= LapUs /\ LapUs \in Nat
  BY <1>3, <1>5, SinceMsValue, RunLengths
<1>7. us' \in 0 .. LapUs - 1 /\ SinceMs(t0)' = SinceMs(t0) + d
  <2>1. SinceMs(t0) + d < LapUs
    BY <1>4, <1>5, <1>6, SketchConstants
  <2>2. us' \in 0 .. LapUs - 1 /\ Minus(us', t0 * UsPerMs, LapUs) = SinceMs(t0) + d
    BY <1>3, <1>4, <1>5, <2>1, SinceMsAdvances
  <2> QED BY <1>2, <2>2 DEF SinceMs, LapUs
<1>8. held' = held /\ rEnergized' = rEnergized /\ RunUs' = RunUs
  BY <1>2, DeviceHereStays DEF RunUs
<1>9. Running'
  <2>1. line = 12 => held' + sinceScan' <= waited' + MaxPrint
    BY <1>3, <1>4, <1>5, <1>8, SketchConstants
  <2>2. line = 20 /\ rEnergized => held' + sinceScan' >= waited'
    BY <1>3, <1>4, <1>5, <1>8, SketchConstants
  <2>3. /\ waited' <= SinceMs(t0)' /\ SinceMs(t0)' < waited' + UsPerMs
        /\ SinceMs(t0)' < RunUs' + MaxPrint + MaxDelay
        /\ line = 20 /\ rEnergized => sinceScan' <= MaxDelay
    BY <1>3, <1>4, <1>5, <1>6, <1>7, <1>8, SketchConstants
  <2> QED BY <1>2, <1>5, <1>8, <2>1, <2>2, <2>3 DEF Running
<1>10. TimesHere'
  BY <1>2, <1>3, <1>4, <1>7, <1>9 DEF TimesHere
<1>11. GapHere'
  BY <1>2, <1>3, <1>4, <1>5, SketchConstants DEF GapHere
<1>12. DeviceHere' /\ PrintedHere' /\ Timed'
  BY <1>2, HereStays DEF DemoInv
<1> QED BY <1>2, <1>5, <1>10, <1>11, <1>12, ShownStays DEF DemoInv

\* What is true when runFor() returns: it ran for its time, and a coil that
\* nobody released has been cut.
LEMMA RunIsOver ==
  ASSUME DemoInv, EndRun
  PROVE  /\ line \in {12, 16, 20, 25}
         /\ RunUs - UsPerMs < waited /\ waited < RunUs + MaxPrint + MaxDelay
         /\ line = 20 => Errored("NONE")
<1>1. t0 # -1 /\ ~TimeLeft(Script[line].value)
  BY DEF EndRun
<1>2. Running /\ Timed /\ us \in 0 .. LapUs - 1 /\ waited \in Nat
  BY <1>1 DEF DemoInv, TimesHere
<1>3. /\ line \in {12, 16, 20, 25} /\ t0 \in 0 .. MsMod - 1
      /\ waited <= SinceMs(t0) /\ SinceMs(t0) < waited + UsPerMs
      /\ waited > 0 => /\ SinceMs(t0) < RunUs + MaxPrint + MaxDelay
                       /\ line = 20 /\ rEnergized => sinceScan <= MaxDelay
      /\ line = 20 /\ rEnergized => held + sinceScan >= waited
  BY <1>2 DEF Running
<1>4. SinceMs(t0) \in 0 .. LapUs - 1 /\ RunUs \in Nat
  BY <1>2, <1>3, SinceMsValue, RunLengths
<1>5. RunUs <= SinceMs(t0)
  BY <1>1, <1>2, <1>3, <1>4, TimeLeftMeans
<1>6. RunUs - UsPerMs < waited /\ waited < RunUs + MaxPrint + MaxDelay
  BY <1>2, <1>3, <1>4, <1>5, SketchConstants
<1>7. ASSUME line = 20 PROVE Errored("NONE")
  <2>1. RunUs >= MaxOnUs + MaxDelay + UsPerMs
    BY <1>7, RunLengths
  <2>2. waited > MaxOnUs + MaxDelay /\ waited > 0
    BY <1>2, <1>4, <1>6, <2>1, SketchConstants
  <2>3. SUFFICES ASSUME On("NONE") PROVE FALSE
    BY <1>7 DEF DemoInv, DeviceHere
  <2>4. held < MaxOnUs /\ held \in Nat /\ rEnergized
    BY <1>2, <2>3 DEF Timed, On, Device
  <2>5. sinceScan <= MaxDelay /\ sinceScan \in Nat /\ held + sinceScan >= waited
    BY <1>3, <1>7, <2>2, <2>4 DEF DemoInv, GapHere
  <2> QED BY <1>2, <2>2, <2>4, <2>5, SketchConstants
<1> QED BY <1>3, <1>6, <1>7

\* The end of runFor()
LEMMA EndRunKeeps ==
  ASSUME DemoInv, EndRun
  PROVE  DemoInv'
<1>1. /\ line \in {12, 16, 20, 25} /\ t0' = -1 /\ ~pause
      /\ line' = IF line = 25 THEN 9 ELSE line + 1
      /\ UNCHANGED <<devVars, us, sinceScan, waited, pause, pin, printed, shown>>
  BY RunIsOver, Kinds DEF DemoInv, EndRun
<1>2. Timed'
  BY <1>1, DeviceHereStays DEF DemoInv
<1>3. DeviceHere' /\ PrintedHere'
  <2>1. CASE line = 12
    <3>1. On("NONE")' /\ printed' = <<>>
      BY <1>1, <2>1, DeviceHereStays DEF DemoInv, DeviceHere, PrintedHere
    <3> QED BY <1>1, <2>1, <3>1 DEF DeviceHere, PrintedHere
  <2>2. CASE line \in {16, 25}
    <3>1. Idle("NONE")' /\ printed' = <<>>
      BY <1>1, <2>2, DeviceHereStays DEF DemoInv, DeviceHere, PrintedHere
    <3> QED BY <1>1, <2>2, <3>1 DEF DeviceHere, PrintedHere
  <2>3. CASE line = 20
    <3>1. Errored("NONE") /\ Errored("NONE")'
      BY <1>1, <2>3, RunIsOver, DeviceHereStays
    <3>2. printed' = <<"ON_TIME_EXCEEDED">>
      BY <1>1, <2>3, <3>1 DEF DemoInv, PrintedHere, Errored, Device
    <3> QED BY <1>1, <2>3, <3>1, <3>2 DEF DeviceHere, PrintedHere
  <2> QED BY <1>1, <2>1, <2>2, <2>3
<1>4. GapHere'
  BY <1>1, SketchConstants DEF DemoInv, GapHere
<1>5. TimesHere'
  BY <1>1 DEF DemoInv, TimesHere
<1> QED BY <1>1, <1>2, <1>3, <1>4, <1>5, ShownStays DEF DemoInv

\* A stuttering step.
LEMMA DemoStays ==
  ASSUME DemoInv, UNCHANGED demoVars
  PROVE  DemoInv'
<1>1. UNCHANGED <<devVars, us, sinceScan, waited, line, t0, pause, pin, printed, shown>>
  BY DEF demoVars
<1>2. held' = held /\ rEnergized' = rEnergized
  BY <1>1, DeviceHereStays
<1>3. DeviceHere' /\ PrintedHere' /\ Timed'
  BY <1>1, HereStays DEF DemoInv
<1>4. Running => Running'
  BY <1>1, <1>2 DEF Running, SinceMs, RunUs
<1>5. GapHere' /\ TimesHere'
  BY <1>1, <1>2, <1>4 DEF DemoInv, GapHere, TimesHere
<1> QED BY <1>1, <1>3, <1>5, ShownStays DEF DemoInv

\* The sketch starts in the invariant.
LEMMA DemoStart ==
  ASSUME DemoInit
  PROVE  DemoInv
<1>1. /\ Dev!Init /\ us \in 0 .. LapUs - 1 /\ sinceScan = 0 /\ pin = FALSE
      /\ line = 1 /\ t0 = -1 /\ pause = FALSE /\ waited = 0 /\ printed = <<>>
      /\ shown = [what |-> "nothing", state |-> rState, error |-> rError,
                  energized |-> rEnergized, pin |-> pin, printed |-> printed]
  BY DEF DemoInit, ScriptInit, LapUs
<1>2. Offline(0) /\ Timed
  BY <1>1, SketchConstants DEF Dev!Init, Offline, Timed
<1>3. DeviceHere /\ PrintedHere /\ GapHere /\ TimesHere
  BY <1>1, <1>2, SketchConstants DEF DeviceHere, PrintedHere, GapHere, TimesHere
<1>4. ShownAsAnnounced
  BY <1>1, <1>2 DEF ShownAsAnnounced, Shows, Offline
<1> QED BY <1>1, <1>2, <1>3, <1>4 DEF DemoInv

\* Every step keeps the invariant.
LEMMA DemoKeeps ==
  ASSUME DemoInv, [DemoNext]_demoVars
  PROVE  DemoInv'
  BY WriteKeeps, ScanCommandKeeps, PrintKeeps, CallBeginKeeps, ConfigureKeeps, StartRunKeeps,
     RunScanKeeps, DelayKeeps, EndRunKeeps, DemoStays DEF DemoNext

\* "What you'll see on the Serial monitor" is what is seen, in every cycle,
\* whatever the delays take and wherever millis() stands.
THEOREM AnnouncedIsShown == DemoSpec => []ShownAsAnnounced
<1>1. DemoInit => DemoInv
  BY DemoStart
<1>2. DemoInv /\ [DemoNext]_demoVars => DemoInv'
  BY DemoKeeps
<1>3. DemoInv => ShownAsAnnounced
  BY DEF DemoInv
<1> QED BY <1>1, <1>2, <1>3, PTL DEF DemoSpec

\* runFor(ms) runs for ms milliseconds, also when millis() goes back to 0.
THEOREM RunsTakeTheirTime == DemoSpec => RunsForItsTime
<1>1. DemoInit => DemoInv
  BY DemoStart
<1>2. DemoInv /\ [DemoNext]_demoVars => DemoInv'
  BY DemoKeeps
<1>3. DemoInv /\ [DemoNext]_demoVars =>
        [EndRun => LET ms == Script[line].value * UsPerMs
                   IN  ms - UsPerMs < waited /\ waited < ms + MaxPrint + MaxDelay]_demoVars
  BY RunIsOver DEF RunUs
<1> QED BY <1>1, <1>2, <1>3, PTL DEF DemoSpec, RunsForItsTime

-----------------------------------------------------------------------------
(* CoilPulses                                                              *)

PulseUs == PulseEvery * UsPerMs
StatusUs == StatusEvery * UsPerMs

\* The clocks of the loop: what it measures from a reading of millis() is the
\* true time since, but for the millisecond that had begun.
Clocks ==
  /\ us \in 0 .. LapUs - 1
  /\ lastPulse \in 0 .. MsMod - 1 /\ lastStatus \in 0 .. MsMod - 1
  /\ sincePulse \in Nat /\ sinceScan \in Nat
  /\ sincePulse <= SinceMs(lastPulse) /\ SinceMs(lastPulse) < sincePulse + UsPerMs
  /\ behind = SinceMs(lastStatus)

\* How late each statement may be.
InTime ==
  /\ pc \in {"configure", "begin", "first"} =>
       SinceMs(lastPulse) <= PulseUs /\ behind <= Boot /\ sinceScan <= Boot
  /\ pc = "scan" =>
       /\ SinceMs(lastPulse) < PulseUs + MaxDelay + MaxPrint
       /\ behind < StatusUs + Boot + MaxDelay
       /\ sinceScan <= MaxLoop
  /\ pc = "status" =>
       /\ SinceMs(lastPulse) < PulseUs + MaxLoop
       /\ behind < StatusUs + Boot + MaxDelay + MaxPrint
       /\ sinceScan <= MaxPrint
  /\ pc \in {"recover", "pulse"} =>
       /\ SinceMs(lastPulse) < PulseUs + MaxLoop + MaxPrint
       /\ behind < StatusUs + Boot
       /\ sinceScan <= 2 * MaxPrint
  /\ pc = "delay" =>
       /\ SinceMs(lastPulse) < PulseUs
       /\ behind < StatusUs + Boot
       /\ sinceScan <= 2 * MaxPrint

\* The device as setup() finds it.
Constructed ==
  /\ pc \in {"configure", "begin"}
  /\ rState = "OFFLINE" /\ rError = "NONE" /\ pending = "NONE"
  /\ rEnergized = FALSE /\ ioCoil = FALSE /\ pin = FALSE
  /\ pc = "begin" => cnfMaxOnTimeMs = MAX_ON_MS
  /\ cuts = 0 /\ pulsed = FALSE

\* A pulse is over, or there was none.
Resting ==
  /\ pc \in {"first", "scan", "status", "recover", "pulse", "delay"} /\ Idle("NONE")
  /\ pulsed \in BOOLEAN /\ cuts = IF pulsed THEN 1 ELSE 0

\* A pulse has been asked for.
Asked ==
  /\ pc \in {"delay", "scan"} /\ Idle("ENERGIZE")
  /\ pulsed = TRUE /\ cuts = 0
  /\ sincePulse <= MaxDelay /\ (pc = "delay" => sincePulse = 0)

\* The coil is on.
Pulsing ==
  /\ pc \in {"scan", "status", "recover", "pulse", "delay"} /\ On("NONE")
  /\ pulsed = TRUE /\ cuts = 0
  /\ sincePulse <= MaxDelay + held + sinceScan

\* It has been cut, and the fault is still there.
CutOff ==
  /\ pulsed = TRUE /\ cuts = 1
  /\ \/ pc \in {"status", "recover"} /\ Errored("NONE")
     \/ pc \in {"pulse", "delay", "scan"} /\ Errored("CLEAR_FAULT")
  /\ pc = "status" => sincePulse < MaxOnUs + MaxLoop + MaxDelay + MaxPrint
  /\ pc \in {"recover", "pulse"} => sincePulse < MaxOnUs + 2 * MaxLoop

Stage == Constructed \/ Resting \/ Asked \/ Pulsing \/ CutOff

PulsesInv == Clocks /\ InTime /\ Timed /\ Stage

\* The constants.
LEMMA PulsesConstants ==
  /\ PulseUs \in Nat /\ StatusUs \in Nat /\ LapUs \in Nat /\ Boot \in Nat /\ Boot < TimeMod
  /\ UsPerMs <= PulseUs /\ UsPerMs \in Nat
  /\ MaxLoop + UsPerMs <= StatusUs
  /\ MaxOnUs + 2 * MaxLoop + UsPerMs <= PulseUs
  /\ Boot <= PulseUs
  /\ PulseUs + MaxLoop + MaxPrint <= LapUs
  /\ StatusUs + Boot + MaxLoop <= LapUs
  /\ StatusEvery \in 0 .. MsMod - 1 /\ PulseEvery \in Nat
  /\ (PulseEvery - 1) * UsPerMs = PulseUs - UsPerMs
<1>1. /\ StatusEvery \in Nat \ {0} /\ PulseEvery \in Nat \ {0} /\ Boot \in Nat /\ Boot < TimeMod
      /\ UsPerMs \in Nat \ {0} /\ MsMod \in Nat \ {0}
  BY PulsesAssumption, SketchConstants
<1>2. /\ MaxLoop + UsPerMs <= StatusUs
      /\ MaxOnUs + 2 * MaxLoop + UsPerMs <= PulseUs
      /\ Boot <= PulseUs
      /\ PulseUs + MaxLoop + MaxPrint <= LapUs
      /\ StatusUs + Boot + MaxLoop <= LapUs
  BY PulsesAssumption DEF StatusUs, PulseUs, LapUs, MaxOnUs
<1>3. /\ PulseUs \in Nat /\ StatusUs \in Nat /\ LapUs \in Nat /\ UsPerMs <= PulseUs
      /\ (PulseEvery - 1) * UsPerMs = PulseUs - UsPerMs
  BY <1>1 DEF StatusUs, PulseUs, LapUs
<1>4. StatusEvery < MsMod
  <2> SUFFICES ASSUME StatusEvery >= MsMod PROVE FALSE
    BY <1>1
  <2>1. StatusEvery * UsPerMs >= MsMod * UsPerMs
    BY <1>1
  <2>2. StatusUs >= LapUs
    BY <2>1 DEF StatusUs, LapUs
  <2> QED BY <1>1, <1>2, <1>3, <2>2, SketchConstants
<1> QED BY <1>1, <1>2, <1>3, <1>4

\* Time passes on all clocks.
LEMMA ClocksMove ==
  ASSUME Clocks, NEW d \in Nat, us' = Later(d), sincePulse' = sincePulse + d,
         SinceMs(lastPulse) + d < LapUs, behind + d < LapUs
  PROVE  /\ us' \in 0 .. LapUs - 1
         /\ Minus(us', lastPulse * UsPerMs, LapUs) = SinceMs(lastPulse) + d
         /\ Minus(us', lastStatus * UsPerMs, LapUs) = behind + d
  BY SinceMsAdvances DEF Clocks

\* Time passes, and nothing is read.
LEMMA TimePasses ==
  ASSUME Clocks, NEW d \in Nat, us' = Later(d), sincePulse' = sincePulse + d, behind' = behind + d,
         SinceMs(lastPulse) + d < LapUs, behind + d < LapUs,
         UNCHANGED <<lastPulse, lastStatus>>, sinceScan' \in Nat
  PROVE  /\ Clocks'
         /\ SinceMs(lastPulse)' = SinceMs(lastPulse) + d
<1>1. SinceMs(lastPulse)' = SinceMs(lastPulse) + d /\ SinceMs(lastStatus)' = behind + d
  BY ClocksMove DEF SinceMs, LapUs
<1>2. us' \in 0 .. LapUs - 1
  BY ClocksMove
<1>3. SinceMs(lastPulse) \in Int
  BY Readings, PulsesConstants DEF SinceMs, Minus, Clocks, LapUs
<1> QED BY <1>1, <1>2, <1>3, PulsesConstants DEF Clocks

\* The values of the loop's clocks.
LEMMA ClockValues ==
  ASSUME Clocks
  PROVE  SinceMs(lastPulse) \in 0 .. LapUs - 1 /\ behind \in 0 .. LapUs - 1
  BY SinceMsValue DEF Clocks

\* A handler that leaves the device and its pin alone.
LEMMA DeviceStays ==
  ASSUME UNCHANGED <<devVars, pin>>
  PROVE  /\ Timed' <=> Timed
         /\ \A request : Idle(request)' <=> Idle(request)
         /\ \A request : On(request)' <=> On(request)
         /\ \A request : Errored(request)' <=> Errored(request)
  BY DEF devVars, Timed, Idle, On, Errored, Device

\* delay(1)
LEMMA WaitKeeps ==
  ASSUME PulsesInv, Wait
  PROVE  PulsesInv'
<1>1. PICK d \in MinDelay .. MaxDelay : Pass(d)
  BY DEF Wait
<1>2. /\ pc = "delay" /\ pc' = "scan"
      /\ UNCHANGED <<devVars, lastPulse, lastStatus, pin, told, cuts, pulsed>>
  BY DEF Wait
<1>3. /\ us' = Later(d) /\ sinceScan' = sinceScan + d
      /\ sincePulse' = sincePulse + d /\ behind' = behind + d
  BY <1>1 DEF Pass
<1>4. /\ Clocks /\ Timed /\ Stage /\ sinceScan \in Nat /\ sincePulse \in Nat /\ d \in Nat /\ d <= MaxDelay
      /\ SinceMs(lastPulse) < PulseUs /\ behind < StatusUs + Boot /\ sinceScan <= 2 * MaxPrint
      /\ SinceMs(lastPulse) \in 0 .. LapUs - 1 /\ behind \in 0 .. LapUs - 1
  BY <1>2, ClockValues, SketchConstants DEF PulsesInv, InTime, Clocks
<1>5. Clocks' /\ SinceMs(lastPulse)' = SinceMs(lastPulse) + d
  <2>1. SinceMs(lastPulse) + d < LapUs /\ behind + d < LapUs /\ sinceScan' \in Nat
    BY <1>3, <1>4, PulsesConstants, SketchConstants
  <2> QED BY <1>2, <1>3, <1>4, <2>1, TimePasses
<1>6. InTime'
  BY <1>2, <1>3, <1>4, <1>5, PulsesConstants, SketchConstants DEF InTime
<1>7. Timed'
  BY <1>2, <1>4, DeviceStays
<1>8. Stage'
  <2>1. CASE Constructed
    BY <1>2, <2>1 DEF Constructed
  <2>2. CASE Resting
    BY <1>2, <2>2, DeviceStays DEF Resting, Stage
  <2>3. CASE Asked
    BY <1>2, <1>3, <1>4, <2>3, DeviceStays DEF Asked, Stage
  <2>4. CASE Pulsing
    <3>1. held' = held /\ held \in Nat
      BY <1>2, <1>4 DEF devVars, Timed
    <3>2. sincePulse' <= MaxDelay + held' + sinceScan'
      BY <1>3, <1>4, <2>4, <3>1, SketchConstants DEF Pulsing
    <3> QED BY <1>2, <2>4, <3>2, DeviceStays DEF Pulsing, Stage
  <2>5. CASE CutOff
    BY <1>2, <2>5, DeviceStays DEF CutOff, Stage
  <2> QED BY <1>4, <2>1, <2>2, <2>3, <2>4, <2>5 DEF Stage
<1> QED BY <1>5, <1>6, <1>7, <1>8 DEF PulsesInv

\* latch.cnfMaxOnTimeMs.UpdateValue(MAX_ON_MS)
LEMMA LimitKeeps ==
  ASSUME PulsesInv, LimitCoil
  PROVE  PulsesInv'
<1>1. /\ pc = "configure" /\ pc' = "begin" /\ Dev!SetLimit(MAX_ON_MS)
      /\ UNCHANGED <<us, sinceScan, sincePulse, behind, lastPulse, lastStatus, pin, cuts, pulsed>>
  BY DEF LimitCoil, timeVars
<1>2. Clocks' /\ InTime'
  BY <1>1 DEF PulsesInv, Clocks, InTime, SinceMs
<1>3. Constructed
  BY <1>1 DEF PulsesInv, Stage, Constructed, Resting, Asked, Pulsing, CutOff
<1>4. Constructed' /\ Timed'
  BY <1>1, <1>3 DEF PulsesInv, Constructed, Timed, Dev!SetLimit
<1> QED BY <1>2, <1>4 DEF PulsesInv, Stage

\* latch.begin()
LEMMA BeginKeeps ==
  ASSUME PulsesInv, BeginCoil
  PROVE  PulsesInv'
<1>1. /\ pc = "begin" /\ pc' = "first" /\ Dev!Begin
      /\ UNCHANGED <<us, sinceScan, sincePulse, behind, lastPulse, lastStatus, pin, cuts, pulsed>>
  BY DEF BeginCoil, timeVars
<1>2. Clocks' /\ InTime'
  BY <1>1 DEF PulsesInv, Clocks, InTime, SinceMs
<1>3. Constructed
  BY <1>1 DEF PulsesInv, Stage, Constructed, Resting, Asked, Pulsing, CutOff
<1>4. cnfMaxOnTimeMs = MAX_ON_MS /\ cnfMaxOnTimeMs # 0
  BY <1>1, <1>3, SketchConstants DEF Constructed
<1>5. Idle("NONE")' /\ Timed'
  BY <1>1, <1>3, <1>4 DEF PulsesInv, Constructed, Timed, Dev!Begin, Idle, Device
<1>6. Resting'
  BY <1>1, <1>3, <1>5 DEF Resting, Constructed
<1> QED BY <1>2, <1>5, <1>6 DEF PulsesInv, Stage

\* scan(), with the line of a fault.
LEMMA ScanKeeps ==
  ASSUME PulsesInv, ScanCoil
  PROVE  PulsesInv'
<1>1. PICK d \in 0 .. MaxPrint :
        /\ us' = Later(d) /\ sinceScan' = d
        /\ sincePulse' = sincePulse + d /\ behind' = behind + d
  BY DEF ScanCoil
<1>2. /\ pc \in {"first", "scan"} /\ pc' = IF pc = "first" THEN "scan" ELSE "status"
      /\ Dev!Scan(sinceScan) /\ pin' = Pin /\ CountFault
      /\ UNCHANGED <<lastPulse, lastStatus, pulsed>>
  BY DEF ScanCoil
<1>3. /\ Clocks /\ Timed /\ Stage /\ sinceScan \in Nat /\ sincePulse \in Nat /\ d \in Nat /\ d <= MaxPrint
      /\ SinceMs(lastPulse) < PulseUs + MaxDelay + MaxPrint
      /\ behind < StatusUs + Boot + MaxDelay
      /\ sinceScan < TimeMod /\ (pc = "scan" => sinceScan <= MaxLoop)
      /\ pc = "first" => SinceMs(lastPulse) <= PulseUs /\ behind <= Boot
      /\ SinceMs(lastPulse) \in 0 .. LapUs - 1 /\ behind \in 0 .. LapUs - 1
  BY <1>2, ClockValues, SketchConstants, PulsesConstants DEF PulsesInv, InTime, Clocks
<1>4. Clocks' /\ SinceMs(lastPulse)' = SinceMs(lastPulse) + d
  <2>1. SinceMs(lastPulse) + d < LapUs /\ behind + d < LapUs /\ sinceScan' \in Nat
    BY <1>1, <1>3, PulsesConstants, SketchConstants
  <2> QED BY <1>1, <1>2, <1>3, <2>1, TimePasses
<1>5. InTime'
  BY <1>1, <1>2, <1>3, <1>4, PulsesConstants, SketchConstants DEF InTime
<1>6. sinceScan \in 0 .. TimeMod - 1
  BY <1>3, SketchConstants
<1>7. Stage' /\ Timed'
  <2>1. CASE Constructed
    BY <1>2, <2>1 DEF Constructed
  <2>2. CASE Resting
    <3>1. Idle("NONE")' /\ Timed' /\ reported' = "NONE"
      BY <1>2, <1>3, <1>6, <2>2, ScanRests DEF Resting, Idle
    <3> QED BY <1>2, <2>2, <3>1 DEF Resting, Stage, CountFault
  <2>3. CASE Asked
    <3>1. On("NONE")' /\ Timed' /\ held' = 0 /\ reported' = "NONE"
      BY <1>2, <1>3, <1>6, <2>3, ScanEnergizes DEF Asked
    <3>2. sincePulse' <= MaxDelay + held' + sinceScan'
      BY <1>1, <1>2, <1>3, <2>3, <3>1, SketchConstants DEF Asked
    <3> QED BY <1>2, <2>3, <3>1, <3>2 DEF Asked, Pulsing, Stage, CountFault
  <2>4. CASE Pulsing
    <3>1. sinceScan \in 0 .. MaxLoop /\ pc = "scan" /\ pc' = "status"
      BY <1>2, <1>3, <2>4, SketchConstants DEF Pulsing
    <3>2. held \in Nat /\ held < MaxOnUs
      BY <1>3, <2>4 DEF Timed, Pulsing, On, Device
    <3>3. CASE held + sinceScan < MaxOnUs
      <4>1. On("NONE")' /\ Timed' /\ held' = held + sinceScan /\ reported' = "NONE"
        BY <1>2, <1>3, <2>4, <3>1, <3>3, ScanMeasures DEF Pulsing
      <4>2. sincePulse' <= MaxDelay + held' + sinceScan'
        BY <1>1, <1>3, <2>4, <3>2, <4>1, SketchConstants DEF Pulsing
      <4> QED BY <1>2, <2>4, <3>1, <4>1, <4>2 DEF Pulsing, Stage, CountFault
    <3>4. CASE held + sinceScan >= MaxOnUs
      <4>1. Errored("NONE")' /\ Timed' /\ reported' = "ON_TIME_EXCEEDED"
        BY <1>2, <1>3, <2>4, <3>1, <3>4, ScanMeasures DEF Pulsing
      <4>2. sincePulse' < MaxOnUs + MaxLoop + MaxDelay + MaxPrint
        BY <1>1, <1>3, <2>4, <3>1, <3>2, SketchConstants DEF Pulsing
      <4> QED BY <1>2, <2>4, <3>1, <4>1, <4>2 DEF Pulsing, CutOff, Stage, CountFault
    <3> QED BY <1>3, <3>2, <3>3, <3>4, SketchConstants
  <2>5. CASE CutOff
    <3>1. Idle("NONE")' /\ Timed' /\ reported' = "NONE"
      BY <1>2, <1>3, <1>6, <2>5, ScanClears DEF CutOff
    <3> QED BY <1>2, <2>5, <3>1 DEF CutOff, Resting, Stage, CountFault
  <2> QED BY <1>3, <2>1, <2>2, <2>3, <2>4, <2>5 DEF Stage
<1> QED BY <1>4, <1>5, <1>7 DEF PulsesInv

\* A millisecond count moved on, in microseconds.
LEMMA PlusInUs ==
  ASSUME NEW u \in Nat \ {0}, NEW m \in Nat \ {0}, NEW l \in 0 .. m - 1, NEW n \in 0 .. m - 1
  PROVE  /\ Plus(l, n, m) \in 0 .. m - 1
         /\ Plus(l, n, m) * u = Plus(l * u, n * u, m * u)
<1>1. (l + n) * u = (l * u) + (n * u) /\ ((l + n) - m) * u = ((l * u) + (n * u)) - (m * u)
  OBVIOUS
<1>2. l * u \in Nat /\ n * u \in Nat /\ m * u \in Nat
  OBVIOUS
<1>3. CASE l + n < m
  <2>1. (m - (l + n)) * u >= 1 * u
    BY <1>3
  <2>2. (m - (l + n)) * u = (m * u) - ((l * u) + (n * u))
    OBVIOUS
  <2> QED BY <1>1, <1>2, <1>3, <2>1, <2>2 DEF Plus
<1>4. CASE l + n >= m
  <2>1. ((l + n) - m) * u >= 0
    BY <1>4
  <2> QED BY <1>1, <1>2, <1>4, <2>1 DEF Plus
<1> QED BY <1>3, <1>4

\* The clock and the instant it is measured from both move on.
LEMMA BothAdvance ==
  ASSUME NEW m \in Nat, NEW a \in 0 .. m - 1, NEW since \in 0 .. m - 1,
         NEW n \in 0 .. m - 1, n <= Minus(a, since, m)
  PROVE  Minus(a, Plus(since, n, m), m) = Minus(a, since, m) - n
  BY DEF Minus, Plus

\* What the two tests of loop() mean in true time.
LEMMA DueMeans ==
  ASSUME Clocks
  PROVE  /\ StatusDue <=> behind >= StatusUs
         /\ PulseDue <=> SinceMs(lastPulse) >= PulseUs
         /\ millis \in 0 .. MsMod - 1
<1>1. us \in 0 .. MsMod * UsPerMs - 1 /\ lastPulse \in 0 .. MsMod - 1 /\ lastStatus \in 0 .. MsMod - 1
  BY DEF Clocks, LapUs
<1>2. StatusEvery \in Nat /\ PulseEvery \in Nat
  BY PulsesConstants
<1>3. Minus(us \div UsPerMs, lastStatus, MsMod) >= StatusEvery
        <=> Minus(us, lastStatus * UsPerMs, MsMod * UsPerMs) >= StatusEvery * UsPerMs
  BY <1>1, <1>2, MillisSince, SketchConstants
<1>4. /\ us \div UsPerMs \in 0 .. MsMod - 1
      /\ Minus(us \div UsPerMs, lastPulse, MsMod) >= PulseEvery
           <=> Minus(us, lastPulse * UsPerMs, MsMod * UsPerMs) >= PulseEvery * UsPerMs
  BY <1>1, <1>2, MillisSince, SketchConstants
<1>5. behind = Minus(us, lastStatus * UsPerMs, MsMod * UsPerMs)
  BY DEF Clocks, SinceMs
<1> QED BY <1>3, <1>4, <1>5 DEF StatusDue, PulseDue, millis, SinceMs, StatusUs, PulseUs

\* The status line.
LEMMA StatusKeeps ==
  ASSUME PulsesInv, Status
  PROVE  PulsesInv' /\ (StatusDue => (told' = "coil on" <=> pin))
<1>1. /\ pc = "status" /\ pc' = "recover"
      /\ UNCHANGED <<devVars, lastPulse, pin, cuts, pulsed>>
  BY DEF Status
<1>2. /\ Clocks /\ Timed /\ Stage /\ sinceScan \in Nat /\ sincePulse \in Nat
      /\ SinceMs(lastPulse) < PulseUs + MaxLoop
      /\ behind < StatusUs + Boot + MaxDelay + MaxPrint
      /\ sinceScan <= MaxPrint
      /\ SinceMs(lastPulse) \in 0 .. LapUs - 1 /\ behind \in 0 .. LapUs - 1
  BY <1>1, ClockValues DEF PulsesInv, InTime, Clocks
<1>3. /\ Clocks' /\ InTime'
      /\ \E d \in 0 .. MaxPrint : sincePulse' = sincePulse + d /\ sinceScan' = sinceScan + d
  <2>1. CASE StatusDue
    <3>1. PICK d \in 0 .. MaxPrint :
            /\ us' = Later(d) /\ sinceScan' = sinceScan + d
            /\ sincePulse' = sincePulse + d /\ behind' = behind + d - StatusEvery * UsPerMs
      BY <2>1 DEF Status
    <3>2. lastStatus' = NextStatus /\ behind' = (behind + d) - StatusUs /\ d \in Nat /\ d <= MaxPrint
      <4>1. StatusEvery * UsPerMs = StatusUs /\ StatusUs \in Nat /\ behind \in Nat /\ d \in Nat /\ d <= MaxPrint
        BY <1>2, SketchConstants, PulsesConstants DEF StatusUs
      <4>2. lastStatus' = NextStatus
        BY <2>1 DEF Status
      <4> QED BY <3>1, <4>1, <4>2
    <3>3. SinceMs(lastPulse) + d < LapUs /\ behind + d < LapUs /\ StatusUs <= behind
      BY <1>2, <2>1, <3>2, DueMeans, PulsesConstants, SketchConstants
    <3>4. /\ us' \in 0 .. LapUs - 1
          /\ Minus(us', lastPulse * UsPerMs, LapUs) = SinceMs(lastPulse) + d
          /\ Minus(us', lastStatus * UsPerMs, LapUs) = behind + d
      BY <1>2, <3>1, <3>2, <3>3, ClocksMove
    <3>5. /\ lastStatus' \in 0 .. MsMod - 1
          /\ lastStatus' * UsPerMs = Plus(lastStatus * UsPerMs, StatusUs, LapUs)
      BY <1>2, <3>2, PlusInUs, PulsesConstants, SketchConstants DEF NextStatus, Clocks, StatusUs, LapUs
    <3>6. Minus(us', lastStatus' * UsPerMs, LapUs) = (behind + d) - StatusUs
      <4>1. lastStatus * UsPerMs \in 0 .. LapUs - 1
        BY <1>2, Readings DEF Clocks
      <4>2. StatusUs \in 0 .. LapUs - 1 /\ StatusUs <= behind + d
        BY <1>2, <3>2, <3>3, PulsesConstants, SketchConstants
      <4> QED BY <3>4, <3>5, <4>1, <4>2, BothAdvance, PulsesConstants
    <3>7. /\ SinceMs(lastPulse)' = SinceMs(lastPulse) + d
          /\ SinceMs(lastStatus)' = behind'
      BY <1>1, <3>2, <3>4, <3>6 DEF SinceMs, LapUs
    <3>8. Clocks'
      BY <1>1, <1>2, <3>1, <3>2, <3>4, <3>5, <3>7, PulsesConstants DEF Clocks
    <3>9. InTime'
      BY <1>1, <1>2, <3>1, <3>2, <3>7, PulsesConstants, SketchConstants DEF InTime
    <3> QED BY <3>1, <3>8, <3>9
  <2>2. CASE ~StatusDue
    <3>1. UNCHANGED <<lastStatus, us, sinceScan, sincePulse, behind>>
      BY <2>2 DEF Status, timeVars
    <3>2. Clocks' /\ SinceMs(lastPulse)' = SinceMs(lastPulse)
      BY <1>1, <1>2, <3>1 DEF Clocks, SinceMs
    <3>3. behind < StatusUs
      BY <1>2, <2>2, DueMeans, PulsesConstants
    <3>4. InTime'
      BY <1>1, <1>2, <3>1, <3>2, <3>3, PulsesConstants, SketchConstants DEF InTime
    <3>5. 0 \in 0 .. MaxPrint /\ sincePulse' = sincePulse + 0 /\ sinceScan' = sinceScan + 0
      BY <1>2, <3>1, SketchConstants
    <3> QED BY <3>2, <3>4, <3>5
  <2> QED BY <2>1, <2>2
<1>4. Timed'
  BY <1>1, <1>2, DeviceStays
<1>5. Stage' /\ ((rState = "BUSY") <=> pin)
  <2>1. CASE Constructed
    BY <1>1, <2>1 DEF Constructed
  <2>2. CASE Resting
    BY <1>1, <2>2, DeviceStays DEF Resting, Stage, Idle, Device
  <2>3. CASE Asked
    BY <1>1, <2>3 DEF Asked
  <2>4. CASE Pulsing
    <3>1. held' = held /\ held \in Nat
      BY <1>1, <1>2 DEF devVars, Timed
    <3>2. sincePulse' <= MaxDelay + held' + sinceScan'
      <4>1. PICK d \in 0 .. MaxPrint : sincePulse' = sincePulse + d /\ sinceScan' = sinceScan + d
        BY <1>3
      <4>2. sincePulse <= MaxDelay + held + sinceScan
        BY <2>4 DEF Pulsing
      <4> QED BY <1>2, <3>1, <4>1, <4>2, SketchConstants
    <3>3. On("NONE")' /\ On("NONE")
      BY <1>1, <2>4, DeviceStays DEF Pulsing
    <3>4. Pulsing'
      BY <1>1, <2>4, <3>2, <3>3 DEF Pulsing
    <3> QED BY <3>3, <3>4 DEF Stage, On, Device
  <2>5. CASE CutOff
    <3>1. sincePulse' < MaxOnUs + 2 * MaxLoop
      <4>1. PICK d \in 0 .. MaxPrint : sincePulse' = sincePulse + d
        BY <1>3
      <4> QED BY <1>1, <1>2, <2>5, <4>1, SketchConstants DEF CutOff
    <3>2. Errored("NONE")' /\ Errored("NONE")
      BY <1>1, <2>5, DeviceStays DEF CutOff
    <3>3. CutOff'
      BY <1>1, <2>5, <3>1, <3>2 DEF CutOff
    <3> QED BY <3>2, <3>3 DEF Stage, Errored, Device
  <2> QED BY <1>2, <2>1, <2>2, <2>3, <2>4, <2>5 DEF Stage
<1>6. StatusDue => (told' = "coil on" <=> pin)
  <2>1. StatusDue => told' = IF rState = "BUSY" THEN "coil on" ELSE "coil off"
    BY DEF Status
  <2> QED BY <1>5, <2>1
<1> QED BY <1>3, <1>4, <1>5, <1>6 DEF PulsesInv

\* if (ERRORED) coil.clearFault()
LEMMA RecoverKeeps ==
  ASSUME PulsesInv, Recover
  PROVE  PulsesInv'
<1>1. /\ pc = "recover" /\ pc' = "pulse"
      /\ UNCHANGED <<us, sinceScan, sincePulse, behind, lastPulse, lastStatus, pin, told, cuts, pulsed>>
  BY DEF Recover, timeVars
<1>2. Clocks' /\ InTime'
  BY <1>1 DEF PulsesInv, Clocks, InTime, SinceMs
<1>3. CASE CutOff
  <2>1. Errored("NONE") /\ Dev!Request("CLEAR_FAULT")
    BY <1>1, <1>3 DEF CutOff, Errored, Device, Recover, Faulted
  <2>2. Errored("CLEAR_FAULT")' /\ Timed'
    BY <1>1, <2>1 DEF PulsesInv, Timed, Errored, Device, Dev!Request, Dev!Accept, Dev!Accepts
  <2>3. CutOff'
    BY <1>1, <1>3, <2>2 DEF CutOff
  <2> QED BY <1>2, <2>2, <2>3 DEF PulsesInv, Stage
<1>4. CASE Resting
  <2>1. UNCHANGED devVars
    BY <1>4 DEF Resting, Idle, Device, Recover, Faulted
  <2> QED BY <1>1, <1>2, <1>4, <2>1, DeviceStays DEF Resting, PulsesInv, Stage
<1>5. CASE Pulsing
  <2>1. UNCHANGED devVars
    BY <1>5 DEF Pulsing, On, Device, Recover, Faulted
  <2>2. held' = held
    BY <2>1 DEF devVars
  <2>3. Pulsing'
    BY <1>1, <1>5, <2>1, <2>2, DeviceStays DEF Pulsing
  <2> QED BY <1>1, <1>2, <2>1, <2>3, DeviceStays DEF PulsesInv, Stage
<1>6. ~Constructed /\ ~Asked
  BY <1>1 DEF Constructed, Asked
<1> QED BY <1>3, <1>4, <1>5, <1>6 DEF PulsesInv, Stage

\* "every 10 s: energize and forget"
LEMMA PulseKeeps ==
  ASSUME PulsesInv, Pulse
  PROVE  PulsesInv' /\ (PulseDue => PulseIsCutOnce)
<1>1. /\ pc = "pulse" /\ pc' = "delay"
      /\ UNCHANGED <<us, sinceScan, behind, lastStatus, pin, told>>
  BY DEF Pulse
<1>2. /\ Clocks /\ Timed /\ Stage /\ sinceScan \in Nat /\ sincePulse \in Nat
      /\ behind < StatusUs + Boot /\ sinceScan <= 2 * MaxPrint
      /\ SinceMs(lastPulse) \in 0 .. LapUs - 1 /\ SinceMs(lastPulse) < sincePulse + UsPerMs
  BY <1>1, ClockValues DEF PulsesInv, InTime, Clocks
<1>3. CASE ~PulseDue
  <2>1. UNCHANGED <<devVars, lastPulse, sincePulse, cuts, pulsed>>
    BY <1>3 DEF Pulse
  <2>2. Clocks' /\ SinceMs(lastPulse)' = SinceMs(lastPulse)
    BY <1>1, <1>2, <2>1 DEF Clocks, SinceMs
  <2>3. SinceMs(lastPulse) < PulseUs
    BY <1>2, <1>3, DueMeans, PulsesConstants
  <2>4. InTime' /\ Timed'
    BY <1>1, <1>2, <2>1, <2>2, <2>3, DeviceStays DEF InTime
  <2>5. Stage'
    <3>1. CASE Resting
      BY <1>1, <2>1, <3>1, DeviceStays DEF Resting, Stage
    <3>2. CASE Pulsing
      <4>1. held' = held
        BY <2>1 DEF devVars
      <4> QED BY <1>1, <2>1, <3>2, <4>1, DeviceStays DEF Pulsing, Stage
    <3>3. CASE CutOff
      BY <1>1, <2>1, <3>3, DeviceStays DEF CutOff, Stage
    <3> QED BY <1>1, <1>2, <3>1, <3>2, <3>3 DEF Stage, Constructed, Asked
  <2> QED BY <1>3, <2>2, <2>4, <2>5 DEF PulsesInv
<1>4. CASE PulseDue
  <2>1. /\ lastPulse' = millis /\ Dev!Request("ENERGIZE")
        /\ sincePulse' = 0 /\ cuts' = 0 /\ pulsed' = TRUE
    BY <1>4 DEF Pulse
  <2>2. PulseUs <= SinceMs(lastPulse) /\ sincePulse > PulseUs - UsPerMs
    BY <1>2, <1>4, DueMeans, PulsesConstants
  <2>3. Resting
    <3>1. ~Pulsing
      <4>1. SUFFICES ASSUME Pulsing PROVE FALSE
        OBVIOUS
      <4>2. held \in Nat /\ held < MaxOnUs
        BY <1>2, <4>1 DEF Timed, Pulsing, On, Device
      <4> QED BY <1>2, <2>2, <4>1, <4>2, PulsesConstants, SketchConstants DEF Pulsing
    <3>2. ~CutOff
      BY <1>1, <1>2, <2>2, PulsesConstants, SketchConstants DEF CutOff
    <3> QED BY <1>1, <1>2, <3>1, <3>2 DEF Stage, Constructed, Asked
  <2>4. Idle("NONE") /\ Idle("ENERGIZE")' /\ Timed'
    BY <1>1, <1>2, <2>1, <2>3 DEF Resting, Idle, Device, Timed, Dev!Request, Dev!Accept, Dev!Accepts
  <2>5. Asked'
    BY <1>1, <2>1, <2>4, SketchConstants DEF Asked
  <2>6. SinceMs(lastPulse)' \in 0 .. UsPerMs - 1 /\ lastPulse' \in 0 .. MsMod - 1
    BY <1>1, <1>2, <2>1, MillisNow DEF Clocks, SinceMs, millis
  <2>7. Clocks'
    BY <1>1, <1>2, <2>1, <2>6, SketchConstants DEF Clocks, SinceMs
  <2>8. InTime'
    BY <1>1, <1>2, <2>6, PulsesConstants, SketchConstants DEF InTime
  <2>9. PulseIsCutOnce
    <3>1. sincePulse > (PulseEvery - 1) * UsPerMs
      BY <2>2, PulsesConstants
    <3>2. Dev!Accepts("ENERGIZE") /\ ~rEnergized /\ ~pin
      BY <2>4 DEF Idle, Device, Dev!Accepts
    <3>3. cuts = IF pulsed THEN 1 ELSE 0
      BY <2>3 DEF Resting
    <3> QED BY <3>1, <3>2, <3>3 DEF PulseIsCutOnce
  <2> QED BY <2>4, <2>5, <2>7, <2>8, <2>9 DEF PulsesInv, Stage
<1> QED BY <1>3, <1>4

\* The sketch starts in the invariant.
LEMMA PulsesStart ==
  ASSUME PulsesInit
  PROVE  PulsesInv
<1>1. /\ Dev!Init /\ pc = "configure" /\ us \in 0 .. Boot
      /\ sinceScan = us /\ sincePulse = us /\ behind = us
      /\ lastPulse = 0 /\ lastStatus = 0 /\ pin = FALSE /\ cuts = 0 /\ pulsed = FALSE
  BY DEF PulsesInit
<1>2. Boot < LapUs /\ LapUs \in Nat /\ Boot \in Nat
  BY PulsesConstants, SketchConstants
<1>3. SinceMs(0) = us
  <2>1. 0 * UsPerMs = 0 /\ us \in Nat
    BY <1>1, <1>2, SketchConstants
  <2> QED BY <2>1 DEF SinceMs, Minus
<1>4. Clocks
  BY <1>1, <1>2, <1>3, SketchConstants DEF Clocks
<1>5. InTime
  BY <1>1, <1>2, <1>3, PulsesConstants DEF InTime
<1>6. Timed
  BY <1>1, SketchConstants DEF Timed, Dev!Init
<1>7. Constructed
  BY <1>1 DEF Constructed, Dev!Init
<1> QED BY <1>4, <1>5, <1>6, <1>7 DEF PulsesInv, Stage

\* What the invariant says of the pulses and the lines.
LEMMA PulsesInvKeepsTime ==
  ASSUME PulsesInv
  PROVE  NoPulseLate /\ OneLinePerSecond
<1>1. /\ Clocks /\ InTime /\ sincePulse \in Nat /\ sincePulse <= SinceMs(lastPulse)
      /\ SinceMs(lastPulse) \in 0 .. LapUs - 1 /\ behind \in 0 .. LapUs - 1
  BY ClockValues DEF PulsesInv, Clocks
<1>2. SinceMs(lastPulse) < PulseUs + MaxLoop + MaxPrint /\ behind < StatusUs + Boot + MaxLoop
  <2>1. pc \in {"configure", "begin", "first", "scan", "status", "recover", "pulse", "delay"}
    BY DEF PulsesInv, Stage, Constructed, Resting, Asked, Pulsing, CutOff
  <2> QED BY <1>1, <2>1, PulsesConstants, SketchConstants DEF InTime
<1>3. sincePulse < PulseEvery * UsPerMs + MaxLoop + MaxPrint
  BY <1>1, <1>2, PulsesConstants, SketchConstants DEF PulseUs
<1>4. behind >= 0 /\ behind < StatusEvery * UsPerMs + Boot + MaxLoop
  BY <1>1, <1>2, PulsesConstants, SketchConstants DEF StatusUs
<1> QED BY <1>3, <1>4 DEF NoPulseLate, OneLinePerSecond

\* A stuttering step.
LEMMA PulsesStay ==
  ASSUME PulsesInv, UNCHANGED pulsesVars
  PROVE  PulsesInv'
<1>1. UNCHANGED <<devVars, us, sinceScan, sincePulse, behind, pc, lastPulse, lastStatus, pin, cuts, pulsed>>
  BY DEF pulsesVars, timeVars
<1>2. UNCHANGED held
  BY <1>1 DEF devVars
<1>3. Clocks' /\ InTime'
  BY <1>1 DEF PulsesInv, Clocks, InTime, SinceMs
<1>4. Timed'
  BY <1>1, DeviceStays DEF PulsesInv
<1>5. Constructed => Constructed'
  BY <1>1 DEF Constructed, devVars
<1>6. /\ Resting => Resting'
      /\ Asked => Asked'
      /\ Pulsing => Pulsing'
      /\ CutOff => CutOff'
  BY <1>1, <1>2, DeviceStays DEF Resting, Asked, Pulsing, CutOff
<1> QED BY <1>3, <1>4, <1>5, <1>6 DEF PulsesInv, Stage

\* examples/WallClockDemo, for every timing of its loop: pulses and lines come
\* when they are due on a millis() that wraps, each pulse finds the coil off
\* and is cut once, and a status line tells the truth about the pin.
THEOREM PulsesAreTimely == PulsesSpec => PulsesKeepTime
<1>1. PulsesInit => PulsesInv
  BY PulsesStart
<1>2. PulsesInv /\ [PulsesNext]_pulsesVars => PulsesInv'
  BY LimitKeeps, BeginKeeps, ScanKeeps, StatusKeeps, RecoverKeeps, PulseKeeps, WaitKeeps, PulsesStay
     DEF PulsesNext
<1>3. PulsesInv => NoPulseLate /\ OneLinePerSecond
  BY PulsesInvKeepsTime
<1>4. PulsesInv /\ [PulsesNext]_pulsesVars => [Pulse /\ PulseDue => PulseIsCutOnce]_pulsesVars
  BY PulseKeeps
<1>5. PulsesInv /\ [PulsesNext]_pulsesVars => [Status /\ StatusDue => (told' = "coil on" <=> pin)]_pulsesVars
  BY StatusKeeps
<1> QED BY <1>1, <1>2, <1>3, <1>4, <1>5, PTL DEF PulsesSpec, PulsesKeepTime

-----------------------------------------------------------------------------
(* WallClockDemo: the RTC                                                  *)

\* A quotient and its remainder.
LEMMA Divided ==
  ASSUME NEW m \in Nat \ {0}, NEW n \in Int
  PROVE  /\ n \div m \in Int /\ n % m \in 0 .. m - 1 /\ n = (m * (n \div m)) + (n % m)
  OBVIOUS

\* The only multiple of a positive number this close to 0 is 0.
LEMMA NoMultiple ==
  ASSUME NEW m \in Nat \ {0}, NEW k \in Int, -m < m * k, m * k < m
  PROVE  k = 0
<1>1. CASE k <= -1
  <2>1. m * k <= m * (-1)
    BY <1>1
  <2> QED BY <2>1
<1>2. CASE k >= 1
  <2>1. m * k >= m * 1
    BY <1>2
  <2> QED BY <2>1
<1> QED BY <1>1, <1>2

\* What a remainder is.
LEMMA RemainderIs ==
  ASSUME NEW m \in Nat \ {0}, NEW k \in Int, NEW r \in 0 .. m - 1
  PROVE  (r + m * k) % m = r
<1> DEFINE n == r + m * k
           q == n \div m
           s == n % m
<1>0. n \in Int
  OBVIOUS
<1>1. q \in Int /\ s \in 0 .. m - 1 /\ n = (m * q) + s
  BY <1>0, Divided
<1>2. m * (q - k) = (m * q) - (m * k)
  BY <1>1
<1>3. (m * q) + s = r + m * k
  BY <1>1
<1> HIDE DEF q, s, n
<1>4. m * (q - k) = r - s
  BY <1>1, <1>2, <1>3
<1>5. q - k = 0
  BY <1>1, <1>4, NoMultiple
<1>6. s = r
  BY <1>1, <1>4, <1>5
<1> QED BY <1>6 DEF s, n

\* Numbers that are a whole number of laps apart have the same remainder.
LEMMA SameRemainder ==
  ASSUME NEW m \in Nat \ {0}, NEW n \in Int, NEW k \in Int
  PROVE  (n + m * k) % m = n % m
<1> DEFINE q == n \div m
           r == n % m
<1>1. q \in Int /\ r \in 0 .. m - 1 /\ n = (m * q) + r
  BY Divided
<1> HIDE DEF q, r
<1>2. m * (q + k) = (m * q) + (m * k)
  BY <1>1
<1>3. n + m * k = r + m * (q + k)
  BY <1>1, <1>2
<1>4. (r + m * (q + k)) % m = r
  BY <1>1, RemainderIs
<1> QED BY <1>3, <1>4 DEF r

\* A number is some laps away from its remainder.
LEMMA LapsFrom ==
  ASSUME NEW m \in Nat \ {0}, NEW n \in Int
  PROVE  \E k \in Int : n % m = n + m * k
<1>1. /\ n \div m \in Int /\ n % m \in 0 .. m - 1
      /\ n = (m * (n \div m)) + (n % m)
  BY Divided
<1>2. m * (-(n \div m)) = -(m * (n \div m))
  BY <1>1
<1> DEFINE k == -(n \div m)
<1>3. k \in Int /\ n % m = n + m * k
  BY <1>1, <1>2
<1> QED BY <1>3, Zenon

\* How far the remainder of a small number is from the ends of its range.
LEMMA NearZero ==
  ASSUME NEW m \in Nat \ {0}, NEW x \in Int, NEW b \in Nat, NEW a \in Nat, -b <= x, x <= a
  PROVE  x % m <= a \/ x % m >= m - b
<1>1. x % m \in 0 .. m - 1
  BY Divided
<1>2. CASE x >= 0
  <2> DEFINE q == x \div m
             r == x % m
  <2>1. q \in Int /\ r \in 0 .. m - 1 /\ x = (m * q) + r
    BY Divided
  <2> HIDE DEF q, r
  <2>2. q >= 0
    <3> SUFFICES ASSUME q <= -1 PROVE FALSE
      BY <2>1
    <3>1. m * q <= m * (-1)
      BY <2>1
    <3> QED BY <1>2, <2>1, <3>1
  <2>3. m * q >= m * 0
    BY <2>1, <2>2
  <2>4. r <= x
    BY <2>1, <2>3
  <2> QED BY <2>1, <2>4 DEF r
<1>3. CASE x < 0 /\ b >= m
  BY <1>1, <1>3
<1>4. CASE x < 0 /\ b < m
  <2>1. x + m \in 0 .. m - 1 /\ x = (x + m) + m * (-1)
    BY <1>4
  <2>2. ((x + m) + m * (-1)) % m = x + m
    BY <2>1, RemainderIs
  <2>3. x % m = x + m
    BY <2>1, <2>2
  <2> QED BY <2>3
<1> QED BY <1>2, <1>3, <1>4

-----------------------------------------------------------------------------
\* The clock has moved on from its sample by the gap.
ClockMoved == \E k \in Int : clk = (sampleUs + gap) + Lap * k

\* A second that has changed since the RTC was read began after the reading.
TickSeen ==
  lastSecond # 0 /\ bySetting # "since" /\ rtc.state # "off" /\ rtc.sec # lastSecond
    => rtc.sub <= IF loopPc = "follow" THEN MaxGap + gap ELSE gap

\* Who set the RTC wants to follow it, and a wall clock that follows runs
\* with an RTC that runs.
SettingWants == bySetting = "since" => wantSync
RunsWithIt == set => rtc.state # "off"

RtcInv ==
  /\ RtcTypeOK /\ ClockMoved /\ TickSeen
  /\ SettingWants /\ RunsWithIt
  /\ WallFollowsRtc

\* The constants.
LEMMA RtcConstants ==
  /\ UsPerSec \in Nat /\ UsPerSec > 0 /\ Seconds \in Nat /\ Seconds > 0
  /\ MaxGap \in Nat /\ MaxCommands \in Nat
  /\ Lap \in Nat \ {0}
<1>1. /\ UsPerSec \in Nat \ {0} /\ Seconds \in Nat \ {0}
      /\ MaxGap \in Nat /\ MaxCommands \in Nat
  BY RtcAssumption
<1>2. Seconds * UsPerSec \in Nat /\ Seconds * UsPerSec # 0
  BY <1>1
<1> QED BY <1>1, <1>2 DEF Lap

\* The types, one by one.
LEMMA RtcTypes ==
  ASSUME RtcTypeOK
  PROVE  /\ clk \in Int /\ gap \in Nat /\ gap <= MaxGap /\ sampleUs \in Int /\ offsetUs \in Int
         /\ rtc.sec \in 1 .. Seconds /\ rtc.sub \in 0 .. UsPerSec - 1
         /\ rtc.state \in {"off", "old", "valid"}
         /\ rtc = [state |-> rtc.state, sec |-> rtc.sec, sub |-> rtc.sub]
         /\ RtcUs \in Int
<1>1. /\ clk \in Int /\ gap \in Nat /\ gap <= MaxGap /\ sampleUs \in Int /\ offsetUs \in Int
      /\ rtc.sec \in 1 .. Seconds /\ rtc.sub \in 0 .. UsPerSec - 1
      /\ rtc.state \in {"off", "old", "valid"}
      /\ rtc = [state |-> rtc.state, sec |-> rtc.sec, sub |-> rtc.sub]
  BY RtcConstants DEF RtcTypeOK
<1>2. rtc.sec * UsPerSec + rtc.sub \in Int
  BY <1>1, RtcConstants
<1>3. RtcUs \in Int
  BY <1>2, RtcConstants, Divided DEF RtcUs
<1> QED BY <1>1, <1>3

\* After setup() has begun.
LEMMA RtcInitInv == RtcInit => RtcInv
<1> SUFFICES ASSUME RtcInit PROVE RtcInv
  OBVIOUS
<1>1. RtcTypeOK
  <2>1. rtc \in [state : {"off", "old", "valid"}, sec : 1 .. Seconds, sub : 0 .. UsPerSec - 1]
    BY RtcConstants DEF RtcInit
  <2>2. 0 \in 0 .. Lap - 1 /\ 0 \in 0 .. MaxGap /\ 0 \in 0 .. MaxCommands /\ 0 \in 0 .. Seconds
    BY RtcConstants
  <2> QED BY <2>1, <2>2 DEF RtcInit, RtcTypeOK
<1>2. ClockMoved
  <2>1. clk = (sampleUs + gap) + Lap * 0
    BY RtcConstants DEF RtcInit
  <2> QED BY <2>1 DEF ClockMoved
<1>3. TickSeen /\ SettingWants /\ RunsWithIt /\ WallFollowsRtc
  BY DEF RtcInit, TickSeen, SettingWants, RunsWithIt, WallFollowsRtc
<1> QED BY <1>1, <1>2, <1>3 DEF RtcInv

\* A running RTC moves on by a microsecond, modulo a lap.
LEMMA RtcMoves ==
  ASSUME RtcTypeOK, RtcTypeOK',
         \/ rtc'.sec = rtc.sec /\ rtc'.sub = rtc.sub + 1
         \/ rtc'.sub = 0 /\ rtc.sub + 1 = UsPerSec /\ rtc'.sec = (rtc.sec % Seconds) + 1
  PROVE  \E k \in Int : RtcUs' = (RtcUs + 1) + Lap * k
<1> DEFINE p == rtc.sec * UsPerSec + rtc.sub
           q == rtc'.sec * UsPerSec + rtc'.sub
<1>1. /\ rtc.sec \in 1 .. Seconds /\ rtc.sub \in 0 .. UsPerSec - 1
      /\ rtc'.sec \in 1 .. Seconds /\ rtc'.sub \in 0 .. UsPerSec - 1
  BY RtcConstants DEF RtcTypeOK
<1>2. p \in Int /\ q \in Int
  BY <1>1, RtcConstants
<1>3. q = p + 1 \/ q = (p + 1) - Lap
  <2>1. CASE rtc'.sec = rtc.sec /\ rtc'.sub = rtc.sub + 1
    BY <1>1, <2>1, RtcConstants
  <2>2. CASE rtc'.sub = 0 /\ rtc.sub + 1 = UsPerSec /\ rtc'.sec = (rtc.sec % Seconds) + 1
    <3>1. CASE rtc.sec = Seconds
      <4>1. rtc.sec % Seconds = 0
        BY <3>1, RtcConstants
      <4>2. p + 1 = (Seconds * UsPerSec) + UsPerSec /\ q = UsPerSec
        BY <1>1, <2>2, <3>1, <4>1, RtcConstants
      <4> QED BY <4>2, RtcConstants DEF Lap
    <3>2. CASE rtc.sec # Seconds
      <4>1. rtc.sec % Seconds = rtc.sec
        BY <1>1, <3>2, RtcConstants
      <4>2. (rtc.sec + 1) * UsPerSec = (rtc.sec * UsPerSec) + UsPerSec
        BY <1>1, RtcConstants
      <4> QED BY <1>1, <2>2, <4>1, <4>2, RtcConstants
    <3> QED BY <3>1, <3>2
  <2> QED BY <2>1, <2>2
<1>4. RtcUs = p % Lap /\ RtcUs' = q % Lap
  BY DEF RtcUs, Lap
<1> HIDE DEF p, q
<1>5. PICK i \in Int : RtcUs = p + Lap * i
  BY <1>2, <1>4, RtcConstants, LapsFrom
<1>6. PICK j \in Int : RtcUs' = q + Lap * j
  BY <1>2, <1>4, RtcConstants, LapsFrom
<1> DEFINE n == IF q = p + 1 THEN 0 ELSE -1
<1>7. n \in Int /\ q = (p + 1) + Lap * n
  BY <1>2, <1>3, RtcConstants
<1> HIDE DEF n
<1> DEFINE k == n + j - i
<1>8. Lap * k = (Lap * n) + (Lap * j) - (Lap * i)
  BY <1>7, RtcConstants
<1>9. k \in Int
  BY <1>7
<1>10. RtcUs' = (RtcUs + 1) + Lap * k
  <2> HIDE DEF k
  <2> QED BY <1>2, <1>5, <1>6, <1>7, <1>8, <1>9, RtcConstants
<1> QED BY <1>9, <1>10, Zenon

\* A microsecond passes.
LEMMA PassKeeps == ASSUME RtcInv, PassUs PROVE RtcInv'
<1>1. RtcTypeOK
  BY DEF RtcInv
<1> USE RtcTypes
<1>2. PICK k1 \in Int : clk' = (clk + 1) + Lap * k1
  BY <1>1, RtcConstants, LapsFrom DEF PassUs
<1>3. clk' \in 0 .. Lap - 1
  BY <1>1, RtcConstants, Divided DEF PassUs
<1>4. ClockMoved'
  <2>1. PICK k \in Int : clk = (sampleUs + gap) + Lap * k
    BY DEF RtcInv, ClockMoved
  <2>2. Lap * (k + k1) = (Lap * k) + (Lap * k1)
    BY RtcConstants
  <2>3. clk' = (sampleUs' + gap') + Lap * (k + k1)
    BY <1>1, <1>2, <2>1, <2>2, RtcConstants DEF PassUs
  <2>4. k + k1 \in Int
    OBVIOUS
  <2> QED BY <2>3, <2>4, Zenon DEF ClockMoved
<1>5. RtcTypeOK' /\ rtc'.state = rtc.state
  <2>1. /\ rtc' \in [state : {"off", "old", "valid"}, sec : 1 .. Seconds, sub : 0 .. UsPerSec - 1]
        /\ rtc'.state = rtc.state
    <3>1. rtc.sec % Seconds \in 0 .. Seconds - 1
      BY <1>1, RtcConstants, Divided
    <3>2. CASE rtc.state = "off"
      BY <1>1, <3>2 DEF PassUs, Ticked, RtcTypeOK
    <3>3. CASE rtc.state # "off" /\ rtc.sub + 1 < UsPerSec
      <4>1. rtc' = [rtc EXCEPT !.sub = @ + 1]
        BY <3>3 DEF PassUs, Ticked
      <4>2. rtc.sub + 1 \in 0 .. UsPerSec - 1
        BY <1>1, <3>3, RtcConstants
      <4> QED BY <1>1, <4>1, <4>2 DEF RtcTypeOK
    <3>4. CASE rtc.state # "off" /\ ~(rtc.sub + 1 < UsPerSec)
      <4>1. rtc' = [rtc EXCEPT !.sub = 0, !.sec = (@ % Seconds) + 1]
        BY <3>4 DEF PassUs, Ticked
      <4>2. (rtc.sec % Seconds) + 1 \in 1 .. Seconds /\ 0 \in 0 .. UsPerSec - 1
        BY <3>1, RtcConstants
      <4> QED BY <1>1, <4>1, <4>2 DEF RtcTypeOK
    <3> QED BY <3>2, <3>3, <3>4
  <2>2. gap' \in 0 .. MaxGap
    BY <1>1, RtcConstants DEF PassUs
  <2> QED BY <1>1, <1>3, <2>1, <2>2 DEF PassUs, RtcTypeOK
<1>6. CASE rtc.state = "off"
  <2>1. TickSeen' /\ SettingWants' /\ RunsWithIt'
    BY <1>5, <1>6 DEF RtcInv, PassUs, TickSeen, SettingWants, RunsWithIt
  <2>2. WallFollowsRtc'
    BY <1>6 DEF RtcInv, PassUs, RunsWithIt, WallFollowsRtc
  <2> QED BY <1>4, <1>5, <2>1, <2>2 DEF RtcInv
<1>7. CASE rtc.state # "off"
  <2>1. \/ rtc'.sec = rtc.sec /\ rtc'.sub = rtc.sub + 1
        \/ rtc'.sub = 0 /\ rtc.sub + 1 = UsPerSec /\ rtc'.sec = (rtc.sec % Seconds) + 1
    BY <1>1, <1>7, RtcConstants DEF PassUs, Ticked
  <2>2. TickSeen'
    BY <1>1, <1>5, <2>1, RtcConstants DEF RtcInv, PassUs, TickSeen
  <2>3. SettingWants' /\ RunsWithIt'
    BY <1>5 DEF RtcInv, PassUs, SettingWants, RunsWithIt
  <2>4. \E k \in Int : RtcUs' = (RtcUs + 1) + Lap * k
    BY <1>1, <1>5, <2>1, RtcMoves
  <2>5. Ahead' = Ahead
    <3>1. PICK k2 \in Int : RtcUs' = (RtcUs + 1) + Lap * k2
      BY <2>4
    <3> DEFINE x == offsetUs + clk - RtcUs
    <3>2. Lap * (k1 - k2) = (Lap * k1) - (Lap * k2)
      BY RtcConstants
    <3>3. x \in Int /\ k1 - k2 \in Int
      BY <1>1
    <3>4. offsetUs' + clk' - RtcUs' = x + Lap * (k1 - k2)
      BY <1>1, <1>2, <3>1, <3>2, RtcConstants DEF PassUs
    <3>5. (x + Lap * (k1 - k2)) % Lap = x % Lap
      BY <3>3, RtcConstants, SameRemainder
    <3> QED BY <3>4, <3>5, Zenon DEF Ahead
  <2>6. WallFollowsRtc'
    BY <2>5, Zenon DEF RtcInv, PassUs, WallFollowsRtc, WithinOf
  <2> QED BY <1>4, <1>5, <2>2, <2>3, <2>6 DEF RtcInv
<1> QED BY <1>1, <1>6, <1>7

\* The console: no T line.
LEMMA NoCommandKeeps == ASSUME RtcInv, NoCommand PROVE RtcInv'
  BY DEF RtcInv, NoCommand, RtcTypeOK, ClockMoved, TickSeen, SettingWants, RunsWithIt,
     WallFollowsRtc, WithinOf, Ahead, RtcUs, Lap

\* A T line.
LEMMA SetRtcKeeps ==
  ASSUME RtcInv, NEW s \in 1 .. Seconds, NEW date \in {"old", "valid"}, NEW sub \in {0, rtc.sub},
         SetRtc(s, date, sub)
  PROVE  RtcInv'
<1>1. RtcTypeOK
  BY DEF RtcInv
<1>2. rtc' \in [state : {"off", "old", "valid"}, sec : 1 .. Seconds, sub : 0 .. UsPerSec - 1]
  BY <1>1, RtcTypes, RtcConstants DEF SetRtc
<1>3. commands' \in 0 .. MaxCommands
  BY <1>1, RtcConstants DEF SetRtc, RtcTypeOK
<1>4. RtcTypeOK'
  BY <1>1, <1>2, <1>3 DEF SetRtc, RtcTypeOK
<1>5. ClockMoved'
  BY DEF RtcInv, SetRtc, ClockMoved
<1>6. TickSeen' /\ SettingWants' /\ RunsWithIt' /\ WallFollowsRtc'
  BY DEF RtcInv, SetRtc, TickSeen, SettingWants, RunsWithIt, WallFollowsRtc
<1> QED BY <1>4, <1>5, <1>6 DEF RtcInv

\* The sample of the scan clock.
LEMMA SampleKeeps == ASSUME RtcInv, Sample PROVE RtcInv'
<1>1. RtcTypeOK
  BY DEF RtcInv
<1>2. RtcTypeOK'
  BY <1>1, RtcConstants DEF Sample, RtcTypeOK
<1>3. ClockMoved'
  <2>1. clk' = (sampleUs' + gap') + Lap * 0
    BY <1>1, RtcTypes, RtcConstants DEF Sample
  <2> QED BY <2>1 DEF ClockMoved
<1>4. TickSeen'
  BY <1>1, RtcTypes, RtcConstants DEF RtcInv, Sample, TickSeen
<1>5. SettingWants' /\ RunsWithIt'
  BY DEF RtcInv, Sample, SettingWants, RunsWithIt
<1>6. WallFollowsRtc'
  BY Zenon DEF RtcInv, Sample, WallFollowsRtc, WithinOf, Ahead, RtcUs, Lap
<1> QED BY <1>2, <1>3, <1>4, <1>5, <1>6 DEF RtcInv

\* The wall clock after a sync: ahead of the RTC by the time since the sample
\* less the time since the RTC's second began.
LEMMA AheadAfterSync ==
  ASSUME RtcInv, UNCHANGED <<clk, rtc>>, SyncTo(rtc.sec * UsPerSec)
  PROVE  Ahead' = (gap - rtc.sub) % Lap
<1> DEFINE s == rtc.sec * UsPerSec
<1>1. /\ clk \in Int /\ gap \in Int /\ sampleUs \in Int /\ rtc.sub \in Int /\ s \in Int
      /\ UsPerSec \in Int /\ RtcUs' = (s + rtc.sub) % Lap
  BY RtcTypes, RtcConstants DEF RtcInv, RtcUs, Lap
<1>0. offsetUs' = (s - sampleUs) % Lap
  BY DEF SyncTo
<1> HIDE DEF s
<1>2. PICK k1 \in Int : clk = (sampleUs + gap) + Lap * k1
  BY DEF RtcInv, ClockMoved
<1>10. s + rtc.sub \in Int /\ s - sampleUs \in Int
  BY <1>1
<1>3. PICK k2 \in Int : RtcUs' = (s + rtc.sub) + Lap * k2
  BY <1>1, <1>10, RtcConstants, LapsFrom
<1>4. PICK k3 \in Int : offsetUs' = (s - sampleUs) + Lap * k3
  BY <1>0, <1>10, RtcConstants, LapsFrom
<1> DEFINE x == gap - rtc.sub
           k == k3 + k1 - k2
<1>5. Lap * k = (Lap * k3) + (Lap * k1) - (Lap * k2)
  BY RtcConstants
<1>6. x \in Int /\ k \in Int
  BY <1>1
<1>7. offsetUs' + clk' - RtcUs' = x + Lap * k
  BY <1>1, <1>2, <1>3, <1>4, <1>5, RtcConstants
<1>8. (x + Lap * k) % Lap = x % Lap
  BY <1>6, RtcConstants, SameRemainder
<1>9. Ahead' = (offsetUs' + clk' - RtcUs') % Lap
  BY Zenon DEF Ahead, Lap
<1> QED BY <1>7, <1>8, <1>9

\* The reading of the RTC.
LEMMA FollowKeeps == ASSUME RtcInv, followRtc PROVE RtcInv'
<1>1. RtcTypeOK
  BY DEF RtcInv
<1>2. /\ clk' = clk /\ gap' = gap /\ sampleUs' = sampleUs /\ rtc' = rtc /\ loopPc = "follow"
      /\ loopPc' = "serial" /\ commands' = commands
      /\ lastSecond' = IF rtc.state = "off" THEN lastSecond ELSE rtc.sec
  BY DEF followRtc
<1>3. ClockMoved'
  BY <1>2 DEF RtcInv, ClockMoved
<1>4. TickSeen'
  BY <1>2 DEF TickSeen
<1>5. lastSecond' \in 0 .. Seconds
  BY <1>1, <1>2, RtcTypes, RtcConstants DEF RtcTypeOK
<1>6. CASE Follows
  <2>1. /\ wantSync' = FALSE /\ lastSyncSecond' = rtc.sec
        /\ SyncTo(rtc.sec * UsPerSec)
        /\ bySetting' = IF bySetting = "since" THEN "synced" ELSE "no"
    BY <1>6 DEF followRtc
  <2>2. RtcTypeOK'
    <3>1. rtc.sec * UsPerSec - sampleUs \in Int
      BY <1>1, RtcTypes, RtcConstants
    <3>2. offsetUs' \in 0 .. Lap - 1 /\ set' = TRUE
      BY <2>1, <3>1, RtcConstants, Divided DEF SyncTo
    <3>3. lastSyncSecond' \in 0 .. Seconds /\ lastSyncSecond' # 0
      BY <1>1, <2>1, RtcTypes, RtcConstants
    <3> QED BY <1>1, <1>2, <1>5, <2>1, <3>2, <3>3 DEF RtcTypeOK
  <2>3. SettingWants' /\ RunsWithIt'
    BY <1>2, <1>6, <2>1 DEF SettingWants, RunsWithIt, Follows
  <2>4. Ahead' = (gap - rtc.sub) % Lap
    BY <1>2, <2>1, AheadAfterSync
  <2>5. Ahead' <= MaxGap \/ Ahead' >= Lap - (IF bySetting' = "no" THEN MaxGap ELSE UsPerSec)
    <3>1. CASE bySetting = "since"
      <4>1. -UsPerSec <= gap - rtc.sub /\ gap - rtc.sub <= MaxGap /\ gap - rtc.sub \in Int
        BY <1>1, RtcTypes, RtcConstants
      <4>2. Ahead' <= MaxGap \/ Ahead' >= Lap - UsPerSec
        BY <2>4, <4>1, RtcConstants, NearZero
      <4> QED BY <2>1, <3>1, <4>2
    <3>2. CASE bySetting # "since"
      <4>1. rtc.sub <= MaxGap + gap
        BY <1>2, <1>6, <3>2 DEF RtcInv, TickSeen, Follows, Changed
      <4>2. -MaxGap <= gap - rtc.sub /\ gap - rtc.sub <= MaxGap /\ gap - rtc.sub \in Int
        BY <1>1, <4>1, RtcTypes, RtcConstants
      <4>3. Ahead' <= MaxGap \/ Ahead' >= Lap - MaxGap
        BY <2>4, <4>2, RtcConstants, NearZero
      <4> QED BY <2>1, <3>2, <4>3
    <3> QED BY <3>1, <3>2
  <2>6. WallFollowsRtc'
    BY <2>5, Zenon DEF WallFollowsRtc, WithinOf, Lap
  <2> QED BY <1>3, <1>4, <2>2, <2>3, <2>6 DEF RtcInv
<1>7. CASE ~Follows
  <2>1. /\ UNCHANGED <<wantSync, lastSyncSecond, offsetUs, set>>
        /\ bySetting' = IF rtc.state # "off" /\ bySetting = "since" THEN "no" ELSE bySetting
    BY <1>7 DEF followRtc
  <2>2. RtcTypeOK'
    BY <1>1, <1>2, <1>5, <2>1 DEF RtcTypeOK
  <2>3. SettingWants' /\ RunsWithIt'
    BY <1>2, <2>1 DEF RtcInv, SettingWants, RunsWithIt
  <2>4. Ahead' = Ahead
    BY <1>2, <2>1 DEF Ahead, RtcUs, Lap
  <2>5. WallFollowsRtc'
    BY <1>2, <2>1, <2>4 DEF RtcInv, SettingWants, WallFollowsRtc, WithinOf, Lap
  <2> QED BY <1>3, <1>4, <2>2, <2>3, <2>5 DEF RtcInv
<1> QED BY <1>6, <1>7

\* Every step.
LEMMA RtcNextInv == ASSUME RtcInv, [RtcNext]_rtcVars PROVE RtcInv'
<1>1. CASE UNCHANGED rtcVars
  BY <1>1 DEF rtcVars, RtcInv, RtcTypeOK, ClockMoved, TickSeen, SettingWants, RunsWithIt,
     WallFollowsRtc, WithinOf, Ahead, RtcUs, Lap
<1> QED BY <1>1, PassKeeps, NoCommandKeeps, SampleKeeps, FollowKeeps, SetRtcKeeps DEF RtcNext, Loop

\* A wall clock that followed a tick of the RTC is within one loop of it, and
\* one that followed a setting less than a second behind, however long the
\* loops are, for every RTC, every resync period and any T lines.
THEOREM RtcIsFollowed == RtcSpec => []WallFollowsRtc
<1>1. RtcInv => WallFollowsRtc
  BY DEF RtcInv
<1> QED BY <1>1, RtcInitInv, RtcNextInv, PTL DEF RtcSpec

=============================================================================
