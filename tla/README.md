# Universal-Device-Interface: models, checks and proofs

TLA+ specifications of the library under `src/src` and of its example sketches,
model-checked with TLC on small instances and, for the modules where it matters
most, proved with TLAPS for every value of their constants.

## The system

The library is a C++11 vocabulary for devices that are pure logic. A *framework*
(not in this repository), or a sketch's own loop, drives them.

| Part | State it keeps | Operations | Talks to | Modules |
|---|---|---|---|---|
| `SolenoidDevice` (`SolenoidDevice.h`) | `rState`, `rError`, `rEnergized`, `ioCoil`, `cnfMaxOnTimeMs`, `wCommand`, the latched request, the time of switching on | `begin()`, `update(t)`, `Set_wCommand()`, `energize()`, `release()`, `clearFault()` | its attributes, the error sink | `Solenoid`, `SolenoidWrites`, `CoilGuard` |
| `UdiClockWidener` (`UdiTime.h`) | last counter value, 64-bit time, period count | `advance(raw)`, `ms()` | the scan, which passes the result to every `update` | `ClockWidener`, `WallClock` |
| The scan (`SolenoidDeviceDemo.ino`, `DemoIoServer.h`) | the io server's copy of the coil, the pin; a script | sample, update, link, pin write; `setup()`, `loop()`, `runFor()` | all of the above | `SolenoidScan`, `SolenoidDemo` |
| Link hooks (`UdiLink.h`) | a linked chain per attribute | add, remove, fire | `UdiAttr` fires the chain after each store; a hook writes other attributes | `LinkHooks` |
| `UdiAttr` (`UdiAttr.h`) | a typed value or a text, the head of its chain | `Get*`, `UpdateValue` | link hooks | `AttrValue`, `AttrText` |
| `Attr` (`Attr.h`) | none (tables in flash) | fields, copies, comparison, enumeration lookup | `report`, describers | `AttrText` |
| `UdiDeclare.h`, `IDescriber.h`, `IDevice::describe` | none: what a compiler makes of a class | counting, items by index, static_asserts, units, callback owners | the framework's describer | `Declarations`, `ForEach` |
| Features and needs (`UdiFeature.h`, `IDevice.cpp`) | a list of handles per device, mounts | join, `mounted()`, `resolve()` | framework start-up | `StartUp`, `ForEach` |
| Error reporting (`IDevice.h`, `GlobalErrorSink.h`) | the sink and its context | `setGlobalErrorSink`, `report` | every device, on any thread | `ErrorSink` |
| `UdiWallClock` (`UdiWallClock.h`) | an offset, the last step | `sync`, `stampUs`, `formatUtc`, `formatSinceBoot` | `UdiTime` | `WallClock`, `CivilDate`, `Calendar` |
| `WallClockDemo.ino` | times of the last pulse and line, of the last RTC second | `loop()`, `followRtc()`, the T line | RTC, solenoid, wall clock | `WallClockDemo`, `CoilPulses` |
| HIL sketches (`hil/`) | - | - | an interface this repository no longer holds | not modelled |

Threads: `Attr.h:64-71` and the README's "The scan, time and threads" promise that
a write callback never runs at the same time as an `update` of its device tree;
`UdiLink.h` promises that values are written, and hooks run, under the tree lock.
So handlers of a device interleave but do not overlap. Two modules look inside that
promise: `SolenoidWrites`, for what a hook sees of a handler that is half done, and
`ErrorSink`, whose two pointers no lock covers.

What is hard here, and what correct means:

* **The on-time of the coil.** It is recovered from two samples of a clock that is
  itself recovered from a wrapping counter. It must be the true on-time; nothing
  may restart it; the cut must come at the limit, neither before nor never; and the
  pin, which lags behind the device by a part of the scan, must follow in time.
* **Latched requests.** They are acted on later, in a state that has moved on.
* **`rState`, `rError`, `rEnergized`, `ioCoil`** are written one after the other in
  six places, and every write runs hooks that may read all four.
* **Chains that are changed while they are walked**, with walks nested in walks.
* **Conversions.** A value goes through attributes of other types, widths and
  capacities, a date through 400 years of rules, a list through a macro with a fixed
  number of arguments.
* **Orders nobody wrote down**: of constructors, of mounts that grow the tree being
  walked, of an RTC set while it is read, of a sink changed while it is called.

The full list, with the line each hazard is at and the properties aimed at it, is
`hazards` in `PROJECT.json`.

## Modules

### The coil

* `Solenoid`: the attributes and members are variables of the same name (`pending`
  and `energizedAtUs` without their underscore). `Begin` is `begin()` with both its
  returns. `Scan(d)` is `update(t)` for a `t` that is `d` later than the last one;
  its conditions are operators of their own (`SwitchesOn`, `SwitchesOff`, `Since`,
  `Expired`, ...) in the order the code evaluates them, because the cutoff at the end
  sees what the command before it did. `SetCommand` and `Request` are the two doors
  to `accept()`; `SetLimit` is a write of the setup. `now` is the caller's clock,
  `reported` the code the last handler passed to `reportError`, and `held` a ghost:
  the true time the coil has been on, which no action reads.
* `CoilGuard`: the promise of `SolenoidDevice`, with no latch, no state word and no
  clock: a phase, the true on-time, the limit. `Solenoid` implements it.
* `SolenoidWrites`: `begin()` and `update(t)` as lists of statements (`todo`), one
  attribute write, condition or report to a step. `before` is the device as the
  running handler found it; through it the module implements `Solenoid`, so that
  every property of `Solenoid` is one of the device between two calls.
* `ClockWidener`: `FirstAdvance` and `LaterAdvance` are the branches of
  `advance()`, `Tick` is the counter.
* `SolenoidScan`: instances of `Solenoid` and `ClockWidener`; `Sample`, `Update`,
  `Link`, `Drive` are the four statements of `scan()`. `Tick` is a microsecond of
  true time and may come between any two of them, as may requests and changes of
  the limit. `pinHeld` is a ghost.
* `Unsigned`: C's unsigned sum and difference, by cases instead of `%`, which the
  provers handle for every modulus.

### The sketches

* `SketchCoil`: what the two sketches share: the solenoid, the pin and `millis()`.
  A scan is one step here; time passes in `delay()` and while the sketch prints,
  which the error sink does inside a scan or a write of the command.
* `SolenoidDemo`: the script of `setup()` and `loop()` as a list of lines, `runFor()`
  on a `millis()` that wraps, the error sink and what the lines show.
* `CoilPulses`: the solenoid half of `WallClockDemo`'s loop: a status line every
  second, a pulse that is "forgotten" every ten, its fault recovered from.
* `WallClockDemo`: the clock half: `Sample`, `followRtc` and the T line (`SetRtc`)
  against an external RTC that shows whole seconds, stops, is set, and may or may
  not begin its second again when set. Times are kept modulo a lap of seconds.

### Attributes

* `LinkHooks`: chains are `head` and `next` pointers, as in the code, and every
  question about a chain follows them; `frames` is one frame per `udiFireLinks()`
  call in progress. A hook forwards its attribute's value (a link), takes itself
  out (a one-shot), or does nothing to the library's state (a watcher).
* `AttrValue`: `UpdateValue` between every pair of types: the stores, the casts, the
  precision of a float, the words refused. `ValueOf` is what a link reads from its
  source, `Converted` what the target makes of it.
* `AttrText`: the text helpers of `Attr.h` and the text attribute, buffers with
  their terminator and what stands behind it; a text that is typed, stored and
  carried along a chain of links; enumerations; the texts a unit may be.
* `ForEach`: `UDI_FOR_EACH_`, by the position its arguments push the macro to.

### Devices and a framework

* `Declarations`: a compiler reading a base class and one derived from it:
  `Declare(d)` counts overloads to find the index, checks what the static_asserts
  check and adds an item; `Visit` is one item of `describe()`, base first. `error`
  is a class that does not compile. `AcceptedNumber` and `AcceptedText` are the
  checks of `UDI_ATTR_` and of `UDI_STR_`, which are not the same.
* `StartUp`: `Construct(d)` runs one handle's constructor, of any device in any
  order; then the framework sees the tree (`See`, `Mounted`) until it stops growing,
  resolves every handle (`Resolve`) and begins, or stops. The framework is external
  and modelled as `IDevice.h` and `UdiFeature.h` describe it.
* `ErrorSink`: `Install` starts the two stores of `setGlobalErrorSink()`, which
  follow in either order; `CheckSink` and `CallSink` are the two reads of
  `report()`. `Quiet` is the constant for an application that installs its sink only
  while nobody reports.
* `WallClock`: `sync`, `stampUs`, `lastStepUs` and `ms()`, with a log of stamped
  lines as the ghost. `CivilDate` is the integer arithmetic of `formatUtc` and
  `formatSinceBoot`, with C's division; `Calendar` turns an odometer by days and
  years to compare it with.

Each module also holds, before the definition they change, operators such as
`Since_EveryEnergize`: the same definition with a plausible bug. No specification
uses them. `PROJECT.json` pairs each property with the one that breaks it.

## Runs

Six runs pass. The last three combine several modules that share no state: a
behaviour is *about* one of them (the variable `about`, chosen once) and the others
stand still, so that TLC explores their union and not their product. They extend
their modules, so what they check is the very formula the theorems state;
`SolenoidDemo` and `CoilPulses` share the coil and `millis()` of `SketchCoil`.

| Run | What it shows |
|---|---|
| `solenoid` | Coil, state and fault agree between handlers (`EnergizedOnlineUnfaulted`, `ErroredIffFault`); no ENERGIZE waits in a device that may not energize (`NoStaleEnergize`); the difference the cutoff tests is the true on-time (`MeasuredTimeIsTrue`), which nothing restarts (`TimerNeverRestarts`); a cutoff is reported in the call that latches it and in no other (`ReportedExactlyWhenLatched`); only a `begin()` that fails online makes `rState` contradict fault and coil (`PrecedenceKeptByHandlers`); the device implements `CoilGuard` (`ImplementsGuard`); a coil that is on comes off although requests never stop (`CoilIsReleased`) |
| `solenoid_writes` | At no write of a handler is the coil on in a device that is offline or faulted (`EnergizedSafeAtEveryWrite`); who is woken by a write of `rState`, or by the sink, sees a device that is what it says (`ObserversSeeItWhole`); the writes add up to the handlers (`WritesMakeTheHandlers`) |
| `scan` | The pin is HIGH for less than a limit plus a sampling gap plus a latency (`PinOnTimeBounded`, which is tight); between scans it shows the coil (`PinIsTheCoil`); each update moves the device's time on by what has truly passed since the one before, never by more than a gap (`KeepsSolenoidAssumption`); a HIGH pin goes LOW (`PinGoesLow`) |
| `sketches` | `SolenoidDeviceDemo` shows what its header announces (`ShownAsAnnounced`), cycle after cycle, and `runFor` runs for its time (`CyclesKeepTime`); the status lines of `WallClockDemo` come one a second, none lost and none too many, and tell the truth about the pin, and a pulse comes on time and is cut once (`PulsesKeepTime`); its stamps are within a loop of an RTC it has followed (`WallFollowsRtc`), and the wall clock comes to follow a valid RTC (`ClockComesToFollow`) |
| `attributes` | Chains stay chains (`WellFormed`); a walk calls each hook that was there once and in order (`EveryHookOnceInOrder`) and ends (`WritesEnd`); both ends of a link agree when a write is over (`LinkedValuesAgree`); what every attribute of a chain can hold arrives at its end (`NumbersArrive`, `TextsArrive`); fields, enumerations and units are taken apart rightly, and a field is cut to whatever room its buffer has (`WordsTakenApart`) |
| `library` | The wide clock and `dtUs` are true time across wraps (`ClockIsTrue`, `DtIsTrueGap`); any two stamps differ by their scan times and the steps `lastStepUs()` reported between them (`StepsReconcileStamps`); a difference of `ms()` is the elapsed time across its wrap (`MsDifferenceIsElapsed`); a formatted date is the odometer's, and a time since boot is printed whenever its digits fit, and reads back (`FormatsTheInstant`); `describe()` lists everything declared, once and in order, with the unit chosen for it, or its symbol if none is, and the right callback owner, whatever the compiler is given (`DescribedAsDeclared`); handles are in order, `mounted()` is called once on every device, a start that goes on has every handle resolved to what its device became and one that stops has listed all that is missing (`StartRightly`), and it ends (`StartEnds`); a sink is called with its own context and hears what is reported (`CalledWithItsContext`, `HeardByTheInstalled`) |

Six runs show the code doing something other than its documentation says; each
is a finding in `PROJECT.json`:

* `solenoid_begin`: a `begin()` that fails on a device already online (limit set
  back to 0) leaves it IDLE, BUSY or ERRORED instead of OFFLINE, BUSY with the coil
  off.
* `widener_lap`: feeding the counter "at least once per wrap" is not enough. A
  sample in every lap can be a whole lap after the one before, and the lap is lost.
  The gap has to be *less* than a lap.
* `scan_restart`: `begin()` of an energized device and an ENERGIZE before the next
  scan start a new on-time, and the pin never went LOW. `scan` therefore has
  `begin()` only of an offline device, as the demo does.
* `attr_value_big`: an unsigned value of half its range or more, linked to a real
  attribute, arrives negative. `NumbersArrive` speaks of all others.
* `error_sink_race`: a sink changed while a device reports is called with the other
  sink's context, or through a null pointer. `library` has `Quiet`, an application
  that changes the sink only while nobody reports.
* `declarations_rstate`: "rState is IDevice's own" (`UdiDeclare.h:33`) is checked for
  numbers only. A text named `rState` compiles, hides the device's own, and
  `describe()` lists two. `compile_fail/reserved_rstate.cpp` tries `UDI_R`.
  `DescribedAsDeclared` lists both, as the code does.

One run passes where a comment of the code suggests it should not. `update()`
guards a latched ENERGIZE because "a fault may have latched since"
(`SolenoidDevice.h:89`). `NoStaleEnergize` and its theorem say that none can have:
`accept()` refuses an ENERGIZE while a fault is latched, and `update()` empties
`pending_` before the cutoff that latches one. So the fault half of the guard never
refuses, and a request made online is acted on in the next scan; what can wait for
longer is a RELEASE in a device that is offline. The guard would matter for a
request made from inside a handler, by a hook or by the sink, which `UdiLink.h:16-18`
and `Attr.h:64-71` exclude.

Seen while modelling, and not run as findings: `t.cycle` wraps after 2^32 periods
although the header says nothing wraps; `SolenoidDeviceDemo` stores a command in
`wCommand` before `Set_wCommand` may refuse it; a T line looks like a tick of the
RTC in the same loop; a named number below zero in an unsigned attribute no longer
equals its name; a default text is cut at its first `|`; a derived class may repeat
a name of its base, and both are described.

### Bounds

No run cuts a behaviour short, but for what a user may do without end: the log of
stamped lines, the text being typed and the T lines are bounded. Everything else is finite because the clocks
wrap, and ghost counters stop beyond every value a property compares them with.

* `MCSolenoid`: 8 clock values, 2 microseconds per millisecond, limits 0, 1 and 2
  ms, scans 0 to 3 us apart. The clock wraps within two periods; a scan can fall
  before, on and past each limit; the largest limit plus a gap just fits the clock,
  the edge of `SolenoidAssumption`. `MCSolenoidWrites`: the same with 7 clock
  values and scans 0 to 2 us apart.
* `MCSolenoidScan`: a counter of 4, time of 6, limits 2 and 3, gaps up to 2, latency
  up to 1. The bound on `pinHeld` is reached.
* `MCLibrary`: a counter of 4, time of 12, gaps up to 3, one short of a lap. A log of
  three lines (two to compare and a step between them), instants up to 11, a source
  that reads -7, 0, 3 or 40, four values of `ms()`. The largest time since boot that
  is formatted is 2147483647, the largest integer TLC has. Days of 48 us; every New Year
  from the year -2 to 10001 and every day of the years around the ends of the range,
  of the 400-year eras, the leap and the common centuries and of 1970.
  Two sinks and two threads; two items to a class, so that a class can be full and
  one item too many; texts of capacity 3 below, at and over it, and defaults that
  just fit and do not (`MCDeclarations`); a tree of up to five devices whose shape three mounts
  decide, with a joint that hosts the drive or the servo a mount chose.
* `MCSketches`: 2 us per millisecond, a limit of 4 ms, delays of 1 to 2 us and lines
  of 0 to 1; `millis()` with 16 values, from any of them in `SolenoidDemo`; a line
  every 3 ms, which does not divide 16, and a pulse every 10; the boot wait leaves
  three lines due. An RTC of 3 seconds of 5 us, samples at most 2 apart, two T lines.
  The margin of `SolenoidDemo` and the second of `CoilPulses` are the least their
  modules assume.
* `MCAttributes`: six hooks on two chains, in every order they can be added and
  removed; a narrow term that cuts one of the values, a bool pin and a text; walks
  nested two deep. Chains of three attributes of every type, integers of 2, 3 and 4
  bits, floats exact up to 4, and reals around every boundary. Texts of up to four
  characters over a letter, a bar and braces; capacities 3, 4, 2, so that a text is
  cut, fits exactly, and is shorter than the one before it.

### Fairness

* `Solenoid`: weak fairness of a scan at a later time. "Call it every period -- an
  energized coil is only safe as long as this keeps running"
  (`SolenoidDevice.h:80-82`), and the clock moves.
* `SolenoidScan`: weak fairness of the loop's next statement and of time.
* `LinkHooks`: a thread inside a write goes on with it.
* `SolenoidDemo`: the sketch goes on; its loop waits for nobody.
* `WallClockDemo`: its loop goes on and time passes; nothing is assumed of the RTC
  beyond its ticking while it runs, nor of the console.
* `StartUp`: the framework goes on until it scans or has stopped.

Nothing is assumed about requests, commands, hooks that come and go, or reports.

## Proofs

Eight modules hold theorems; each holds for every value of the constants its
assumption admits.

**`SolenoidProofs`** assumes `SolenoidAssumption`: the largest limit in microseconds
plus the longest gap between two scans is below the width of the clock (a 32-bit
number of milliseconds times 1000 plus a 32-bit gap, in 64 bits). The properties
are not inductive by themselves. `IInv` adds that the on-time of a coil that is on
leaves room for one more gap (`HeldFits`: it was below its limit at the last scan),
without which the unsigned difference of the next scan need not be the true time,
and that the ghost counts nothing while the coil is off (`HeldOnlyWhileOn`). The
core is `ScanMeasuresTrueTime`: under `IInv`, the difference of the next scan is
`held + d`. From `IInv` follow the state invariants; `TimerKept`, `ReportedOnce` and
`PrecedenceKeptAlways` prove the action properties; `RefinesGuard` proves the
refinement of `CoilGuard`, a scan by the four things it can do to the coil (stays
on, is released, is switched on, stays off).

**`SolenoidWritesProofs`**, under the same assumption. The invariant `Points` says for
every point of a handler's program what the device is there, in terms of the device
the handler found: one formula per part of the code (`InBegin`, `InEnergize`,
`InRelease`, `InClear`, `AtCutoff`, `InTrip`), one disjunct per statement. A
statement leads to the next point or ends the handler, and then the whole was
`Whole!Begin` or `Whole!Scan(gap)`: `HandlersMade`. Through this refinement the
`CoilSafety` of `SolenoidProofs` holds of what a handler finds, and with it every
point is safe (`SafeAtEveryWrite`) and every write of `rState` and every report is
of a device that is what it says (`SeenWholeAlways`).

**`ClockWidenerProofs`** assumes `WidenerAssumption`: the gap is below one lap, the
narrow counter is not wider than the wide one. `IInv` adds `RawTracksGap` (the
counter has moved by exactly the time since the last sample). `ClockCorrect` and
`DtCorrect` follow. `widener_lap` shows that the assumption cannot be weakened to a
gap of one lap.

**`SolenoidScanProofs`** composes the two and assumes what both assume, and a latency
of at most a gap. The clock's invariant, and `ClockAhead` (between a sample and its
`update` the device is one `dtUs` behind), show that the scan calls `update(t)` as
`Solenoid` assumes of its caller, with a time that has moved on by the true time since
the update before: `DeviceAssumptionKept`. Hence the device's theorems
hold here too. `PinInv` then says how far the pin's true time may be ahead of the
device's at each statement of `scan()`, and gives `PinShowsCoil` and `PinBounded`.

**`WallClockProofs`** has three parts. `WallClock` (`WallClockAssumption`: integers, and
nothing of the source of time or the number of lines): two lines are related through
the clock as it is (`LinesReachNow`), which is inductive as `StepsReconcileStamps` is
not (`StampsReconcile`). `MsDifferencesTrue` is about every `us` and every width of
`ms()`. `FormatsEveryInstant` is about the dates: `CalInv` says that the odometer's count
is that of its date and its time, and the lemmas before it that the era, the year of
the era and the day of the year of Hinnant's algorithm are those of the date, for every
era; then that the digits read back as the number and are as few as hold it, so that a time
since boot is refused only where no number of digits would do. `UnitsAssumption` is that each unit
fits the digits it is given, `DigitsAssumption` that a `uint64_t` has no more than 20.

**`DevicesProofs`**, three modules that share nothing.

* `ErrorSink`, with `Quiet`, which `error_sink_race` shows to be needed. `Stored` says
  the pointers agree with the last installation but for the stores it still has to
  make, and that nobody looks meanwhile. `OwnContext` and `HeardByTheLast` follow, for
  any threads and sinks.
* `Declarations`, for any declarations and any limit on their number
  (`DeclarationsAssumption`). `DeclInv`: the index of an item is the number of items
  before it (`Indexed`), a walk of `describe()` has told what lies before its place
  (`Walking`), and the last walk all of it (`Kept`): `DescribedAsDeclaredAlways`.
* `StartUp`, with `StartUpAssumption`: a handle is a member of one device, lists are
  finite, and so is what a mount makes a device grow. `Pointers` says that
  `udiNeeds_` and the `next` of each handle list what the device has constructed.
  `PassInv` says that no pass of the framework leaves behind a device whose mounts it
  applied, so that when the tree has stopped growing every device in it was called:
  `MountedOnceAlways`. `ResolveInv` says what was asked so far and which of it is
  missing, and gives `StartsRightly`.

**`AttrProofs`** has the attributes. *Link hooks*, assuming that links form trees: no two write the same attribute, and
none leads back (`LinksAssumption`, as ranks that rise along every link; a write round
a circle would not return). The pointers say nothing one can use step by step, so
`IInv` reads them as sequences: the nodes from `head` are the hooks of `Chains`
(`ListedBy`); each call of `udiFireLinks()` is at a place of the chain it walks, and
what it found at its beginning is what it has called so far and the chain from that
place on, although one-shots have taken themselves out behind it (`WalksInv`);
a link that has carried a value still agrees with it, or a walk is about to carry the
new one (`CarriedInv`). `ChainsStayWellFormed`, `HooksCalledOnceInOrder` and
`LinksKeepValuesEqual` follow, for any hooks and any depth of nesting.

The rest of `AttrProofs` is for chains of any length. Values (`ValueAssumption`: each width is even
and at least twice the one below it): `ValueInv` says what the attributes reached so
far hold; the cases are those of `Converted`, by the types of the two ends
(`NumbersAlwaysArrive`). Texts (`TextAssumption`: a default for each capacity,
terminator and junk are no characters): `TextInv` says that every buffer holds a text
that ends, and that those a text has reached hold it cut to the least capacity before
them (`TextsAlwaysArrive`). Words: a field is between two bars, counted, whatever the
text is, and cut to whatever room the buffer has (`WordsAlwaysTakenApart`).

**`SketchesProofs`**, for every limit, period, delay and printing time the figures of
the sketches leave room for (`DemoAssumption`, `PulsesAssumption`: a loop fits into a
second and before the cutoff, a pulse and its recovery into a period, a period into
the lap of `millis()`). `MillisSince` relates a difference of two readings of
`millis()`, wrapped or not, to the true time since the first; the lemmas `Scan...` say
what one scan makes of a coil that rests, is asked, is on, has been cut.
`DemoInv` says of each of the 25 lines of the script how the device stands
(`DeviceHere`), what was printed (`PrintedHere`), how long ago the last scan was
(`GapHere`), the printing of the sink inside it included, and of `runFor()` that neither its count nor the coil's on-time leaves
true time (`Running`): hence a pulse is never cut, one left on always is, and
`AnnouncedIsShown` and `RunsTakeTheirTime`. `PulsesInv` says how late each statement of
the loop may be (`InTime`) and how far the latest pulse is, from `Asked` over
`Pulsing` and `CutOff` to `Resting`, within its period: `PulsesAreTimely`. `RtcInv` says
what a tick seen by `followRtc()` tells of the RTC, modulo a lap: `RtcIsFollowed`.

`f[n]` over the naturals and facts about every `n` are handled in these modules from
the well-foundedness of sets of naturals (`AllNaturals`) and the existence of the
sequence of iterates (`RecursionExists`), both proved where they are used.

Only model-checked: liveness (`CoilIsReleased`, `PinGoesLow`, `WritesEnd`, `StartEnds`,
`CycleRepeats` of `CyclesKeepTime`, `ClockComesToFollow`), which needs fairness. Every
other property of a passing run is a theorem.

## Not modelled

* The HIL sketches: test rigs written against an older interface (`getState`,
  `DeviceState`, joints, tools, trajectories) that this repository no longer holds.
  There is no code to read their calls' effects from.
* `attrClassToString`, `attrTypeToString`: words for a log. The bytes of the serial
  port; the wording of the lines.
* Defaults and limits a declaration gives an attribute that its type cannot hold: no
  document says what they mean.
* What a compiler refuses without the macros' help: a missing `Set_` method, a name
  used twice in one class. Nor the checks of an enumeration's prefix and of a device's
  name, which concern no item.
* Adding a node to a chain it is already on: the framework that adds nodes is not in
  the repository, and `LinkHooks` assumes, as `Link` does, that it adds each once.
* The framework itself (rules, the order of the scan in a larger tree, link
  resolution). What the library needs of it is an assumption of the modules, named
  where it is made.

## Plan

Done: all components but the HIL sketches, and the proofs above. What would add
most from here: `SolenoidDemo` and `CoilPulses` with the clock of `ClockWidener` in
place of true time, and the pin bound of `SolenoidScan` carried over to their scans.
