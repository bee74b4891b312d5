-------------------------- MODULE WallClockProofs --------------------------
(***************************************************************************)
(* What the clock says.  WallClock, for every source, every number of      *)
(* lines and every width of ms(); Calendar, that the texts say the instant *)
(* they were given, for every date the odometer can be turned to and every *)
(* length of the units below a day.                                        *)
(***************************************************************************)
EXTENDS WallClock, Calendar, WellFoundedInduction, TLAPS

\* StepsReconcileStamps is not inductive by itself: it relates two lines and
\* not the clock that stamps the next one.  LinesReachNow, the same relation
\* between every line and the clock as it is, is; two lines then agree
\* because each agrees with the clock.
WallInv == WallTypeOK /\ LinesReachNow

\* Nothing stamped, nothing moved.
LEMMA WallInitInv == WallInit => WallInv
<1>1. WallInit => WallTypeOK
  <2>1. WallInit => us \in 0 .. MaxUs
    BY WallClockAssumption DEF WallInit
  <2>2. WallInit => set \in BOOLEAN
    BY DEF WallInit
  <2>3. WallInit => log \subseteq Line
    BY DEF WallInit
  <2>4. QED BY <2>1, <2>2, <2>3 DEF WallInit, WallTypeOK
<1>2. WallInit => LinesReachNow
  BY DEF WallInit, LinesReachNow
<1>3. QED BY <1>1, <1>2 DEF WallInv

\* Scan time moves every stamp to come alike.
LEMMA ScanKeeps == ASSUME WallInv, NEW t \in 1 .. MaxUs, Scan(t) PROVE WallInv'
<1>1. WallTypeOK'
  BY WallClockAssumption DEF WallInv, WallTypeOK, Scan, wall
<1>2. LinesReachNow'
  BY WallClockAssumption DEF WallInv, WallTypeOK, Scan, wall, LinesReachNow, stampUs, Line
<1>3. QED BY <1>1, <1>2 DEF WallInv

\* A sync() reports what it moves the clock by.
LEMMA SyncKeeps == ASSUME WallInv, NEW e \in Epochs, sync(e) PROVE WallInv'
<1>1. e \in Int
  BY WallClockAssumption DEF WallClockAssumption
<1>2. WallTypeOK'
  BY <1>1, WallClockAssumption
  DEF WallInv, WallTypeOK, sync, Anchor, StepTo, Line
<1>3. ASSUME NEW a \in log'
      PROVE stampUs' - a.stamp = (us' - a.us) + (moved' - a.moved)
  <2>1. CASE a \in log
    <3>1. set /\ lastStepUs' = e - us - offsetUs
      BY <2>1 DEF WallInv, LinesReachNow, sync, Anchor, StepTo
    <3>2. stampUs - a.stamp = (us - a.us) + (moved - a.moved)
      BY <2>1 DEF WallInv, LinesReachNow
    <3>3. a.stamp \in Int /\ a.us \in Int /\ a.moved \in Int
      BY <2>1, WallClockAssumption DEF WallInv, WallTypeOK, Line
    <3>4. QED
      BY <1>1, <3>1, <3>2, <3>3, WallClockAssumption
      DEF WallInv, WallTypeOK, sync, Anchor, stampUs
  <2>2. CASE a = [us |-> us, stamp |-> e, moved |-> moved']
    BY <1>1, <1>2, <2>2, WallClockAssumption
    DEF WallInv, WallTypeOK, sync, Anchor, stampUs
  <2>3. QED BY <1>3, <2>1, <2>2 DEF sync
<1>4. LinesReachNow'
  BY <1>3 DEF LinesReachNow, sync, Anchor
<1>5. QED BY <1>2, <1>4 DEF WallInv

\* A new line is stamped with the clock as it is.
LEMMA StampKeeps == ASSUME WallInv, Stamp PROVE WallInv'
<1>1. WallTypeOK'
  BY WallClockAssumption DEF WallInv, WallTypeOK, Stamp, wall, stampUs, Line
<1>2. LinesReachNow'
  BY WallClockAssumption DEF WallInv, WallTypeOK, Stamp, wall, LinesReachNow, stampUs, Line
<1>3. QED BY <1>1, <1>2 DEF WallInv

\* A step that changes nothing.
LEMMA StutterKeeps == ASSUME WallInv, UNCHANGED wallVars PROVE WallInv'
  BY DEF WallInv, WallTypeOK, LinesReachNow, wallVars, wall, stampUs

\* Every step.
LEMMA StepInv == WallInv /\ [WallNext]_wallVars => WallInv'
  BY ScanKeeps, SyncKeeps, StampKeeps, StutterKeeps DEF WallNext

\* The invariant holds always.
LEMMA WallInvariant == WallSpec => []WallInv
  BY WallInitInv, StepInv, PTL DEF WallSpec

\* Every line of the log is as far from the clock as scan time and the
\* steps reported since account for.
THEOREM LinesReach == WallSpec => []LinesReachNow
  BY WallInitInv, StepInv, PTL DEF WallSpec, WallInv

\* Any two stamps, of whatever syncs, differ by their scan times and the
\* steps lastStepUs() reported between them.
THEOREM StampsReconcile == WallSpec => []StepsReconcileStamps
<1>1. WallInv => StepsReconcileStamps
  <2>1. SUFFICES ASSUME WallInv, NEW a \in log, NEW b \in log
        PROVE b.stamp - a.stamp = (b.us - a.us) + (b.moved - a.moved)
    BY DEF StepsReconcileStamps
  <2>2. /\ stampUs - a.stamp = (us - a.us) + (moved - a.moved)
        /\ stampUs - b.stamp = (us - b.us) + (moved - b.moved)
    BY <2>1 DEF WallInv, LinesReachNow
  <2>3. \A l \in {a, b} : l.stamp \in Int /\ l.us \in Int /\ l.moved \in Int
    BY <2>1, WallClockAssumption DEF WallInv, WallTypeOK, Line
  <2>4. stampUs \in Int /\ us \in Int /\ moved \in Int
    BY <2>1, WallClockAssumption DEF WallInv, WallTypeOK, stampUs
  <2>5. QED BY <2>2, <2>3, <2>4
<1>2. QED BY <1>1, WallInitInv, StepInv, PTL DEF WallSpec

\* No multiple of a positive number lies strictly between two neighbours.
LEMMA MultipleBetween ==
  ASSUME NEW m \in Nat \ {0}, NEW k \in Int, -m < m * k, m * k < 2 * m
  PROVE  k \in {0, 1}
<1>1. CASE k <= -1
  <2>1. m * k <= m * (-1)
    BY <1>1
  <2> QED BY <2>1
<1>2. CASE k >= 2
  <2>1. m * k >= m * 2
    BY <1>2
  <2> QED BY <2>1
<1> QED BY <1>1, <1>2

\* A quotient and its remainder.
LEMMA Divide ==
  ASSUME NEW m \in Nat \ {0}, NEW n \in Nat
  PROVE  /\ n \div m \in Nat /\ n % m \in 0 .. m - 1 /\ n = (m * (n \div m)) + (n % m)
  OBVIOUS

\* Whole periods between two instants.
LEMMA QuotientsDiffer ==
  ASSUME NEW m \in Nat \ {0}, NEW x \in Nat, NEW y \in Nat, x <= y
  PROVE  (y \div m) - (x \div m) \in {(y - x) \div m, ((y - x) \div m) + 1}
<1> DEFINE a == x \div m
           b == y \div m
           d == (y - x) \div m
           r == x % m
           s == y % m
           t == (y - x) % m
<1>1. /\ a \in Nat /\ r \in 0 .. m - 1 /\ x = (m * a) + r
      /\ b \in Nat /\ s \in 0 .. m - 1 /\ y = (m * b) + s
      /\ d \in Nat /\ t \in 0 .. m - 1 /\ y - x = (m * d) + t
  <2>1. y - x \in Nat
    OBVIOUS
  <2> QED BY <2>1, Divide
<1> HIDE DEF a, b, d, r, s, t
<1>2. m * (b - a - d) = (m * b) - (m * a) - (m * d)
  BY <1>1
<1>3. m * (b - a - d) = t + r - s
  BY <1>1, <1>2
<1>4. -m < t + r - s /\ t + r - s < 2 * m
  BY <1>1
<1>5. b - a - d \in {0, 1}
  BY <1>1, <1>3, <1>4, MultipleBetween
<1> QED BY <1>1, <1>5 DEF a, b, d

\* The difference of two wrapped counts, when it is less than a lap.
LEMMA WrappedDifference ==
  ASSUME NEW m \in Nat \ {0}, NEW p \in Nat, NEW q \in Nat, p <= q, q - p < m
  PROVE  Minus(q % m, p % m, m) = q - p
<1> DEFINE a == p \div m
           b == q \div m
           r == p % m
           s == q % m
<1>1. /\ a \in Nat /\ r \in 0 .. m - 1 /\ p = (m * a) + r
      /\ b \in Nat /\ s \in 0 .. m - 1 /\ q = (m * b) + s
  BY Divide
<1> HIDE DEF a, b, r, s
<1>2. m * (b - a) = (m * b) - (m * a)
  BY <1>1
<1>3. m * (b - a) = (q - p) + r - s
  BY <1>1, <1>2
<1>4. b - a \in {0, 1}
  BY <1>1, <1>3, MultipleBetween
<1>5. CASE b - a = 0
  BY <1>1, <1>3, <1>5 DEF Minus
<1>6. CASE b - a = 1
  BY <1>1, <1>3, <1>6 DEF Minus
<1> QED BY <1>4, <1>5, <1>6 DEF s, r

\* Two ms() readings differ by the whole milliseconds between them or one
\* more, however the reading has wrapped: for every width of the reading and
\* every length of the milliseconds.
THEOREM MsDifferencesTrue == WallSpec => []MsDifferenceIsElapsed
<1>1. WallInv => MsDifferenceIsElapsed
  <2> DEFINE D(a, b) == (b.us - a.us) \div UsPerMs
  <2> SUFFICES ASSUME WallInv, NEW a \in log, NEW b \in log,
                      b.us >= a.us, D(a, b) + 1 < MsMod
               PROVE  Minus(ms(b.us), ms(a.us), MsMod) \in {D(a, b), D(a, b) + 1}
    BY DEF MsDifferenceIsElapsed
  <2> DEFINE p == a.us \div UsPerMs
             q == b.us \div UsPerMs
             d == D(a, b)
  <2>1. /\ UsPerMs \in Nat \ {0} /\ MsMod \in Nat \ {0}
        /\ a.us \in Nat /\ b.us \in Nat
    BY WallClockAssumption DEF WallInv, WallTypeOK, Line
  <2>2. q - p \in {d, d + 1}
    BY <2>1, QuotientsDiffer
  <2>3. p \in Nat /\ q \in Nat /\ d \in Nat
    <3>1. b.us - a.us \in Nat
      BY <2>1
    <3>2. (b.us - a.us) \div UsPerMs \in Nat
      BY <2>1, <3>1, Divide
    <3> QED BY <2>1, <3>2, Divide
  <2>4. d + 1 < MsMod
    OBVIOUS
  <2> HIDE DEF p, q, d, D
  <2>5. p <= q /\ q - p < MsMod
    BY <2>1, <2>2, <2>3, <2>4
  <2>6. Minus(q % MsMod, p % MsMod, MsMod) = q - p
    BY <2>1, <2>3, <2>5, WrappedDifference
  <2> QED BY <2>2, <2>6 DEF ms, p, q, d
<1> QED BY <1>1, WallInvariant, PTL

-----------------------------------------------------------------------------
(* Dates                                                                   *)

\* Months counted from March, in years that begin with it.
MonthFromMarch(mon) == IF mon > 2 THEN mon - 3 ELSE mon + 9
MarchYear(year, mon) == IF mon > 2 THEN year ELSE year - 1

\* Days from 0000-03-01 to a date, by its year's leap days and its month.
YearsBefore(y) == 365 * y + y \div 4 - y \div 100 + y \div 400
MonthsBefore(mon) == (153 * MonthFromMarch(mon) + 2) \div 5
DaysTo(year, mon, day) == YearsBefore(MarchYear(year, mon)) + MonthsBefore(mon) + day - 1

Valid(d) ==
  /\ d \in [year : Int, mon : 1 .. 12, day : 1 .. 31]
  /\ d.day <= MonthLength(d.year, d.mon)

DayNumber(d) == DaysTo(d.year, d.mon, d.day)

\* floorDiv() rounds down, whatever the sign.
LEMMA FloorDivIs ==
  ASSUME NEW b \in Nat \ {0}, NEW q \in Int, NEW r \in 0 .. b - 1
  PROVE  floorDiv(q * b + r, b) = q
<1>1. CASE q >= 0
  BY <1>1 DEF floorDiv, Quot
<1>2. CASE q < 0 /\ r = 0
  BY <1>2 DEF floorDiv, Quot
<1>3. CASE q < 0 /\ r > 0
  <2>1. (-(q * b + r)) \div b = -(q + 1)
    BY <1>3
  <2> QED BY <1>3, <2>1 DEF floorDiv, Quot
<1> QED BY <1>1, <1>2, <1>3

\* What CivilDay() takes for the era.
EraOf(z) == Quot(IF z >= 0 THEN z ELSE z - 146096, 146097)

\* The quotient, cut toward zero, is the era.
LEMMA EraIs ==
  ASSUME NEW e \in Int, NEW doe \in Nat, doe < 146097
  PROVE  EraOf(e * 146097 + doe) = e
<1> DEFINE z == e * 146097 + doe
<1>1. CASE e >= 0
  <2>1. z >= 0
    BY <1>1, SMT
  <2>2. z \div 146097 = e
    BY SMT
  <2> QED BY <2>1, <2>2, SMT DEF Quot, EraOf
<1>2. CASE e < 0
  <2>1. z < 0 /\ z - 146096 < 0 /\ z \in Int
    BY <1>2, SMT
  <2>2. (-(z - 146096)) \div 146097 = -e
    BY SMT
  <2> HIDE DEF z
  <2>3. EraOf(z) = e
    BY <2>1, <2>2, SMT DEF Quot, EraOf
  <2> QED BY <2>3 DEF z
<1> QED BY <1>1, <1>2, SMT

\* The days of an era.
InEra(doe) == doe \in Nat /\ doe < 146097

\* What CivilDay() makes of the day of the era, and of the year of the era.
YearOf(doe) == (doe - doe \div 1460 + doe \div 36524 - doe \div 146096) \div 365
DaysOf(yoe) == 365 * yoe + yoe \div 4 - yoe \div 100

\* The day of the era gives the year of the era.
LEMMA YearOfEra ==
  ASSUME NEW yoe \in 0 .. 399, NEW doy \in 0 .. 365, doy = 365 => IsLeap(yoe + 1)
  PROVE  InEra(DaysOf(yoe) + doy) /\ YearOf(DaysOf(yoe) + doy) = yoe
<1> DEFINE c == yoe \div 100
           q == (yoe % 100) \div 4
           r == yoe % 4
           n == 36524 * c + 1461 * q + 365 * r + doy
<1>1. c \in 0 .. 3 /\ q \in 0 .. 24 /\ r \in 0 .. 3 /\ yoe = 100 * c + 4 * q + r
  OBVIOUS
<1>2. doy = 365 => r = 3 /\ (q = 24 => c = 3)
  BY <1>1 DEF IsLeap
<1>3. DaysOf(yoe) + doy = n
  BY <1>1, SMT DEF DaysOf
<1> HIDE DEF c, q, r
<1>4. n \in Nat /\ n < 146097
  BY <1>1, <1>2, SMT
<1>5. YearOf(n) = 100 * c + 4 * q + r
  BY <1>1, <1>2, SMT DEF YearOf
<1> HIDE DEF n
<1> QED BY <1>1, <1>3, <1>4, <1>5, SMT DEF InEra

\* The day of the year gives the month and the day.
LEMMA MonthIs ==
  ASSUME NEW mon \in 1 .. 12, NEW day \in 1 .. 31,
         mon \in {4, 6, 9, 11} => day <= 30, mon = 2 => day <= 29,
         NEW doy, doy = MonthsBefore(mon) + day - 1
  PROVE  doy \in 0 .. 365 /\ (5 * doy + 2) \div 153 = MonthFromMarch(mon)
  BY DEF MonthFromMarch, MonthsBefore

\* How long a month is.
LEMMA Lengths ==
  ASSUME NEW year \in Int, NEW mon \in 1 .. 12
  PROVE  /\ MonthLength(year, mon) \in 28 .. 31
         /\ mon \in {4, 6, 9, 11} => MonthLength(year, mon) = 30
         /\ mon = 2 => MonthLength(year, mon) = 29 \/ MonthLength(year, mon) = 28
         /\ mon = 2 => (MonthLength(year, mon) = 29 <=> IsLeap(year))
         /\ mon \notin {2, 4, 6, 9, 11} => MonthLength(year, mon) = 31
  BY DEF MonthLength

\* The date of a day by its era, its year of the era and its day of the year.
Civil(era, yoe, doy) ==
  LET mp  == (5 * doy + 2) \div 153
      mon == IF mp < 10 THEN mp + 3 ELSE mp - 9
  IN  [year |-> yoe + era * 400 + (IF mon <= 2 THEN 1 ELSE 0),
       mon  |-> mon,
       day  |-> doy - (153 * mp + 2) \div 5 + 1]

\* The four quotients of the algorithm.
LEMMA CivilDayBy ==
  ASSUME NEW z
  PROVE  LET doe == z - EraOf(z) * 146097
         IN  CivilDay(z) = Civil(EraOf(z), YearOf(doe), doe - DaysOf(YearOf(doe)))
  BY DEF CivilDay, Civil, EraOf, YearOf, DaysOf

\* A year that begins in March ends with its leap day.
LEMMA YearAfter ==
  ASSUME NEW y \in Int
  PROVE  YearsBefore(y) = YearsBefore(y - 1) + YearLength(y)
  BY DEF YearsBefore, YearLength, IsLeap

\* The day after the last of a month is the first of the next.
LEMMA MonthAfter ==
  ASSUME NEW year \in Int, NEW mon \in 1 .. 11
  PROVE  DaysTo(year, mon + 1, 1) = DaysTo(year, mon, MonthLength(year, mon)) + 1
<1>1. CASE mon = 2
  <2>1. MonthLength(year, 2) = IF IsLeap(year) THEN 29 ELSE 28
    BY DEF MonthLength
  <2>2. DaysTo(year, 3, 1) = YearsBefore(year)
    BY DEF DaysTo, MarchYear, MonthsBefore, MonthFromMarch, YearsBefore
  <2>3. DaysTo(year, 2, MonthLength(year, 2)) = YearsBefore(year - 1) + 337 + MonthLength(year, 2) - 1
    BY <2>1 DEF DaysTo, MarchYear, MonthsBefore, MonthFromMarch, YearsBefore
  <2>4. YearsBefore(year) \in Int /\ YearsBefore(year - 1) \in Int
    BY DEF YearsBefore
  <2> QED BY <1>1, <2>1, <2>2, <2>3, <2>4, YearAfter DEF YearLength
<1>2. CASE mon # 2
  <2>1. MarchYear(year, mon + 1) = MarchYear(year, mon) /\ MarchYear(year, mon) \in Int
    BY <1>2 DEF MarchYear
  <2>2. MonthsBefore(mon + 1) = MonthsBefore(mon) + MonthLength(year, mon)
    BY <1>2 DEF MonthsBefore, MonthFromMarch, MonthLength
  <2>3. MonthsBefore(mon) \in Int /\ MonthLength(year, mon) \in Int /\ YearsBefore(MarchYear(year, mon)) \in Int
    BY <2>1, Lengths DEF MonthsBefore, MonthFromMarch, YearsBefore
  <2> QED BY <2>1, <2>2, <2>3 DEF DaysTo
<1> QED BY <1>1, <1>2

\* The odometer's next day is the next number.
LEMMA NextDay ==
  ASSUME NEW d, Valid(d)
  PROVE  Valid(DayAfter(d)) /\ DayNumber(DayAfter(d)) = DayNumber(d) + 1
<1> DEFINE y == d.year  m == d.mon  k == d.day
<1>1. /\ y \in Int /\ m \in 1 .. 12 /\ k \in 1 .. MonthLength(y, m)
      /\ d = [year |-> y, mon |-> m, day |-> k]
      /\ MonthLength(y, m) \in 28 .. 31
  BY Lengths DEF Valid
<1>a. \A a \in Int, b \in 1 .. 12 : DaysTo(a, b, 1) \in Int
  BY DEF DaysTo, MarchYear, MonthsBefore, MonthFromMarch, YearsBefore
<1>2. CASE k < MonthLength(y, m)
  <2>1. DayAfter(d) = [year |-> y, mon |-> m, day |-> k + 1]
    BY <1>1, <1>2 DEF DayAfter
  <2>2. DaysTo(y, m, k + 1) = DaysTo(y, m, k) + 1
    BY <1>1 DEF DaysTo, MarchYear, MonthsBefore, MonthFromMarch, YearsBefore
  <2>3. DayNumber(DayAfter(d)) = DayNumber(d) + 1
    BY <2>1, <2>2, SMT DEF DayNumber
  <2> HIDE DEF y, m, k
  <2> QED BY <1>1, <1>2, <2>1, <2>3, SMT DEF Valid
<1>3. CASE k = MonthLength(y, m) /\ m < 12
  <2>1. DayAfter(d) = [year |-> y, mon |-> m + 1, day |-> 1]
    <3>1. DayAfter(d) = [d EXCEPT !.mon = m + 1, !.day = 1]
      BY <1>1, <1>3 DEF DayAfter
    <3> QED BY <1>1, <3>1
  <2>2. DaysTo(y, m + 1, 1) = DaysTo(y, m, k) + 1
    BY <1>1, <1>3, MonthAfter
  <2>3. MonthLength(y, m + 1) \in 28 .. 31
    BY <1>1, <1>3, Lengths
  <2> QED BY <1>1, <1>3, <2>1, <2>2, <2>3 DEF Valid, DayNumber
<1>4. CASE k = MonthLength(y, m) /\ m = 12
  <2>1. DayAfter(d) = [year |-> y + 1, mon |-> 1, day |-> 1]
    BY <1>1, <1>4 DEF DayAfter
  <2>2. k = 31
    BY <1>1, <1>4, Lengths
  <2>3. DaysTo(y + 1, 1, 1) = DaysTo(y, m, k) + 1
    BY <1>1, <1>4, <2>2 DEF DaysTo, MarchYear, MonthsBefore, MonthFromMarch, YearsBefore
  <2>4. MonthLength(y + 1, 1) \in 28 .. 31
    BY <1>1, Lengths
  <2> QED BY <1>1, <1>4, <2>1, <2>3, <2>4 DEF Valid, DayNumber
<1> QED BY <1>1, <1>2, <1>3, <1>4

\* A year after the first of January is the next one.
LEMMA NewYearAfter ==
  ASSUME NEW y \in Int
  PROVE  DaysTo(y + 1, 1, 1) = DaysTo(y, 1, 1) + YearLength(y)
<1>1. YearsBefore(y) \in Int /\ YearsBefore(y - 1) \in Int /\ YearLength(y) \in Int
  BY DEF YearsBefore, YearLength
<1>2. DaysTo(y + 1, 1, 1) = YearsBefore(y) + 306 /\ DaysTo(y, 1, 1) = YearsBefore(y - 1) + 306
  BY <1>1 DEF DaysTo, MarchYear, MonthsBefore, MonthFromMarch
<1> QED BY <1>1, <1>2, YearAfter

\* The algorithm finds the date of every day's number.
LEMMA CivilDayIs ==
  ASSUME NEW d, Valid(d)
  PROVE  CivilDay(DayNumber(d)) = d
<1> DEFINE y == d.year  m == d.mon  k == d.day
<1>1. /\ y \in Int /\ m \in 1 .. 12 /\ k \in 1 .. 31 /\ k <= MonthLength(y, m)
      /\ d = [year |-> y, mon |-> m, day |-> k]
  BY DEF Valid
<1> HIDE DEF y, m, k
<1> DEFINE my == MarchYear(y, m)
           e == my \div 400
           yoe == my % 400
           doy == MonthsBefore(m) + k - 1
           doe == DaysOf(yoe) + doy
           z == e * 146097 + doe
<1>2. my \in Int
  BY <1>1 DEF MarchYear
<1>3. doy \in 0 .. 365 /\ (5 * doy + 2) \div 153 = MonthFromMarch(m)
  <2>1. (m \in {4, 6, 9, 11} => k <= 30) /\ (m = 2 => k <= 29)
    BY <1>1, Lengths
  <2> QED BY <1>1, <2>1, MonthIs, Zenon
<1>4. doy = 365 => m = 2 /\ k = 29
  BY <1>1 DEF MonthsBefore, MonthFromMarch
<1>5. doy = 365 => IsLeap(my + 1)
  <2>1. ASSUME doy = 365 PROVE IsLeap(y) /\ my + 1 = y
    BY <1>1, <1>4, <2>1, Lengths DEF MarchYear
  <2> QED BY <2>1
<1> HIDE DEF my, doy
<1>6. e \in Int /\ yoe \in 0 .. 399 /\ my = 400 * e + yoe
  BY <1>2
<1> HIDE DEF e, yoe
<1>8. doy = 365 => IsLeap(yoe + 1)
  BY <1>5, <1>6 DEF IsLeap
<1>9. YearsBefore(my) = e * 146097 + DaysOf(yoe) /\ DaysOf(yoe) \in Int
  BY <1>6, SMT DEF YearsBefore, DaysOf
<1>10. DayNumber(d) = z
  <2>1. MonthsBefore(m) \in Int
    BY <1>1 DEF MonthsBefore, MonthFromMarch
  <2>2. DayNumber(d) = YearsBefore(my) + MonthsBefore(m) + k - 1
    BY <1>1, Zenon DEF DayNumber, DaysTo, my, y, m, k
  <2> QED BY <1>1, <1>6, <1>9, <2>1, <2>2, SMT DEF doy
<1>11. InEra(doe) /\ YearOf(doe) = yoe
  BY <1>3, <1>6, <1>8, YearOfEra, Zenon
<1>12. doe - DaysOf(yoe) = doy
  BY <1>3, <1>9, SMT
<1> HIDE DEF doe
<1>13. EraOf(z) = e
  <2>1. doe \in Nat /\ doe < 146097
    BY <1>11, SMT DEF InEra
  <2>2. EraOf(e * 146097 + doe) = e
    BY <1>6, <2>1, EraIs, SMT
  <2> QED BY <2>2, SMT DEF z
<1>13a. z - e * 146097 = doe
  BY <1>6, <1>11, SMT DEF InEra
<1> HIDE DEF z
<1>14. CivilDay(z) = Civil(e, yoe, doy)
  BY <1>11, <1>12, <1>13, <1>13a, CivilDayBy
<1>15. (IF MonthFromMarch(m) < 10 THEN MonthFromMarch(m) + 3 ELSE MonthFromMarch(m) - 9) = m
  BY <1>1 DEF MonthFromMarch
<1>16. doy - (153 * MonthFromMarch(m) + 2) \div 5 + 1 = k
  BY <1>1 DEF doy, MonthsBefore, MonthFromMarch
<1>17. yoe + e * 400 + (IF m <= 2 THEN 1 ELSE 0) = y
  BY <1>1, <1>6 DEF my, MarchYear
<1> QED BY <1>1, <1>3, <1>10, <1>14, <1>15, <1>16, <1>17 DEF Civil

-----------------------------------------------------------------------------
(* Times of the day, and the odometer                                      *)

Times ==
  [hour : 0 .. HourPerDay - 1, min : 0 .. MinPerHour - 1,
   sec : 0 .. SecPerMin - 1, us : 0 .. UsPerSec - 1]

\* The units are not empty, nor what is made of them.
LEMMA Units ==
  /\ UsPerSec \in Nat \ {0} /\ SecPerMin \in Nat \ {0}
  /\ MinPerHour \in Nat \ {0} /\ HourPerDay \in Nat \ {0}
  /\ SecPerHour \in Nat \ {0} /\ SecPerDay \in Nat \ {0}
<1>1. /\ UsPerSec \in Nat \ {0} /\ SecPerMin \in Nat \ {0}
      /\ MinPerHour \in Nat \ {0} /\ HourPerDay \in Nat \ {0}
  BY UnitsAssumption
<1>2. \A a, b \in Nat \ {0} : a * b \in Nat \ {0}
  OBVIOUS
<1> QED BY <1>1, <1>2 DEF SecPerHour, SecPerDay

\* The seconds and the microseconds of the day.
SecOfDay(t) == (t.hour * MinPerHour + t.min) * SecPerMin + t.sec
UsOfDay(t) == SecOfDay(t) * UsPerSec + t.us

\* A digit of a numeral of two figures is the quotient, or the rest.
LEMMA Figures ==
  ASSUME NEW b \in Nat \ {0}, NEW q \in Int, NEW r \in 0 .. b - 1
  PROVE  (q * b + r) \div b = q /\ (q * b + r) % b = r
  OBVIOUS

\* Fewer than a whole of them is less than the whole.
LEMMA Below ==
  ASSUME NEW b \in Nat \ {0}, NEW n \in Nat \ {0}, NEW q \in 0 .. n - 1, NEW r \in 0 .. b - 1
  PROVE  q * b + r \in 0 .. n * b - 1
<1>1. q * b >= 0
  OBVIOUS
<1>2. (q + 1) * b <= n * b
  <2>1. n * b - (q + 1) * b = (n - (q + 1)) * b /\ (n - (q + 1)) * b >= 0
    OBVIOUS
  <2> QED BY <2>1
<1> QED BY <1>1, <1>2

\* The seconds of a day in hours, minutes and seconds, as the code takes
\* them apart.
LEMMA SecondsApart ==
  ASSUME NEW t \in Times
  PROVE  /\ SecOfDay(t) \in 0 .. SecPerDay - 1
         /\ SecOfDay(t) \div SecPerHour = t.hour
         /\ (SecOfDay(t) \div SecPerMin) % MinPerHour = t.min
         /\ SecOfDay(t) % SecPerMin = t.sec
<1> DEFINE h == t.hour  m == t.min  s == t.sec
           H == HourPerDay  M == MinPerHour  S == SecPerMin
           n == SecOfDay(t)
<1>1. /\ h \in 0 .. H - 1 /\ m \in 0 .. M - 1 /\ s \in 0 .. S - 1
      /\ H \in Nat \ {0} /\ M \in Nat \ {0} /\ S \in Nat \ {0}
      /\ SecPerHour = S * M /\ SecPerDay = S * M * H
      /\ n = (h * M + m) * S + s
  BY Units DEF Times, SecPerHour, SecPerDay, SecOfDay
<1> HIDE DEF h, m, s, H, M, S, n
<1>2. h * M + m \in 0 .. H * M - 1 /\ H * M \in Nat \ {0}
  BY <1>1, Below
<1>3. n \in 0 .. (H * M) * S - 1
  BY <1>1, <1>2, Below
<1>4. n \div S = h * M + m /\ n % S = s
  BY <1>1, <1>2, Figures
<1>5. (h * M + m) % M = m
  BY <1>1, Figures
<1>6. m * S + s \in 0 .. M * S - 1 /\ M * S \in Nat \ {0}
  BY <1>1, Below
<1>7. n = h * (M * S) + (m * S + s)
  BY <1>1
<1>8. n \div (M * S) = h
  BY <1>1, <1>6, <1>7, Figures
<1>9. M * S = SecPerHour /\ (H * M) * S = SecPerDay
  BY <1>1
<1> QED BY <1>3, <1>4, <1>5, <1>8, <1>9 DEF n, h, m, s, M, S

\* The odometer's next microsecond is the next of the day, or midnight.
LEMMA NextUs ==
  ASSUME NEW t \in Times
  PROVE  /\ TimeAfter(t) \in Times
         /\ UsOfDay(TimeAfter(t)) = IF TimeAfter(t) = Midnight THEN 0 ELSE UsOfDay(t) + 1
         /\ TimeAfter(t) = Midnight => UsOfDay(t) + 1 = DayUs
<1> DEFINE h == t.hour  m == t.min  s == t.sec  u == t.us
           H == HourPerDay  M == MinPerHour  S == SecPerMin  U == UsPerSec
           At(a, b, c, d) == [hour |-> a, min |-> b, sec |-> c, us |-> d]
<1>1. /\ h \in 0 .. H - 1 /\ m \in 0 .. M - 1 /\ s \in 0 .. S - 1 /\ u \in 0 .. U - 1
      /\ H \in Nat \ {0} /\ M \in Nat \ {0} /\ S \in Nat \ {0} /\ U \in Nat \ {0}
      /\ t = At(h, m, s, u) /\ Midnight = At(0, 0, 0, 0)
      /\ DayUs = S * M * H * U
  BY Units DEF Times, SecPerHour, SecPerDay, DayUs, Midnight
<1>2. \A a \in 0 .. H - 1, b \in 0 .. M - 1, c \in 0 .. S - 1, d \in 0 .. U - 1 :
        /\ At(a, b, c, d) \in Times
        /\ UsOfDay(At(a, b, c, d)) = ((a * M + b) * S + c) * U + d
        /\ At(a, b, c, d) = Midnight => a = 0 /\ b = 0 /\ c = 0 /\ d = 0
  BY DEF Times, UsOfDay, SecOfDay, Midnight
<1>3. TimeAfter(t) =
        IF u + 1 < U THEN At(h, m, s, u + 1)
        ELSE IF s + 1 < S THEN At(h, m, s + 1, 0)
        ELSE IF m + 1 < M THEN At(h, m + 1, 0, 0)
        ELSE IF h + 1 < H THEN At(h + 1, 0, 0, 0)
        ELSE At(0, 0, 0, 0)
  <2>1. [t EXCEPT !.us = t.us + 1] = At(h, m, s, u + 1)
    BY <1>1
  <2>2. [hour |-> t.hour, min |-> t.min, sec |-> t.sec + 1, us |-> 0] = At(h, m, s + 1, 0)
    BY <1>1
  <2>3. [hour |-> t.hour, min |-> t.min + 1, sec |-> 0, us |-> 0] = At(h, m + 1, 0, 0)
    BY <1>1
  <2>4. [Midnight EXCEPT !.hour = t.hour + 1] = At(h + 1, 0, 0, 0)
    BY <1>1
  <2> QED BY <1>1, <2>1, <2>2, <2>3, <2>4, Zenon DEF TimeAfter
<1>4. UsOfDay(t) = ((h * M + m) * S + s) * U + u
  BY <1>1, <1>2
<1> HIDE DEF h, m, s, u, H, M, S, U, At
<1>5. CASE u + 1 < U
  BY <1>1, <1>2, <1>3, <1>4, <1>5
<1>6. CASE u + 1 = U /\ s + 1 < S
  BY <1>1, <1>2, <1>3, <1>4, <1>6
<1>a. \A x \in Int : (x * S + (S - 1)) * U + (U - 1) + 1 = ((x + 1) * S + 0) * U + 0
  BY <1>1
<1>7. CASE u + 1 = U /\ s + 1 = S /\ m + 1 < M
  <2>1. TimeAfter(t) = At(h, m + 1, 0, 0) /\ m + 1 \in 0 .. M - 1 /\ m + 1 # 0
    BY <1>1, <1>3, <1>7
  <2>2. UsOfDay(At(h, m + 1, 0, 0)) = ((h * M + (m + 1)) * S + 0) * U + 0
    BY <1>1, <1>2, <2>1
  <2>3. h * M + (m + 1) = h * M + m + 1 /\ h * M + m \in Int
    BY <1>1
  <2>4. UsOfDay(t) + 1 = ((h * M + m + 1) * S + 0) * U + 0
    BY <1>1, <1>4, <1>7, <1>a, <2>3
  <2> QED BY <1>1, <1>2, <2>1, <2>2, <2>3, <2>4
<1>8. CASE u + 1 = U /\ s + 1 = S /\ m + 1 = M /\ h + 1 < H
  <2>1. TimeAfter(t) = At(h + 1, 0, 0, 0) /\ h + 1 \in 0 .. H - 1 /\ h + 1 # 0
    BY <1>1, <1>3, <1>8
  <2>2. UsOfDay(At(h + 1, 0, 0, 0)) = (((h + 1) * M + 0) * S + 0) * U + 0
    BY <1>1, <1>2, <2>1
  <2>3. (h + 1) * M + 0 = h * M + m + 1 /\ h * M + m \in Int
    BY <1>1, <1>8
  <2>4. UsOfDay(t) + 1 = ((h * M + m + 1) * S + 0) * U + 0
    BY <1>1, <1>4, <1>8, <1>a, <2>3
  <2>5. UsOfDay(TimeAfter(t)) = UsOfDay(t) + 1
    BY <2>1, <2>2, <2>3, <2>4
  <2>6. TimeAfter(t) \in Times /\ TimeAfter(t) # Midnight
    BY <1>1, <1>2, <2>1
  <2> QED BY <2>5, <2>6
<1>9. CASE u + 1 = U /\ s + 1 = S /\ m + 1 = M /\ h + 1 = H
  <2>1. TimeAfter(t) = At(0, 0, 0, 0)
    BY <1>1, <1>3, <1>9
  <2>2. UsOfDay(At(0, 0, 0, 0)) = 0 /\ At(0, 0, 0, 0) \in Times
    BY <1>1, <1>2
  <2>3. h * M + m + 1 = H * M /\ h * M + m \in Int
    BY <1>1, <1>9
  <2>4. UsOfDay(t) + 1 = ((h * M + m + 1) * S + 0) * U + 0
    BY <1>1, <1>4, <1>9, <1>a, <2>3
  <2>5. (H * M * S + 0) * U + 0 = S * M * H * U
    BY <1>1
  <2> QED BY <1>1, <2>1, <2>2, <2>3, <2>4, <2>5
<1> QED BY <1>1, <1>5, <1>6, <1>7, <1>8, <1>9

\* The odometer's count is its date and its time.
CalInv ==
  /\ Valid(date)
  /\ time \in Times
  /\ epochUs = (DayNumber(date) - EpochDay) * DayUs + UsOfDay(time)

\* The odometer starts at 0 at the first midnight of 1970.
LEMMA CalInitInv == CalInit => CalInv
<1> SUFFICES ASSUME CalInit PROVE CalInv
  OBVIOUS
<1>1. Valid(date)
  BY DEF CalInit, Valid, MonthLength
<1>2. DayNumber(date) = EpochDay
  BY SMT DEF EpochDay, CalInit, DayNumber, DaysTo, MarchYear, MonthsBefore, MonthFromMarch, YearsBefore
<1>3. time \in Times /\ UsOfDay(time) = 0
  BY Units DEF CalInit, Midnight, Times, UsOfDay, SecOfDay
<1>4. DayUs \in Int /\ epochUs = 0 /\ EpochDay \in Int
  BY Units DEF DayUs, CalInit, EpochDay
<1> QED BY <1>1, <1>2, <1>3, <1>4, SMT DEF CalInv

\* Every turn of the odometer keeps its count.
LEMMA CalNextInv == ASSUME CalInv, [CalNext]_calVars PROVE CalInv'
<1>1. /\ EpochDay \in Int /\ DayUs \in Nat \ {0} /\ DayNumber(date) \in Int /\ UsOfDay(time) \in Int
      /\ Valid(date) /\ time \in Times
      /\ epochUs = (DayNumber(date) - EpochDay) * DayUs + UsOfDay(time)
  <2>1. DayUs \in Nat \ {0}
    <3>1. \A a, b \in Nat \ {0} : a * b \in Nat \ {0}
      OBVIOUS
    <3> QED BY <3>1, Units DEF DayUs
  <2>2. DayNumber(date) \in Int
    BY DEF CalInv, Valid, DayNumber, DaysTo, MarchYear, MonthsBefore, MonthFromMarch, YearsBefore
  <2>3. UsOfDay(time) \in Int
    BY Units DEF CalInv, Times, UsOfDay, SecOfDay
  <2>4. EpochDay \in Int
    BY DEF EpochDay
  <2> QED BY <2>1, <2>2, <2>3, <2>4, Zenon DEF CalInv
<1>2. CASE TurnUs
  <2>1. time' \in Times
    BY <1>1, <1>2, NextUs DEF TurnUs
  <2>2. CASE time' = Midnight
    <3>1. date' = DayAfter(date) /\ time' = TimeAfter(time) /\ epochUs' = epochUs + 1
      BY <1>2, <2>2 DEF TurnUs
    <3>2. Valid(date') /\ DayNumber(date') = DayNumber(date) + 1
      BY <1>1, <3>1, NextDay
    <3>3. UsOfDay(time') = 0 /\ UsOfDay(time) + 1 = DayUs
      BY <1>1, <2>2, <3>1, NextUs
    <3>4. epochUs' = (DayNumber(date') - EpochDay) * DayUs + UsOfDay(time')
      BY <1>1, <3>1, <3>2, <3>3
    <3> QED BY <2>1, <3>2, <3>4 DEF CalInv, DayNumber, UsOfDay, SecOfDay
  <2>3. CASE time' # Midnight
    <3>1. date' = date /\ time' = TimeAfter(time) /\ epochUs' = epochUs + 1
      BY <1>2, <2>3 DEF TurnUs
    <3>2. UsOfDay(time') = UsOfDay(time) + 1
      BY <1>1, <2>3, <3>1, NextUs
    <3>3. epochUs' = (DayNumber(date') - EpochDay) * DayUs + UsOfDay(time')
      BY <1>1, <3>1, <3>2
    <3> QED BY <1>1, <2>1, <3>1, <3>3 DEF CalInv, DayNumber, UsOfDay, SecOfDay
  <2> QED BY <2>2, <2>3
<1>3. CASE TurnDay
  <2>1. date' = DayAfter(date) /\ time' = time /\ epochUs' = epochUs + DayUs
    BY <1>3 DEF TurnDay
  <2>2. Valid(date') /\ DayNumber(date') = DayNumber(date) + 1
    BY <1>1, <2>1, NextDay
  <2>3. epochUs' = (DayNumber(date') - EpochDay) * DayUs + UsOfDay(time')
    BY <1>1, <2>1, <2>2
  <2> QED BY <1>1, <2>1, <2>2, <2>3 DEF CalInv, DayNumber, UsOfDay, SecOfDay
<1>4. ASSUME NewYear, NEW y \in Int, date' = [date EXCEPT !.year = y], time' = time,
             epochUs' = epochUs + (DaysTo(y, 1, 1) - DaysTo(date.year, 1, 1)) * DayUs
      PROVE  CalInv'
  <2>1. /\ date = [year |-> date.year, mon |-> 1, day |-> 1] /\ date.year \in Int
        /\ date' = [year |-> y, mon |-> 1, day |-> 1]
    BY <1>1, <1>4 DEF NewYear, Valid
  <2>2. Valid(date')
    BY <2>1, <1>4 DEF Valid, MonthLength
  <2>3. DayNumber(date) = DaysTo(date.year, 1, 1) /\ DayNumber(date') = DaysTo(y, 1, 1)
    BY <2>1 DEF DayNumber
  <2>4. DaysTo(y, 1, 1) \in Int
    BY DEF DaysTo, MarchYear, MonthsBefore, MonthFromMarch, YearsBefore
  <2>5. epochUs' = (DayNumber(date') - EpochDay) * DayUs + UsOfDay(time')
    BY <1>1, <1>4, <2>3, <2>4
  <2> QED BY <1>1, <1>4, <2>2, <2>5 DEF CalInv, DayNumber, UsOfDay, SecOfDay
<1>5. date.year \in Int /\ \A y \in Int : DaysTo(y, 1, 1) \in Int
  BY <1>1 DEF Valid, DaysTo, MarchYear, MonthsBefore, MonthFromMarch, YearsBefore
<1>6. CASE TurnYear
  <2>1. DaysTo(date.year + 1, 1, 1) - DaysTo(date.year, 1, 1) = YearLength(date.year)
    BY <1>5, NewYearAfter DEF YearLength
  <2> QED BY <1>4, <1>5, <1>6, <2>1 DEF TurnYear
<1>7. CASE TurnYearBack
  <2>1. DaysTo(date.year - 1, 1, 1) - DaysTo(date.year, 1, 1) = -YearLength(date.year - 1)
    BY <1>5, NewYearAfter DEF YearLength
  <2>2. epochUs - YearLength(date.year - 1) * DayUs = epochUs + (-YearLength(date.year - 1)) * DayUs
    BY <1>1 DEF YearLength
  <2> QED BY <1>4, <1>5, <1>7, <2>1, <2>2 DEF TurnYearBack
<1>8. CASE UNCHANGED calVars
  BY <1>1, <1>8 DEF calVars, CalInv, DayNumber, UsOfDay, SecOfDay
<1> QED BY <1>2, <1>3, <1>6, <1>7, <1>8 DEF CalNext

-----------------------------------------------------------------------------
(* Digits                                                                  *)

\* A set of naturals that holds 0 and what follows each of its members
\* holds them all.
LEMMA AllNaturals ==
  ASSUME NEW S, 0 \in S, \A n \in S \cap Nat : n + 1 \in S
  PROVE  Nat \subseteq S
<1> SUFFICES ASSUME Nat \ S # {} PROVE FALSE
  OBVIOUS
<1>1. PICK x \in Nat \ S : \A y \in Nat \ S : ~(<<y, x>> \in OpToRel(<, Nat))
  BY WFMin, NatLessThanWellFounded
<1>2. x # 0 /\ x \in Nat
  BY <1>1
<1>3. x - 1 \in Nat /\ x - 1 < x /\ x - 1 + 1 = x
  BY <1>2
<1>4. <<x - 1, x>> \in OpToRel(<, Nat)
  BY <1>2, <1>3 DEF OpToRel
<1>5. x - 1 \in S
  BY <1>1, <1>3, <1>4
<1> QED BY <1>1, <1>3, <1>5

\* f goes from a by steps of g, m times, through values of T.
Iterates(f, T, a, g, m) ==
  f \in [0 .. m -> T] /\ f[0] = a /\ \A n \in 1 .. m : f[n] = g[<<n, f[n - 1]>>]

\* There is such a function for every length.
LEMMA RecursionExists ==
  ASSUME NEW T, NEW a \in T, NEW g \in [Nat \X T -> T], NEW m \in Nat
  PROVE  \E f : Iterates(f, T, a, g, m)
<1> DEFINE Sol(f, k) == Iterates(f, T, a, g, k)
           S == {k \in Nat : \E f : Sol(f, k)}
<1> USE DEF Iterates
<1>1. 0 \in S
  <2>1. Sol([n \in 0 .. 0 |-> a], 0)
    OBVIOUS
  <2> QED BY <2>1
<1>2. ASSUME NEW k \in S \cap Nat PROVE k + 1 \in S
  <2>1. PICK f : Sol(f, k)
    BY <1>2
  <2> DEFINE e == g[<<k + 1, f[k]>>]
             h == [n \in 0 .. k + 1 |-> IF n = k + 1 THEN e ELSE f[n]]
  <2>2. f[k] \in T /\ e \in T
    BY <2>1
  <2> HIDE DEF e
  <2>3. h \in [0 .. k + 1 -> T] /\ h[k + 1] = e /\ \A n \in 0 .. k : h[n] = f[n]
    BY <2>1, <2>2
  <2> HIDE DEF h
  <2>4. h[0] = a
    BY <2>1, <2>3
  <2>5. ASSUME NEW n \in 1 .. k + 1 PROVE h[n] = g[<<n, h[n - 1]>>]
    <3>1. CASE n = k + 1
      BY <2>3, <3>1 DEF e
    <3>2. CASE n \in 1 .. k
      BY <2>1, <2>3, <3>2
    <3> QED BY <3>1, <3>2
  <2>6. Sol(h, k + 1)
    BY <2>3, <2>4, <2>5
  <2> QED BY <2>6
<1> HIDE DEF S
<1>3. Nat \subseteq S
  BY <1>1, <1>2, AllNaturals
<1> QED BY <1>3 DEF S

\* A loop from 0 to m: f as its body says, whatever the body reads.
LEMMA LoopExists ==
  ASSUME NEW a \in Int, NEW m \in Nat, NEW g \in [Nat \X Int -> Int]
  PROVE  \E f \in [0 .. m -> Int] : f = [n \in 0 .. m |-> IF n = 0 THEN a ELSE g[<<n, f[n - 1]>>]]
<1>1. PICK f : Iterates(f, Int, a, g, m)
  BY RecursionExists
<1> DEFINE r == [n \in 0 .. m |-> IF n = 0 THEN a ELSE g[<<n, f[n - 1]>>]]
<1>2. f \in [0 .. m -> Int] /\ f[0] = a /\ \A n \in 1 .. m : f[n] = g[<<n, f[n - 1]>>]
  BY <1>1 DEF Iterates
<1>3. ASSUME NEW n \in 0 .. m PROVE f[n] = r[n]
  <2>1. CASE n = 0
    BY <1>2, <2>1
  <2>2. CASE n # 0
    <3>1. n \in 1 .. m
      BY <2>2
    <3> QED BY <1>2, <2>2, <3>1
  <2> QED BY <2>1, <2>2
<1>4. f = [n \in 0 .. m |-> f[n]] /\ r = [n \in 0 .. m |-> r[n]]
  BY <1>2
<1>5. f = r
  BY <1>3, <1>4
<1> QED BY <1>2, <1>5, Zenon

\* Each round of the loop takes one digit off.
LEMMA CutIs ==
  ASSUME NEW v \in Nat, NEW w \in Nat
  PROVE  /\ Cut(v, w)[0] = v
         /\ \A k \in 0 .. w : Cut(v, w)[k] \in Nat
         /\ \A k \in 1 .. w : Cut(v, w)[k] = Cut(v, w)[k - 1] \div 10
<1> DEFINE g == [p \in Nat \X Int |-> p[2] \div 10]
           U(f) == f = [k \in 0 .. w |-> IF k = 0 THEN v ELSE f[k - 1] \div 10]
           left == CHOOSE f : U(f)
<1>1. g \in [Nat \X Int -> Int]
  OBVIOUS
<1>2. PICK f \in [0 .. w -> Int] : f = [n \in 0 .. w |-> IF n = 0 THEN v ELSE g[<<n, f[n - 1]>>]]
  <2> HIDE DEF g
  <2>1. v \in Int
    OBVIOUS
  <2> QED BY <1>1, <2>1, LoopExists
<1>3. U(f)
  <2> DEFINE r == [k \in 0 .. w |-> IF k = 0 THEN v ELSE f[k - 1] \div 10]
  <2>1. ASSUME NEW k \in 0 .. w PROVE f[k] = r[k]
    <3>1. CASE k = 0
      BY <1>2, <3>1
    <3>2. CASE k # 0
      <4>1. k \in Nat /\ k - 1 \in 0 .. w /\ f[k - 1] \in Int
        BY <3>2
      <4>2. f[k] = g[<<k, f[k - 1]>>]
        BY <1>2, <3>2
      <4>3. g[<<k, f[k - 1]>>] = f[k - 1] \div 10
        BY <4>1
      <4> QED BY <3>2, <4>2, <4>3
    <3> QED BY <3>1, <3>2
  <2>2. f = [k \in 0 .. w |-> f[k]] /\ r = [k \in 0 .. w |-> r[k]]
    OBVIOUS
  <2>3. f = r
    BY <2>1, <2>2
  <2> QED BY <2>3, Zenon
<1>4. U(left) /\ Cut(v, w) = left
  BY <1>3, Zenon DEF Cut
<1> HIDE DEF left, g
<1>5. left[0] = v /\ \A k \in 1 .. w : left[k] = left[k - 1] \div 10
  <2>1. \A k \in 0 .. w : left[k] = IF k = 0 THEN v ELSE left[k - 1] \div 10
    BY <1>4, Zenon
  <2> QED BY <2>1
<1>6. \A k \in 0 .. w : left[k] \in Nat
  <2> DEFINE N == {n \in Nat : n \in 0 .. w => left[n] \in Nat}
  <2>1. 0 \in N
    BY <1>5
  <2>2. ASSUME NEW n \in N \cap Nat PROVE n + 1 \in N
    <3>1. SUFFICES ASSUME n + 1 \in 0 .. w PROVE left[n + 1] \in Nat
      OBVIOUS
    <3>2. n \in 0 .. w /\ n + 1 \in 1 .. w /\ left[n] \in Nat
      BY <2>2, <3>1
    <3> QED BY <1>5, <3>2
  <2> HIDE DEF N
  <2>3. Nat \subseteq N
    BY <2>1, <2>2, AllNaturals
  <2> QED BY <2>3 DEF N
<1> QED BY <1>4, <1>5, <1>6

\* A numeral is read digit by digit.
ReadBy(f, ds) ==
  /\ f[0] = 0 /\ \A k \in 1 .. Len(ds) : f[k] = 10 * f[k - 1] + ds[k]
  /\ Read(ds) = f[Len(ds)]

\* There is what Read() reads on the way.
LEMMA ReadIs ==
  ASSUME NEW ds \in Seq(Nat)
  PROVE  \E f : ReadBy(f, ds)
<1> DEFINE w == Len(ds)
           g == [p \in Nat \X Int |-> 10 * p[2] + (IF p[1] \in 1 .. w THEN ds[p[1]] ELSE 0)]
           U(f) == f = [k \in 0 .. w |-> IF k = 0 THEN 0 ELSE 10 * f[k - 1] + ds[k]]
           value == CHOOSE f : U(f)
<1>0. w \in Nat /\ \A k \in 1 .. w : ds[k] \in Nat
  OBVIOUS
<1>4a. Read(ds) = value[w]
  BY Zenon DEF Read
<1> HIDE DEF w
<1>1. g \in [Nat \X Int -> Int]
  BY <1>0
<1>2. PICK f \in [0 .. w -> Int] : f = [n \in 0 .. w |-> IF n = 0 THEN 0 ELSE g[<<n, f[n - 1]>>]]
  <2> HIDE DEF g
  <2>1. 0 \in Int
    OBVIOUS
  <2> QED BY <1>0, <1>1, <2>1, LoopExists
<1>3. U(f)
  <2> DEFINE r == [k \in 0 .. w |-> IF k = 0 THEN 0 ELSE 10 * f[k - 1] + ds[k]]
  <2>1. ASSUME NEW k \in 0 .. w PROVE f[k] = r[k]
    <3>1. CASE k = 0
      BY <1>2, <3>1
    <3>2. CASE k # 0
      <4>1. k \in Nat /\ k - 1 \in 0 .. w /\ f[k - 1] \in Int /\ k \in 1 .. w
        BY <1>0, <3>2
      <4>2. f[k] = g[<<k, f[k - 1]>>]
        BY <1>2, <3>2
      <4>3. g[<<k, f[k - 1]>>] = 10 * f[k - 1] + ds[k]
        BY <4>1
      <4> QED BY <3>2, <4>2, <4>3
    <3> QED BY <3>1, <3>2
  <2>2. f = [k \in 0 .. w |-> f[k]] /\ r = [k \in 0 .. w |-> r[k]]
    OBVIOUS
  <2>3. f = r
    BY <2>1, <2>2
  <2> QED BY <2>3, Zenon
<1>4. U(value)
  BY <1>3, Zenon
<1> HIDE DEF value, g
<1>5. value[0] = 0 /\ \A k \in 1 .. w : value[k] = 10 * value[k - 1] + ds[k]
  <2>1. \A k \in 0 .. w : value[k] = IF k = 0 THEN 0 ELSE 10 * value[k - 1] + ds[k]
    BY <1>4, Zenon
  <2> QED BY <1>0, <2>1
<1>6. ReadBy(value, ds)
  BY <1>4a, <1>5, Zenon DEF ReadBy, w
<1> QED BY <1>6

\* Digits that leave nothing read back as the number they were cut from.
LEMMA DigitsReadBack ==
  ASSUME NEW v \in Nat, NEW w \in Nat, Cut(v, w)[w] = 0
  PROVE  digits(v, w) \in Seq(Nat) /\ Len(digits(v, w)) = w /\ Read(digits(v, w)) = v
<1> DEFINE ds == digits(v, w)  c == Cut(v, w)
<1>1. /\ c[0] = v /\ c[w] = 0
      /\ \A k \in 0 .. w : c[k] \in Nat
      /\ \A k \in 1 .. w : c[k] = c[k - 1] \div 10
  BY CutIs
<1>2. ds = [i \in 1 .. w |-> c[w - i] % 10]
  BY Zenon DEF digits
<1> HIDE DEF ds, c
<1>3. \A i \in 1 .. w : w - i \in 0 .. w /\ w - i + 1 \in 1 .. w /\ c[w - i] % 10 \in Nat
  BY <1>1
<1>4. ds \in Seq(Nat) /\ Len(ds) = w /\ \A i \in 1 .. w : ds[i] = c[w - i] % 10
  BY <1>2, <1>3
<1>5. PICK f : ReadBy(f, ds)
  BY <1>4, ReadIs
<1>6. f[0] = 0 /\ (\A k \in 1 .. w : f[k] = 10 * f[k - 1] + ds[k]) /\ Read(ds) = f[w]
  BY <1>4, <1>5 DEF ReadBy
<1> DEFINE N == {n \in Nat : n \in 0 .. w => f[n] = c[w - n]}
<1>7. 0 \in N
  BY <1>1, <1>6
<1>8. ASSUME NEW n \in N \cap Nat PROVE n + 1 \in N
  <2>1. SUFFICES ASSUME n + 1 \in 0 .. w PROVE f[n + 1] = c[w - (n + 1)]
    OBVIOUS
  <2> DEFINE i == n + 1  j == w - i
  <2>2. i \in 1 .. w /\ i - 1 = n /\ j \in 0 .. w /\ j + 1 \in 1 .. w /\ j + 1 - 1 = j /\ w - n = j + 1 /\ n \in 0 .. w
    BY <1>8, <2>1
  <2>3. f[i] = 10 * f[n] + ds[i] /\ f[n] = c[j + 1]
    BY <1>6, <1>8, <2>2
  <2>4. ds[i] = c[j] % 10 /\ c[j + 1] = c[j] \div 10 /\ c[j] \in Nat
    BY <1>1, <1>4, <2>2
  <2>5. f[i] = c[j]
    BY <2>3, <2>4
  <2> QED BY <2>5
<1> HIDE DEF N
<1>9. Nat \subseteq N
  BY <1>7, <1>8, AllNaturals
<1>10. f[w] = c[0]
  BY <1>9 DEF N
<1> QED BY <1>1, <1>4, <1>6, <1>10 DEF ds

\* Numbers that fit their digits leave nothing.
LEMMA Fit ==
  ASSUME NEW v \in Nat
  PROVE  /\ v < 100 => Cut(v, 2)[2] = 0
         /\ v < 10000 => Cut(v, 4)[4] = 0
         /\ v < 1000000 => Cut(v, 6)[6] = 0
<1> DEFINE Left(w) == Cut(v, w)
<1>1. \A w \in Nat : Left(w)[0] = v /\ \A k \in 1 .. w : Left(w)[k] = Left(w)[k - 1] \div 10
  BY CutIs
<1> HIDE DEF Left
<1>2. v < 100 => Left(2)[2] = 0
  <2>1. Left(2)[1] = Left(2)[0] \div 10 /\ Left(2)[2] = Left(2)[1] \div 10
    BY <1>1
  <2> QED BY <1>1, <2>1
<1>3. v < 10000 => Left(4)[4] = 0
  <2>1. /\ Left(4)[1] = Left(4)[0] \div 10 /\ Left(4)[2] = Left(4)[1] \div 10
        /\ Left(4)[3] = Left(4)[2] \div 10 /\ Left(4)[4] = Left(4)[3] \div 10
    BY <1>1
  <2> QED BY <1>1, <2>1
<1>4. v < 1000000 => Left(6)[6] = 0
  <2>1. /\ Left(6)[1] = Left(6)[0] \div 10 /\ Left(6)[2] = Left(6)[1] \div 10
        /\ Left(6)[3] = Left(6)[2] \div 10 /\ Left(6)[4] = Left(6)[3] \div 10
        /\ Left(6)[5] = Left(6)[4] \div 10 /\ Left(6)[6] = Left(6)[5] \div 10
    BY <1>1
  <2> QED BY <1>1, <2>1, SMT
<1> QED BY <1>2, <1>3, <1>4 DEF Left

\* Numbers that fit their digits read back.
Reads(v, width) == Len(digits(v, width)) = width /\ Read(digits(v, width)) = v
LEMMA FixedDigits ==
  ASSUME NEW v \in Nat
  PROVE  /\ v < 100 => Reads(v, 2)
         /\ v < 10000 => Reads(v, 4)
         /\ v < 1000000 => Reads(v, 6)
<1>1. \A w \in Nat : Cut(v, w)[w] = 0 => Reads(v, w)
  BY DigitsReadBack DEF Reads
<1>2. v < 100 => Reads(v, 2)
  BY <1>1, Fit
<1>3. v < 10000 => Reads(v, 4)
  BY <1>1, Fit
<1>4. v < 1000000 => Reads(v, 6)
  BY <1>1, Fit, SMT
<1> QED BY <1>2, <1>3, <1>4

\* The rounds taken for fewer digits are the first of those for more.
LEMMA CutAgrees ==
  ASSUME NEW v \in Nat, NEW w \in Nat, NEW n \in 0 .. w, NEW k \in 0 .. n
  PROVE  Cut(v, n)[k] = Cut(v, w)[k]
<1> DEFINE a == Cut(v, n)  b == Cut(v, w)
           N == {j \in Nat : j \in 0 .. n => a[j] = b[j]}
<1>1. /\ a[0] = v /\ \A j \in 1 .. n : a[j] = a[j - 1] \div 10
      /\ b[0] = v /\ \A j \in 1 .. w : b[j] = b[j - 1] \div 10
  BY CutIs
<1> HIDE DEF a, b
<1>2. 0 \in N
  BY <1>1
<1>3. ASSUME NEW j \in N \cap Nat PROVE j + 1 \in N
  <2>1. SUFFICES ASSUME j + 1 \in 0 .. n PROVE a[j + 1] = b[j + 1]
    OBVIOUS
  <2>2. j + 1 \in 1 .. n /\ j + 1 \in 1 .. w /\ j \in 0 .. n /\ j + 1 - 1 = j
    BY <1>3, <2>1
  <2>3. a[j] = b[j]
    BY <1>3, <2>2
  <2> QED BY <1>1, <2>2, <2>3
<1> HIDE DEF N
<1>4. Nat \subseteq N
  BY <1>2, <1>3, AllNaturals
<1> QED BY <1>4 DEF N, a, b

\* Less is left of what is less.
LEMMA CutGrows ==
  ASSUME NEW u \in Nat, NEW v \in Nat, u <= v, NEW w \in Nat, NEW k \in 0 .. w
  PROVE  Cut(u, w)[k] <= Cut(v, w)[k]
<1> DEFINE a == Cut(u, w)  b == Cut(v, w)
           N == {j \in Nat : j \in 0 .. w => a[j] <= b[j]}
<1>1. /\ a[0] = u /\ \A j \in 1 .. w : a[j] = a[j - 1] \div 10
      /\ b[0] = v /\ \A j \in 1 .. w : b[j] = b[j - 1] \div 10
      /\ \A j \in 0 .. w : a[j] \in Nat /\ b[j] \in Nat
  BY CutIs
<1> HIDE DEF a, b
<1>2. 0 \in N
  BY <1>1
<1>3. ASSUME NEW j \in N \cap Nat PROVE j + 1 \in N
  <2>1. SUFFICES ASSUME j + 1 \in 0 .. w PROVE a[j + 1] <= b[j + 1]
    OBVIOUS
  <2>2. j + 1 \in 1 .. w /\ j \in 0 .. w /\ j + 1 - 1 = j
    BY <1>3, <2>1
  <2>3. a[j] <= b[j] /\ a[j] \in Nat /\ b[j] \in Nat
    BY <1>1, <1>3, <2>2
  <2>4. a[j] \div 10 <= b[j] \div 10
    BY <2>3
  <2> QED BY <1>1, <2>2, <2>4
<1> HIDE DEF N
<1>4. Nat \subseteq N
  BY <1>2, <1>3, AllNaturals
<1> QED BY <1>4 DEF N, a, b

\* Nothing is left after a round that left nothing.
LEMMA CutStaysNone ==
  ASSUME NEW v \in Nat, NEW w \in Nat, NEW k \in 0 .. w, NEW n \in k .. w, Cut(v, w)[k] = 0
  PROVE  Cut(v, w)[n] = 0
<1> DEFINE a == Cut(v, w)
           N == {j \in Nat : j \in k .. w => a[j] = 0}
<1>1. a[k] = 0 /\ \A j \in 1 .. w : a[j] = a[j - 1] \div 10
  BY CutIs
<1> HIDE DEF a
<1>2. 0 \in N
  BY <1>1
<1>3. ASSUME NEW j \in N \cap Nat PROVE j + 1 \in N
  <2>1. SUFFICES ASSUME j + 1 \in k .. w PROVE a[j + 1] = 0
    OBVIOUS
  <2>2. CASE j + 1 = k
    BY <1>1, <2>2
  <2>3. CASE j \in k .. w
    <3>1. j + 1 \in 1 .. w /\ j + 1 - 1 = j /\ a[j] = 0
      BY <1>3, <2>1, <2>3
    <3>2. 0 \div 10 = 0
      OBVIOUS
    <3> QED BY <1>1, <3>1, <3>2
  <2> QED BY <1>3, <2>1, <2>2, <2>3
<1> HIDE DEF N
<1>4. Nat \subseteq N
  BY <1>2, <1>3, AllNaturals
<1> QED BY <1>4 DEF N, a

\* The loop stops: at the first round that leaves nothing.
StopsAt(left, n) == left[n] = 0 /\ (n = 1 \/ left[n - 1] # 0)
LEMMA RoundsIs ==
  ASSUME NEW s \in Nat, Cut(s, MaxDigits)[MaxDigits] = 0
  PROVE  Rounds(s) \in 1 .. MaxDigits /\ StopsAt(Cut(s, MaxDigits), Rounds(s))
<1> DEFINE left == Cut(s, MaxDigits)
           N == {j \in Nat : j \in 0 .. MaxDigits - 1 =>
                   (\E n \in 1 .. MaxDigits : StopsAt(left, n)) \/ left[MaxDigits - j] = 0}
<1>0. MaxDigits = 20
  BY DEF MaxDigits
<1> HIDE DEF left
<1>1. 0 \in N
  BY <1>0 DEF left
<1>2. ASSUME NEW j \in N \cap Nat PROVE j + 1 \in N
  <2>1. SUFFICES ASSUME j + 1 \in 0 .. MaxDigits - 1, left[MaxDigits - j] = 0
                 PROVE  (\E n \in 1 .. MaxDigits : StopsAt(left, n)) \/ left[MaxDigits - (j + 1)] = 0
    BY <1>0, <1>2
  <2>2. CASE left[MaxDigits - (j + 1)] # 0
    <3>1. MaxDigits - j \in 1 .. MaxDigits /\ MaxDigits - j - 1 = MaxDigits - (j + 1)
      BY <1>0, <2>1
    <3>2. StopsAt(left, MaxDigits - j)
      BY <2>1, <2>2, <3>1 DEF StopsAt
    <3> QED BY <3>1, <3>2
  <2> QED BY <2>2
<1> HIDE DEF N
<1>3. Nat \subseteq N
  BY <1>1, <1>2, AllNaturals
<1>4. \E n \in 1 .. MaxDigits : StopsAt(left, n)
  <2>1. 19 \in N
    BY <1>3
  <2>2. CASE left[MaxDigits - 19] = 0
    <3>1. StopsAt(left, 1) /\ 1 \in 1 .. MaxDigits
      BY <1>0, <2>2 DEF StopsAt
    <3> QED BY <3>1
  <2> QED BY <1>0, <2>1, <2>2 DEF N
<1>5. Rounds(s) = CHOOSE n \in 1 .. MaxDigits : StopsAt(left, n)
  BY Zenon DEF Rounds, StopsAt, left
<1> QED BY <1>4, <1>5, Zenon DEF left

-----------------------------------------------------------------------------
(* What the texts read                                                     *)

\* formatUtc() takes an instant apart into its date and its time.
LEMMA PartsAre ==
  ASSUME CalInv
  PROVE  LET secs == floorDiv(epochUs, UsPerSec)
             days == floorDiv(secs, SecPerDay)
         IN  /\ CivilDay(days + EpochDay) = date
             /\ secs - days * SecPerDay = SecOfDay(time)
             /\ epochUs - secs * UsPerSec = time.us
<1> DEFINE secs == floorDiv(epochUs, UsPerSec)
           days == floorDiv(secs, SecPerDay)
           D == DayNumber(date) - EpochDay
           S == D * SecPerDay + SecOfDay(time)
<1>1. /\ D \in Int /\ SecOfDay(time) \in 0 .. SecPerDay - 1
      /\ time.us \in 0 .. UsPerSec - 1
      /\ UsPerSec \in Nat \ {0} /\ SecPerDay \in Nat \ {0}
  <2>1. DayNumber(date) \in Int /\ EpochDay \in Int
    BY DEF CalInv, Valid, DayNumber, DaysTo, MarchYear, MonthsBefore, MonthFromMarch, YearsBefore, EpochDay
  <2>2. time \in Times
    BY Zenon DEF CalInv
  <2>3. time.us \in 0 .. UsPerSec - 1
    BY <2>2 DEF Times
  <2> QED BY <2>1, <2>2, <2>3, Units, SecondsApart
<1>2. epochUs = S * UsPerSec + time.us
  <2>1. epochUs = D * DayUs + UsOfDay(time)
    BY Zenon DEF CalInv
  <2> HIDE DEF D
  <2> QED BY <1>1, <2>1 DEF DayUs, UsOfDay
<1> HIDE DEF D
<1>3. S \in Int
  BY <1>1
<1>4. secs = S
  BY <1>1, <1>2, <1>3, FloorDivIs
<1>5. days = D
  <2>1. floorDiv(D * SecPerDay + SecOfDay(time), SecPerDay) = D
    BY <1>1, FloorDivIs
  <2> QED BY <1>4, <2>1, Zenon
<1>6. CivilDay(D + EpochDay) = date
  <2>1. D + EpochDay = DayNumber(date)
    BY <1>1, SMT DEF D, EpochDay, CalInv, Valid, DayNumber, DaysTo, MarchYear, MonthsBefore, MonthFromMarch, YearsBefore
  <2> QED BY <2>1, CivilDayIs DEF CalInv
<1>7. secs - days * SecPerDay = SecOfDay(time)
  BY <1>1, <1>4, <1>5
<1>8. epochUs - secs * UsPerSec = time.us
  BY <1>1, <1>2, <1>3, <1>4
<1> QED BY <1>5, <1>6, <1>7, <1>8

\* The seven numbers of a formatted date are those of the date and the time.
LEMMA StampIs ==
  ASSUME CalInv
  PROVE  StampIsTheDate
<1> DEFINE secs == floorDiv(epochUs, UsPerSec)
           days == floorDiv(secs, SecPerDay)
           sod == secs - days * SecPerDay
           d == CivilDay(days + EpochDay)
           micros == epochUs - secs * UsPerSec
           text == << digits(d.year, 4), digits(d.mon, 2), digits(d.day, 2),
                      digits(sod \div SecPerHour, 2),
                      digits((sod \div SecPerMin) % MinPerHour, 2),
                      digits(sod % SecPerMin, 2), digits(micros, 6) >>
           shown == << date.year, date.mon, date.day,
                       time.hour, time.min, time.sec, time.us >>
<1>1. d = date /\ sod = SecOfDay(time) /\ micros = time.us
  BY PartsAre, Zenon
<1>2. \A size : formatUtc(epochUs, size) =
                 IF size < FORMAT_SIZE \/ ~YearFits(d.year) THEN Refused
                 ELSE [ok |-> TRUE, text |-> text]
  BY Zenon DEF formatUtc
<1> HIDE DEF secs, days, sod, d, micros
<1>3. /\ date.year \in Int /\ date.mon \in 1 .. 12 /\ date.day \in 1 .. 31
      /\ time \in Times
  BY SMT DEF CalInv, Valid
<1>4. /\ time.hour \in 0 .. HourPerDay - 1 /\ time.min \in 0 .. MinPerHour - 1
      /\ time.sec \in 0 .. SecPerMin - 1 /\ time.us \in 0 .. UsPerSec - 1
  BY <1>3, SMT DEF Times
<1>5. /\ sod \div SecPerHour = time.hour
      /\ (sod \div SecPerMin) % MinPerHour = time.min
      /\ sod % SecPerMin = time.sec
  BY <1>1, <1>3, SecondsApart
<1>6. /\ time.hour \in Nat /\ time.hour < 100 /\ time.min \in Nat /\ time.min < 100
      /\ time.sec \in Nat /\ time.sec < 100 /\ time.us \in Nat /\ time.us < 1000000
  BY <1>4, UnitsAssumption, SMT
<1>7. /\ Reads(date.mon, 2) /\ Reads(date.day, 2) /\ Reads(time.hour, 2)
      /\ Reads(time.min, 2) /\ Reads(time.sec, 2) /\ Reads(time.us, 6)
  BY <1>3, <1>6, FixedDigits, SMT
<1>8. YearFits(date.year) => Reads(date.year, 4)
  <2>1. YearFits(date.year) => date.year \in Nat /\ date.year < 10000
    BY <1>3, SMT DEF YearFits
  <2> QED BY <2>1, FixedDigits, SMT
<1>9. text = << digits(date.year, 4), digits(date.mon, 2), digits(date.day, 2),
                digits(time.hour, 2), digits(time.min, 2), digits(time.sec, 2),
                digits(time.us, 6) >>
  BY <1>1, <1>5, Zenon
<1> HIDE DEF text
<1>10. DOMAIN text = 1 .. 7
  BY <1>9, SMT
<1>11. YearFits(date.year) => [i \in DOMAIN text |-> Read(text[i])] = shown
  <2> SUFFICES ASSUME YearFits(date.year) PROVE [i \in 1 .. 7 |-> Read(text[i])] = shown
    BY <1>10, Zenon
  <2>1. /\ Read(text[1]) = shown[1] /\ Read(text[2]) = shown[2] /\ Read(text[3]) = shown[3]
        /\ Read(text[4]) = shown[4] /\ Read(text[5]) = shown[5] /\ Read(text[6]) = shown[6]
        /\ Read(text[7]) = shown[7]
    BY <1>7, <1>8, <1>9, SMT DEF Reads
  <2>2. DOMAIN shown = 1 .. 7 /\ shown = [i \in 1 .. 7 |-> shown[i]]
    BY SMT
  <2> HIDE DEF shown
  <2>3. \A i \in 1 .. 7 : Read(text[i]) = shown[i]
    <3> TAKE i \in 1 .. 7
    <3>1. i = 1 \/ i = 2 \/ i = 3 \/ i = 4 \/ i = 5 \/ i = 6 \/ i = 7
      OBVIOUS
    <3> QED BY <2>1, <3>1
  <2>4. [i \in 1 .. 7 |-> Read(text[i])] = [i \in 1 .. 7 |-> shown[i]]
    BY <2>3
  <2> QED BY <2>2, <2>4, Zenon
<1> DEFINE f(size) == formatUtc(epochUs, size)
           Room(size) == size >= FORMAT_SIZE /\ 0 <= date.year /\ date.year <= 9999
           Right(size) == IF Room(size)
                            THEN f(size).ok /\ [i \in DOMAIN f(size).text |-> Read(f(size).text[i])] = shown
                            ELSE f(size) = Refused
<1>12. (\A size \in Sizes : Right(size)) => StampIsTheDate
  BY Zenon DEF StampIsTheDate
<1>a. \A size \in Nat : Room(size) <=> size >= FORMAT_SIZE /\ YearFits(date.year)
  BY SMT DEF YearFits
<1> HIDE DEF shown, f, Room
<1>13. ASSUME NEW size \in Sizes PROVE Right(size)
  <2>1. size \in Nat /\ FORMAT_SIZE \in Nat
    BY CalendarAssumption DEF FORMAT_SIZE
  <2>2. CASE size >= FORMAT_SIZE /\ YearFits(date.year)
    <3>1. ~(size < FORMAT_SIZE)
      BY <2>1, <2>2
    <3>2. f(size) = [ok |-> TRUE, text |-> text]
      BY <1>1, <1>2, <2>2, <3>1, Zenon DEF f
    <3>3. f(size).ok /\ f(size).text = text
      BY <3>2
    <3>4. Room(size)
      BY <1>a, <2>1, <2>2, Zenon
    <3>5. [i \in DOMAIN f(size).text |-> Read(f(size).text[i])] = shown
      BY <1>11, <2>2, <3>3, Zenon
    <3> QED BY <3>3, <3>4, <3>5, Zenon
  <2>3. CASE ~(size >= FORMAT_SIZE /\ YearFits(date.year))
    <3>1. size < FORMAT_SIZE \/ ~YearFits(date.year)
      BY <2>1, <2>3
    <3>2. f(size) = Refused
      BY <1>1, <1>2, <3>1, Zenon DEF f
    <3>3. ~Room(size)
      BY <1>a, <2>1, <2>3, Zenon
    <3> QED BY <3>2, <3>3, Zenon
  <2> QED BY <2>2, <2>3
<1> HIDE DEF Right
<1> QED BY <1>12, <1>13

\* The digits of a time since boot are those of the instant.
LEMMA BootReadsBack ==
  ASSUME epochUs \in Int
  PROVE  SinceBootReadsBack
<1> DEFINE s == epochUs \div UsPerSec
           micros == epochUs % UsPerSec
           n == Rounds(s)
           whole == Whole(s)
           frac == digits(micros, 6)
           f(size) == formatSinceBoot(epochUs, size)
<1>1. \A size : f(size) = IF size < Need(Len(whole)) THEN Refused
                          ELSE [ok |-> TRUE, text |-> << whole, frac >>]
  BY Zenon DEF formatSinceBoot
<1> HIDE DEF f
<1> DEFINE Room(size) == \E k \in 1 .. MaxDigits : DigitsFit(s, k, size)
<1> SUFFICES ASSUME NEW size \in Sizes, epochUs \in 0 .. LastInstant
             PROVE  /\ f(size).ok <=> Room(size)
                    /\ f(size).ok =>
                         /\ Read(f(size).text[1]) * UsPerSec + Read(f(size).text[2]) = epochUs
                         /\ Len(f(size).text[1]) + Len(f(size).text[2]) + 4 < size
                         /\ Len(f(size).text[1]) > 1 => f(size).text[1][1] # 0
  BY Zenon DEF SinceBootReadsBack, f
<1> HIDE DEF Room
<1>2. /\ UsPerSec \in Nat \ {0} /\ UsPerSec <= 1000000
      /\ s \in Nat /\ s <= LastInstant /\ micros \in Nat /\ micros < 1000000
      /\ epochUs = s * UsPerSec + micros /\ LastInstant \in Nat
  <2>1. UsPerSec \in Nat \ {0} /\ UsPerSec <= 1000000 /\ LastInstant \in Nat /\ epochUs \in Nat
    BY UnitsAssumption, DigitsAssumption
  <2>2. s \in Nat /\ micros \in 0 .. UsPerSec - 1 /\ epochUs = s * UsPerSec + micros
    BY <2>1
  <2> HIDE DEF s, micros
  <2>3. s <= epochUs
    <3>1. s * UsPerSec >= s
      BY <2>1, <2>2
    <3> QED BY <2>1, <2>2, <3>1
  <2> QED BY <2>1, <2>2, <2>3, SMT
<1> HIDE DEF s, micros
<1>3. Cut(s, MaxDigits)[MaxDigits] = 0
  <2>1. MaxDigits \in Nat /\ MaxDigits \in 0 .. MaxDigits
    BY DEF MaxDigits
  <2> HIDE DEF MaxDigits
  <2>2. Cut(s, MaxDigits)[MaxDigits] <= 0
    BY <1>2, <2>1, CutGrows, DigitsAssumption
  <2> QED BY <1>2, <2>1, <2>2, CutIs
<1>4. n \in 1 .. MaxDigits /\ StopsAt(Cut(s, MaxDigits), n)
  BY <1>2, <1>3, RoundsIs
<1> HIDE DEF n
<1>5. n \in Nat \ {0} /\ MaxDigits \in Nat /\ n \in 0 .. MaxDigits /\ n \in 0 .. n /\ n - 1 \in 0 .. n
  BY <1>4 DEF MaxDigits
<1> HIDE DEF MaxDigits
<1>6. Cut(s, n)[n] = 0 /\ (n = 1 \/ Cut(s, n)[n - 1] # 0)
  BY <1>2, <1>4, <1>5, CutAgrees DEF StopsAt
<1>7. whole = digits(s, n)
  BY Zenon DEF Whole, n
<1>8. Len(whole) = n /\ Read(whole) = s
  BY <1>2, <1>5, <1>6, <1>7, DigitsReadBack
<1>9. Len(frac) = 6 /\ Read(frac) = micros
  <2>1. Reads(micros, 6)
    BY <1>2, FixedDigits, SMT
  <2> QED BY <2>1, Zenon DEF Reads
<1>10. whole[1] = Cut(s, n)[n - 1] % 10
  BY <1>5, <1>7 DEF digits
<1>11. n > 1 => whole[1] # 0
  <2>1. Cut(s, n)[n] = Cut(s, n)[n - 1] \div 10 /\ Cut(s, n)[n - 1] \in Nat
    BY <1>2, <1>5, CutIs
  <2> QED BY <1>6, <1>10, <2>1
<1> HIDE DEF whole, frac
<1>12. f(size).ok <=> ~(size < Need(n))
  <2>1. CASE size < Need(n)
    BY <1>1, <1>8, <2>1, Zenon DEF Refused
  <2>2. CASE ~(size < Need(n))
    <3>1. f(size) = [ok |-> TRUE, text |-> << whole, frac >>]
      BY <1>1, <1>8, <2>2, Zenon
    <3> QED BY <2>2, <3>1
  <2> QED BY <2>1, <2>2
<1>13. ~(size < Need(n)) <=> n + 6 + 4 < size
  BY <1>5, CalendarAssumption DEF Need
<1>14. ASSUME NEW k \in 1 .. MaxDigits, Cut(s, k)[k] = 0 PROVE n <= k
  <2>1. CASE n = 1
    BY <1>5, <2>1
  <2>2. CASE n # 1 /\ k < n
    <3>1. k \in 0 .. n /\ k \in 0 .. k /\ n - 1 \in k .. n
      BY <1>5, <2>2
    <3>2. Cut(s, n)[k] = 0
      BY <1>2, <1>5, <1>14, <3>1, CutAgrees
    <3>3. Cut(s, n)[n - 1] = 0
      BY <1>2, <1>5, <3>1, <3>2, CutStaysNone
    <3> QED BY <1>6, <2>2, <3>3
  <2> QED BY <1>5, <2>1, <2>2
<1>15. Room(size) <=> n + 6 + 4 < size
  <2>1. ASSUME NEW k \in 1 .. MaxDigits, DigitsFit(s, k, size) PROVE n + 6 + 4 < size
    BY <1>5, <1>14, <2>1, CalendarAssumption DEF DigitsFit
  <2>2. n + 6 + 4 < size => DigitsFit(s, n, size)
    BY <1>6, Zenon DEF DigitsFit
  <2> QED BY <1>4, <2>1, <2>2, Zenon DEF Room
<1>16. Read(whole) * UsPerSec + Read(frac) = epochUs
  BY <1>2, <1>8, <1>9, SMT
<1>17. Len(whole) > 1 => whole[1] # 0
  BY <1>8, <1>11, Zenon
<1>18. ASSUME f(size).ok
       PROVE  /\ Read(f(size).text[1]) * UsPerSec + Read(f(size).text[2]) = epochUs
              /\ Len(f(size).text[1]) + Len(f(size).text[2]) + 4 < size
              /\ Len(f(size).text[1]) > 1 => f(size).text[1][1] # 0
  <2>1. ~(size < Need(Len(whole)))
    BY <1>8, <1>12, <1>18, Zenon
  <2>2. f(size) = [ok |-> TRUE, text |-> << whole, frac >>]
    BY <1>1, <2>1, Zenon
  <2>3. f(size).text[1] = whole /\ f(size).text[2] = frac
    BY <2>2
  <2>4. Len(whole) + Len(frac) + 4 < size
    BY <1>5, <1>8, <1>9, <1>12, <1>13, <1>18
  <2> QED BY <1>16, <1>17, <2>3, <2>4, Zenon
<1> QED BY <1>12, <1>13, <1>15, <1>18, Zenon

\* What formatUtc() and formatSinceBoot() write says which instant they were
\* given: for every date the odometer can be turned to, before 1970 and in
\* every era, every time of the day and every size of the buffer.
THEOREM FormatsEveryInstant == CalSpec => []FormatsTheInstant
<1>1. CalInv => FormatsTheInstant
  <2> SUFFICES ASSUME CalInv PROVE FormatsTheInstant
    OBVIOUS
  <2>1. epochUs \in Int
    <3>1. DayNumber(date) \in Int /\ EpochDay \in Int
      BY DEF CalInv, Valid, DayNumber, DaysTo, MarchYear, MonthsBefore, MonthFromMarch, YearsBefore, EpochDay
    <3>2. time \in Times /\ epochUs = (DayNumber(date) - EpochDay) * DayUs + UsOfDay(time)
      BY Zenon DEF CalInv
    <3>3. UsOfDay(time) \in Int /\ DayUs \in Int
      BY <3>2, Units DEF Times, UsOfDay, SecOfDay, DayUs
    <3> QED BY <3>1, <3>2, <3>3
  <2> QED BY <2>1, StampIs, BootReadsBack, Zenon DEF FormatsTheInstant
<1> QED BY <1>1, CalInitInv, CalNextInv, PTL DEF CalSpec
=============================================================================
