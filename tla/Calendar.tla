------------------------------ MODULE Calendar ------------------------------
(***************************************************************************)
(* The reference the date algorithm of UdiWallClock is checked against: an *)
(* odometer.  It starts at 1970-01-01 00:00:00 and is turned by hand, one  *)
(* microsecond, one day or one year at a time, with the calendar's own     *)
(* rules for the length of a month and of a year, while `epochUs` counts   *)
(* the microseconds it has been turned.                                    *)
(***************************************************************************)
EXTENDS CivilDate

CONSTANTS
  FirstYear, LastYear,   \* how far the odometer is turned
  WalkedYears,           \* the years it is turned through day by day
  Sizes                  \* sizes of the buffer a text is written into

ASSUME CalendarAssumption ==
  FirstYear \in Int /\ LastYear \in Int /\ WalkedYears \subseteq Int /\ Sizes \subseteq Nat

VARIABLES epochUs, date, time

calVars == <<epochUs, date, time>>

DayUs == SecPerDay * UsPerSec

IsLeap(y) == y % 4 = 0 /\ (y % 100 # 0 \/ y % 400 = 0)
YearLength(y) == IF IsLeap(y) THEN 366 ELSE 365
MonthLength(y, m) ==
  CASE m \in {4, 6, 9, 11} -> 30
    [] m = 2 -> IF IsLeap(y) THEN 29 ELSE 28
    [] OTHER -> 31

Midnight == [hour |-> 0, min |-> 0, sec |-> 0, us |-> 0]

CalInit ==
  /\ epochUs = 0
  /\ date = [year |-> 1970, mon |-> 1, day |-> 1]
  /\ time = Midnight

DayAfter(d) ==
  IF d.day < MonthLength(d.year, d.mon) THEN [d EXCEPT !.day = @ + 1]
  ELSE IF d.mon < 12 THEN [d EXCEPT !.mon = @ + 1, !.day = 1]
  ELSE [year |-> d.year + 1, mon |-> 1, day |-> 1]

TimeAfter(t) ==
  IF t.us + 1 < UsPerSec THEN [t EXCEPT !.us = @ + 1]
  ELSE IF t.sec + 1 < SecPerMin
    THEN [hour |-> t.hour, min |-> t.min, sec |-> t.sec + 1, us |-> 0]
  ELSE IF t.min + 1 < MinPerHour
    THEN [hour |-> t.hour, min |-> t.min + 1, sec |-> 0, us |-> 0]
  ELSE IF t.hour + 1 < HourPerDay THEN [Midnight EXCEPT !.hour = t.hour + 1]
  ELSE Midnight

\* The days whose every microsecond is visited: the ends of February and of
\* the year.
Interesting(d) ==
  \/ d.mon = 12 /\ d.day = 31
  \/ d.mon = 2 /\ d.day >= 28

TurnUs ==
  /\ date.year \in WalkedYears
  /\ Interesting(date) \/ time # Midnight
  /\ epochUs' = epochUs + 1
  /\ time' = TimeAfter(time)
  /\ date' = IF time' = Midnight THEN DayAfter(date) ELSE date
  /\ date'.year <= LastYear

TurnDay ==
  /\ date.year \in WalkedYears /\ time = Midnight
  /\ epochUs' = epochUs + DayUs
  /\ date' = DayAfter(date)
  /\ date'.year <= LastYear
  /\ UNCHANGED time

NewYear == time = Midnight /\ date.mon = 1 /\ date.day = 1

TurnYear ==
  /\ NewYear /\ date.year < LastYear
  /\ epochUs' = epochUs + YearLength(date.year) * DayUs
  /\ date' = [date EXCEPT !.year = @ + 1]
  /\ UNCHANGED time

TurnYearBack ==
  /\ NewYear /\ date.year > FirstYear
  /\ epochUs' = epochUs - YearLength(date.year - 1) * DayUs
  /\ date' = [date EXCEPT !.year = @ - 1]
  /\ UNCHANGED time

CalNext == TurnUs \/ TurnDay \/ TurnYear \/ TurnYearBack

CalSpec == CalInit /\ [][CalNext]_calVars

-----------------------------------------------------------------------------
(* Properties                                                              *)

\* The number a sequence of decimal digits reads.
Read(ds) ==
  LET value[k \in 0 .. Len(ds)] == IF k = 0 THEN 0 ELSE 10 * value[k - 1] + ds[k]
  IN  value[Len(ds)]

\* "Unix microseconds as YYYY-MM-DD HH:MM:SS.uuuuuu (UTC).  Years 0000 to
\* 9999.  False, and dst empty, when dst is smaller than FORMAT_SIZE or the
\* year is out of range": formatUtc() reads what the odometer shows, before
\* 1970 and in leap centuries too.
StampIsTheDate ==
  LET shown == << date.year, date.mon, date.day,
                  time.hour, time.min, time.sec, time.us >>
  IN  \A size \in Sizes :
        LET f == formatUtc(epochUs, size)
        IN  IF size >= FORMAT_SIZE /\ 0 <= date.year /\ date.year <= 9999
              THEN f.ok /\ [i \in DOMAIN f.text |-> Read(f.text[i])] = shown
              ELSE f = Refused

\* A number of digits that holds secs and fits a buffer of this size with
\* "+", ".", six more digits, " s" and the terminator.
DigitsFit(secs, n, size) == Cut(secs, n)[n] = 0 /\ n + 6 + 4 < size

\* "Microseconds since boot as +123.456789 s": formatSinceBoot() prints an
\* instant whenever the buffer has room for its digits, however few those
\* are.  What it prints reads back as the instant, fits the buffer with its
\* terminator, and has no leading zero.
SinceBootReadsBack ==
  \A size \in Sizes :
    LET f == formatSinceBoot(epochUs, size)
        whole == f.text[1]
    IN  epochUs \in 0 .. LastInstant =>
          /\ f.ok <=> \E n \in 1 .. MaxDigits : DigitsFit(epochUs \div UsPerSec, n, size)
          /\ f.ok =>
               /\ Read(whole) * UsPerSec + Read(f.text[2]) = epochUs
               /\ Len(whole) + Len(f.text[2]) + 4 < size
               /\ Len(whole) > 1 => whole[1] # 0

\* formatUtc() prints the date the odometer shows, and what
\* formatSinceBoot() prints, which is all there is room for, reads back as the
\* instant it was given.
FormatsTheInstant == StampIsTheDate /\ SinceBootReadsBack
=============================================================================
