----------------------------- MODULE CivilDate -----------------------------
(***************************************************************************)
(* The formatting of UdiWallClock (src/src/UdiWallClock.h): a signed count *)
(* of Unix microseconds as a UTC date and time, and an unsigned count as   *)
(* seconds since boot.  A text is the sequence of its groups of digits;    *)
(* the punctuation between them counts in its length only.                 *)
(*                                                                         *)
(* The units of the clock are constants so that the arithmetic of a date,  *)
(* which is the code's own, can be checked over many years.                *)
(***************************************************************************)
EXTENDS Integers, Sequences

CONSTANTS
  UsPerSec, SecPerMin, MinPerHour, HourPerDay,
  LastInstant   \* the largest uint64_t

\* Each unit, counted from 0, fits the digits the text has for it.
ASSUME UnitsAssumption ==
  /\ {UsPerSec, SecPerMin, MinPerHour, HourPerDay} \subseteq Nat \ {0}
  /\ UsPerSec <= 1000000
  /\ SecPerMin <= 100 /\ MinPerHour <= 100 /\ HourPerDay <= 100

FORMAT_SIZE == 27
EpochDay == 719468   \* 1970-01-01, counted from 0000-03-01
MaxDigits == 20   \* "up to 20 digits of seconds"
SecPerHour == SecPerMin * MinPerHour
SecPerDay == SecPerHour * HourPerDay

\* C's a / b for b > 0: the quotient is cut toward zero.
Quot(a, b) == IF a >= 0 THEN a \div b ELSE -((-a) \div b)

\* Mutant: only a plain C division.
floorDiv_Truncates(a, b) == Quot(a, b)
floorDiv(a, b) ==
  LET q == Quot(a, b) IN IF a - q * b # 0 /\ a < 0 THEN q - 1 ELSE q

\* What is left of v after each of n rounds of v /= 10.
Cut(v, n) ==
  LET left[k \in 0 .. n] == IF k = 0 THEN v ELSE left[k - 1] \div 10 IN left

\* whole[] has a place for every digit of a uint64_t.
ASSUME DigitsAssumption ==
  LastInstant \in Nat /\ Cut(LastInstant, MaxDigits)[MaxDigits] = 0

\* v as exactly `width` decimal digits, filled in from the right.
digits(v, width) == [i \in 1 .. width |-> Cut(v, width)[width - i] % 10]

\* The date of day z, counted from 0000-03-01 (H. Hinnant's algorithm).
CivilDay(z) ==
  LET era == Quot(IF z >= 0 THEN z ELSE z - 146096, 146097)
      doe == z - era * 146097
      yoe == (doe - doe \div 1460 + doe \div 36524 - doe \div 146096) \div 365
      doy == doe - (365 * yoe + yoe \div 4 - yoe \div 100)
      mp  == (5 * doy + 2) \div 153
      mon == IF mp < 10 THEN mp + 3 ELSE mp - 9
  IN  [year |-> yoe + era * 400 + (IF mon <= 2 THEN 1 ELSE 0),
       mon  |-> mon,
       day  |-> doy - (153 * mp + 2) \div 5 + 1]

Refused == [ok |-> FALSE, text |-> <<>>]

YearFits(year) == 0 <= year /\ year <= 9999

formatUtc(epochUs, size) ==
  LET secs == floorDiv(epochUs, UsPerSec)
      days == floorDiv(secs, SecPerDay)
      sod  == secs - days * SecPerDay
      d    == CivilDay(days + EpochDay)
  IN  IF size < FORMAT_SIZE \/ ~YearFits(d.year) THEN Refused
      ELSE [ok |-> TRUE,
            text |-> << digits(d.year, 4), digits(d.mon, 2), digits(d.day, 2),
                        digits(sod \div SecPerHour, 2),
                        digits((sod \div SecPerMin) % MinPerHour, 2),
                        digits(sod % SecPerMin, 2),
                        digits(epochUs - secs * UsPerSec, 6) >>]

\* The rounds the do-while loop takes: at least one, and until nothing is left.
Rounds(s) ==
  LET left == Cut(s, MaxDigits)
  IN  CHOOSE n \in 1 .. MaxDigits : left[n] = 0 /\ (n = 1 \/ left[n - 1] # 0)

\* The decimal digits of s, filled in from the right and copied out in reverse.
Whole(s) == digits(s, Rounds(s))

\* "+", the digits, ".", six digits, " s" and the terminator.
Need(n) == 1 + n + 1 + 6 + 2 + 1

formatSinceBoot(us, size) ==
  LET whole == Whole(us \div UsPerSec)
  IN  IF size < Need(Len(whole)) THEN Refused
      ELSE [ok |-> TRUE, text |-> << whole, digits(us % UsPerSec, 6) >>]
=============================================================================
