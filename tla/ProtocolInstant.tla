--------------------------- MODULE ProtocolInstant ---------------------------
(***************************************************************************)
(* Timestamps of the protocol: parse_instant and ExactInstant's ordering   *)
(* (src/src/signed_document.cpp), which decide every validity interval of  *)
(* a key and every boundary of its history.                                *)
(*                                                                         *)
(* The parser is pure.  It is held to a clock that knows nothing of epochs *)
(* and has a calendar of its own: the clock shows a local time and an      *)
(* offset, advances what it shows by carrying from second to minute to     *)
(* hour to day to month to year, may be carried eastwards (showing the     *)
(* same instant at a greater offset), may show more digits of a fraction,  *)
(* and counts the seconds it has lived through since 1970.  What it shows  *)
(* has to read as what it counted.                                         *)
(***************************************************************************)
EXTENDS Integers, Sequences

CONSTANTS
  Starts,     \* what the clock may show first, with its count of seconds
  Units,      \* the amounts, in seconds, the clock advances by
  Carries,    \* the amounts, in seconds, it is carried eastwards by
  Digits,     \* the digits it may show next in its fraction
  Precision,  \* bound: the digits of a fraction
  MaxSteps,   \* bound: the steps of the clock
  Marks,      \* bound: the steps after which a stamp may be taken
  Zulu        \* the offset spelt Z

TwoDigits == {n \in Nat : n <= 99}
FourDigits == {n \in Nat : n <= 9999}

\* Offsets as they are spelt, in hours and minutes: -00:30, +24:00, -00:00.
Offsets == [sign: {-1, 1}, hour: TwoDigits, minute: TwoDigits] \cup {Zulu}

Fractions == Seq(0..9)

\* What the grammar of a timestamp admits, before its numbers are looked at.
Stamps ==
  [year: FourDigits, month: TwoDigits, day: TwoDigits,
   hour: TwoDigits, minute: TwoDigits, second: TwoDigits,
   fraction: Fractions, offset: Offsets]

ASSUME ClockAssumption ==
  /\ Units \subseteq {1, 60, 3600, 86400}
  /\ Carries \subseteq {60, 3600}
  /\ Digits \subseteq 0..9 /\ Marks \subseteq Nat
  /\ Precision \in Nat /\ MaxSteps \in Nat
  /\ Zulu \notin [sign: {-1, 1}, hour: TwoDigits, minute: TwoDigits]

-----------------------------------------------------------------------------
(* parse_instant.                                                          *)

\* Mutant: the centuries that are leap years are left out.
LeapYearJulian(y) == y % 4 = 0 /\ y % 100 # 0

LeapYear(y) == y % 4 = 0 /\ (y % 100 # 0 \/ y % 400 = 0)

MonthLength(y, m) ==
  IF m = 2 THEN (IF LeapYear(y) THEN 29 ELSE 28)
  ELSE IF m \in {4, 6, 9, 11} THEN 30 ELSE 31

\* Days since 1970-01-01, by way of years that begin in March.
DaysFromCivil(y, m, d) ==
  LET year == y - (IF m <= 2 THEN 1 ELSE 0)
      era == year \div 400
      yearOfEra == year - era * 400
      month == m + (IF m > 2 THEN -3 ELSE 9)
      dayOfYear == (153 * month + 2) \div 5 + d - 1
      dayOfEra == yearOfEra * 365 + yearOfEra \div 4 - yearOfEra \div 100
                    + dayOfYear
  IN era * 146097 + dayOfEra - 719468

OffsetParses(o) ==
  o # Zulu =>
    /\ o.hour <= 23 /\ o.minute <= 59
    /\ ~(o.sign = -1 /\ o.hour = 0 /\ o.minute = 0)

\* Mutant: the sign is that of the hours only.
OffsetSecondsHours(o) ==
  IF o = Zulu THEN 0 ELSE o.sign * o.hour * 3600 + o.minute * 60

OffsetSeconds(o) ==
  IF o = Zulu THEN 0 ELSE o.sign * (o.hour * 3600 + o.minute * 60)

Parses(t) ==
  /\ t.year # 0
  /\ t.month \in 1..12
  /\ t.day \in 1..MonthLength(t.year, t.month)
  /\ t.hour <= 23 /\ t.minute <= 59 /\ t.second <= 59
  /\ OffsetParses(t.offset)

LocalSecond(t) ==
  DaysFromCivil(t.year, t.month, t.day) * 86400
    + t.hour * 3600 + t.minute * 60 + t.second

\* The fraction without its trailing zeros.
Trimmed(f) ==
  SubSeq(f, 1, CHOOSE n \in 0..Len(f) :
                 /\ n > 0 => f[n] # 0
                 /\ \A i \in (n + 1)..Len(f) : f[i] = 0)

Parsed(t) == [second |-> LocalSecond(t) - OffsetSeconds(t.offset),
              digits |-> Trimmed(t.fraction)]

-----------------------------------------------------------------------------
(* ExactInstant's ordering: seconds, then digits padded with zeros.        *)

Digit(i, n) == IF n <= Len(i.digits) THEN i.digits[n] ELSE 0

Width(i, j) == IF Len(i.digits) < Len(j.digits) THEN Len(j.digits)
                                                ELSE Len(i.digits)

\* Mutant: the shorter fraction is the earlier one.
EarlierShorter(i, j) ==
  \/ i.second < j.second
  \/ i.second = j.second /\ Len(i.digits) < Len(j.digits)

Earlier(i, j) ==
  \/ i.second < j.second
  \/ /\ i.second = j.second
     /\ \E n \in 1..Width(i, j) :
          /\ Digit(i, n) < Digit(j, n)
          /\ \A k \in 1..(n - 1) : Digit(i, k) = Digit(j, k)

SameInstant(i, j) == ~Earlier(i, j) /\ ~Earlier(j, i)

-----------------------------------------------------------------------------
(* The clock, and the Gregorian calendar it follows.                       *)

\* Every fourth year has a leap day, of the centuries every fourth.
HasLeapDay(y) ==
  IF y % 100 = 0 THEN (y \div 100) % 4 = 0 ELSE y % 4 = 0

DaysInMonth(y, m) ==
  <<31, 28, 31, 30, 31, 30, 31, 31, 30, 31, 30, 31>>[m]
    + (IF m = 2 /\ HasLeapDay(y) THEN 1 ELSE 0)

\* A clock that is set right: what it shows first reads as its first count, of
\* whole seconds.
ASSUME StartsAssumption ==
  \A s \in Starts :
    /\ s.stamp \in Stamps /\ Parses(s.stamp) /\ s.stamp.fraction = <<>>
    /\ s.second \in Int /\ s.second = Parsed(s.stamp).second

VARIABLES
  shown,   \* what the clock shows
  now,     \* the seconds it has counted since 1970, and the part of the next
  mark,    \* a stamp taken off the clock earlier
  marked,  \* its count then
  steps

vars == <<shown, now, mark, marked, steps>>

Init ==
  /\ \E s \in Starts :
       /\ shown = s.stamp
       /\ now = [second |-> s.second, part |-> 0]
  /\ mark = shown
  /\ marked = now
  /\ steps = 0

\* The same time of day on another day.
OnDate(t, y, m, d) == [t EXCEPT !.year = y, !.month = m, !.day = d]

\* One day, hour, minute or second later in local time.
NextDay(t) ==
  IF t.day < DaysInMonth(t.year, t.month)
    THEN OnDate(t, t.year, t.month, t.day + 1)
  ELSE IF t.month < 12 THEN OnDate(t, t.year, t.month + 1, 1)
  ELSE OnDate(t, t.year + 1, 1, 1)

NextHour(t) ==
  IF t.hour < 23 THEN [t EXCEPT !.hour = @ + 1]
  ELSE NextDay([t EXCEPT !.hour = 0])

NextMinute(t) ==
  IF t.minute < 59 THEN [t EXCEPT !.minute = @ + 1]
  ELSE NextHour([t EXCEPT !.minute = 0])

NextSecond(t) ==
  IF t.second < 59 THEN [t EXCEPT !.second = @ + 1]
  ELSE NextMinute([t EXCEPT !.second = 0])

Later(t, unit) ==
  CASE unit = 1 -> NextSecond(t)
    [] unit = 60 -> NextMinute(t)
    [] unit = 3600 -> NextHour(t)
    [] unit = 86400 -> NextDay(t)

\* The weight of the n-th digit of a fraction, in parts of a second.
Weight(n) ==
  LET power[k \in 0..Precision] == IF k = 0 THEN 1 ELSE 10 * power[k - 1]
  IN power[Precision - n]

\* Time passes: a whole unit, or the rest of the second that is shown.
Advance(unit) ==
  /\ shown.year < 9999
  /\ shown' = [Later(shown, unit) EXCEPT !.fraction =
                 IF unit = 1 THEN <<>> ELSE @]
  /\ now' = [second |-> now.second + unit,
             part |-> IF unit = 1 THEN 0 ELSE now.part]
  /\ UNCHANGED <<mark, marked>>

\* The n-th digit of the fraction is shown for the first time, or has grown;
\* the digits after it are not shown any more.
ShowDigit(n, d) ==
  /\ n <= Len(shown.fraction) + 1
  /\ n <= Len(shown.fraction) => d > shown.fraction[n]
  /\ shown' = [shown EXCEPT !.fraction = Append(SubSeq(@, 1, n - 1), d)]
  /\ now' = [now EXCEPT !.part = (@ - (@ % Weight(n - 1))) + d * Weight(n)]
  /\ UNCHANGED <<mark, marked>>

\* The same instant, shown further east.
Offset(seconds) ==
  LET magnitude == IF seconds < 0 THEN -seconds ELSE seconds
  IN [sign |-> IF seconds < 0 THEN -1 ELSE 1,
      hour |-> magnitude \div 3600, minute |-> (magnitude % 3600) \div 60]

CarryEast(unit) ==
  /\ shown.year < 9999
  /\ OffsetSeconds(shown.offset) + unit < 86400
  /\ shown' = [Later(shown, unit) EXCEPT !.offset =
                 Offset(OffsetSeconds(shown.offset) + unit)]
  /\ UNCHANGED <<now, mark, marked>>

Mark ==
  /\ steps \in Marks
  /\ mark' = shown
  /\ marked' = now
  /\ UNCHANGED <<shown, now>>

Next ==
  /\ steps < MaxSteps
  /\ steps' = steps + 1
  /\ \/ \E unit \in Units : Advance(unit)
     \/ \E n \in 1..Precision, d \in Digits : ShowDigit(n, d)
     \/ \E unit \in Carries : CarryEast(unit)
     \/ Mark

Spec == Init /\ [][Next]_vars
-----------------------------------------------------------------------------
TypeOK ==
  /\ shown \in Stamps /\ mark \in Stamps
  /\ now \in [second: Int, part: Nat]
  /\ marked \in [second: Int, part: Nat]
  /\ steps \in 0..MaxSteps

\* What the clock shows reads as the seconds it counted, across months, leap
\* years, centuries, eras and offsets.
ReadsAsCounted == Parsed(shown).second = now.second

\* All the clock shows is a timestamp of the protocol, and the parser ends a
\* month where the calendar does: the stamp with the next number of a day is
\* one exactly if the clock shows it tomorrow.
AcceptsTheCalendar ==
  LET tomorrow == OnDate(shown, shown.year, shown.month, shown.day + 1)
  IN /\ Parses(shown)
     /\ Parses(tomorrow) <=> NextDay(shown) = tomorrow

\* Two stamps, at whatever offsets and with however many digits, are ordered
\* as the instants they were taken at, and are equal only at one instant.
OrderIsTime ==
  LET before == \/ marked.second < now.second
                \/ marked.second = now.second /\ marked.part < now.part
  IN /\ Earlier(Parsed(mark), Parsed(shown)) <=> before
     /\ SameInstant(Parsed(mark), Parsed(shown)) <=> marked = now
     /\ ~Earlier(Parsed(shown), Parsed(mark))
=============================================================================
