----------------------- MODULE ProtocolInstantProofs -----------------------
(***************************************************************************)
(* What parse_instant makes of a timestamp is right in every year, month   *)
(* and offset: a clock that is set right and carries as the Gregorian      *)
(* calendar does reads as the seconds it counted for ever after.  And two  *)
(* instants compare as their timestamps are ordered in time, whatever      *)
(* offsets they are written with and however many digits their fractions   *)
(* show: the first digit that differs, zeros being put where one fraction  *)
(* has no more, decides between the numbers that the fractions are.        *)
(***************************************************************************)
EXTENDS ProtocolInstant, SequenceTheorems, WellFoundedInduction, TLAPS

-----------------------------------------------------------------------------
(* From one day to the next.  Only the step into March meets the leap      *)
(* years, since the parser's years begin there.                            *)

\* The calendar's rule of centuries is the rule of years of the parser.
LEMMA LeapDays ==
  ASSUME NEW y \in Nat
  PROVE  HasLeapDay(y) <=> LeapYear(y)
BY SMTT(60) DEF HasLeapDay, LeapYear

\* The parser's months are those of the calendar.
LEMMA CalendarMonths ==
  ASSUME NEW y \in Nat, NEW m \in 1..12
  PROVE  DaysInMonth(y, m) = MonthLength(y, m)
BY LeapDays DEF DaysInMonth, MonthLength

LEMMA WithinMonth ==
  ASSUME NEW y \in Nat, y > 0, NEW m \in 1..12, NEW d \in Nat
  PROVE  DaysFromCivil(y, m, d + 1) = DaysFromCivil(y, m, d) + 1
BY DEF DaysFromCivil

LEMMA IntoMarch ==
  ASSUME NEW y \in Nat, y > 0
  PROVE  DaysFromCivil(y, 3, 1) = DaysFromCivil(y, 2, MonthLength(y, 2)) + 1
BY SMTT(60) DEF DaysFromCivil, MonthLength, LeapYear

LEMMA IntoAnotherMonth ==
  ASSUME NEW y \in Nat, y > 0, NEW m \in 1..11, m # 2
  PROVE  DaysFromCivil(y, m + 1, 1)
           = DaysFromCivil(y, m, MonthLength(y, m)) + 1
BY SMTT(60) DEF DaysFromCivil, MonthLength

LEMMA IntoNextYear ==
  ASSUME NEW y \in Nat, y > 0
  PROVE  DaysFromCivil(y + 1, 1, 1) = DaysFromCivil(y, 12, 31) + 1
BY DEF DaysFromCivil

LEMMA DaysAreIntegers ==
  ASSUME NEW y \in Nat, NEW m \in Nat, NEW d \in Nat
  PROVE  DaysFromCivil(y, m, d) \in Int
BY DEF DaysFromCivil

Months == 1..12

MonthEnds(y, m) ==
  /\ MonthLength(y, m) \in Nat
  /\ 28 <= MonthLength(y, m) /\ MonthLength(y, m) <= 31
  /\ m = 12 => MonthLength(y, m) = 31

LEMMA MonthLengths ==
  ASSUME NEW y \in Nat, NEW m \in Months PROVE MonthEnds(y, m)
BY DEF MonthEnds, MonthLength, Months

-----------------------------------------------------------------------------
(* A stamp that is a timestamp, and one later in local time by some unit.  *)

Good(t) == t \in Stamps /\ Parses(t)

LaterBy(t, u, unit) ==
  /\ Good(u)
  /\ u.offset = t.offset /\ u.fraction = t.fraction
  /\ LocalSecond(u) = LocalSecond(t) + unit

LEMMA StampFields ==
  ASSUME NEW t \in Stamps
  PROVE  /\ t.year \in Nat /\ t.month \in Nat /\ t.day \in Nat
         /\ t.hour \in Nat /\ t.minute \in Nat /\ t.second \in Nat
         /\ t.fraction \in Fractions /\ t.offset \in Offsets
BY DEF Stamps, FourDigits, TwoDigits

Days(t) == DaysFromCivil(t.year, t.month, t.day)

LEMMA LocalSecondIsInt ==
  ASSUME NEW t \in Stamps
  PROVE  Days(t) \in Int /\ LocalSecond(t) \in Int
<1>1. Days(t) \in Int
  BY StampFields, DaysAreIntegers DEF Days
<1>2. LocalSecond(t) = Days(t) * 86400 + t.hour * 3600 + t.minute * 60 + t.second
  BY DEF Days, LocalSecond
<1> QED BY <1>1, <1>2, StampFields

\* A stamp of another day, at the same time of day.
SameTime(t, u) ==
  /\ u.hour = t.hour /\ u.minute = t.minute /\ u.second = t.second
  /\ u.offset = t.offset /\ u.fraction = t.fraction

LEMMA NextDayIsLater ==
  ASSUME NEW t, Good(t), NEW u \in Stamps, SameTime(t, u),
         u.year > 0, u.month \in 1..12,
         u.day \in 1..MonthLength(u.year, u.month),
         Days(u) = Days(t) + 1
  PROVE  LaterBy(t, u, 86400)
<1>1. t \in Stamps /\ Parses(t)
  BY DEF Good
<1>2. Parses(u)
  BY <1>1, StampFields DEF Parses, SameTime
<1>3. LocalSecond(u) = LocalSecond(t) + 86400
  <2>1. LocalSecond(t) = Days(t) * 86400 + t.hour * 3600 + t.minute * 60 + t.second
    BY DEF Days, LocalSecond
  <2>2. LocalSecond(u) = Days(u) * 86400 + t.hour * 3600 + t.minute * 60 + t.second
    BY DEF Days, LocalSecond, SameTime
  <2> QED BY <1>1, <2>1, <2>2, LocalSecondIsInt, StampFields
<1> QED BY <1>2, <1>3 DEF LaterBy, Good, SameTime

LEMMA OnAnotherDate ==
  ASSUME NEW t \in Stamps, NEW y \in FourDigits, NEW m \in TwoDigits,
         NEW d \in TwoDigits
  PROVE  /\ OnDate(t, y, m, d) \in Stamps /\ SameTime(t, OnDate(t, y, m, d))
         /\ OnDate(t, y, m, d).year = y /\ OnDate(t, y, m, d).month = m
         /\ OnDate(t, y, m, d).day = d
BY DEF Stamps, SameTime, OnDate

LEMMA DayOfDate ==
  ASSUME NEW t \in Stamps, NEW y, NEW m, NEW d
  PROVE  OnDate(t, y, m, d).day = d
BY DEF Stamps, OnDate

\* Any date of the calendar that is the day after a stamp's.
LEMMA OnTheNextDay ==
  ASSUME NEW t, Good(t), NEW y \in Nat, NEW m \in Nat, NEW d \in Nat,
         0 < y, y <= 9999, 1 <= m, m <= 12, 1 <= d, d <= MonthLength(y, m),
         DaysFromCivil(y, m, d) = Days(t) + 1
  PROVE  LaterBy(t, OnDate(t, y, m, d), 86400)
<1>1. MonthEnds(y, m)
  <2>1. m \in Months
    BY DEF Months
  <2> QED BY <2>1, MonthLengths
<1>2. y \in FourDigits /\ m \in TwoDigits /\ d \in TwoDigits
  BY <1>1 DEF MonthEnds, FourDigits, TwoDigits
<1> DEFINE u == OnDate(t, y, m, d)
<1> HIDE DEF u
<1>3. /\ u \in Stamps /\ SameTime(t, u)
      /\ u.year = y /\ u.month = m /\ u.day = d
  BY <1>2, OnAnotherDate DEF u, Good
<1>4. Days(u) = Days(t) + 1
  BY <1>3 DEF Days
<1>5. /\ u.year > 0 /\ u.month \in 1..12
      /\ u.day \in 1..MonthLength(u.year, u.month)
  BY <1>1, <1>3 DEF MonthEnds
<1>6. LaterBy(t, u, 86400)
  BY <1>3, <1>4, <1>5, NextDayIsLater
<1> QED BY <1>6 DEF u

LEMMA DayCarries ==
  ASSUME NEW t, Good(t), t.year < 9999
  PROVE  LaterBy(t, NextDay(t), 86400)
<1>1. t \in Stamps /\ Parses(t)
  BY DEF Good
<1>2. PICK y \in Nat, m \in Nat, d \in Nat :
        /\ t.year = y /\ t.month = m /\ t.day = d
        /\ 0 < y /\ y < 9999 /\ 1 <= m /\ m <= 12
        /\ 1 <= d /\ d <= MonthLength(y, m)
  BY <1>1, StampFields DEF Parses
<1>3. PICK n \in Nat :
        /\ MonthLength(y, m) = n /\ 28 <= n /\ n <= 31
        /\ m = 12 => n = 31
  <2>1. m \in Months
    BY <1>2 DEF Months
  <2>2. MonthEnds(y, m)
    BY <2>1, MonthLengths
  <2> QED BY <2>2 DEF MonthEnds
<1>0. DaysInMonth(t.year, t.month) = n
  BY <1>2, <1>3, CalendarMonths
<1>4. CASE d < n
  <2>1. NextDay(t) = OnDate(t, y, m, d + 1)
    BY <1>2, <1>3, <1>0, <1>4 DEF NextDay
  <2>2. DaysFromCivil(y, m, d + 1) = Days(t) + 1
    <3>1. y \in Nat /\ y > 0 /\ m \in 1..12 /\ d \in Nat
      BY ONLY <1>2
    <3>2. DaysFromCivil(y, m, d + 1) = DaysFromCivil(y, m, d) + 1
      BY ONLY <3>1, WithinMonth
    <3> QED BY ONLY <1>2, <3>2 DEF Days
  <2>3. d + 1 \in Nat /\ 1 <= d + 1 /\ d + 1 <= MonthLength(y, m)
    BY <1>3, <1>4
  <2> QED BY <1>2, <2>1, <2>2, <2>3, OnTheNextDay
<1>5. CASE d = n /\ m < 12
  <2>1. NextDay(t) = OnDate(t, y, m + 1, 1)
    BY <1>2, <1>3, <1>0, <1>5 DEF NextDay
  <2>2. DaysFromCivil(y, m + 1, 1) = DaysFromCivil(y, m, d) + 1
    BY <1>2, <1>3, <1>5, IntoMarch, IntoAnotherMonth
  <2>3. DaysFromCivil(y, m + 1, 1) = Days(t) + 1
    BY <1>2, <2>2 DEF Days
  <2>4. 1 <= MonthLength(y, m + 1)
    <3>1. m + 1 \in Months
      BY <1>5 DEF Months
    <3>2. MonthEnds(y, m + 1)
      BY <3>1, MonthLengths
    <3> QED BY <3>2 DEF MonthEnds
  <2>5. m + 1 \in Nat /\ 1 <= m + 1 /\ m + 1 <= 12 /\ y <= 9999
    BY <1>2, <1>5
  <2> QED BY <1>2, <2>1, <2>3, <2>4, <2>5, OnTheNextDay
<1>6. CASE d = n /\ m = 12
  <2>1. NextDay(t) = OnDate(t, y + 1, 1, 1)
    BY <1>2, <1>3, <1>0, <1>6 DEF NextDay
  <2>2. DaysFromCivil(y + 1, 1, 1) = DaysFromCivil(y, m, d) + 1
    BY <1>2, <1>3, <1>6, IntoNextYear
  <2>3. DaysFromCivil(y + 1, 1, 1) = Days(t) + 1
    BY <1>2, <2>2 DEF Days
  <2>4. 1 <= MonthLength(y + 1, 1)
    <3>1. y + 1 \in Nat /\ 1 \in Months
      BY DEF Months
    <3>2. MonthEnds(y + 1, 1)
      BY <3>1, MonthLengths
    <3> QED BY <3>2 DEF MonthEnds
  <2>5. y + 1 \in Nat /\ 0 < y + 1 /\ y + 1 <= 9999
    BY <1>2
  <2> QED BY <2>1, <2>3, <2>4, <2>5, OnTheNextDay
<1> QED BY <1>2, <1>3, <1>4, <1>5, <1>6

\* A stamp of the same day, at another time of day.
SameDay(t, u) ==
  /\ u.year = t.year /\ u.month = t.month /\ u.day = t.day
  /\ u.offset = t.offset /\ u.fraction = t.fraction

LEMMA SameDayIsGood ==
  ASSUME NEW t, Good(t), NEW u \in Stamps, SameDay(t, u),
         u.hour <= 23, u.minute <= 59, u.second <= 59
  PROVE  /\ Good(u)
         /\ LocalSecond(u) = LocalSecond(t)
                + (u.hour - t.hour) * 3600 + (u.minute - t.minute) * 60
                + (u.second - t.second)
<1>1. t \in Stamps /\ Parses(t)
  BY DEF Good
<1>2. Good(u)
  BY <1>1 DEF Parses, SameDay, Good
<1>3. LocalSecond(t) = Days(t) * 86400 + t.hour * 3600 + t.minute * 60 + t.second
  BY DEF Days, LocalSecond
<1>4. LocalSecond(u) = Days(t) * 86400 + u.hour * 3600 + u.minute * 60 + u.second
  BY DEF Days, LocalSecond, SameDay
<1>5. /\ t.hour \in Nat /\ t.minute \in Nat /\ t.second \in Nat
      /\ u.hour \in Nat /\ u.minute \in Nat /\ u.second \in Nat
      /\ Days(t) \in Int
  BY <1>1, LocalSecondIsInt, StampFields
<1> QED BY <1>2, <1>3, <1>4, <1>5

LEMMA HourCarries ==
  ASSUME NEW t, Good(t), t.year < 9999
  PROVE  LaterBy(t, NextHour(t), 3600)
<1> DEFINE S(x) == [t EXCEPT !.hour = x]
<1>1. t \in Stamps /\ Parses(t) /\ LocalSecond(t) \in Int
  BY LocalSecondIsInt DEF Good
<1>2. t.hour \in Nat /\ t.minute \in Nat /\ t.second \in Nat
      /\ t.hour <= 23 /\ t.minute <= 59 /\ t.second <= 59
  BY <1>1, StampFields DEF Parses
<1>3. ASSUME NEW x \in Nat, x <= 23
      PROVE  /\ Good(S(x)) /\ SameDay(t, S(x))
             /\ LocalSecond(S(x)) = LocalSecond(t) + (x - t.hour) * 3600
  <2> DEFINE s == S(x)
  <2>1. x \in TwoDigits
    BY <1>3 DEF TwoDigits
  <2>2. /\ s \in Stamps /\ SameDay(t, s) /\ s.hour = x
        /\ s.minute = t.minute /\ s.second = t.second
    BY <1>1, <2>1 DEF Stamps, SameDay
  <2> HIDE DEF s
  <2>3. /\ Good(s)
        /\ LocalSecond(s) = LocalSecond(t)
               + (s.hour - t.hour) * 3600 + (s.minute - t.minute) * 60
               + (s.second - t.second)
    BY <1>2, <1>3, <2>2, SameDayIsGood
  <2>4. Good(s) /\ SameDay(t, s)
        /\ LocalSecond(s) = LocalSecond(t) + (x - t.hour) * 3600
    BY <1>1, <1>2, <1>3, <2>2, <2>3
  <2> QED BY <2>4 DEF s
<1>4. CASE t.hour < 23
  <2>1. NextHour(t) = S(t.hour + 1)
    BY <1>4 DEF NextHour
  <2> HIDE DEF S
  <2>2. /\ Good(S(t.hour + 1)) /\ SameDay(t, S(t.hour + 1))
        /\ LocalSecond(S(t.hour + 1)) = LocalSecond(t) + 3600
    BY <1>1, <1>2, <1>3, <1>4
  <2> QED BY <2>1, <2>2 DEF LaterBy, SameDay
<1>5. CASE t.hour = 23
  <2>1. NextHour(t) = NextDay(S(0))
    BY <1>5 DEF NextHour
  <2> HIDE DEF S
  <2>2. /\ Good(S(0)) /\ SameDay(t, S(0))
        /\ LocalSecond(S(0)) = LocalSecond(t) - 82800
    BY <1>1, <1>2, <1>3, <1>5
  <2>3. LaterBy(S(0), NextDay(S(0)), 86400)
    BY <2>2, DayCarries DEF SameDay
  <2> QED BY <1>1, <2>1, <2>2, <2>3 DEF LaterBy, SameDay
<1> QED BY <1>2, <1>4, <1>5

LEMMA MinuteCarries ==
  ASSUME NEW t, Good(t), t.year < 9999
  PROVE  LaterBy(t, NextMinute(t), 60)
<1> DEFINE S(x) == [t EXCEPT !.minute = x]
<1>1. t \in Stamps /\ Parses(t) /\ LocalSecond(t) \in Int
  BY LocalSecondIsInt DEF Good
<1>2. t.hour \in Nat /\ t.minute \in Nat /\ t.second \in Nat
      /\ t.hour <= 23 /\ t.minute <= 59 /\ t.second <= 59
  BY <1>1, StampFields DEF Parses
<1>3. ASSUME NEW x \in Nat, x <= 59
      PROVE  /\ Good(S(x)) /\ SameDay(t, S(x))
             /\ LocalSecond(S(x)) = LocalSecond(t) + (x - t.minute) * 60
  <2> DEFINE s == S(x)
  <2>1. x \in TwoDigits
    BY <1>3 DEF TwoDigits
  <2>2. /\ s \in Stamps /\ SameDay(t, s) /\ s.minute = x
        /\ s.hour = t.hour /\ s.second = t.second
    BY <1>1, <2>1 DEF Stamps, SameDay
  <2> HIDE DEF s
  <2>3. /\ Good(s)
        /\ LocalSecond(s) = LocalSecond(t)
               + (s.hour - t.hour) * 3600 + (s.minute - t.minute) * 60
               + (s.second - t.second)
    BY <1>2, <1>3, <2>2, SameDayIsGood
  <2>4. Good(s) /\ SameDay(t, s)
        /\ LocalSecond(s) = LocalSecond(t) + (x - t.minute) * 60
    BY <1>1, <1>2, <1>3, <2>2, <2>3
  <2> QED BY <2>4 DEF s
<1>4. CASE t.minute < 59
  <2>1. NextMinute(t) = S(t.minute + 1)
    BY <1>4 DEF NextMinute
  <2> HIDE DEF S
  <2>2. /\ Good(S(t.minute + 1)) /\ SameDay(t, S(t.minute + 1))
        /\ LocalSecond(S(t.minute + 1)) = LocalSecond(t) + 60
    BY <1>1, <1>2, <1>3, <1>4
  <2> QED BY <2>1, <2>2 DEF LaterBy, SameDay
<1>5. CASE t.minute = 59
  <2>1. NextMinute(t) = NextHour(S(0))
    BY <1>5 DEF NextMinute
  <2> HIDE DEF S
  <2>2. /\ Good(S(0)) /\ SameDay(t, S(0))
        /\ LocalSecond(S(0)) = LocalSecond(t) - 3540
    BY <1>1, <1>2, <1>3, <1>5
  <2>3. LaterBy(S(0), NextHour(S(0)), 3600)
    BY <2>2, HourCarries DEF SameDay
  <2> QED BY <1>1, <2>1, <2>2, <2>3 DEF LaterBy, SameDay
<1> QED BY <1>2, <1>4, <1>5

LEMMA SecondCarries ==
  ASSUME NEW t, Good(t), t.year < 9999
  PROVE  LaterBy(t, NextSecond(t), 1)
<1> DEFINE S(x) == [t EXCEPT !.second = x]
<1>1. t \in Stamps /\ Parses(t) /\ LocalSecond(t) \in Int
  BY LocalSecondIsInt DEF Good
<1>2. t.hour \in Nat /\ t.minute \in Nat /\ t.second \in Nat
      /\ t.hour <= 23 /\ t.minute <= 59 /\ t.second <= 59
  BY <1>1, StampFields DEF Parses
<1>3. ASSUME NEW x \in Nat, x <= 59
      PROVE  /\ Good(S(x)) /\ SameDay(t, S(x))
             /\ LocalSecond(S(x)) = LocalSecond(t) + (x - t.second)
  <2> DEFINE s == S(x)
  <2>1. x \in TwoDigits
    BY <1>3 DEF TwoDigits
  <2>2. /\ s \in Stamps /\ SameDay(t, s) /\ s.second = x
        /\ s.hour = t.hour /\ s.minute = t.minute
    BY <1>1, <2>1 DEF Stamps, SameDay
  <2> HIDE DEF s
  <2>3. /\ Good(s)
        /\ LocalSecond(s) = LocalSecond(t)
               + (s.hour - t.hour) * 3600 + (s.minute - t.minute) * 60
               + (s.second - t.second)
    BY <1>2, <1>3, <2>2, SameDayIsGood
  <2>4. Good(s) /\ SameDay(t, s)
        /\ LocalSecond(s) = LocalSecond(t) + (x - t.second)
    BY <1>1, <1>2, <1>3, <2>2, <2>3
  <2> QED BY <2>4 DEF s
<1>4. CASE t.second < 59
  <2>1. NextSecond(t) = S(t.second + 1)
    BY <1>4 DEF NextSecond
  <2> HIDE DEF S
  <2>2. /\ Good(S(t.second + 1)) /\ SameDay(t, S(t.second + 1))
        /\ LocalSecond(S(t.second + 1)) = LocalSecond(t) + 1
    BY <1>1, <1>2, <1>3, <1>4
  <2> QED BY <2>1, <2>2 DEF LaterBy, SameDay
<1>5. CASE t.second = 59
  <2>1. NextSecond(t) = NextMinute(S(0))
    BY <1>5 DEF NextSecond
  <2> HIDE DEF S
  <2>2. /\ Good(S(0)) /\ SameDay(t, S(0))
        /\ LocalSecond(S(0)) = LocalSecond(t) - 59
    BY <1>1, <1>2, <1>3, <1>5
  <2>3. LaterBy(S(0), NextMinute(S(0)), 60)
    BY <2>2, MinuteCarries DEF SameDay
  <2> QED BY <1>1, <2>1, <2>2, <2>3 DEF LaterBy, SameDay
<1> QED BY <1>2, <1>4, <1>5

LEMMA LaterCarries ==
  ASSUME NEW t, Good(t), t.year < 9999, NEW unit \in {1, 60, 3600, 86400}
  PROVE  LaterBy(t, Later(t, unit), unit)
BY SecondCarries, MinuteCarries, HourCarries, DayCarries DEF Later

-----------------------------------------------------------------------------
(* Offsets.                                                                *)

\* An offset and its seconds: so many minutes, less than a day of them.
LEMMA OffsetIsMinutes ==
  ASSUME NEW o \in Offsets, OffsetParses(o)
  PROVE  \E q \in Int : OffsetSeconds(o) = 60 * q /\ -1440 < q /\ q < 1440
<1>1. CASE o = Zulu
  BY <1>1 DEF OffsetSeconds
<1>2. CASE o # Zulu
  <2>1. /\ o.hour \in Nat /\ o.hour <= 23 /\ o.minute \in Nat /\ o.minute <= 59
        /\ o.sign = 1 \/ o.sign = -1
        /\ OffsetSeconds(o) = o.sign * (o.hour * 3600 + o.minute * 60)
    BY <1>2 DEF Offsets, OffsetParses, OffsetSeconds, TwoDigits
  <2>2. PICK p \in Nat : p = o.hour * 60 + o.minute
    BY <2>1
  <2>3. p < 1440 /\ o.hour * 3600 + o.minute * 60 = 60 * p
    BY <2>1, <2>2
  <2>4. OffsetSeconds(o) = 60 * p \/ OffsetSeconds(o) = 60 * (-p)
    BY <2>1, <2>3
  <2>5. CASE OffsetSeconds(o) = 60 * p
    BY <2>3, <2>5
  <2>6. CASE OffsetSeconds(o) = 60 * (-p)
    <3>1. -p \in Int /\ -1440 < -p /\ -p < 1440
      BY <2>3
    <3> QED BY <2>6, <3>1
  <2> QED BY <2>4, <2>5, <2>6
<1> QED BY <1>1, <1>2

LEMMA OffsetIsSpelt ==
  ASSUME NEW q \in Int, -1440 < q, q < 1440
  PROVE  LET s == 60 * q
         IN Offset(s) \in Offsets /\ OffsetParses(Offset(s))
            /\ OffsetSeconds(Offset(s)) = s
<1>1. PICK s \in Int : s = 60 * q
  OBVIOUS
<1>2. PICK p \in Nat, sign \in {-1, 1} :
        /\ p < 1440 /\ s = sign * (60 * p)
        /\ (IF s < 0 THEN -s ELSE s) = 60 * p
        /\ (IF s < 0 THEN -1 ELSE 1) = sign
        /\ sign = -1 => p # 0
  <2>1. CASE q < 0
    <3>1. -q \in Nat /\ s = (-1) * (60 * (-q)) /\ s < 0
      BY <1>1, <2>1
    <3> QED BY <3>1, <2>1, <1>1
  <2>2. CASE q >= 0
    <3>1. q \in Nat /\ s = 1 * (60 * q) /\ ~(s < 0)
      BY <1>1, <2>2
    <3> QED BY <3>1, <2>2, <1>1
  <2> QED BY <2>1, <2>2
<1>3. PICK h \in Nat, n \in Nat :
        /\ h <= 23 /\ n <= 59 /\ h * 60 + n = p
        /\ (60 * p) \div 3600 = h /\ ((60 * p) % 3600) \div 60 = n
  BY <1>2
<1>4. Offset(s) = [sign |-> sign, hour |-> h, minute |-> n]
  BY <1>2, <1>3 DEF Offset
<1>5. Offset(s) \in [sign: {-1, 1}, hour: TwoDigits, minute: TwoDigits]
  BY <1>3, <1>4 DEF TwoDigits
<1>6. Offset(s) # Zulu
  BY <1>5, ClockAssumption
<1>7. OffsetSeconds(Offset(s)) = s
  <2>1. OffsetSeconds(Offset(s)) = sign * (h * 3600 + n * 60)
    BY <1>4, <1>6 DEF OffsetSeconds
  <2>2. h * 3600 + n * 60 = 60 * p
    BY <1>3
  <2> QED BY <1>2, <2>1, <2>2
<1>8. OffsetParses(Offset(s))
  BY <1>2, <1>3, <1>4 DEF OffsetParses
<1>9. Offset(s) \in Offsets
  BY <1>5 DEF Offsets
<1> QED BY <1>1, <1>7, <1>8, <1>9

LEMMA OffsetMoves ==
  ASSUME NEW o \in Offsets, OffsetParses(o), NEW unit \in {60, 3600},
         OffsetSeconds(o) + unit < 86400
  PROVE  LET s == OffsetSeconds(o) + unit
         IN Offset(s) \in Offsets /\ OffsetParses(Offset(s))
            /\ OffsetSeconds(Offset(s)) = s
<1>1. PICK q \in Int : OffsetSeconds(o) = 60 * q /\ -1440 < q /\ q < 1440
  BY OffsetIsMinutes
<1>2. PICK p \in Int : OffsetSeconds(o) + unit = 60 * p
                       /\ -1440 < p /\ p < 1440
  <2>1. CASE unit = 60
    BY <1>1, <2>1
  <2>2. CASE unit = 3600
    BY <1>1, <2>2
  <2> QED BY <2>1, <2>2
<1> QED BY <1>2, OffsetIsSpelt

LEMMA OffsetSecondsAreIntegers ==
  ASSUME NEW o \in Offsets PROVE OffsetSeconds(o) \in Int
BY DEF Offsets, OffsetSeconds, TwoDigits

-----------------------------------------------------------------------------
\* The same local time, shown with another fraction or offset.
SameLocal(t, u) ==
  /\ u.year = t.year /\ u.month = t.month /\ u.day = t.day
  /\ u.hour = t.hour /\ u.minute = t.minute /\ u.second = t.second

LEMMA SameLocalSecond ==
  ASSUME NEW t, Good(t), NEW u \in Stamps, SameLocal(t, u),
         OffsetParses(u.offset)
  PROVE  Good(u) /\ LocalSecond(u) = LocalSecond(t)
BY DEF Good, Parses, SameLocal, LocalSecond

LEMMA AnotherFraction ==
  ASSUME NEW t \in Stamps, NEW f \in Fractions
  PROVE  LET u == [t EXCEPT !.fraction = f]
         IN u \in Stamps /\ SameLocal(t, u) /\ u.offset = t.offset
BY DEF Stamps, SameLocal

LEMMA AnotherOffset ==
  ASSUME NEW t \in Stamps, NEW o \in Offsets
  PROVE  LET u == [t EXCEPT !.offset = o]
         IN u \in Stamps /\ SameLocal(t, u) /\ u.offset = o
BY DEF Stamps, SameLocal

ReadAs(t) == LocalSecond(t) - OffsetSeconds(t.offset)

LEMMA FractionIsNotRead ==
  ASSUME NEW t, Good(t), NEW f \in Fractions
  PROVE  LET u == [t EXCEPT !.fraction = f]
         IN Good(u) /\ ReadAs(u) = ReadAs(t)
<1> DEFINE u == [t EXCEPT !.fraction = f]
<1>1. u \in Stamps /\ SameLocal(t, u) /\ u.offset = t.offset
  BY AnotherFraction DEF Good
<1> HIDE DEF u
<1>2. Good(u) /\ ReadAs(u) = ReadAs(t)
  BY <1>1, SameLocalSecond DEF Good, Parses, ReadAs
<1> QED BY <1>2 DEF u

LEMMA OffsetIsRead ==
  ASSUME NEW t, Good(t), NEW o \in Offsets, OffsetParses(o)
  PROVE  LET u == [t EXCEPT !.offset = o]
         IN Good(u) /\ ReadAs(u) = LocalSecond(t) - OffsetSeconds(o)
<1> DEFINE u == [t EXCEPT !.offset = o]
<1>1. u \in Stamps /\ SameLocal(t, u) /\ u.offset = o
  BY AnotherOffset DEF Good
<1> HIDE DEF u
<1>2. Good(u) /\ ReadAs(u) = LocalSecond(t) - OffsetSeconds(o)
  BY <1>1, SameLocalSecond DEF ReadAs
<1> QED BY <1>2 DEF u

-----------------------------------------------------------------------------
CountInv ==
  /\ Good(shown)
  /\ now.second \in Int
  /\ ReadAs(shown) = now.second

\* The clock keeps to its count, wherever it is set and however long it goes.
THEOREM CountIsKept == Spec => []CountInv
<1>1. Init => CountInv
  BY StartsAssumption DEF Init, CountInv, Good, ReadAs, Parsed
<1>2. CountInv /\ [Next]_vars => CountInv'
  <2> SUFFICES ASSUME CountInv, [Next]_vars PROVE CountInv'
    OBVIOUS
  <2>1. /\ Good(shown) /\ now.second \in Int /\ ReadAs(shown) = now.second
        /\ shown \in Stamps /\ OffsetParses(shown.offset)
        /\ shown.offset \in Offsets /\ shown.fraction \in Fractions
    BY StampFields DEF CountInv, Good, Parses
  <2>2. LocalSecond(shown) \in Int /\ OffsetSeconds(shown.offset) \in Int
    BY <2>1, LocalSecondIsInt, OffsetSecondsAreIntegers
  <2>3. ASSUME NEW unit \in Units, Advance(unit)
        PROVE  CountInv'
    <3> DEFINE u == Later(shown, unit)
    <3>1. unit \in {1, 60, 3600, 86400} /\ unit \in Int
      BY ClockAssumption
    <3>2. LaterBy(shown, u, unit)
      BY <2>1, <2>3, <3>1, LaterCarries DEF Advance
    <3> HIDE DEF u
    <3>3. Good(u) /\ u.fraction \in Fractions
          /\ ReadAs(u) = ReadAs(shown) + unit
      BY <2>1, <2>2, <3>1, <3>2 DEF LaterBy, ReadAs
    <3>4. PICK f \in Fractions : shown' = [u EXCEPT !.fraction = f]
      <4>1. <<>> \in Fractions
        BY DEF Fractions
      <4>2. shown' = [u EXCEPT !.fraction =
                        IF unit = 1 THEN <<>> ELSE u.fraction]
        BY <2>3 DEF Advance, u
      <4> QED BY <3>3, <4>1, <4>2
    <3>5. Good(shown') /\ ReadAs(shown') = ReadAs(shown) + unit
      BY <3>3, <3>4, FractionIsNotRead
    <3>6. now'.second = now.second + unit
      BY <2>3 DEF Advance
    <3> QED BY <2>1, <3>1, <3>5, <3>6 DEF CountInv, ReadAs, Good
  <2>4. ASSUME NEW n \in 1..Precision, NEW d \in Digits, ShowDigit(n, d)
        PROVE  CountInv'
    <3> DEFINE f == Append(SubSeq(shown.fraction, 1, n - 1), d)
    <3>1. f \in Fractions
      <4>1. shown.fraction \in Seq(0..9) /\ n - 1 <= Len(shown.fraction)
        BY <2>1, <2>4, ClockAssumption DEF ShowDigit, Fractions, Stamps
      <4>2. SubSeq(shown.fraction, 1, n - 1) \in Seq(0..9)
        BY <4>1, ClockAssumption
      <4> QED
        BY <4>2, ClockAssumption DEF Fractions
    <3>2. shown' = [shown EXCEPT !.fraction = f]
      BY <2>4 DEF ShowDigit
    <3> HIDE DEF f
    <3>3. Good(shown') /\ ReadAs(shown') = ReadAs(shown)
      BY <2>1, <3>1, <3>2, FractionIsNotRead
    <3>4. now'.second = now.second
      BY <2>4 DEF ShowDigit
    <3> QED BY <2>1, <3>3, <3>4 DEF CountInv, ReadAs, Good
  <2>5. ASSUME NEW unit \in Carries, CarryEast(unit)
        PROVE  CountInv'
    <3> DEFINE u == Later(shown, unit)
               s == OffsetSeconds(shown.offset) + unit
    <3>1. unit \in {60, 3600} /\ unit \in {1, 60, 3600, 86400} /\ unit \in Int
      BY ClockAssumption
    <3>2. LaterBy(shown, u, unit)
      BY <2>1, <2>5, <3>1, LaterCarries DEF CarryEast
    <3>3. Offset(s) \in Offsets /\ OffsetParses(Offset(s))
          /\ OffsetSeconds(Offset(s)) = s
      BY <2>1, <2>5, <3>1, OffsetMoves DEF CarryEast
    <3>4. shown' = [u EXCEPT !.offset = Offset(s)]
      BY <2>5 DEF CarryEast
    <3> HIDE DEF u, s
    <3>5. Good(u) /\ LocalSecond(u) = LocalSecond(shown) + unit
      BY <3>2 DEF LaterBy
    <3>6. Good(shown')
          /\ ReadAs(shown') = LocalSecond(u) - OffsetSeconds(Offset(s))
      BY <3>3, <3>4, <3>5, OffsetIsRead
    <3>7. ReadAs(shown') = ReadAs(shown)
      BY <2>2, <3>1, <3>3, <3>5, <3>6 DEF s, ReadAs
    <3>8. now'.second = now.second
      BY <2>5 DEF CarryEast
    <3> QED BY <2>1, <3>6, <3>7, <3>8 DEF CountInv, ReadAs, Good
  <2>6. CASE Mark \/ UNCHANGED vars
    <3>1. shown' = shown /\ now' = now
      BY <2>6 DEF Mark, vars
    <3> QED BY <2>1, <3>1 DEF CountInv, ReadAs, Good
  <2> QED BY <2>3, <2>4, <2>5, <2>6 DEF Next
<1> QED BY <1>1, <1>2, PTL DEF Spec

\* In every year and at every offset, parse_instant reads a timestamp as the
\* number of seconds that the calendar counts.
THEOREM ReadingIsRight == Spec => []ReadsAsCounted
<1>1. CountInv => ReadsAsCounted
  BY DEF CountInv, ReadsAsCounted, Parsed, ReadAs
<1> QED BY <1>1, CountIsKept, PTL

\* The parser accepts the days of the clock's calendar and no others: its
\* months and leap years, stated another way, are those of the calendar.
THEOREM CalendarIsAccepted == Spec => []AcceptsTheCalendar
<1>1. CountInv => AcceptsTheCalendar
  <2> SUFFICES ASSUME Good(shown) PROVE AcceptsTheCalendar
    BY DEF CountInv
  <2>1. shown \in Stamps /\ Parses(shown)
    BY DEF Good
  <2>2. PICK y \in Nat, m \in Nat, d \in Nat :
          /\ shown.year = y /\ shown.month = m /\ shown.day = d
          /\ 0 < y /\ 1 <= m /\ m <= 12
          /\ 1 <= d /\ d <= MonthLength(y, m)
    BY <2>1, StampFields DEF Parses
  <2>3. PICK n \in Nat : MonthLength(y, m) = n /\ 28 <= n /\ n <= 31 /\ d <= n
    <3>1. m \in Months
      BY <2>2 DEF Months
    <3>2. MonthEnds(y, m)
      BY <3>1, MonthLengths
    <3> QED BY <2>2, <3>2 DEF MonthEnds
  <2>0. DaysInMonth(y, m) = n
    BY <2>2, <2>3, CalendarMonths
  <2> DEFINE tomorrow == OnDate(shown, y, m, d + 1)
  <2>4. /\ tomorrow \in Stamps /\ SameTime(shown, tomorrow)
        /\ tomorrow.year = y /\ tomorrow.month = m /\ tomorrow.day = d + 1
    <3>1. y \in FourDigits /\ m \in TwoDigits /\ d + 1 \in TwoDigits
      <4>1. y <= 9999
        BY <2>1, <2>2 DEF Stamps, FourDigits
      <4> QED BY <2>2, <2>3, <4>1 DEF FourDigits, TwoDigits
    <3> QED BY <2>1, <3>1, OnAnotherDate
  <2> HIDE DEF tomorrow
  <2>5. Parses(tomorrow) <=> d < n
    BY <2>1, <2>2, <2>3, <2>4 DEF Parses, SameTime
  <2>6. NextDay(shown) = tomorrow <=> d < n
    <3>1. CASE d < n
      BY <2>0, <2>2, <2>3, <3>1 DEF NextDay, tomorrow
    <3>2. CASE ~(d < n)
      <4>1. \/ NextDay(shown) = OnDate(shown, y, m + 1, 1)
            \/ NextDay(shown) = OnDate(shown, y + 1, 1, 1)
        BY <2>0, <2>2, <2>3, <3>2 DEF NextDay
      <4>2. NextDay(shown).day = 1
        BY <2>1, <4>1, DayOfDate
      <4> QED BY <2>2, <2>4, <3>2, <4>2
    <3> QED BY <3>1, <3>2
  <2> QED BY <2>1, <2>2, <2>5, <2>6 DEF AcceptsTheCalendar, tomorrow
<1> QED BY <1>1, CountIsKept, PTL

-----------------------------------------------------------------------------
(* Fractions: their digits, and the parts of a second these stand for.     *)

LEMMA LeastNatural ==
  ASSUME NEW T \in SUBSET Nat, T # {}
  PROVE  \E n \in T : \A m \in T : n <= m
<1>1. PICK n \in T : \A m \in T : ~(<<m, n>> \in OpToRel(<, Nat))
  BY NatLessThanWellFounded, WFMin
<1>2. ASSUME NEW m \in T PROVE n <= m
  <2>1. ~(<<m, n>> \in OpToRel(<, Nat))
    BY <1>1
  <2>2. <<m, n>> \in Nat \X Nat
    OBVIOUS
  <2>3. ~(m < n)
    BY <2>1, <2>2 DEF OpToRel
  <2> QED
    BY <2>3
<1> QED
  BY <1>2

\* What is so at zero, and at n + 1 wherever it is at n, is so everywhere.
LEMMA Climbs ==
  ASSUME NEW T, 0 \in T, \A n \in Nat : n \in T => n + 1 \in T
  PROVE  Nat \subseteq T
<1> SUFFICES ASSUME Nat \ T # {} PROVE FALSE
  OBVIOUS
<1>1. PICK n \in Nat \ T : \A m \in Nat \ T : n <= m
  BY LeastNatural
<1>2. n # 0
  BY <1>1
<1>3. n - 1 \in Nat /\ n - 1 < n
  BY <1>1, <1>2
<1>4. n - 1 \in T
  BY <1>1, <1>3
<1>5. n - 1 + 1 \in T
  BY <1>3, <1>4
<1> QED
  BY <1>1, <1>5

LEMMA Weights ==
  /\ \A n \in 0..Precision : Weight(n) \in Nat /\ Weight(n) > 0
  /\ Weight(Precision) = 1
  /\ \A n \in 1..Precision : Weight(n - 1) = 10 * Weight(n)
<1>0. Precision \in Nat
  BY ClockAssumption
<1> DEFINE E(f, k) == IF k = 0 THEN 1 ELSE 10 * f[k - 1]
           F(f) == [k \in 0..Precision |-> E(f, k)]
           power == CHOOSE f : f = F(f)
           Upto(f, n) == /\ f \in [0..n -> Nat \ {0}]
                         /\ f[0] = 1
                         /\ \A k \in 1..n : f[k] = 10 * f[k - 1]
           T == {n \in Nat : \E f : Upto(f, n)}
<1>1. 0 \in T
  <2>1. Upto([k \in 0..0 |-> 1], 0)
    OBVIOUS
  <2> QED
    BY <2>1
<1>2. ASSUME NEW n \in Nat, n \in T PROVE n + 1 \in T
  <2>1. PICK f : Upto(f, n)
    BY <1>2
  <2> DEFINE g == [k \in 0..(n + 1) |-> IF k = n + 1 THEN 10 * f[n] ELSE f[k]]
  <2>2. g \in [0..(n + 1) -> Nat \ {0}]
    <3>1. \A k \in 0..n : f[k] \in Nat \ {0}
      BY <2>1
    <3>2. 10 * f[n] \in Nat \ {0}
      BY <3>1
    <3>3. \A k \in 0..(n + 1) : k # n + 1 => k \in 0..n
      OBVIOUS
    <3> QED
      BY <3>1, <3>2, <3>3
  <2>3. g[0] = 1
    BY <2>1
  <2>4. ASSUME NEW k \in 1..(n + 1) PROVE g[k] = 10 * g[k - 1]
    <3>1. k - 1 \in 0..n /\ g[k - 1] = f[k - 1]
      OBVIOUS
    <3>2. CASE k = n + 1
      BY <3>1, <3>2
    <3>3. CASE k # n + 1
      <4>1. k \in 1..n /\ g[k] = f[k]
        BY <3>3
      <4> QED
        BY <2>1, <3>1, <4>1
    <3> QED
      BY <3>2, <3>3
  <2>5. Upto(g, n + 1)
    <3> HIDE DEF g
    <3> QED
      BY <2>2, <2>3, <2>4
  <2> HIDE DEF g, Upto
  <2>6. \E h : Upto(h, n + 1)
    BY <2>5
  <2> QED
    BY <2>6
<1>3. PICK p : Upto(p, Precision)
  <2> HIDE DEF T
  <2>1. Precision \in T
    BY <1>0, <1>1, <1>2, Climbs
  <2> QED
    BY <2>1 DEF T
<1>4. p = F(p)
  <2>1. ASSUME NEW k \in 0..Precision PROVE p[k] = E(p, k)
    BY <1>3
  <2>2. p = [k \in 0..Precision |-> p[k]]
    BY <1>3
  <2> HIDE DEF E
  <2> QED
    BY <2>1, <2>2
<1>5. power = F(power)
  <2> HIDE DEF F
  <2> QED
    BY <1>4
<1>6. \A n : Weight(n) = power[Precision - n]
  BY DEF Weight
<1> HIDE DEF power
<1>7. \A k \in 0..Precision : power[k] = E(power, k)
  <2> HIDE DEF E
  <2> QED
    BY <1>5
<1> DEFINE A == {n \in Nat : n <= Precision => power[n] \in Nat /\ power[n] > 0}
<1>8. 0 \in A
  BY <1>0, <1>7
<1>9. ASSUME NEW n \in Nat, n \in A PROVE n + 1 \in A
  BY <1>0, <1>7, <1>9
<1>10. Nat \subseteq A
  <2> HIDE DEF A
  <2> QED
    BY <1>8, <1>9, Climbs
<1>11. ASSUME NEW n \in 0..Precision PROVE Weight(n) \in Nat /\ Weight(n) > 0
  <2>1. Precision - n \in A /\ Precision - n <= Precision
    BY <1>0, <1>10
  <2> QED
    BY <1>6, <2>1
<1>12. Weight(Precision) = 1
  BY <1>0, <1>6, <1>7
<1>13. ASSUME NEW n \in 1..Precision PROVE Weight(n - 1) = 10 * Weight(n)
  <2> DEFINE k == Precision - (n - 1)
  <2>1. k \in 0..Precision /\ k # 0 /\ k - 1 = Precision - n
    BY <1>0
  <2>2. power[k] = 10 * power[k - 1]
    BY <1>7, <2>1
  <2> HIDE DEF k
  <2> QED
    BY <1>6, <2>1, <2>2 DEF k
<1> QED
  BY <1>11, <1>12, <1>13

\* A fraction with zeros after its end.
Pad(f, n) == IF n <= Len(f) THEN f[n] ELSE 0

\* The numbers that the first digits of a fraction make.
Values(v, f) ==
  /\ v \in [0..Precision -> Nat]
  /\ v[0] = 0
  /\ \A n \in 1..Precision : v[n] = 10 * v[n - 1] + Pad(f, n)

PartIs(f, part) ==
  /\ f \in Fractions /\ Len(f) <= Precision
  /\ \E v : Values(v, f) /\ part = v[Precision]

\* The first digit in which f and g differ is smaller in f.
DigitsLess(f, g, n) ==
  Pad(f, n) < Pad(g, n) /\ \A k \in 1..(n - 1) : Pad(f, k) = Pad(g, k)

LEMMA PadIs ==
  ASSUME NEW f \in Fractions, NEW n \in Nat, n > 0
  PROVE  Pad(f, n) \in Nat /\ Pad(f, n) <= 9
<1>1. CASE n <= Len(f)
  <2>1. n \in 1..Len(f) /\ f \in Seq(0..9)
    BY <1>1 DEF Fractions
  <2>2. f[n] \in 0..9
    BY <2>1
  <2> QED
    BY <1>1, <2>2 DEF Pad
<1>2. CASE ~(n <= Len(f))
  BY <1>2 DEF Pad
<1> QED
  BY <1>1, <1>2

\* The parts of a second are so many of the weight of a digit, and a rest.
LEMMA RestIs ==
  ASSUME NEW f \in Fractions, NEW v, Values(v, f), NEW n \in 0..Precision
  PROVE  \E r \in Nat : r < Weight(n) /\ v[Precision] = v[n] * Weight(n) + r
<1>0. /\ Precision \in Nat
      /\ \A k \in 0..Precision : v[k] \in Nat
      /\ \A k \in 1..Precision : v[k] = 10 * v[k - 1] + Pad(f, k)
  BY ClockAssumption DEF Values
<1> DEFINE R(k) == \E r \in Nat : r < Weight(k) /\ v[Precision] = v[k] * Weight(k) + r
           T == {d \in Nat : d <= Precision => R(Precision - d)}
<1>1. 0 \in T
  <2>1. Weight(Precision) = 1 /\ v[Precision] \in Nat
    BY <1>0, Weights
  <2>2. v[Precision] = v[Precision] * Weight(Precision) + 0
    BY <2>1
  <2>3. R(Precision)
    BY <2>1, <2>2
  <2>4. Precision - 0 = Precision
    BY <1>0
  <2> HIDE DEF R
  <2> QED
    BY <2>3, <2>4
<1>2. ASSUME NEW d \in Nat, d \in T PROVE d + 1 \in T
  <2> SUFFICES ASSUME d + 1 <= Precision PROVE R(Precision - (d + 1))
    OBVIOUS
  <2> DEFINE k == Precision - d
  <2>1. k \in 1..Precision /\ k - 1 \in 0..Precision /\ k - 1 = Precision - (d + 1)
    BY <1>0
  <2>2. R(k)
    BY <1>0, <1>2
  <2> HIDE DEF k
  <2>3. PICK r \in Nat : r < Weight(k) /\ v[Precision] = v[k] * Weight(k) + r
    BY <2>2
  <2>4. PICK w \in Nat, u \in Nat, x \in Nat, p \in Nat :
          /\ w = Weight(k) /\ u = v[k - 1] /\ x = Pad(f, k) /\ p = v[Precision]
          /\ x <= 9 /\ v[k] = 10 * u + x /\ Weight(k - 1) = 10 * w
    <3>1. Weight(k) \in Nat /\ Weight(k - 1) = 10 * Weight(k)
      BY <2>1, Weights
    <3>2. v[k - 1] \in Nat /\ v[k] = 10 * v[k - 1] + Pad(f, k) /\ v[Precision] \in Nat
      BY <1>0, <2>1
    <3>3. Pad(f, k) \in Nat /\ Pad(f, k) <= 9
      BY <2>1, PadIs
    <3> QED
      BY <3>1, <3>2, <3>3
  <2>5. p = (10 * u + x) * w + r /\ r < w
    BY <2>3, <2>4
  <2>6. (10 * u + x) * w = u * (10 * w) + x * w
    BY ONLY u \in Nat, x \in Nat, w \in Nat
  <2>7. x * w \in Nat /\ x * w <= 9 * w
    <3>1. x = 0 \/ x = 1 \/ x = 2 \/ x = 3 \/ x = 4 \/ x = 5 \/ x = 6 \/ x = 7 \/ x = 8 \/ x = 9
      BY ONLY x \in Nat, <2>4
    <3> QED
      BY ONLY <3>1, w \in Nat
  <2>8. x * w + r \in Nat /\ x * w + r < 10 * w /\ p = u * (10 * w) + (x * w + r)
    <3>1. u * (10 * w) \in Nat
      BY ONLY u \in Nat, w \in Nat
    <3> QED
      BY ONLY <2>5, <2>6, <2>7, <3>1, r \in Nat, w \in Nat, p \in Nat
  <2>9. R(k - 1)
    BY <2>4, <2>8
  <2> QED
    BY <2>1, <2>9
<1>3. Nat \subseteq T
  <2> HIDE DEF T
  <2> QED
    BY <1>1, <1>2, Climbs
<1>4. Precision - n \in T /\ Precision - n <= Precision /\ Precision - (Precision - n) = n
  BY <1>0, <1>3
<1> HIDE DEF R
<1> QED
  <2>1. R(n)
    BY <1>4
  <2> QED
    BY <2>1 DEF R

LEMMA ValuesAre ==
  ASSUME NEW v, NEW f, Values(v, f)
  PROVE  /\ \A k \in 0..Precision : v[k] \in Nat
         /\ v[0] = 0
         /\ \A k \in 1..Precision : v[k] = 10 * v[k - 1] + Pad(f, k)
BY DEF Values

\* Fractions are ordered as their parts of a second are.
LEMMA LessValue ==
  ASSUME NEW f \in Fractions, NEW g \in Fractions,
         NEW v, Values(v, f), NEW w, Values(w, g),
         NEW n \in 1..Precision, DigitsLess(f, g, n)
  PROVE  v[Precision] < w[Precision]
<1>a. /\ Precision \in Nat
      /\ \A k \in 0..Precision : v[k] \in Nat
      /\ v[0] = 0
      /\ \A k \in 1..Precision : v[k] = 10 * v[k - 1] + Pad(f, k)
  BY ClockAssumption, ValuesAre
<1>b. /\ \A k \in 0..Precision : w[k] \in Nat
      /\ w[0] = 0
      /\ \A k \in 1..Precision : w[k] = 10 * w[k - 1] + Pad(g, k)
  BY ONLY Values(w, g), ValuesAre
<1>0. /\ Precision \in Nat
      /\ \A k \in 0..Precision : v[k] \in Nat /\ w[k] \in Nat
      /\ v[0] = 0 /\ w[0] = 0
      /\ \A k \in 1..Precision : v[k] = 10 * v[k - 1] + Pad(f, k)
      /\ \A k \in 1..Precision : w[k] = 10 * w[k - 1] + Pad(g, k)
  BY ONLY <1>a, <1>b
<1>1. Pad(f, n) < Pad(g, n) /\ \A k \in 1..(n - 1) : Pad(f, k) = Pad(g, k)
  BY DEF DigitsLess
<1>2. \A k \in 1..Precision : /\ Pad(f, k) \in Nat /\ Pad(f, k) <= 9
                              /\ Pad(g, k) \in Nat /\ Pad(g, k) <= 9
  BY PadIs
<1> DEFINE T == {k \in Nat : k <= Precision => /\ k < n => v[k] = w[k]
                                               /\ k >= n => v[k] < w[k]}
<1>3. 0 \in T
  BY <1>0
<1>4. ASSUME NEW k \in Nat, k \in T PROVE k + 1 \in T
  <2> SUFFICES ASSUME k + 1 <= Precision
               PROVE  /\ k + 1 < n => v[k + 1] = w[k + 1]
                      /\ k + 1 >= n => v[k + 1] < w[k + 1]
    OBVIOUS
  <2>1. /\ k + 1 \in 1..Precision /\ k \in 0..Precision /\ k + 1 - 1 = k
        /\ k < n => v[k] = w[k]
        /\ k >= n => v[k] < w[k]
    BY <1>0, <1>4
  <2>2. /\ v[k + 1] = 10 * v[k] + Pad(f, k + 1) /\ w[k + 1] = 10 * w[k] + Pad(g, k + 1)
        /\ v[k] \in Nat /\ w[k] \in Nat
    BY <1>0, <2>1
  <2>3. /\ Pad(f, k + 1) \in Nat /\ Pad(f, k + 1) <= 9
        /\ Pad(g, k + 1) \in Nat /\ Pad(g, k + 1) <= 9
    BY <1>2, <2>1
  <2>4. CASE k + 1 < n
    <3>1. k + 1 \in 1..(n - 1) /\ k < n
      BY <2>4
    <3>2. Pad(f, k + 1) = Pad(g, k + 1)
      BY <1>1, <3>1
    <3> QED
      BY <2>1, <2>2, <2>4, <3>1, <3>2
  <2>5. CASE k + 1 = n
    <3>1. v[k] = w[k] /\ Pad(f, k + 1) < Pad(g, k + 1)
      BY <1>1, <2>1, <2>5
    <3> QED
      BY ONLY <2>2, <2>3, <2>5, <3>1, n \in Nat
  <2>6. CASE k + 1 > n
    <3>1. v[k] < w[k]
      BY <2>1, <2>6
    <3> QED
      BY ONLY <2>2, <2>3, <2>6, <3>1, n \in Int, k \in Nat
  <2> QED
    BY <2>4, <2>5, <2>6
<1>5. Nat \subseteq T
  <2> HIDE DEF T
  <2> QED
    BY <1>3, <1>4, Climbs
<1> QED
  BY <1>0, <1>5

LEMMA SameValue ==
  ASSUME NEW f, NEW g, NEW v, Values(v, f), NEW w, Values(w, g),
         \A n \in 1..Precision : Pad(f, n) = Pad(g, n)
  PROVE  v[Precision] = w[Precision]
<1>0. /\ Precision \in Nat
      /\ v[0] = 0 /\ w[0] = 0
      /\ \A k \in 1..Precision : v[k] = 10 * v[k - 1] + Pad(f, k)
      /\ \A k \in 1..Precision : w[k] = 10 * w[k - 1] + Pad(g, k)
  BY ClockAssumption, ValuesAre
<1> DEFINE T == {k \in Nat : k <= Precision => v[k] = w[k]}
<1>1. 0 \in T
  BY <1>0
<1>2. ASSUME NEW k \in Nat, k \in T PROVE k + 1 \in T
  <2> SUFFICES ASSUME k + 1 <= Precision PROVE v[k + 1] = w[k + 1]
    OBVIOUS
  <2>1. k + 1 \in 1..Precision /\ k + 1 - 1 = k /\ v[k] = w[k]
    BY <1>0, <1>2
  <2> QED
    BY <1>0, <2>1
<1>3. Nat \subseteq T
  <2> HIDE DEF T
  <2> QED
    BY <1>1, <1>2, Climbs
<1> QED
  BY <1>0, <1>3

LEMMA FirstDigit ==
  ASSUME NEW f \in Fractions, NEW g \in Fractions,
         NEW m \in 1..Precision, Pad(f, m) # Pad(g, m)
  PROVE  \E n \in 1..Precision : DigitsLess(f, g, n) \/ DigitsLess(g, f, n)
<1> DEFINE T == {n \in Nat : n \in 1..Precision /\ Pad(f, n) # Pad(g, n)}
<1>1. PICK n \in T : \A k \in T : n <= k
  <2>1. m \in T /\ T \in SUBSET Nat
    OBVIOUS
  <2> HIDE DEF T
  <2> QED
    BY <2>1, LeastNatural
<1>2. n \in 1..Precision /\ Pad(f, n) # Pad(g, n)
  OBVIOUS
<1>3. ASSUME NEW k \in 1..(n - 1) PROVE Pad(f, k) = Pad(g, k)
  <2>1. n \in Int /\ Precision \in Int /\ n <= Precision
    BY <1>2, ClockAssumption
  <2>2. k \in Nat /\ k \in 1..Precision /\ ~(n <= k)
    BY ONLY <2>1, k \in 1..(n - 1)
  <2> QED
    BY <1>1, <2>2
<1>4. Pad(f, n) \in Nat /\ Pad(g, n) \in Nat
  BY <1>2, PadIs
<1> QED
  BY <1>2, <1>3, <1>4 DEF DigitsLess

LEMMA PartOrder ==
  ASSUME NEW f, NEW p, PartIs(f, p), NEW g, NEW q, PartIs(g, q)
  PROVE  /\ p \in Nat /\ q \in Nat
         /\ p < q <=> \E n \in 1..Precision : DigitsLess(f, g, n)
<1>1. f \in Fractions /\ g \in Fractions
  BY DEF PartIs
<1>2. PICK v : Values(v, f) /\ p = v[Precision]
  BY DEF PartIs
<1>3. PICK w : Values(w, g) /\ q = w[Precision]
  BY DEF PartIs
<1>4. p \in Nat /\ q \in Nat
  BY <1>2, <1>3, ClockAssumption DEF Values
<1>5. ASSUME NEW n \in 1..Precision, DigitsLess(f, g, n) PROVE p < q
  BY <1>1, <1>2, <1>3, <1>5, LessValue
<1>6. ASSUME NEW n \in 1..Precision, DigitsLess(g, f, n) PROVE q < p
  BY <1>1, <1>2, <1>3, <1>6, LessValue
<1>7. ASSUME p < q PROVE \E n \in 1..Precision : DigitsLess(f, g, n)
  <2>1. CASE \A n \in 1..Precision : Pad(f, n) = Pad(g, n)
    <3>1. p = q
      BY <1>2, <1>3, <2>1, SameValue
    <3> QED
      BY <1>4, <1>7, <3>1
  <2>2. CASE \E n \in 1..Precision : Pad(f, n) # Pad(g, n)
    <3>1. PICK n \in 1..Precision : DigitsLess(f, g, n) \/ DigitsLess(g, f, n)
      BY <1>1, <2>2, FirstDigit
    <3>2. ~(q < p)
      BY <1>4, <1>7
    <3> QED
      BY <1>6, <3>1, <3>2
  <2> QED
    BY <2>1, <2>2
<1> QED
  BY <1>4, <1>5, <1>7

-----------------------------------------------------------------------------
(* What the parser keeps of a fraction.                                    *)

LEMMA TrimmedIs ==
  ASSUME NEW f \in Fractions
  PROVE  /\ Trimmed(f) \in Fractions /\ Len(Trimmed(f)) <= Len(f)
         /\ \A n \in Nat \ {0} : Pad(Trimmed(f), n) = Pad(f, n)
<1> DEFINE Ends(n) == /\ n > 0 => f[n] # 0
                      /\ \A i \in (n + 1)..Len(f) : f[i] = 0
           T == {n \in Nat : n <= Len(f) /\ \A i \in (n + 1)..Len(f) : f[i] = 0}
           m == CHOOSE n \in 0..Len(f) : Ends(n)
<1>0. f \in Seq(0..9) /\ Len(f) \in Nat
  BY DEF Fractions
<1>1. \E n \in 0..Len(f) : Ends(n)
  <2>1. PICK n \in T : \A k \in T : n <= k
    <3>1. Len(f) \in T /\ T \in SUBSET Nat
      BY <1>0
    <3> HIDE DEF T
    <3> QED
      BY <3>1, LeastNatural
  <2>2. n \in 0..Len(f) /\ \A i \in (n + 1)..Len(f) : f[i] = 0
    BY <1>0
  <2>3. ASSUME n > 0, f[n] = 0 PROVE FALSE
    <3>1. n - 1 \in Nat /\ n - 1 <= Len(f) /\ ~(n <= n - 1)
      BY <1>0, <2>2, <2>3
    <3>2. ASSUME NEW i \in (n - 1 + 1)..Len(f) PROVE f[i] = 0
      <4>1. i = n \/ i \in (n + 1)..Len(f)
        BY <1>0, <2>2
      <4> QED
        BY <2>2, <2>3, <4>1
    <3>3. n - 1 \in T
      BY <3>1, <3>2
    <3> QED
      BY <2>1, <3>1, <3>3
  <2> QED
    BY <2>2, <2>3
<1>2. m \in 0..Len(f) /\ Ends(m)
  <2> HIDE DEF Ends
  <2> QED
    BY <1>1
<1>3. Trimmed(f) = SubSeq(f, 1, m)
  BY DEF Trimmed
<1> HIDE DEF m
<1>4. m \in Int /\ 1 \in Int /\ \A i \in 1..m : f[i] \in 0..9
  BY <1>0, <1>2
<1>5. Trimmed(f) \in Seq(0..9)
  BY <1>3, <1>4, SubSeqProperties
<1>6. Len(Trimmed(f)) = IF 1 <= m THEN m - 1 + 1 ELSE 0
  BY <1>3, <1>4, SubSeqProperties
<1>7. \A i \in 1..(m - 1 + 1) : Trimmed(f)[i] = f[1 + i - 1]
  BY <1>3, <1>4, SubSeqProperties
<1>8. Len(Trimmed(f)) = m
  BY ONLY <1>2, <1>6, <1>0
<1>9. ASSUME NEW n \in Nat \ {0} PROVE Pad(Trimmed(f), n) = Pad(f, n)
  <2>1. CASE n <= m
    <3>1. n \in 1..(m - 1 + 1) /\ 1 + n - 1 = n /\ n <= Len(f)
      BY <1>0, <1>2, <2>1
    <3>2. Trimmed(f)[n] = f[n]
      BY <1>7, <3>1
    <3> QED
      BY <1>8, <2>1, <3>1, <3>2 DEF Pad
  <2>2. CASE n > m /\ n <= Len(f)
    <3>1. n \in (m + 1)..Len(f)
      BY <1>0, <1>2, <2>2
    <3>2. f[n] = 0
      BY <1>2, <3>1
    <3>3. ~(n <= m)
      BY <1>2, <2>2
    <3> QED
      BY <1>8, <2>2, <3>2, <3>3 DEF Pad
  <2>3. CASE n > Len(f)
    <3>1. ~(n <= m) /\ ~(n <= Len(f))
      BY <1>0, <1>2, <2>3
    <3> QED
      BY <1>8, <3>1 DEF Pad
  <2> QED
    BY <1>0, <1>2, <2>1, <2>2, <2>3
<1> QED
  BY <1>0, <1>2, <1>5, <1>8, <1>9 DEF Fractions

\* Two stamps are compared by seconds, and by their first digits that differ.
LEMMA EarlierIs ==
  ASSUME NEW t, Good(t), Len(t.fraction) <= Precision,
         NEW u, Good(u), Len(u.fraction) <= Precision
  PROVE  Earlier(Parsed(t), Parsed(u))
           <=> \/ ReadAs(t) < ReadAs(u)
               \/ /\ ReadAs(t) = ReadAs(u)
                  /\ \E n \in 1..Precision : DigitsLess(t.fraction, u.fraction, n)
<1> DEFINE f == t.fraction
           g == u.fraction
           i == Parsed(t)
           j == Parsed(u)
<1>0. Precision \in Nat
  BY ClockAssumption
<1>1. f \in Fractions /\ g \in Fractions
  BY StampFields DEF Good
<1>2. /\ i.second = ReadAs(t) /\ i.digits = Trimmed(f)
      /\ j.second = ReadAs(u) /\ j.digits = Trimmed(g)
  BY DEF Parsed, ReadAs
<1>3. /\ Trimmed(f) \in Fractions /\ Len(Trimmed(f)) <= Len(f)
      /\ Trimmed(g) \in Fractions /\ Len(Trimmed(g)) <= Len(g)
      /\ \A n \in Nat \ {0} : Pad(Trimmed(f), n) = Pad(f, n)
      /\ \A n \in Nat \ {0} : Pad(Trimmed(g), n) = Pad(g, n)
  BY <1>1, TrimmedIs
<1>4. \A n \in Nat \ {0} : Digit(i, n) = Pad(f, n) /\ Digit(j, n) = Pad(g, n)
  <2>1. ASSUME NEW n PROVE Digit(i, n) = Pad(Trimmed(f), n)
                           /\ Digit(j, n) = Pad(Trimmed(g), n)
    BY <1>2 DEF Digit, Pad
  <2> QED
    BY ONLY <1>3, <2>1
<1>5. PICK a \in Nat, b \in Nat, w \in Nat :
        /\ a = Len(Trimmed(f)) /\ b = Len(Trimmed(g)) /\ w = Width(i, j)
        /\ a <= w /\ b <= w /\ w <= Precision
  <2>1. Len(Trimmed(f)) \in Nat /\ Len(Trimmed(g)) \in Nat
        /\ Len(f) \in Nat /\ Len(g) \in Nat
    BY <1>1, <1>3 DEF Fractions
  <2>2. Width(i, j) = IF Len(Trimmed(f)) < Len(Trimmed(g)) THEN Len(Trimmed(g))
                                                           ELSE Len(Trimmed(f))
    BY <1>2 DEF Width
  <2>3. Len(f) <= Precision /\ Len(g) <= Precision
    OBVIOUS
  <2> HIDE DEF f, g, i, j
  <2>4. /\ Len(Trimmed(f)) <= Width(i, j) /\ Len(Trimmed(g)) <= Width(i, j)
        /\ Width(i, j) \in Nat /\ Width(i, j) <= Precision
    BY ONLY <1>0, <1>3, <2>1, <2>2, <2>3
  <2> QED
    BY ONLY <2>1, <2>4
<1> HIDE DEF f, g, i, j
<1>6. ASSUME NEW n \in 1..w, Digit(i, n) < Digit(j, n),
             \A k \in 1..(n - 1) : Digit(i, k) = Digit(j, k)
      PROVE  n \in 1..Precision /\ DigitsLess(f, g, n)
  <2>1. n \in 1..Precision /\ n \in Nat \ {0} /\ \A k \in 1..(n - 1) : k \in Nat \ {0}
    BY <1>0, <1>5
  <2> QED
    BY <1>4, <1>6, <2>1 DEF DigitsLess
<1>7. ASSUME NEW n \in 1..Precision, DigitsLess(f, g, n)
      PROVE  /\ n \in 1..w /\ Digit(i, n) < Digit(j, n)
             /\ \A k \in 1..(n - 1) : Digit(i, k) = Digit(j, k)
  <2>1. n \in Nat \ {0} /\ \A k \in 1..(n - 1) : k \in Nat \ {0}
    BY <1>0
  <2>2. /\ Pad(f, n) < Pad(g, n) /\ \A k \in 1..(n - 1) : Pad(f, k) = Pad(g, k)
        /\ Pad(f, n) \in Nat /\ Pad(g, n) \in Nat
    BY <1>1, <1>7, <2>1, PadIs DEF DigitsLess
  <2>3. Pad(Trimmed(g), n) # 0
    BY <1>3, <2>1, <2>2
  <2>4. n <= b
    BY <1>5, <2>3 DEF Pad
  <2> QED
    BY <1>4, <1>5, <2>1, <2>2, <2>4
<1>8. Earlier(i, j) <=> \/ i.second < j.second
                        \/ /\ i.second = j.second
                           /\ \E n \in 1..w : /\ Digit(i, n) < Digit(j, n)
                                              /\ \A k \in 1..(n - 1) : Digit(i, k) = Digit(j, k)
  BY <1>5 DEF Earlier
<1>9. (\E n \in 1..w : /\ Digit(i, n) < Digit(j, n)
                       /\ \A k \in 1..(n - 1) : Digit(i, k) = Digit(j, k))
        <=> \E n \in 1..Precision : DigitsLess(f, g, n)
  BY <1>6, <1>7
<1>10. Earlier(i, j) <=> \/ ReadAs(t) < ReadAs(u)
                         \/ /\ ReadAs(t) = ReadAs(u)
                            /\ \E n \in 1..Precision : DigitsLess(f, g, n)
  BY ONLY <1>2, <1>8, <1>9
<1> QED
  BY <1>10 DEF f, g, i, j

-----------------------------------------------------------------------------
(* A digit that is shown.                                                  *)

LEMMA ModIs ==
  ASSUME NEW a \in Nat, NEW m \in Nat, m > 0, NEW r \in Nat, r < m
  PROVE  (a * m + r) - ((a * m + r) % m) = a * m
<1> DEFINE p == a * m + r
           q == p \div m
           x == p % m
<1>1. p \in Nat /\ a * m \in Nat
  OBVIOUS
<1>2. q \in Int /\ x \in Int /\ 0 <= x /\ x < m /\ p = m * q + x
  <2> HIDE DEF p
  <2> QED
    BY <1>1
<1> HIDE DEF q, x
<1>3. ASSUME q < a PROVE FALSE
  <2>1. PICK e \in Nat : a = q + 1 + e
    <3>1. a - q - 1 \in Nat /\ a = q + 1 + (a - q - 1)
      BY <1>2, <1>3
    <3> QED
      BY <3>1
  <2>2. a * m = m * q + m + e * m /\ e * m \in Nat /\ m * q \in Int
    BY <1>2, <2>1
  <2> QED
    BY <1>1, <1>2, <2>2
<1>4. ASSUME a < q PROVE FALSE
  <2>1. PICK e \in Nat : q = a + 1 + e
    <3>1. q - a - 1 \in Nat /\ q = a + 1 + (q - a - 1)
      BY <1>2, <1>4
    <3> QED
      BY <3>1
  <2>2. m * q = a * m + m + e * m /\ e * m \in Nat
    BY <1>2, <2>1
  <2> QED
    BY <1>1, <1>2, <2>2
<1>5. q = a
  BY <1>2, <1>3, <1>4
<1>6. p - x = a * m
  BY <1>1, <1>2, <1>5
<1> QED
  BY <1>6 DEF x

\* g is f with d for its n-th digit, and none after it.
Shows(f, n, d, g) ==
  /\ f \in Fractions /\ n \in Nat \ {0} /\ n <= Len(f) + 1 /\ d \in 0..9
  /\ g = Append(SubSeq(f, 1, n - 1), d)

LEMMA ShownPads ==
  ASSUME NEW f, NEW n, NEW d, NEW g, Shows(f, n, d, g)
  PROVE  /\ g \in Fractions /\ Len(g) = n
         /\ \A k \in 1..(n - 1) : Pad(g, k) = Pad(f, k)
         /\ Pad(g, n) = d
         /\ \A k \in Nat : k > n => Pad(g, k) = 0
<1> DEFINE h == SubSeq(f, 1, n - 1)
<1>0. /\ f \in Seq(0..9) /\ Len(f) \in Nat
      /\ n \in Nat \ {0} /\ n <= Len(f) + 1 /\ d \in 0..9
      /\ g = Append(h, d)
  BY DEF Fractions, Shows
<1>1. n - 1 \in Int /\ 1 \in Int /\ \A i \in 1..(n - 1) : f[i] \in 0..9
  BY <1>0
<1>2. h \in Seq(0..9)
  BY <1>1, SubSeqProperties
<1>3. Len(h) = IF 1 <= n - 1 THEN n - 1 - 1 + 1 ELSE 0
  BY <1>1, SubSeqProperties
<1>4. \A i \in 1..(n - 1 - 1 + 1) : h[i] = f[1 + i - 1]
  BY <1>1, SubSeqProperties
<1>5. Len(h) = n - 1
  BY ONLY <1>0, <1>3
<1> HIDE DEF h
<1>7. /\ g \in Seq(0..9) /\ Len(g) = n
      /\ \A k \in 1..(n - 1) : g[k] = h[k]
      /\ g[n] = d
  <2>1. /\ g \in Seq(0..9) /\ Len(g) = Len(h) + 1
        /\ \A k \in 1..Len(h) : g[k] = h[k]
        /\ g[Len(h) + 1] = d
    BY <1>0, <1>2, AppendProperties
  <2>2. n - 1 + 1 = n
    BY <1>0
  <2> QED
    BY <1>5, <2>1, <2>2
<1>8. ASSUME NEW k \in 1..(n - 1) PROVE Pad(g, k) = Pad(f, k)
  <2>1. k \in 1..(n - 1 - 1 + 1) /\ 1 + k - 1 = k /\ k <= n /\ k <= Len(f)
    BY <1>0
  <2>2. g[k] = f[k]
    BY <1>4, <1>7, <2>1
  <2> QED
    BY <1>0, <1>7, <2>1, <2>2 DEF Pad
<1>9. Pad(g, n) = d
  BY <1>0, <1>7 DEF Pad
<1>10. ASSUME NEW k \in Nat, k > n PROVE Pad(g, k) = 0
  BY <1>0, <1>7, <1>10 DEF Pad
<1> QED
  BY <1>7, <1>8, <1>9, <1>10 DEF Fractions

\* The digit that is shown is worth what the clock counts for it, and its count
\* does not go back.
LEMMA DigitCounts ==
  ASSUME NEW f, NEW p, PartIs(f, p), NEW n \in 1..Precision, n <= Len(f) + 1,
         NEW d \in 0..9, n <= Len(f) => d > f[n],
         NEW g, g = Append(SubSeq(f, 1, n - 1), d),
         NEW q, q = (p - (p % Weight(n - 1))) + d * Weight(n)
  PROVE  PartIs(g, q) /\ p <= q
<1>0. /\ Precision \in Nat /\ n \in Nat \ {0} /\ n <= Precision /\ n - 1 \in 0..Precision
      /\ n \in 0..Precision /\ n - 1 \in Nat
  BY ClockAssumption
<1>1. f \in Fractions /\ Len(f) \in Nat
  BY DEF PartIs, Fractions
<1>2. PICK v : Values(v, f) /\ p = v[Precision]
  BY DEF PartIs
<1>3. /\ g \in Fractions /\ Len(g) = n
      /\ \A k \in 1..(n - 1) : Pad(g, k) = Pad(f, k)
      /\ Pad(g, n) = d
      /\ \A k \in Nat : k > n => Pad(g, k) = 0
  <2>1. Shows(f, n, d, g)
    BY <1>0, <1>1 DEF Shows
  <2> QED
    BY ONLY <2>1, ShownPads
<1>4. /\ \A k \in 0..Precision : v[k] \in Nat
      /\ v[0] = 0
      /\ \A k \in 1..Precision : v[k] = 10 * v[k - 1] + Pad(f, k)
  BY <1>2 DEF Values
<1>5. PICK top \in Nat : top = 10 * v[n - 1] + d
  <2>1. v[n - 1] \in Nat /\ d \in Nat
    BY <1>0, <1>4
  <2>2. 10 * v[n - 1] + d \in Nat
    BY ONLY <2>1
  <2> QED
    BY <2>2
<1> DEFINE w == [k \in 0..Precision |->
                   IF k < n THEN v[k] ELSE top * Weight(Precision - (k - n))]
<1>6. /\ \A k \in 0..(n - 1) : w[k] = v[k]
      /\ \A k \in n..Precision : w[k] = top * Weight(Precision - (k - n))
  BY <1>0
<1>7. w \in [0..Precision -> Nat]
  <2>1. ASSUME NEW k \in 0..Precision, ~(k < n)
        PROVE  top * Weight(Precision - (k - n)) \in Nat
    <3>1. Precision - (k - n) \in 0..Precision
      BY <1>0, <2>1
    <3>2. Weight(Precision - (k - n)) \in Nat
      BY <3>1, Weights
    <3> QED
      BY <3>2
  <2> QED
    BY <1>4, <2>1
<1> HIDE DEF w
<1>8. ASSUME NEW k \in 1..Precision PROVE w[k] = 10 * w[k - 1] + Pad(g, k)
  <2>1. CASE k < n
    <3>1. k \in 0..(n - 1) /\ k - 1 \in 0..(n - 1) /\ k \in 1..(n - 1)
      BY <1>0, <2>1
    <3>2. Pad(g, k) = Pad(f, k)
      BY <1>3, <3>1
    <3> QED
      BY <1>4, <1>6, <3>1, <3>2
  <2>2. CASE k = n
    <3>1. n - 1 \in 0..(n - 1) /\ n \in n..Precision /\ Precision - (n - n) = Precision
      BY <1>0
    <3>2. w[n] = top * Weight(Precision) /\ w[n - 1] = v[n - 1]
      BY <1>6, <3>1
    <3>3. w[n] = top
      BY <3>2, Weights
    <3> QED
      BY <1>3, <1>5, <2>2, <3>2, <3>3
  <2>3. CASE k > n
    <3> DEFINE m == Precision - (k - n)
    <3>1. /\ k \in n..Precision /\ k - 1 \in n..Precision
          /\ m + 1 \in 1..Precision /\ m \in Int
          /\ Precision - (k - 1 - n) = m + 1
      BY <1>0, <2>3
    <3>2. w[k] = top * Weight(m) /\ w[k - 1] = top * Weight(m + 1)
      BY <1>6, <3>1
    <3> HIDE DEF m
    <3>3. Weight(m) = 10 * Weight(m + 1) /\ Weight(m + 1) \in Nat
      <4>1. m + 1 \in 0..Precision
        BY <1>0, <3>1
      <4>i. PICK i \in 1..Precision : i = m + 1 /\ i - 1 = m
        <5>1. \A x \in Int : x + 1 - 1 = x
          BY ONLY SMT
        <5> m + 1 \in 1..Precision
          BY ONLY <3>1
        <5> WITNESS m + 1 \in 1..Precision
        <5> QED
          BY ONLY <3>1, <5>1
      <4>2. Weight(i - 1) = 10 * Weight(i)
        BY ONLY Weights
      <4>3. Weight(m + 1) \in Nat
        BY <4>1, Weights
      <4> QED
        BY ONLY <4>i, <4>2, <4>3
    <3>4. top * (10 * Weight(m + 1)) = 10 * (top * Weight(m + 1))
          /\ top * Weight(m + 1) \in Nat
      BY ONLY <3>3, top \in Nat
    <3>5. Pad(g, k) = 0
      BY <1>3, <2>3
    <3> QED
      BY <3>2, <3>3, <3>4, <3>5
  <2> QED
    BY <1>0, <2>1, <2>2, <2>3
<1>9. Values(w, g)
  <2>1. w[0] = 0
    <3>1. 0 \in 0..(n - 1)
      BY <1>0
    <3> QED
      BY ONLY <1>4, <1>6, <3>1
  <2> QED
    BY <1>7, <1>8, <2>1 DEF Values
<1>10. q = w[Precision]
  <2>1. PICK r \in Nat : r < Weight(n - 1) /\ p = v[n - 1] * Weight(n - 1) + r
    BY <1>0, <1>1, <1>2, RestIs
  <2>2. PICK a \in Nat, x \in Nat :
          a = v[n - 1] /\ x = Weight(n) /\ Weight(n - 1) = 10 * x /\ x > 0
    BY <1>0, <1>4, Weights
  <2>3. p - (p % Weight(n - 1)) = a * (10 * x)
    <3>1. p = a * (10 * x) + r /\ r < 10 * x /\ 10 * x \in Nat /\ 10 * x > 0
      <4>1. v[n - 1] * Weight(n - 1) = a * (10 * x)
        BY ONLY <2>2
      <4> QED
        BY ONLY <2>1, <2>2, <4>1, x \in Nat
    <3>2. (a * (10 * x) + r) - ((a * (10 * x) + r) % (10 * x)) = a * (10 * x)
      BY <3>1, ModIs
    <3> QED
      BY <2>2, <3>1, <3>2
  <2>4. Precision \in n..Precision /\ Precision - (Precision - n) = n
    BY <1>0
  <2>5. w[Precision] = (10 * a + d) * x
    BY <1>5, <1>6, <2>2, <2>4
  <2>6. (10 * a + d) * x = a * (10 * x) + d * x
    BY ONLY a \in Nat, x \in Nat, d \in 0..9
  <2> QED
    BY <2>2, <2>3, <2>5, <2>6
<1>11. PartIs(g, q)
  BY <1>0, <1>3, <1>9, <1>10 DEF PartIs
<1>12. p <= q
  <2>1. p \in Nat /\ q \in Nat
    BY <1>11, PartOrder
  <2>2. CASE n <= Len(f) \/ d > 0
    <3>1. Pad(f, n) < Pad(g, n)
      <4>1. CASE n <= Len(f)
        BY <1>3, <4>1 DEF Pad
      <4>2. CASE ~(n <= Len(f))
        BY <1>3, <2>2, <4>2 DEF Pad
      <4> QED
        BY <4>1, <4>2
    <3>2. DigitsLess(f, g, n)
      BY <1>3, <3>1 DEF DigitsLess
    <3>3. p < q
      BY <1>11, <3>2, PartOrder
    <3> QED
      BY <2>1, <3>3
  <2>3. CASE ~(n <= Len(f)) /\ d = 0
    <3>1. ASSUME NEW k \in 1..Precision PROVE Pad(f, k) = Pad(g, k)
      <4>1. CASE k < n
        <5>1. k \in 1..(n - 1)
          BY <1>0, <4>1
        <5> QED
          BY <1>3, <5>1
      <4>2. CASE k = n
        BY <1>3, <2>3, <4>2 DEF Pad
      <4>3. CASE k > n
        <5>1. ~(k <= Len(f)) /\ k \in Nat
          BY <1>0, <1>1, <2>3, <4>3
        <5> QED
          BY <1>3, <4>3, <5>1 DEF Pad
      <4> QED
        BY <1>0, <4>1, <4>2, <4>3
    <3>2. p = q
      BY <1>2, <1>9, <1>10, <3>1, SameValue
    <3> QED
      BY <2>1, <3>2
  <2> QED
    BY <2>2, <2>3
<1> QED
  BY <1>11, <1>12

-----------------------------------------------------------------------------
(* The clock, and what was taken off it, in parts of a second.             *)

\* A stamp reads as a count of seconds, and its fraction as the part.
Reads(t, count) ==
  /\ count \in [second: Int, part: Nat]
  /\ Good(t) /\ ReadAs(t) = count.second
  /\ PartIs(t.fraction, count.part)

NotBefore(a, b) ==
  a.second < b.second \/ (a.second = b.second /\ a.part <= b.part)

OrderInv ==
  /\ CountInv
  /\ now \in [second: Int, part: Nat] /\ PartIs(shown.fraction, now.part)
  /\ Reads(mark, marked)
  /\ NotBefore(marked, now)

LEMMA NoFraction == PartIs(<<>>, 0)
<1> DEFINE v == [k \in 0..Precision |-> 0]
<1>1. <<>> \in Fractions /\ Len(<<>>) = 0 /\ Precision \in Nat
  BY ClockAssumption DEF Fractions
<1>2. \A n \in 1..Precision : Pad(<<>>, n) = 0
  BY <1>1 DEF Pad
<1>3. v \in [0..Precision -> Nat] /\ v[0] = 0 /\ v[Precision] = 0
      /\ \A n \in 1..Precision : v[n] = 10 * v[n - 1]
  BY <1>1
<1> HIDE DEF v
<1>4. Values(v, <<>>)
  BY <1>2, <1>3 DEF Values
<1> QED
  BY <1>1, <1>3, <1>4 DEF PartIs

LEMMA OrderStep ==
  ASSUME OrderInv, [Next]_vars
  PROVE  /\ now' \in [second: Int, part: Nat] /\ PartIs(shown'.fraction, now'.part)
         /\ Reads(mark', marked')
         /\ NotBefore(marked', now')
<1>1. /\ Good(shown) /\ ReadAs(shown) = now.second
      /\ now \in [second: Int, part: Nat] /\ PartIs(shown.fraction, now.part)
      /\ Reads(mark, marked) /\ NotBefore(marked, now)
      /\ marked \in [second: Int, part: Nat]
      /\ shown \in Stamps /\ shown.offset \in Offsets /\ shown.fraction \in Fractions
      /\ OffsetParses(shown.offset)
  BY StampFields DEF OrderInv, CountInv, Reads, Good, Parses
<1>2. ASSUME NEW unit \in Units, Advance(unit)
      PROVE  /\ now' \in [second: Int, part: Nat]
             /\ PartIs(shown'.fraction, now'.part)
             /\ mark' = mark /\ marked' = marked /\ NotBefore(marked, now')
  <2> DEFINE u == Later(shown, unit)
  <2>1. unit \in {1, 60, 3600, 86400} /\ unit \in Nat /\ unit > 0
    BY ClockAssumption
  <2>2. u \in Stamps /\ u.fraction = shown.fraction
    BY <1>1, <1>2, <2>1, LaterCarries DEF Advance, LaterBy, Good
  <2>3. shown' = [u EXCEPT !.fraction = IF unit = 1 THEN <<>> ELSE u.fraction]
    BY <1>2 DEF Advance
  <2>4. now' = [second |-> now.second + unit, part |-> IF unit = 1 THEN 0 ELSE now.part]
        /\ mark' = mark /\ marked' = marked
    BY <1>2 DEF Advance
  <2> HIDE DEF u
  <2>5. shown'.fraction = IF unit = 1 THEN <<>> ELSE shown.fraction
    BY <2>2, <2>3 DEF Stamps
  <2>6. PartIs(shown'.fraction, now'.part)
    <3>1. CASE unit = 1
      BY <2>4, <2>5, <3>1, NoFraction
    <3>2. CASE unit # 1
      BY <1>1, <2>4, <2>5, <3>2
    <3> QED
      BY <3>1, <3>2
  <2>7. now' \in [second: Int, part: Nat]
    BY <1>1, <2>1, <2>4
  <2>8. marked.second < now'.second
    BY <1>1, <2>1, <2>4 DEF NotBefore
  <2> QED
    BY <2>4, <2>6, <2>7, <2>8 DEF NotBefore
<1>3. ASSUME NEW n \in 1..Precision, NEW d \in Digits, ShowDigit(n, d)
      PROVE  /\ now' \in [second: Int, part: Nat]
             /\ PartIs(shown'.fraction, now'.part)
             /\ mark' = mark /\ marked' = marked /\ NotBefore(marked, now')
  <2> DEFINE f == shown.fraction
             g == Append(SubSeq(f, 1, n - 1), d)
             p == now.part
             q == (p - (p % Weight(n - 1))) + d * Weight(n)
  <2>1. d \in 0..9
    BY ClockAssumption
  <2>2. n <= Len(f) + 1 /\ (n <= Len(f) => d > f[n])
    BY <1>3 DEF ShowDigit
  <2>3. shown' = [shown EXCEPT !.fraction = g] /\ now' = [now EXCEPT !.part = q]
        /\ mark' = mark /\ marked' = marked
    BY <1>3 DEF ShowDigit
  <2>4. PartIs(f, p)
    BY <1>1
  <2>5. g = Append(SubSeq(f, 1, n - 1), d)
        /\ q = (p - (p % Weight(n - 1))) + d * Weight(n)
    OBVIOUS
  <2> HIDE DEF f, g, p, q
  <2>6. PartIs(g, q) /\ p <= q
    BY ONLY n \in 1..Precision, <2>1, <2>2, <2>4, <2>5, DigitCounts
  <2>7. p \in Nat /\ q \in Nat
    BY <2>4, <2>6, PartOrder
  <2>8. shown'.fraction = g
    BY <1>1, <2>3 DEF Stamps
  <2>9. now' \in [second: Int, part: Nat] /\ now'.second = now.second /\ now'.part = q
    BY <1>1, <2>3, <2>7
  <2>10. NotBefore(marked, now')
    BY <1>1, <2>6, <2>7, <2>9 DEF NotBefore, p
  <2> QED
    BY <2>3, <2>6, <2>8, <2>9, <2>10
<1>4. ASSUME NEW unit \in Carries, CarryEast(unit)
      PROVE  /\ now' = now /\ mark' = mark /\ marked' = marked
             /\ shown'.fraction = shown.fraction
  <2> DEFINE u == Later(shown, unit)
             o == Offset(OffsetSeconds(shown.offset) + unit)
  <2>1. unit \in {1, 60, 3600, 86400}
    BY ClockAssumption
  <2>2. u \in Stamps /\ u.fraction = shown.fraction
    BY <1>1, <1>4, <2>1, LaterCarries DEF CarryEast, LaterBy, Good
  <2>3. shown' = [u EXCEPT !.offset = o]
    BY <1>4 DEF CarryEast
  <2> HIDE DEF u, o
  <2>4. shown'.fraction = shown.fraction
    BY <2>2, <2>3 DEF Stamps
  <2> QED
    BY <1>4, <2>4 DEF CarryEast
<1>5. ASSUME Mark
      PROVE  /\ now' = now /\ shown' = shown /\ Reads(mark', marked')
             /\ NotBefore(marked', now')
  <2>1. shown' = shown /\ now' = now /\ mark' = shown /\ marked' = now
    BY <1>5 DEF Mark
  <2>2. Reads(shown, now)
    BY <1>1 DEF Reads
  <2>3. NotBefore(now, now)
    BY <1>1 DEF NotBefore
  <2> QED
    BY <2>1, <2>2, <2>3
<1>6. CASE UNCHANGED vars
  BY <1>1, <1>6 DEF vars
<1>7. CASE \E unit \in Units : Advance(unit)
  BY <1>1, <1>2, <1>7
<1>8. CASE \E n \in 1..Precision, d \in Digits : ShowDigit(n, d)
  BY <1>1, <1>3, <1>8
<1>9. CASE \E unit \in Carries : CarryEast(unit)
  BY <1>1, <1>4, <1>9
<1>10. CASE Mark
  BY <1>1, <1>5, <1>10
<1> QED
  BY <1>6, <1>7, <1>8, <1>9, <1>10 DEF Next

LEMMA OrderInits == Init => OrderInv
<1> SUFFICES ASSUME Init PROVE OrderInv
  OBVIOUS
<1>1. PICK s \in Starts : shown = s.stamp /\ now = [second |-> s.second, part |-> 0]
                          /\ mark = shown /\ marked = now
  BY DEF Init
<1>2. /\ Good(shown) /\ shown.fraction = <<>> /\ s.second \in Int
      /\ ReadAs(shown) = s.second
  BY <1>1, StartsAssumption DEF Good, ReadAs, Parsed
<1>3. now \in [second: Int, part: Nat] /\ now.part = 0 /\ now.second = s.second
  BY <1>1, <1>2
<1>4. PartIs(shown.fraction, now.part)
  BY <1>2, <1>3, NoFraction
<1>5. NotBefore(now, now)
  BY <1>3 DEF NotBefore
<1> QED
  BY <1>1, <1>2, <1>3, <1>4, <1>5 DEF OrderInv, CountInv, Reads

LEMMA ReadingOrders ==
  ASSUME NEW t, NEW a, Reads(t, a), NEW u, NEW b, Reads(u, b)
  PROVE  Earlier(Parsed(t), Parsed(u))
           <=> a.second < b.second \/ (a.second = b.second /\ a.part < b.part)
<1>1. /\ Good(t) /\ ReadAs(t) = a.second /\ PartIs(t.fraction, a.part)
      /\ Good(u) /\ ReadAs(u) = b.second /\ PartIs(u.fraction, b.part)
  BY DEF Reads
<1>2. Len(t.fraction) <= Precision /\ Len(u.fraction) <= Precision
  BY <1>1 DEF PartIs
<1>3. Earlier(Parsed(t), Parsed(u))
        <=> \/ ReadAs(t) < ReadAs(u)
            \/ /\ ReadAs(t) = ReadAs(u)
               /\ \E n \in 1..Precision : DigitsLess(t.fraction, u.fraction, n)
  BY <1>1, <1>2, EarlierIs
<1>4. a.part < b.part <=> \E n \in 1..Precision : DigitsLess(t.fraction, u.fraction, n)
  BY <1>1, PartOrder
<1> QED
  BY <1>1, <1>3, <1>4

(* However long the clock ticks, the mark and the clock each read as the   *)
(* instant they counted, and the mark is never after the clock.            *)
THEOREM OrderIsKept == Spec => []OrderInv
<1>1. OrderInv /\ CountInv' /\ [Next]_vars => OrderInv'
  <2> SUFFICES ASSUME OrderInv, CountInv', [Next]_vars PROVE OrderInv'
    OBVIOUS
  <2>1. /\ now' \in [second: Int, part: Nat] /\ PartIs(shown'.fraction, now'.part)
        /\ Reads(mark', marked')
        /\ NotBefore(marked', now')
    BY OrderStep
  <2> QED
    BY <2>1 DEF OrderInv, PartIs, Reads, NotBefore
<1> QED
  BY <1>1, OrderInits, CountIsKept, PTL DEF Spec

\* However many digits a fraction has, two stamps are ordered as the instants
\* they were taken at, at whatever offsets they are shown.
THEOREM OrderIsRight == Spec => []OrderIsTime
<1>1. OrderInv => OrderIsTime
  <2> SUFFICES ASSUME OrderInv PROVE OrderIsTime
    OBVIOUS
  <2>1. /\ Reads(mark, marked) /\ Reads(shown, now) /\ NotBefore(marked, now)
        /\ now \in [second: Int, part: Nat] /\ marked \in [second: Int, part: Nat]
    BY DEF OrderInv, CountInv, Reads
  <2>2. Earlier(Parsed(mark), Parsed(shown))
          <=> \/ marked.second < now.second
              \/ marked.second = now.second /\ marked.part < now.part
    BY <2>1, ReadingOrders
  <2>3. Earlier(Parsed(shown), Parsed(mark))
          <=> \/ now.second < marked.second
              \/ now.second = marked.second /\ now.part < marked.part
    BY <2>1, ReadingOrders
  <2>4. ~Earlier(Parsed(shown), Parsed(mark))
    BY <2>1, <2>3 DEF NotBefore
  <2>5. marked = now <=> marked.second = now.second /\ marked.part = now.part
    BY <2>1
  <2>6. SameInstant(Parsed(mark), Parsed(shown)) <=> marked = now
    BY <2>1, <2>2, <2>4, <2>5 DEF SameInstant, NotBefore
  <2> QED
    BY <2>2, <2>4, <2>6 DEF OrderIsTime
<1> QED
  BY <1>1, OrderIsKept, PTL
=============================================================================
