---------------------------- MODULE TimerProofs -----------------------------
(***************************************************************************)
(* Theorems about timer.c and the division under it.                       *)
(*                                                                         *)
(* Calendar: my_mktime numbers the days as the calendar counts them, and   *)
(* what the clock chip shows is converted to the seconds since 1970, on    *)
(* every date the chip can show and at every time of day.                  *)
(*                                                                         *)
(* Rtc: the time timer_init reads is right, for every speed of the chip    *)
(* and every moment the poll may end in, as long as the chip raises its    *)
(* update bit at least as many accesses ahead as there are reads.          *)
(*                                                                         *)
(* Udivmod: the division is exact whatever the width of a word.  den is    *)
(* always den0 * qbit; what has been subtracted from num is quot * den0;   *)
(* and before each step of the second loop num is less than 2 * den,       *)
(* because the first loop shifted den up to the top bit.  The history set  *)
(* qbits stands for "qbit is a power of two".                              *)
(*                                                                         *)
(* Clock: whenever a division is under way it is one of a counter that     *)
(* never falls behind the one usleep began with; a time is the quotient,   *)
(* in microseconds, modulo ULONG; so the difference of two times, modulo   *)
(* ULONG, is at most the time that passed.                                 *)
(***************************************************************************)
EXTENDS Rtc, Clock, TLAPS


\* Ranges; the provers do better with inequalities than with intervals.
Year    == {n \in Nat : 1970 <= n /\ n <= 2069}
Month   == {n \in Nat : 1 <= n /\ n <= 12}
MonthDay == {n \in Nat : 1 <= n /\ n <= 31}
TwoDigits == {n \in Nat : n <= 99}
DayNumber == {n \in Nat : n <= 40000}

\* The date is a date, and my_mktime's day number counts the days.
CalendarInv ==
  /\ year \in Year /\ year <= LastYear
  /\ mon \in Month
  /\ day \in MonthDay /\ day <= DaysIn(year, mon)
  /\ days = mktime_days(year, mon, day)

LEMMA DaysInRange ==
  ASSUME NEW y \in Year, NEW m \in Month
  PROVE  DaysIn(y, m) \in MonthDay /\ 28 <= DaysIn(y, m)
  BY SMT DEF DaysIn, Month, MonthDay

\* bcd2bin undoes the chip's encoding of every number a register shows.
LEMMA BcdRoundTrip ==
  ASSUME NEW n \in TwoDigits, NEW bin \in BOOLEAN
  PROVE  (IF bin THEN Encode(n, bin) ELSE bcd2bin(Encode(n, bin))) = n
  <1>1. CASE bin
    BY <1>1, Zenon DEF Encode
  <1>2. CASE ~bin
    <2>1. Encode(n, bin) = 16 * (n \div 10) + (n % 10)
      BY <1>2, SMT DEF Encode
    <2>2. bcd2bin(16 * (n \div 10) + (n % 10)) = n
      BY SMT DEF bcd2bin, TwoDigits
    <2> QED BY <1>2, <2>1, <2>2, SMT
  <1> QED BY <1>1, <1>2

\* The year window maps the register back to the year.
LEMMA YearWindow ==
  ASSUME NEW y \in Year
  PROVE  y % 100 \in TwoDigits /\ tm_year(y % 100) + epoch = y
  BY SMT DEF tm_year, epoch, Year, TwoDigits

\* The next day of the same month has the next number.
LEMMA SameMonth ==
  ASSUME NEW y \in Year, NEW m \in Month, NEW d \in MonthDay
  PROVE  mktime_days(y, m, d + 1) = mktime_days(y, m, d) + 1
  BY SMT DEF mktime_days, Year, Month, MonthDay

\* So has the first day of the next month, February in leap years included.
LEMMA NextMonth ==
  ASSUME NEW y \in Year, NEW m \in Month, m < 12
  PROVE  mktime_days(y, m + 1, 1) = mktime_days(y, m, DaysIn(y, m)) + 1
  <1> USE DEF Year, Month
  <1>1. CASE m = 1
    BY <1>1, SMT DEF mktime_days, DaysIn
  <1>2. CASE m = 2
    <2>1. mktime_days(y, 3, 1) =
            (y \div 4) - (y \div 100) + (y \div 400) + 31 + y * 365 - 719499
      BY SMT DEF mktime_days
    <2>2. mktime_days(y, 2, DaysIn(y, 2)) =
            ((y - 1) \div 4) - ((y - 1) \div 100) + ((y - 1) \div 400) + 367
              + DaysIn(y, 2) + (y - 1) * 365 - 719499
      BY SMT DEF mktime_days, DaysIn
    <2>3. CASE Leap(y)
      BY <1>2, <2>1, <2>2, <2>3, SMT DEF DaysIn, Leap
    <2>4. CASE ~Leap(y)
      BY <1>2, <2>1, <2>2, <2>4, SMT DEF DaysIn, Leap
    <2> QED BY <2>3, <2>4
  <1>3. CASE m = 3  BY <1>3, SMT DEF mktime_days, DaysIn
  <1>4. CASE m = 4  BY <1>4, SMT DEF mktime_days, DaysIn
  <1>5. CASE m = 5  BY <1>5, SMT DEF mktime_days, DaysIn
  <1>6. CASE m = 6  BY <1>6, SMT DEF mktime_days, DaysIn
  <1>7. CASE m = 7  BY <1>7, SMT DEF mktime_days, DaysIn
  <1>8. CASE m = 8  BY <1>8, SMT DEF mktime_days, DaysIn
  <1>9. CASE m = 9  BY <1>9, SMT DEF mktime_days, DaysIn
  <1>10. CASE m = 10  BY <1>10, SMT DEF mktime_days, DaysIn
  <1>11. CASE m = 11  BY <1>11, SMT DEF mktime_days, DaysIn
  <1> QED
    BY <1>1, <1>2, <1>3, <1>4, <1>5, <1>6, <1>7, <1>8, <1>9, <1>10, <1>11, SMT

\* So has New Year's Day.
LEMMA NextYear ==
  ASSUME NEW y \in Year
  PROVE  mktime_days(y + 1, 1, 1) = mktime_days(y, 12, 31) + 1
  BY SMT DEF mktime_days, Year

LEMMA DayZero == mktime_days(1970, 1, 1) = 0
  BY SMT DEF mktime_days

\* A day number is natural and far below 2^32 / 86400.
LEMMA DayBound ==
  ASSUME NEW y \in Year, NEW m \in Month, NEW d \in MonthDay
  PROVE  mktime_days(y, m, d) \in DayNumber
  <1> DEFINE z == IF 0 >= m - 2 THEN y - 1 ELSE y
             n == IF 0 >= m - 2 THEN m + 10 ELSE m - 2
             a == z \div 4
             b == z \div 100
             c == z \div 400
             e == (367 * n) \div 12
  <1>1. mktime_days(y, m, d) = (a - b + c + e + d) + z * 365 - 719499
    BY SMT DEF mktime_days
  <1>2. /\ z \in Int /\ n \in Int /\ 1 <= n /\ n <= 12
        /\ 1969 <= z /\ z <= 2069 /\ (z = 1969 => n >= 11)
    BY SMT DEF Year, Month
  <1> HIDE DEF z, n
  <1>3. /\ a \in Int /\ b \in Int /\ c \in Int /\ e \in Int
        /\ 492 <= a /\ a <= 517 /\ 19 <= b /\ b <= 20 /\ 4 <= c /\ c <= 5
        /\ 30 <= e /\ e <= 367 /\ (n >= 11 => e >= 336) /\ (z < 2000 => b = 19)
    BY <1>2, SMT
  <1>4. d \in Int /\ 1 <= d /\ d <= 31
    BY SMT DEF MonthDay
  <1> HIDE DEF a, b, c, e
  <1>5. /\ (a - b + c + e + d) + z * 365 - 719499 \in Int
        /\ (a - b + c + e + d) + z * 365 - 719499 <= 40000
    BY <1>2, <1>3, <1>4, SMT
  <1>6. 0 <= (a - b + c + e + d) + z * 365 - 719499
    <2>1. CASE z = 1969
      BY <2>1, <1>2, <1>3, <1>4, SMT
    <2>2. CASE z > 1969
      BY <2>2, <1>2, <1>3, <1>4, SMT
    <2> QED BY <2>1, <2>2, <1>2, SMT
  <1> QED BY <1>1, <1>5, <1>6, SMT DEF DayNumber

LEMMA NextDayKeeps ==
  ASSUME CalendarInv, NextDay
  PROVE  CalendarInv'
  <1>1. /\ year \in Year /\ year <= LastYear /\ mon \in Month /\ day \in MonthDay
        /\ day <= DaysIn(year, mon) /\ days = mktime_days(year, mon, day)
        /\ DaysIn(year, mon) \in MonthDay /\ days' = days + 1
    BY DaysInRange, Zenon DEF CalendarInv, NextDay
  <1>2. CASE day < DaysIn(year, mon) /\ day' = day + 1 /\ UNCHANGED <<year, mon>>
    <2>1. mktime_days(year, mon, day + 1) = mktime_days(year, mon, day) + 1
      BY <1>1, SameMonth, Zenon
    <2>2. day + 1 \in MonthDay /\ day + 1 <= DaysIn(year, mon)
      BY <1>1, <1>2, SMT DEF MonthDay
    <2> QED BY <1>1, <1>2, <2>1, <2>2, Zenon DEF CalendarInv
  <1>3. CASE /\ day = DaysIn(year, mon) /\ mon < 12
             /\ day' = 1 /\ mon' = mon + 1 /\ UNCHANGED year
    <2>1. mktime_days(year, mon + 1, 1) = mktime_days(year, mon, day) + 1
      BY <1>1, <1>3, NextMonth, Zenon
    <2>2. mon + 1 \in Month
      BY <1>1, <1>3, SMT DEF Month
    <2>3. DaysIn(year, mon + 1) \in MonthDay /\ 28 <= DaysIn(year, mon + 1)
      BY <1>1, <2>2, DaysInRange, Zenon
    <2>4. 1 \in MonthDay /\ 1 <= DaysIn(year, mon + 1)
      BY <2>3, SMT DEF MonthDay
    <2> QED BY <1>1, <1>3, <2>1, <2>2, <2>4, Zenon DEF CalendarInv
  <1>4. CASE /\ day = DaysIn(year, mon) /\ mon = 12
             /\ day' = 1 /\ mon' = 1 /\ year' = year + 1
    <2>1. day = 31
      BY <1>4, SMT DEF DaysIn
    <2>2. year # LastYear
      BY <1>4, <2>1, SMT DEF NextDay
    <2>3. year + 1 \in Year /\ year + 1 <= LastYear
      BY <1>1, <2>2, YearAssumption, SMT DEF Year
    <2>4. mktime_days(year + 1, 1, 1) = mktime_days(year, mon, day) + 1
      BY <1>1, <1>4, <2>1, NextYear, SMT
    <2>5. 1 \in Month /\ 1 \in MonthDay
      BY SMT DEF Month, MonthDay
    <2>6. DaysIn(year + 1, 1) \in MonthDay
      BY <2>3, <2>5, DaysInRange
    <2>7. 1 <= DaysIn(year + 1, 1)
      BY <2>6, SMT DEF MonthDay
    <2> QED BY <1>1, <1>4, <2>3, <2>4, <2>5, <2>7, Zenon DEF CalendarInv
  <1> QED BY <1>2, <1>3, <1>4, Zenon DEF NextDay

LEMMA FirstDayIsDate == FirstDay => CalendarInv
  <1>1. DaysIn(1970, 1) = 31
    BY SMT DEF DaysIn
  <1> QED BY <1>1, DayZero, YearAssumption, SMT
          DEF FirstDay, CalendarInv, Year, Month, MonthDay

\* Day number and time of day make up the seconds.
LEMMA Seconds ==
  ASSUME NEW y, NEW m, NEW d, NEW t \in Time, mktime_days(y, m, d) \in DayNumber
  PROVE  /\ my_mktime(y, m, d, t.hour, t.min, t.sec)
              = mktime_days(y, m, d) * 86400 + t.hour * 3600 + t.min * 60 + t.sec
         /\ my_mktime(y, m, d, t.hour, t.min, t.sec) \in Nat
         /\ my_mktime(y, m, d, t.hour, t.min, t.sec) < 65536 * 65536
  <1> DEFINE n == mktime_days(y, m, d)
  <1>1. /\ t.hour \in Nat /\ t.hour < 24 /\ t.min \in Nat /\ t.min < 60
        /\ t.sec \in Nat /\ t.sec < 60 /\ n \in Nat /\ n <= 40000
    BY SMT DEF Time, DayNumber
  <1>2. my_mktime(y, m, d, t.hour, t.min, t.sec)
          = ((n * 24 + t.hour) * 60 + t.min) * 60 + t.sec
    BY SMT DEF my_mktime
  <1> HIDE DEF n
  <1>3. ((n * 24 + t.hour) * 60 + t.min) * 60 + t.sec
          = n * 86400 + t.hour * 3600 + t.min * 60 + t.sec
    BY <1>1, SMT
  <1>4. /\ n * 86400 + t.hour * 3600 + t.min * 60 + t.sec \in Nat
        /\ n * 86400 + t.hour * 3600 + t.min * 60 + t.sec < 65536 * 65536
    BY <1>1, SMT
  <1> QED BY <1>2, <1>3, <1>4, SMT DEF n

\* The conversion of the registers gives back the date and the time.
LEMMA Decoded ==
  ASSUME NEW y \in Year, NEW m \in Month, NEW d \in MonthDay,
         NEW t \in Time, NEW bin \in BOOLEAN
  PROVE  get_timer_base_sec(rtc_tm(Registers(y, m, d, t, bin), bin))
           = my_mktime(y, m, d, t.hour, t.min, t.sec)
  <1> DEFINE V(n) == IF bin THEN Encode(n, bin) ELSE bcd2bin(Encode(n, bin))
             read == rtc_tm(Registers(y, m, d, t, bin), bin)
  <1>1. /\ t.hour \in TwoDigits /\ t.min \in TwoDigits /\ t.sec \in TwoDigits
        /\ m \in TwoDigits /\ d \in TwoDigits
    BY SMT DEF Time, Month, MonthDay, TwoDigits
  <1>2. y % 100 \in TwoDigits /\ tm_year(y % 100) + epoch = y
    BY YearWindow
  <1>3. /\ V(t.hour) = t.hour /\ V(t.min) = t.min /\ V(t.sec) = t.sec
        /\ V(m) = m /\ V(d) = d /\ V(y % 100) = y % 100
    BY <1>1, <1>2, BcdRoundTrip
  <1>4. /\ read.tm_hour = V(t.hour) /\ read.tm_min = V(t.min) /\ read.tm_sec = V(t.sec)
        /\ read.tm_mon = V(m) - 1 /\ read.tm_mday = V(d) /\ read.tm_year = tm_year(V(y % 100))
    BY SMT DEF rtc_tm, Registers
  <1> HIDE DEF read, V
  <1>5. read.tm_mon + 1 = m
    BY <1>3, <1>4, SMT DEF Month
  <1>6. read.tm_year + epoch = y
    BY <1>2, <1>3, <1>4
  <1>7. get_timer_base_sec(read) = my_mktime(y, m, d, t.hour, t.min, t.sec)
    BY <1>3, <1>4, <1>5, <1>6, Zenon DEF get_timer_base_sec
  <1> QED BY <1>7, Zenon DEF read

\* What the chip shows on a date at a time is converted to the seconds since 1970.
LEMMA ShownIsConverted ==
  ASSUME CalendarInv, NEW t \in Time, NEW bin \in BOOLEAN
  PROVE  get_timer_base_sec(rtc_tm(Registers(year, mon, day, t, bin), bin))
           = SecondsAt(days, t)
  <1>1. /\ year \in Year /\ mon \in Month /\ day \in MonthDay
        /\ days = mktime_days(year, mon, day)
    BY Zenon DEF CalendarInv
  <1>2. get_timer_base_sec(rtc_tm(Registers(year, mon, day, t, bin), bin))
          = my_mktime(year, mon, day, t.hour, t.min, t.sec)
    BY <1>1, Decoded, Zenon
  <1>3. mktime_days(year, mon, day) \in DayNumber
    BY <1>1, DayBound, Zenon
  <1>4. my_mktime(year, mon, day, t.hour, t.min, t.sec) = SecondsAt(days, t)
    BY <1>1, <1>3, Seconds, SMT DEF SecondsAt
  <1> QED BY <1>2, <1>4, Zenon

(***************************************************************************)
(* The unsigned long my_mktime returns does not wrap before 2070.          *)
(***************************************************************************)
THEOREM MktimeFitsUnsignedLong ==
  ASSUME NEW y \in Year, NEW m \in Month, NEW d \in MonthDay, NEW t \in Time
  PROVE  /\ my_mktime(y, m, d, t.hour, t.min, t.sec) \in Nat
         /\ my_mktime(y, m, d, t.hour, t.min, t.sec) < 65536 * 65536
  <1>1. mktime_days(y, m, d) \in DayNumber
    BY DayBound
  <1> QED BY <1>1, Seconds, SMT
-----------------------------------------------------------------------------
Fields == {"sec", "min", "hour", "mday", "mon", "year"}

\* The registers s before position n of Order have been copied to r.
Copied(n, r, s) ==
  /\ n > 1 => r["sec"] = s["sec"]
  /\ n > 2 => r["min"] = s["min"]
  /\ n > 3 => r["hour"] = s["hour"]
  /\ n > 4 => r["mday"] = s["mday"]
  /\ n > 5 => r["mon"] = s["mon"]
  /\ n > 6 => r["year"] = s["year"]

ChipInv ==
  /\ CalendarInv /\ tod \in Time /\ binary \in BOOLEAN
  /\ phase \in Nat /\ phase < Period

(***************************************************************************)
(* Since the poll ended, at most one access per register has been made, so *)
(* the chip is still before its update and in the same second; what has    *)
(* been read so far is what the chip shows.                                *)
(***************************************************************************)
ReadInv ==
  /\ at \in {"off", "poll", "read", "done"}
  /\ DOMAIN tm = Fields
  /\ next \in Nat /\ 1 <= next /\ next <= 8
  /\ at \in {"off", "poll"} => next = 1
  /\ at = "read" =>
       /\ started = Now /\ Copied(next, tm, Shown)
       /\ phase < Period - Update - Guard + next
  /\ at = "done" => BaseSecExact

LEMMA OrderFacts ==
  /\ Reads = 8
  /\ Order[1] = "sec" /\ Order[2] = "min" /\ Order[3] = "hour" /\ Order[4] = "mday"
  /\ Order[5] = "mon" /\ Order[6] = "year" /\ Order[7] = "wday"
  BY SMT DEF Order, Reads

LEMMA ChipFacts ==
  /\ Period \in Nat /\ Guard \in Nat /\ Update \in Nat /\ Update >= 1
  /\ Guard >= 8 /\ Guard + Update < Period
  BY ChipAssumption, OrderFacts, SMT

\* Whatever the chip does in an access, it shows a date and a time.
LEMMA AccessKeeps ==
  ASSUME ChipInv, Access, binary' = binary
  PROVE  ChipInv'
  <1>1. /\ CalendarInv /\ tod \in Time /\ phase \in Nat /\ phase < Period
        /\ binary' \in BOOLEAN
    BY Zenon DEF ChipInv
  <1>2. CASE phase + 1 < Period /\ phase' = phase + 1 /\ UNCHANGED <<tod, date>>
    <2>1. phase' \in Nat /\ phase' < Period
      BY <1>1, <1>2, SMT
    <2>2. tod' \in Time
      BY <1>1, <1>2, Zenon
    <2>3. CalendarInv'
      BY <1>1, <1>2, Zenon DEF CalendarInv, date
    <2> QED BY <1>1, <2>1, <2>2, <2>3, Zenon DEF ChipInv
  <1>3. CASE phase + 1 = Period /\ phase' = 0 /\ NextSecond
    <2>1. phase' \in Nat /\ phase' < Period
      BY <1>1, <1>3, ChipFacts, SMT
    <2>2. tod' \in Time
      <3>1. /\ tod.hour \in Nat /\ tod.hour < 24 /\ tod.min \in Nat /\ tod.min < 60
            /\ tod.sec \in Nat /\ tod.sec < 60 /\ tod \in [hour : Nat, min : Nat, sec : Nat]
        BY <1>1, SMT DEF Time
      <3>2. CASE tod.sec < 59 /\ tod' = [tod EXCEPT !.sec = @ + 1]
        BY <3>1, <3>2, SMT DEF Time
      <3>3. CASE tod.min < 59 /\ tod' = [hour |-> tod.hour, min |-> tod.min + 1, sec |-> 0]
        BY <3>1, <3>3, SMT DEF Time
      <3>4. CASE tod.hour < 23 /\ tod' = [hour |-> tod.hour + 1, min |-> 0, sec |-> 0]
        BY <3>1, <3>4, SMT DEF Time
      <3>5. CASE tod' = Midnight
        BY <3>5, SMT DEF Time, Midnight
      <3> QED BY <1>3, <3>2, <3>3, <3>4, <3>5, Zenon DEF NextSecond
    <2>3. CASE UNCHANGED date
      <3>1. CalendarInv'
        BY <1>1, <2>3, Zenon DEF CalendarInv, date
      <3> QED BY <1>1, <2>1, <2>2, <3>1, Zenon DEF ChipInv
    <2>4. CASE NextDay
      <3>1. CalendarInv'
        BY <1>1, <2>4, NextDayKeeps, Zenon
      <3> QED BY <1>1, <2>1, <2>2, <3>1, Zenon DEF ChipInv
    <2> QED BY <1>3, <2>3, <2>4, Zenon DEF NextSecond
  <1> QED BY <1>2, <1>3, Zenon DEF Access

\* An access before the end of the second leaves the time alone.
LEMMA AccessWithinSecond ==
  ASSUME Access, phase + 1 < Period, phase \in Nat
  PROVE  phase' = phase + 1 /\ tod' = tod /\ date' = date
  BY ChipFacts, SMT DEF Access

LEMMA PollKeeps ==
  ASSUME ChipInv, ReadInv, Poll
  PROVE  ReadInv'
  <1>1. /\ phase \in Nat /\ phase < Period /\ next = 1 /\ DOMAIN tm = Fields
        /\ started' = Now /\ next' = next /\ tm' = tm /\ binary' = binary
        /\ at' = (IF PollOk THEN "read" ELSE "poll") /\ Access
    BY DEF ChipInv, ReadInv, Poll
  <1>2. CASE ~PollOk
    <2>1. at' = "poll"
      BY <1>1, <1>2, Zenon
    <2> QED BY <1>1, <2>1, SMT DEF ReadInv
  <1>3. CASE PollOk
    <2>1. phase < Period - Update - Guard
      BY <1>1, <1>3, ChipFacts, SMT DEF PollOk, Uip
    <2>2. phase' = phase + 1 /\ tod' = tod /\ date' = date
      BY <1>1, <2>1, ChipFacts, AccessWithinSecond, SMT
    <2>3. started' = Now'
      BY <1>1, <2>2, Zenon DEF Now, date
    <2>4. Copied(next', tm', Shown')
      BY <1>1, SMT DEF Copied
    <2>5. phase' < Period - Update - Guard + next'
      BY <1>1, <2>1, <2>2, ChipFacts, SMT
    <2>6. at' = "read"
      BY <1>1, <1>3, Zenon
    <2> QED BY <1>1, <2>3, <2>4, <2>5, <2>6, SMT DEF ReadInv
  <1> QED BY <1>2, <1>3

\* Storing what the chip shows at position n copies one register more.
LEMMA CopyNext ==
  ASSUME NEW n \in Nat, 1 <= n, n <= 7, NEW r, NEW q, NEW s,
         Copied(n, r, s), DOMAIN r = Fields,
         IF Order[n] = "wday" THEN q = r ELSE q = [r EXCEPT ![Order[n]] = s[Order[n]]]
  PROVE  DOMAIN q = Fields /\ Copied(n + 1, q, s)
  <1> USE OrderFacts DEF Copied, Fields
  <1>1. CASE n = 1  BY <1>1, SMT
  <1>2. CASE n = 2  BY <1>2, SMT
  <1>3. CASE n = 3  BY <1>3, SMT
  <1>4. CASE n = 4  BY <1>4, SMT
  <1>5. CASE n = 5  BY <1>5, SMT
  <1>6. CASE n = 6  BY <1>6, SMT
  <1>7. CASE n = 7  BY <1>7, SMT
  <1> QED BY <1>1, <1>2, <1>3, <1>4, <1>5, <1>6, <1>7, SMT

LEMMA ReadRegisterKeeps ==
  ASSUME ChipInv, ReadInv, ReadRegister
  PROVE  ReadInv'
  <1>1. /\ phase \in Nat /\ phase < Period /\ DOMAIN tm = Fields
        /\ next \in Nat /\ 1 <= next /\ next <= 7
        /\ at = "read" /\ at' = at /\ started' = started /\ next' = next + 1
        /\ binary' = binary /\ started = Now /\ Copied(next, tm, Shown) /\ Access
        /\ phase < Period - Update - Guard + next
    <2>1. next < 8
      BY OrderFacts, Zenon DEF ReadRegister
    <2> QED BY <2>1, SMT DEF ChipInv, ReadInv, ReadRegister
  <1>2. phase + 1 < Period - Update
    BY <1>1, ChipFacts, SMT
  <1>3. phase' = phase + 1 /\ tod' = tod /\ date' = date
    BY <1>1, <1>2, ChipFacts, AccessWithinSecond, SMT
  <1>4. Shown' = Shown /\ Now' = Now
    BY <1>1, <1>3, Zenon DEF Shown, Now, date
  <1>5. IF Order[next] = "wday" THEN tm' = tm
        ELSE tm' = [tm EXCEPT ![Order[next]] = Shown[Order[next]]]
    <2>1. ~Updating
      BY <1>1, <1>2, ChipFacts, SMT DEF Updating
    <2>2. CASE Order[next] = "wday"
      BY <2>2, Zenon DEF ReadRegister
    <2>3. CASE Order[next] # "wday"
      <3>1. PICK v \in IF Updating THEN Garbage ELSE {Shown[Order[next]]} :
              tm' = [tm EXCEPT ![Order[next]] = v]
        BY <2>3, Zenon DEF ReadRegister
      <3>2. v = Shown[Order[next]]
        BY <2>1, <3>1, Zenon
      <3> QED BY <2>3, <3>1, <3>2, Zenon
    <2> QED BY <2>2, <2>3
  <1>6. DOMAIN tm' = Fields /\ Copied(next + 1, tm', Shown)
    BY <1>1, <1>5, CopyNext, Zenon
  <1>7. Copied(next', tm', Shown')
    BY <1>1, <1>4, <1>6, Zenon
  <1>8. phase' < Period - Update - Guard + next'
    BY <1>1, <1>3, ChipFacts, SMT
  <1>9. next' \in Nat /\ 1 <= next' /\ next' <= 8
    BY <1>1, SMT
  <1>10. started' = Now' /\ at' = "read"
    BY <1>1, <1>4, Zenon
  <1> QED BY <1>6, <1>7, <1>8, <1>9, <1>10, SMT DEF ReadInv

\* With all registers copied the conversion sees what the chip shows.
LEMMA CopiedConverted ==
  ASSUME ChipInv, Copied(8, tm, Shown)
  PROVE  get_timer_base_sec(rtc_tm(tm, binary)) = Now
  <1>1. /\ tm["sec"] = Shown["sec"] /\ tm["min"] = Shown["min"] /\ tm["hour"] = Shown["hour"]
        /\ tm["mday"] = Shown["mday"] /\ tm["mon"] = Shown["mon"] /\ tm["year"] = Shown["year"]
    BY SMT DEF Copied
  <1>2. rtc_tm(tm, binary) = rtc_tm(Shown, binary)
    BY <1>1, Zenon DEF rtc_tm
  <1>3. get_timer_base_sec(rtc_tm(Shown, binary)) = Now
    BY ShownIsConverted, Zenon DEF ChipInv, Shown, Now
  <1> QED BY <1>2, <1>3, Zenon

LEMMA ReadControlKeeps ==
  ASSUME ChipInv, ReadInv, ReadControl
  PROVE  ReadInv'
  <1>1. /\ at = "read" /\ at' = "done" /\ next = 8 /\ next' = next /\ tm' = tm
        /\ started' = started /\ binary' = binary /\ started = Now /\ Copied(next, tm, Shown)
        /\ DOMAIN tm = Fields
    BY OrderFacts, Zenon DEF ReadInv, ReadControl
  <1>2. get_timer_base_sec(rtc_tm(tm, binary)) = started
    BY <1>1, CopiedConverted, Zenon
  <1>3. BaseSecExact'
    BY <1>1, <1>2, Zenon DEF BaseSecExact
  <1> QED BY <1>1, <1>3, SMT DEF ReadInv

LEMMA ChipInductive ==
  ASSUME ChipInv, [RtcNext]_rtcVars
  PROVE  ChipInv'
  <1>1. CASE UNCHANGED rtcVars
    BY <1>1, Zenon DEF rtcVars, ChipInv, CalendarInv, date
  <1>2. CASE DayPasses
    <2>1. CalendarInv'
      BY <1>2, NextDayKeeps, Zenon DEF ChipInv, DayPasses
    <2> QED BY <1>2, <2>1, Zenon DEF ChipInv, DayPasses
  <1>3. CASE PowerOn
    <2>1. CalendarInv'
      BY <1>3, Zenon DEF ChipInv, PowerOn, CalendarInv, date
    <2>2. tod' \in Time /\ binary' \in BOOLEAN
      BY <1>3, TimeAssumption, Zenon DEF PowerOn
    <2>3. phase' \in Nat /\ phase' < Period
      BY <1>3, ChipFacts, SMT DEF PowerOn
    <2> QED BY <2>1, <2>2, <2>3, Zenon DEF ChipInv
  <1>4. CASE Read
    <2>1. Access /\ binary' = binary
      BY <1>4, Zenon DEF Read, Poll, ReadRegister, ReadControl
    <2> QED BY <2>1, AccessKeeps, Zenon
  <1> QED BY <1>1, <1>2, <1>3, <1>4, Zenon DEF RtcNext

LEMMA ReadInductive ==
  ASSUME ChipInv, ReadInv, [RtcNext]_rtcVars
  PROVE  ReadInv'
  <1>1. CASE UNCHANGED rtcVars
    BY <1>1, Zenon DEF rtcVars, date, ReadInv, BaseSecExact, Copied, Shown, Now
  <1>2. CASE DayPasses
    BY <1>2, SMT DEF ReadInv, DayPasses
  <1>3. CASE PowerOn
    BY <1>3, SMT DEF ReadInv, PowerOn
  <1>4. CASE Read
    BY <1>4, PollKeeps, ReadRegisterKeeps, ReadControlKeeps, Zenon DEF Read
  <1> QED BY <1>1, <1>2, <1>3, <1>4, Zenon DEF RtcNext

LEMMA InitIsRight == RtcInit => ChipInv /\ ReadInv
  <1> SUFFICES ASSUME RtcInit PROVE ChipInv /\ ReadInv
    OBVIOUS
  <1>1. CalendarInv
    BY FirstDayIsDate, Zenon DEF RtcInit
  <1>2. tod \in Time /\ phase \in Nat /\ phase < Period
    BY ChipFacts, SMT DEF RtcInit, Midnight, Time
  <1>3. binary \in BOOLEAN
    BY Zenon DEF RtcInit
  <1>4. DOMAIN tm = Fields /\ at = "off" /\ next = 1
    BY SMT DEF RtcInit, Fields
  <1>5. ReadInv
    BY <1>4, SMT DEF ReadInv
  <1> QED BY <1>1, <1>2, <1>3, <1>5, Zenon DEF ChipInv

(***************************************************************************)
(* The seconds since 1970 computed from the registers are the time at      *)
(* which the poll ended (rtc_get_rtc_time, get_timer_base_sec), on every   *)
(* day from 1970 to 2069.                                                  *)
(***************************************************************************)
THEOREM BaseSecIsExact == RtcSpec => []BaseSecExact
  <1>1. ChipInv /\ ReadInv /\ [RtcNext]_rtcVars => (ChipInv /\ ReadInv)'
    BY ChipInductive, ReadInductive
  <1>2. ReadInv => BaseSecExact
    BY Zenon DEF ReadInv, BaseSecExact
  <1> QED BY InitIsRight, <1>1, <1>2, PTL DEF RtcSpec

-----------------------------------------------------------------------------
(* __udivmoddi4                                                            *)


\* The arguments and the registers are numbers, the arguments fit a word.
Numbers ==
  /\ num \in Nat /\ den \in Nat /\ quot \in Nat /\ qbit \in Nat
  /\ num0 \in Nat /\ den0 \in Nat
  /\ num0 < 2 * TOP /\ den0 < 2 * TOP

\* Halving a value of qbits gives another one, down to 1.
Powers ==
  /\ qbits \subseteq Nat
  /\ \A q \in qbits : q = 1 \/ \E h \in qbits : q = 2 * h

Phase ==
  /\ pc \in {"start", "justify", "divide", "done", "trap"}
  /\ pc = "start" => num = num0 /\ den = den0 /\ quot = 0 /\ qbit = 1 /\ 1 \in qbits
  /\ pc \in {"justify", "divide", "done"} => den0 # 0 /\ quot * den0 + num = num0
  /\ pc = "justify" =>
       /\ quot = 0 /\ qbit \in qbits /\ qbit # 0
       /\ den = den0 * qbit /\ den < 2 * TOP
  /\ (pc = "divide" /\ qbit # 0) =>
       qbit \in qbits /\ den = den0 * qbit /\ num < 2 * den
  /\ (pc = "divide" /\ qbit = 0) \/ pc = "done" => num < den0
  /\ pc = "trap" => den0 = 0

DivInv == Numbers /\ Powers /\ Phase

\* Quotient and remainder are unique.
LEMMA Unique ==
  ASSUME NEW a \in Nat, NEW b \in Nat \ {0}, NEW q \in Nat, NEW r \in Nat,
         q * b + r = a, r < b
  PROVE  q = a \div b /\ r = a % b
  <1> DEFINE c == a \div b
             k == a % b
  <1>1. c \in Nat /\ k \in Nat /\ k < b /\ a = b * c + k
    OBVIOUS
  <1> HIDE DEF c, k
  <1>2. b * (q - c) = k - r
    BY <1>1
  <1>3. q = c
    <2>1. CASE q - c >= 1
      <3>1. b * (q - c) >= b
        BY <2>1, <1>1
      <3> QED BY <3>1, <1>2, <1>1
    <2>2. CASE q - c <= -1
      <3>1. b * (q - c) <= -b
        BY <2>2, <1>1
      <3> QED BY <3>1, <1>2, <1>1
    <2> QED BY <2>1, <2>2, <1>1
  <1>4. r = k
    BY <1>1, <1>2, <1>3
  <1> QED BY <1>3, <1>4 DEF c, k

\* A factor is at most the product.
LEMMA Factor ==
  ASSUME NEW a \in Nat \ {0}, NEW b \in Nat
  PROVE  a * b \in Nat /\ b <= a * b
  OBVIOUS

LEMMA JustifyKeeps ==
  ASSUME DivInv, Justify
  PROVE  DivInv'
  <1> USE TopAssumption
  <1>1. /\ den0 # 0 /\ quot * den0 + num = num0 /\ quot = 0 /\ qbit \in qbits
        /\ qbit # 0 /\ den = den0 * qbit /\ den < TOP /\ den \in Nat
        /\ qbit \in Nat /\ den0 \in Nat
    BY DEF DivInv, Numbers, Phase, Justify, Negative
  <1>2. qbit <= den
    BY <1>1, Factor
  <1>3. den' = 2 * den /\ qbit' = 2 * qbit
    <2>1. (2 * den) % (2 * TOP) = 2 * den
      BY <1>1
    <2>2. (2 * qbit) % (2 * TOP) = 2 * qbit
      BY <1>1, <1>2
    <2> QED BY <2>1, <2>2 DEF Justify, ShiftLeft
  <1>4. den' = den0 * qbit' /\ den' < 2 * TOP
    BY <1>1, <1>3
  <1>5. Powers'
    <2>1. qbits' = qbits \cup {2 * qbit}
      BY <1>3 DEF Justify
    <2>2. qbits' \subseteq Nat
      BY <1>1, <2>1 DEF DivInv, Powers
    <2>3. \A q \in qbits' : q = 1 \/ \E h \in qbits' : q = 2 * h
      <3> SUFFICES ASSUME NEW q \in qbits', q # 1
                   PROVE  \E h \in qbits' : q = 2 * h
        OBVIOUS
      <3>1. \E h \in qbits : q = 2 * h
        BY <1>1, <2>1 DEF DivInv, Powers
      <3> QED BY <3>1, <2>1
    <2> QED BY <2>2, <2>3 DEF Powers
  <1>6. Numbers'
    BY <1>1, <1>3 DEF DivInv, Numbers, Justify
  <1>7. Phase'
    BY <1>1, <1>3, <1>4 DEF Phase, Justify
  <1> QED BY <1>5, <1>6, <1>7 DEF DivInv

LEMMA DivideKeeps ==
  ASSUME DivInv, Divide
  PROVE  DivInv'
  <1> USE TopAssumption
  <1>1. /\ den0 \in Nat \ {0} /\ quot * den0 + num = num0 /\ qbit \in qbits
        /\ qbit \in Nat \ {0} /\ den = den0 * qbit /\ num < 2 * den
        /\ num \in Nat /\ den \in Nat /\ quot \in Nat /\ num0 \in Nat
        /\ num0 < 2 * TOP
    BY DEF DivInv, Numbers, Phase, Divide
  <1>2. /\ num' \in Nat /\ num' < den /\ quot' \in Nat
        /\ quot' * den0 + num' = num0
    <2>1. CASE Goes
      <3>1. num' = num - den /\ quot' = (quot + qbit) % (2 * TOP)
        BY <2>1 DEF Divide
      <3>2. (quot + qbit) * den0 = quot * den0 + den
        BY <1>1
      <3>3. (quot + qbit) * den0 + (num - den) = num0 /\ num - den \in Nat
        BY <3>2, <1>1, <2>1 DEF Goes
      <3>4. quot + qbit <= (quot + qbit) * den0
        BY <1>1
      <3>5. quot + qbit < 2 * TOP
        BY <1>1, <3>3, <3>4
      <3>6. quot' = quot + qbit
        BY <1>1, <3>1, <3>5
      <3> QED BY <1>1, <3>1, <3>3, <3>6
    <2>2. CASE ~Goes
      BY <1>1, <2>2 DEF Divide, Goes
    <2> QED BY <2>1, <2>2
  <1>3. den' = den \div 2 /\ qbit' = qbit \div 2 /\ pc' = "divide"
        /\ num0' = num0 /\ den0' = den0 /\ qbits' = qbits
    BY DEF Divide
  <1>4. den' \in Nat /\ qbit' \in Nat
    BY <1>1, <1>3
  <1>5. CASE qbit = 1
    <2>1. qbit' = 0 /\ num' < den0
      BY <1>1, <1>2, <1>3, <1>5
    <2> QED BY <2>1, <1>1, <1>2, <1>3, <1>4 DEF DivInv, Numbers, Powers, Phase
  <1>6. CASE qbit # 1
    <2>1. PICK h \in qbits : qbit = 2 * h
      BY <1>1, <1>6 DEF DivInv, Powers
    <2>2. h \in Nat
      BY DEF DivInv, Powers
    <2>3. qbit' = h
      BY <1>3, <2>1, <2>2
    <2>4. den = 2 * (den0 * h) /\ den0 * h \in Nat
      BY <1>1, <2>1, <2>2
    <2>5. den' = den0 * h
      <3> DEFINE p == den0 * h
      <3> HIDE DEF p
      <3>1. den = 2 * p /\ p \in Nat
        BY <2>4 DEF p
      <3>2. den' = p
        BY <3>1, <1>3
      <3> QED BY <3>2 DEF p
    <2>6. num' < 2 * den'
      BY <1>2, <2>4, <2>5
    <2>7. h # 0
      BY <1>1, <2>1
    <2> QED BY <2>3, <2>5, <2>6, <2>7, <1>1, <1>2, <1>3, <1>4
            DEF DivInv, Numbers, Powers, Phase
  <1> QED BY <1>5, <1>6

LEMMA DivInductive ==
  ASSUME DivInv, [Next]_vars
  PROVE  DivInv'
  <1> USE TopAssumption
  <1>1. CASE DivideByZero
    BY <1>1 DEF DivInv, Numbers, Powers, Phase, DivideByZero
  <1>2. CASE Start
    BY <1>2 DEF DivInv, Numbers, Powers, Phase, Start
  <1>3. CASE Justify
    BY <1>3, JustifyKeeps
  <1>4. CASE Justified
    BY <1>4 DEF DivInv, Numbers, Powers, Phase, Justified, Negative
  <1>5. CASE Divide
    BY <1>5, DivideKeeps
  <1>6. CASE Return
    BY <1>6 DEF DivInv, Numbers, Powers, Phase, Return
  <1>7. CASE UNCHANGED vars
    BY <1>7 DEF DivInv, Numbers, Powers, Phase, vars
  <1> QED BY <1>1, <1>2, <1>3, <1>4, <1>5, <1>6, <1>7 DEF Next

LEMMA DivInvariant == Spec => []DivInv
  <1>1. Init => DivInv
    BY TopAssumption DEF Init, DivInv, Numbers, Powers, Phase
  <1> QED BY <1>1, DivInductive, PTL DEF Spec

(***************************************************************************)
(* What __udivmoddi4 returns is the quotient and the remainder, for every  *)
(* word size and all arguments.                                            *)
(***************************************************************************)
THEOREM DivisionIsExact == Spec => []DivisionExact
  <1>1. DivInv => DivisionExact
    BY Unique DEF DivInv, Numbers, Phase, DivisionExact
  <1> QED BY <1>1, DivInvariant, PTL
-----------------------------------------------------------------------------
\* What gettimeofday returns for the counter value c.
TimeAt(c) == do_gettimeofday(get_timer_offset_usec(Msec(c)))

Reading == {"timer_init", "usleep", "sleeping"}

\* The counter never falls behind the value last divided.
Counter ==
  /\ tsc \in Nat /\ tsc < 2 * TOP /\ tm_base_clk \in Nat /\ num0 \in Nat
  /\ tm_base_clk + num0 <= tsc

\* A CPU without a rate is one that cpu_type left early.
Rate ==
  /\ cpu \in Cpus /\ extclock \in Nat /\ extclock < ULONG
  /\ doing # "cpu_type" /\ extclock = 0 => ReturnsEarly(cpu_id(cpu))

\* Only gettimeofday divides, by the rate; before that only rdtsc may fault.
Dividing ==
  /\ pc # "idle" /\ doing # "cpu_type" => DivInv /\ den0 = extclock /\ doing \in Reading
  /\ doing = "cpu_type" => pc = "idle" \/ (pc = "trap" /\ ~cpu.hastsc)

\* usleep has read the clock at least once: beg, and cur after each reading.
Sleeping ==
  /\ doing \in {"cpu_type", "timer_init", "nothing", "usleep", "sleeping", "woke"}
  /\ usec \in Nat /\ asked \in Nat
  /\ asked < ULONG => usec = asked
  /\ doing = "cpu_type" => num0 = 0
  /\ doing \in {"sleeping", "woke"} =>
       /\ extclock # 0 /\ began \in Nat /\ began <= num0
       /\ beg = TimeAt(began)
       /\ pc = "idle" => cur = TimeAt(num0)
  /\ doing = "woke" => diff_us(beg, cur) >= usec

ClockInv == Counter /\ Rate /\ Dividing /\ Sleeping

\* External units: a second is a whole number of milliseconds.
LEMMA Units ==
  /\ USEC_PER_MSEC \in Nat /\ USEC_PER_MSEC > 0
  /\ USEC_PER_SEC \in Nat /\ USEC_PER_SEC > 0
  /\ USEC_PER_SEC \div USEC_PER_MSEC \in Nat
  /\ USEC_PER_SEC = (USEC_PER_SEC \div USEC_PER_MSEC) * USEC_PER_MSEC
  /\ ULONG \in Nat /\ ULONG > 2 /\ ULONG <= 2 * TOP
  <1>1. /\ USEC_PER_MSEC \in Nat /\ USEC_PER_MSEC > 0
        /\ USEC_PER_SEC \in Nat /\ USEC_PER_SEC > 0
        /\ USEC_PER_SEC % USEC_PER_MSEC = 0
        /\ ULONG \in Nat /\ ULONG > 2 /\ ULONG <= 2 * TOP
    BY UnitAssumption DEF UnitAssumption
  <1>2. ASSUME NEW a \in Nat, NEW b \in Nat, b > 0, a % b = 0
        PROVE  a \div b \in Nat /\ a = (a \div b) * b
    BY <1>2
  <1> QED BY <1>1, <1>2

\* The remainder of a number less than the divisor, or just negative.
LEMMA SmallRemainder ==
  ASSUME NEW a \in Int, NEW n \in Nat, -n < a, a < n
  PROVE  a % n = IF a < 0 THEN a + n ELSE a
  OBVIOUS

\* Dividing more gives no less.
LEMMA DivMonotone ==
  ASSUME NEW a \in Nat, NEW b \in Nat, NEW n \in Nat, n > 0, a <= b
  PROVE  a \div n \in Nat /\ b \div n \in Nat /\ a \div n <= b \div n
  <1> DEFINE qa == a \div n
             qb == b \div n
             ra == a % n
             rb == b % n
  <1>1. /\ qa \in Nat /\ qb \in Nat /\ ra \in Nat /\ rb \in Nat /\ ra < n /\ rb < n
        /\ a = n * qa + ra /\ b = n * qb + rb
    OBVIOUS
  <1> HIDE DEF qa, qb, ra, rb
  <1>2. qa <= qb
    <2> SUFFICES ASSUME qa >= qb + 1
                 PROVE  FALSE
      BY <1>1
    <2>1. n * qa >= n * (qb + 1)
      BY <1>1
    <2>2. n * (qb + 1) = n * qb + n
      BY <1>1
    <2> QED BY <2>1, <2>2, <1>1
  <1> QED BY <1>1, <1>2 DEF qa, qb

LEMMA Euclid ==
  ASSUME NEW a \in Nat, NEW n \in Nat, n > 0
  PROVE  a \div n \in Nat /\ a % n \in Nat /\ a % n < n /\ a = n * (a \div n) + (a % n)
  OBVIOUS

\* A difference taken modulo n of two remainders is at most the difference.
LEMMA RemainderDifference ==
  ASSUME NEW qa \in Nat, NEW qb \in Nat, NEW ra \in Nat, NEW rb \in Nat, NEW n \in Nat,
         ra < n, rb < n, qa <= qb, n * qa + ra <= n * qb + rb
  PROVE  (rb - ra) % n <= (n * qb + rb) - (n * qa + ra)
  <1> DEFINE w == (rb - ra) % n
             d == rb - ra
  <1>1. w = IF d < 0 THEN d + n ELSE d
    <2>1. d \in Int /\ -n < d /\ d < n
      OBVIOUS
    <2>2. w = d % n
      OBVIOUS
    <2> HIDE DEF d, w
    <2> QED BY <2>1, <2>2, SmallRemainder
  <1>2. d \in Int
    OBVIOUS
  <1>3. n * qa \in Nat /\ n * qb \in Nat
    OBVIOUS
  <1>4. CASE qa = qb
    <2>1. n * qa = n * qb
      BY <1>4
    <2>2. d >= 0
      BY <1>3, <2>1
    <2> QED BY <1>1, <1>3, <2>1, <2>2
  <1>5. CASE qb >= qa + 1
    <2>1. n * qb >= n * qa + n
      <3>1. n * qb >= n * (qa + 1)
        BY <1>5
      <3>2. n * (qa + 1) = n * qa + n
        OBVIOUS
      <3> QED BY <1>3, <3>1, <3>2
    <2> HIDE DEF w
    <2>2. w <= (n * qb + rb) - (n * qa + ra)
      BY <1>1, <1>3, <2>1
    <2> QED BY <2>2 DEF w
  <1> QED BY <1>4, <1>5

LEMMA WrappedDifference ==
  ASSUME NEW a \in Nat, NEW b \in Nat, NEW n \in Nat, n > 0, a <= b
  PROVE  ((b % n) - (a % n)) % n <= b - a
  <1>1. a \div n \in Nat /\ a % n \in Nat /\ a % n < n /\ a = n * (a \div n) + (a % n)
    BY Euclid
  <1>2. b \div n \in Nat /\ b % n \in Nat /\ b % n < n /\ b = n * (b \div n) + (b % n)
    BY Euclid
  <1>3. a \div n <= b \div n
    BY DivMonotone
  <1>4. n * (a \div n) + (a % n) <= n * (b \div n) + (b % n)
    BY <1>1, <1>2, Zenon
  <1> DEFINE x == n * (a \div n) + (a % n)
             y == n * (b \div n) + (b % n)
  <1>5. ((b % n) - (a % n)) % n <= y - x
    BY <1>1, <1>2, <1>3, <1>4, RemainderDifference
  <1>6. x = a /\ y = b
    BY <1>1, <1>2
  <1> HIDE DEF x, y
  <1> QED BY <1>5, <1>6

\* do_gettimeofday splits microseconds into seconds and less than a second.
LEMMA Split ==
  ASSUME NEW us \in Nat
  PROVE  /\ do_gettimeofday(us).sec \in Nat /\ do_gettimeofday(us).usec \in Nat
         /\ do_gettimeofday(us).usec < USEC_PER_SEC
         /\ do_gettimeofday(us).sec * USEC_PER_SEC + do_gettimeofday(us).usec = us
  <1> DEFINE q == us \div USEC_PER_SEC
             r == us % USEC_PER_SEC
  <1>1. q \in Nat /\ r \in Nat /\ r < USEC_PER_SEC /\ us = USEC_PER_SEC * q + r
    BY Units
  <1>2. do_gettimeofday(us) = [sec |-> q, usec |-> us - q * USEC_PER_SEC]
    BY DEF do_gettimeofday, Carry
  <1> HIDE DEF q, r
  <1>3. USEC_PER_SEC * q = q * USEC_PER_SEC /\ q * USEC_PER_SEC \in Nat
    BY <1>1, Units
  <1>4. us - q * USEC_PER_SEC = r
    BY <1>1, <1>3
  <1> QED BY <1>1, <1>2, <1>3, <1>4

\* The difference usleep computes is that of the microseconds.
LEMMA Difference ==
  ASSUME NEW a \in Nat, NEW b \in Nat
  PROVE  diff_us(do_gettimeofday(a), do_gettimeofday(b)) = (b - a) % ULONG
  <1> DEFINE ta == do_gettimeofday(a)
             tb == do_gettimeofday(b)
  <1>1. /\ ta.sec \in Nat /\ ta.usec \in Nat /\ ta.sec * USEC_PER_SEC + ta.usec = a
        /\ tb.sec \in Nat /\ tb.usec \in Nat /\ tb.sec * USEC_PER_SEC + tb.usec = b
    BY Split
  <1>2. diff_us(ta, tb)
          = ((tb.sec - ta.sec) * USEC_PER_SEC + (tb.usec - ta.usec)) % ULONG
    BY DEF diff_us
  <1> HIDE DEF ta, tb
  <1>3. (tb.sec - ta.sec) * USEC_PER_SEC = tb.sec * USEC_PER_SEC - ta.sec * USEC_PER_SEC
    BY <1>1, Units
  <1>4. /\ ta.sec * USEC_PER_SEC \in Nat /\ tb.sec * USEC_PER_SEC \in Nat
    BY <1>1, Units
  <1>5. (tb.sec - ta.sec) * USEC_PER_SEC + (tb.usec - ta.usec) = b - a
    BY <1>1, <1>3, <1>4
  <1> QED BY <1>2, <1>5 DEF ta, tb

\* The microseconds of a counter value, before they are cut to 32 bits.
Usec(c) == Msec(c) * USEC_PER_MSEC

LEMMA Microseconds ==
  ASSUME NEW c \in Nat, extclock \in Nat, extclock # 0
  PROVE  /\ Msec(c) \in Nat /\ Usec(c) \in Nat
         /\ Usec(c) % ULONG \in Nat
         /\ TimeAt(c) = do_gettimeofday(Usec(c) % ULONG)
  <1>1. c \div extclock \in Nat
    OBVIOUS
  <1>2. Msec(c) \in Nat
    BY <1>1 DEF Msec
  <1>3. Usec(c) \in Nat
    BY <1>2, Units DEF Usec
  <1>4. Usec(c) % ULONG \in Nat
    BY <1>3, Units
  <1>5. TimeAt(c) = do_gettimeofday(Usec(c) % ULONG)
    BY DEF TimeAt, get_timer_offset_usec, Usec
  <1> QED BY <1>2, <1>3, <1>4, <1>5

LEMMA UsecMonotone ==
  ASSUME NEW c \in Nat, NEW d \in Nat, extclock \in Nat, extclock # 0, c <= d
  PROVE  Usec(c) <= Usec(d)
  <1>1. Msec(c) \in Nat /\ Msec(d) \in Nat /\ Msec(c) <= Msec(d)
    BY DivMonotone DEF Msec
  <1>2. Msec(c) * USEC_PER_MSEC <= Msec(d) * USEC_PER_MSEC
    BY <1>1, Units
  <1> QED BY <1>2 DEF Usec

-----------------------------------------------------------------------------
\* DivInv speaks of the variables of module Udivmod alone.
LEMMA DivInvKept ==
  ASSUME DivInv, UNCHANGED divVars
  PROVE  DivInv'
  BY DEF DivInv, Numbers, Powers, Phase, divVars

LEMMA InitClock == ClockInit => ClockInv
  <1> SUFFICES ASSUME ClockInit
               PROVE  ClockInv
    OBVIOUS
  <1>1. Counter
    BY TopAssumption DEF ClockInit, Counter
  <1>2. Rate
    BY Units DEF ClockInit, Rate
  <1>3. Dividing /\ Sleeping
    BY DEF ClockInit, Dividing, Sleeping
  <1> QED BY <1>1, <1>2, <1>3 DEF ClockInv

\* A measurement, also a failed one, rounds to a rate that is not zero.
LEMMA RoundedNotZero ==
  ASSUME NEW speed \in cpuspeed
  PROVE  rounded(speed) \in Nat /\ rounded(speed) # 0 /\ rounded(speed) < ULONG
  <1>1. ULONG \in Nat /\ ROUNDING \in Nat /\ ROUNDING >= 2 /\ ROUNDING < ULONG
    BY UnitAssumption DEF UnitAssumption
  <1>2. CASE speed \in Speeds
    <2>1. speed \in Nat /\ speed # 0 /\ speed + ROUNDING < ULONG
      BY <1>2, CpuAssumption DEF CpuAssumption
    <2>2. (speed + ROUNDING) % ULONG = speed + ROUNDING
      BY <1>1, <2>1
    <2> QED BY <1>1, <2>1, <2>2 DEF rounded
  <1>3. CASE speed = ULONG - 1
    <2>1. ASSUME NEW u \in Nat, NEW r \in Nat, r >= 2, r < u
          PROVE  (u - 1 + r) % u = r - 1
      <3>1. /\ u \in Nat \ {0} /\ u - 1 + r \in Nat /\ r - 1 \in Nat
            /\ 1 * u + (r - 1) = u - 1 + r /\ r - 1 < u
        BY <2>1
      <3> QED BY <3>1, Unique
    <2>2. (ULONG - 1 + ROUNDING) % ULONG = ROUNDING - 1
      BY <1>1, <2>1
    <2> QED BY <1>1, <1>3, <2>2 DEF rounded
  <1> QED BY <1>2, <1>3 DEF cpuspeed

LEMMA TimerInitKeeps ==
  ASSUME ClockInv, timer_init
  PROVE  ClockInv'
  <1>1. /\ pc = "idle" /\ doing = "cpu_type" /\ tsc' = tsc /\ cpu' = cpu
        /\ usec' = usec /\ asked' = asked /\ num0' = num0
    BY DEF timer_init
  <1>2. num0 = 0 /\ usec \in Nat /\ asked \in Nat /\ (asked < ULONG => usec = asked)
    BY <1>1 DEF ClockInv, Sleeping
  <1>3. CASE ~cpu.hastsc /\ pc' = "trap" /\ UNCHANGED <<extclock, tm_base_clk, doing>>
    <2>1. Counter' /\ Rate'
      BY <1>1, <1>3 DEF ClockInv, Counter, Rate
    <2>2. Dividing'
      BY <1>1, <1>3 DEF Dividing
    <2>3. Sleeping'
      BY <1>1, <1>2, <1>3 DEF Sleeping
    <2> QED BY <2>1, <2>2, <2>3 DEF ClockInv
  <1>4. CASE /\ IF ReturnsEarly(cpu_id(cpu)) THEN UNCHANGED extclock
                ELSE \E speed \in cpuspeed : extclock' = rounded(speed)
             /\ tm_base_clk' = tsc /\ doing' = "timer_init" /\ pc' = pc
    <2>1. Counter'
      BY <1>1, <1>2, <1>4 DEF ClockInv, Counter
    <2>2. Rate'
      <3>1. CASE ReturnsEarly(cpu_id(cpu))
        BY <1>1, <1>4, <3>1 DEF ClockInv, Rate
      <3>2. CASE ~ReturnsEarly(cpu_id(cpu))
        <4>1. PICK speed \in cpuspeed : extclock' = rounded(speed)
          BY <1>4, <3>2
        <4>2. extclock' \in Nat /\ extclock' # 0 /\ extclock' < ULONG
          BY <4>1, RoundedNotZero
        <4> QED BY <1>1, <4>2 DEF ClockInv, Rate
      <3> QED BY <3>1, <3>2
    <2>3. Dividing'
      BY <1>1, <1>4 DEF Dividing
    <2>4. Sleeping'
      BY <1>1, <1>2, <1>4 DEF Sleeping
    <2> QED BY <2>1, <2>2, <2>3, <2>4 DEF ClockInv
  <1> QED BY <1>3, <1>4 DEF timer_init

LEMMA TickKeeps ==
  ASSUME ClockInv, Tick
  PROVE  ClockInv'
  <1>1. /\ pc = "idle" /\ tsc' = tsc + 1 /\ tsc + 1 < 2 * TOP
        /\ UNCHANGED <<cpu, extclock, tm_base_clk, doing, usec, beg, cur, asked, began>>
        /\ pc' = pc /\ num0' = num0
    BY DEF Tick, divVars, Word
  <1>2. Counter'
    BY <1>1, TopAssumption DEF ClockInv, Counter
  <1>3. Rate'
    BY <1>1 DEF ClockInv, Rate
  <1>4. Dividing'
    BY <1>1 DEF Dividing
  <1>5. Sleeping'
    BY <1>1 DEF ClockInv, Sleeping, TimeAt, Msec, do_gettimeofday, get_timer_offset_usec,
                Carry, diff_us
  <1> QED BY <1>2, <1>3, <1>4, <1>5 DEF ClockInv

\* Multiplied in 32 bits, a time that fits them is kept.
LEMMA Fits ==
  ASSUME NEW t \in Nat, NEW k \in Nat, NEW m \in Nat, NEW n \in Nat, n > 0, m > 0
  PROVE  /\ (((t * k) % n) * m) % n \in Nat /\ t * (k * m) \in Nat
         /\ t * (k * m) < n => (((t * k) % n) * m) % n = t * (k * m)
  <1> DEFINE p == t * k
  <1>1. p \in Nat /\ t * (k * m) = p * m
    OBVIOUS
  <1> HIDE DEF p
  <1>2. p % n \in Nat
    BY <1>1
  <1>3. p * m \in Nat /\ p <= p * m
    BY <1>1
  <1>4. ((p % n) * m) % n \in Nat
    <2> DEFINE x == (p % n) * m
    <2>1. x \in Nat
      BY <1>2
    <2> HIDE DEF x
    <2>2. x % n \in Nat
      BY <2>1
    <2> QED BY <2>2 DEF x
  <1>5. ASSUME p * m < n
        PROVE  ((p % n) * m) % n = p * m
    <2>1. p % n = p
      <3>1. p < n
        BY <1>1, <1>3, <1>5
      <3> QED BY <1>1, <3>1
    <2> DEFINE y == p * m
    <2>2. y % n = y
      <3>1. y \in Nat /\ y < n
        BY <1>3, <1>5
      <3> HIDE DEF y
      <3> QED BY <3>1
    <2> QED BY <2>1, <2>2
  <1>6. (((t * k) % n) * m) % n = ((p % n) * m) % n
    BY DEF p
  <1> QED BY <1>1, <1>3, <1>4, <1>5, <1>6

LEMMA BeginSleepKeeps ==
  ASSUME NEW us \in Nat, NEW given \in Nat, given < ULONG => us = given,
         ClockInv, BeginSleep(us, given)
  PROVE  ClockInv'
  <1>1. /\ doing = "nothing" /\ doing' = "usleep" /\ usec' = us /\ asked' = given
        /\ UNCHANGED <<cpu, tsc, extclock, tm_base_clk, beg, cur, began>>
        /\ pc' = pc /\ num0' = num0
    BY DEF BeginSleep, divVars
  <1>2. Counter' /\ Rate'
    BY <1>1 DEF ClockInv, Counter, Rate
  <1>3. pc = "idle"
    BY <1>1 DEF ClockInv, Dividing, Reading
  <1>4. Dividing'
    BY <1>1, <1>3 DEF Dividing
  <1>5. Sleeping'
    BY <1>1 DEF Sleeping
  <1> QED BY <1>2, <1>4, <1>5 DEF ClockInv

LEMMA SleepKeeps ==
  ASSUME ClockInv, NEW t \in Sleeps, usleep(t) \/ msleep(t) \/ sleep(t)
  PROVE  ClockInv'
  <1>1. t \in Nat /\ MSEC_PER_SEC \in Nat /\ USEC_PER_SEC = MSEC_PER_SEC * USEC_PER_MSEC
    BY CpuAssumption, Units DEF CpuAssumption, MSEC_PER_SEC
  <1>2. CASE usleep(t)
    BY <1>1, <1>2, BeginSleepKeeps DEF usleep
  <1>3. CASE msleep(t)
    <2> DEFINE given == t * USEC_PER_MSEC
               us == given % ULONG
    <2>1. given \in Nat
      BY <1>1, Units
    <2>2. us \in Nat /\ (given < ULONG => us = given)
      <3> HIDE DEF given
      <3> QED BY <2>1, Units
    <2>3. BeginSleep(us, given)
      BY <1>3 DEF msleep
    <2> HIDE DEF given, us
    <2> QED BY <2>1, <2>2, <2>3, BeginSleepKeeps
  <1>4. CASE sleep(t)
    <2> DEFINE given == t * USEC_PER_SEC
               us == (((t * MSEC_PER_SEC) % ULONG) * USEC_PER_MSEC) % ULONG
    <2>1. given = t * (MSEC_PER_SEC * USEC_PER_MSEC)
      BY <1>1
    <2>2. us \in Nat /\ given \in Nat /\ (given < ULONG => us = given)
      <3>1. ULONG \in Nat /\ ULONG > 0 /\ USEC_PER_MSEC \in Nat /\ USEC_PER_MSEC > 0
        BY Units
      <3> QED BY <1>1, <2>1, <3>1, Fits
    <2>3. BeginSleep(us, given)
      BY <1>4 DEF sleep
    <2> HIDE DEF given, us
    <2> QED BY <2>2, <2>3, BeginSleepKeeps
  <1> QED BY <1>2, <1>3, <1>4

\* The arguments of a new division satisfy the invariant of the division.
LEMMA RdtscKeeps ==
  ASSUME ClockInv, rdtsc
  PROVE  ClockInv'
  <1>1. /\ pc = "idle" /\ doing \in Reading
        /\ num0' = tsc - tm_base_clk /\ num' = num0' /\ den0' = extclock /\ den' = den0'
        /\ quot' = 0 /\ qbit' = 1 /\ qbits' = {1} /\ pc' = "start"
        /\ UNCHANGED clockVars
    BY DEF rdtsc, Reading
  <1>2. UNCHANGED <<cpu, tsc, extclock, tm_base_clk, doing, usec, beg, cur, asked, began>>
    BY <1>1 DEF clockVars
  <1>3. /\ tsc \in Nat /\ tsc < 2 * TOP /\ tm_base_clk \in Nat /\ num0 \in Nat
        /\ tm_base_clk + num0 <= tsc
    BY DEF ClockInv, Counter
  <1>4. num0' \in Nat /\ num0' >= num0 /\ num0' < 2 * TOP /\ tm_base_clk + num0' <= tsc
    BY <1>1, <1>3, TopAssumption
  <1>5. Counter'
    BY <1>2, <1>3, <1>4 DEF Counter
  <1>6. Rate'
    BY <1>2 DEF ClockInv, Rate
  <1>7. DivInv'
    <2>1. extclock \in Nat /\ extclock < 2 * TOP
      BY Units, TopAssumption DEF ClockInv, Rate
    <2>2. Numbers'
      BY <1>1, <1>4, <2>1 DEF Numbers
    <2>3. Powers'
      BY <1>1 DEF Powers
    <2>4. Phase'
      BY <1>1 DEF Phase
    <2> QED BY <2>2, <2>3, <2>4 DEF DivInv
  <1>8. Dividing'
    BY <1>1, <1>2, <1>7 DEF Dividing, Reading
  <1>9. Sleeping'
    <2>1. doing \in Reading /\ doing' = doing
      BY <1>1, <1>2
    <2>2. doing = "sleeping" =>
            /\ extclock # 0 /\ began \in Nat /\ began <= num0 /\ beg = TimeAt(began)
      BY DEF ClockInv, Sleeping
    <2>3. TimeAt(began)' = TimeAt(began)
      BY <1>2 DEF TimeAt, Msec, do_gettimeofday, get_timer_offset_usec, Carry
    <2>4. doing = "sleeping" => began <= num0'
      BY <2>2, <1>3, <1>4
    <2>5. usec \in Nat /\ asked \in Nat /\ (asked < ULONG => usec = asked)
      BY DEF ClockInv, Sleeping
    <2> QED BY <1>1, <1>2, <2>1, <2>2, <2>3, <2>4, <2>5 DEF Sleeping, Reading
  <1> QED BY <1>5, <1>6, <1>8, <1>9 DEF ClockInv

LEMMA DivisionStep ==
  ASSUME Next
  PROVE  pc \notin {"idle", "done", "trap"} /\ pc' # "idle" /\ num0' = num0 /\ den0' = den0
  BY DEF Next, DivideByZero, Start, Justify, Justified, Divide, Return

LEMMA UdivKeeps ==
  ASSUME ClockInv, udivdi3
  PROVE  ClockInv'
  <1>1. Next /\ UNCHANGED <<cpu, tsc, extclock, tm_base_clk, doing, usec, beg, cur, asked, began>>
    BY DEF udivdi3, clockVars
  <1>2. /\ pc # "idle" /\ pc # "trap" /\ pc' # "idle" /\ num0' = num0 /\ den0' = den0
    BY <1>1, DivisionStep
  <1>3. Counter' /\ Rate'
    BY <1>1, <1>2 DEF ClockInv, Counter, Rate
  <1>4. Dividing'
    <2>1. DivInv /\ den0 = extclock /\ doing \in Reading
      BY <1>2 DEF ClockInv, Dividing
    <2>2. DivInv'
      BY <1>1, <2>1, DivInductive
    <2> QED BY <1>1, <1>2, <2>1, <2>2 DEF Dividing, Reading
  <1>5. Sleeping'
    <2>1. TimeAt(began)' = TimeAt(began)
      BY <1>1 DEF TimeAt, Msec, do_gettimeofday, get_timer_offset_usec, Carry
    <2>2. diff_us(beg, cur)' = diff_us(beg, cur)
      BY <1>1 DEF diff_us
    <2> QED BY <1>1, <1>2, <2>1, <2>2 DEF ClockInv, Sleeping
  <1> QED BY <1>3, <1>4, <1>5 DEF ClockInv

LEMMA GettimeofdayKeeps ==
  ASSUME ClockInv, gettimeofday
  PROVE  ClockInv'
  <1> DEFINE tv == do_gettimeofday(get_timer_offset_usec(quot))
  <1>1. /\ pc = "done" /\ pc' = "idle" /\ num0' = num0
        /\ UNCHANGED <<cpu, tsc, extclock, tm_base_clk, usec, asked>>
    BY DEF gettimeofday
  <1>2. Counter'
    BY <1>1 DEF ClockInv, Counter
  <1>3. DivInv /\ den0 = extclock /\ doing \in Reading
    BY <1>1 DEF ClockInv, Dividing
  <1>4. extclock \in Nat /\ extclock # 0 /\ quot = num0 \div extclock
    <2>1. /\ num0 \in Nat /\ den0 \in Nat \ {0} /\ quot \in Nat /\ num \in Nat
          /\ quot * den0 + num = num0 /\ num < den0
      BY <1>1, <1>3 DEF DivInv, Numbers, Phase
    <2> QED BY <1>3, <2>1, Unique
  <1>5. tv = TimeAt(num0)
    BY <1>4 DEF TimeAt, Msec
  <1>6. TimeAt(began)' = do_gettimeofday(get_timer_offset_usec(began' \div extclock))
    BY <1>1 DEF TimeAt, Msec, do_gettimeofday, get_timer_offset_usec, Carry
  <1>7. TimeAt(num0)' = TimeAt(num0)
    BY <1>1 DEF TimeAt, Msec, do_gettimeofday, get_timer_offset_usec, Carry
  <1>8. num0 \in Nat /\ usec \in Nat /\ asked \in Nat /\ (asked < ULONG => usec = asked)
    BY DEF ClockInv, Counter, Sleeping
  <1>9. Dividing'
    BY <1>1 DEF Dividing
  <1>10. CASE doing = "timer_init" /\ doing' = "nothing"
    <2>1. Rate'
      BY <1>1, <1>4, <1>10 DEF ClockInv, Rate
    <2>2. Sleeping'
      BY <1>1, <1>8, <1>10 DEF Sleeping
    <2> QED BY <1>2, <1>9, <2>1, <2>2 DEF ClockInv
  <1>11. CASE /\ doing = "usleep" /\ doing' = "sleeping"
              /\ beg' = tv /\ cur' = tv /\ began' = num0
    <2>1. Rate'
      BY <1>1, <1>4, <1>11 DEF ClockInv, Rate
    <2>2. beg' = TimeAt(began)' /\ cur' = TimeAt(num0)'
      BY <1>5, <1>6, <1>7, <1>11 DEF TimeAt, Msec
    <2>3. began' \in Nat /\ began' <= num0'
      BY <1>1, <1>8, <1>11
    <2> HIDE DEF tv
    <2>4. Sleeping'
      BY <1>1, <1>4, <1>8, <1>11, <2>2, <2>3 DEF Sleeping
    <2> QED BY <1>2, <1>9, <2>1, <2>4 DEF ClockInv
  <1>12. CASE /\ doing = "sleeping" /\ cur' = tv /\ beg' = beg /\ began' = began
              /\ doing' = IF diff_us(beg, tv) >= usec THEN "woke" ELSE "sleeping"
    <2>1. Rate'
      BY <1>1, <1>4, <1>12 DEF ClockInv, Rate
    <2>2. began \in Nat /\ began <= num0 /\ beg = TimeAt(began)
      BY <1>12 DEF ClockInv, Sleeping
    <2>3. beg' = TimeAt(began)'
      BY <1>6, <1>12, <2>2 DEF TimeAt, Msec
    <2>4. cur' = TimeAt(num0)'
      BY <1>5, <1>7, <1>12
    <2>5. diff_us(beg, cur)' = diff_us(beg, tv)
      BY <1>12 DEF diff_us
    <2>6. doing' = "woke" => diff_us(beg, tv) >= usec
      BY <1>12
    <2>7. doing' \in {"woke", "sleeping"}
      BY <1>12
    <2> HIDE DEF tv
    <2>8. Sleeping'
      BY <1>1, <1>4, <1>8, <1>12, <2>2, <2>3, <2>4, <2>5, <2>6, <2>7 DEF Sleeping
    <2> QED BY <1>2, <1>9, <2>1, <2>8 DEF ClockInv
  <1> QED BY <1>10, <1>11, <1>12 DEF gettimeofday

LEMMA ClockInductive ==
  ASSUME ClockInv, [ClockNext]_<<divVars, clockVars>>
  PROVE  ClockInv'
  <1>1. CASE timer_init
    BY <1>1, TimerInitKeeps
  <1>2. CASE rdtsc
    BY <1>2, RdtscKeeps
  <1>3. CASE udivdi3
    BY <1>3, UdivKeeps
  <1>4. CASE gettimeofday
    BY <1>4, GettimeofdayKeeps
  <1>5. CASE Tick
    BY <1>5, TickKeeps
  <1>6. CASE \E t \in Sleeps : usleep(t) \/ msleep(t) \/ sleep(t)
    BY <1>6, SleepKeeps
  <1>7. CASE UNCHANGED <<divVars, clockVars>>
    <2>1. /\ UNCHANGED <<cpu, tsc, extclock, tm_base_clk, doing, usec, beg, cur, asked, began>>
          /\ UNCHANGED divVars
      BY <1>7 DEF clockVars
    <2>2. pc' = pc /\ num0' = num0 /\ den0' = den0
      BY <2>1 DEF divVars
    <2>3. Counter' /\ Rate'
      BY <2>1, <2>2 DEF ClockInv, Counter, Rate
    <2>4. Dividing'
      BY <2>1, <2>2, DivInvKept DEF ClockInv, Dividing
    <2>5. Sleeping'
      BY <2>1, <2>2 DEF ClockInv, Sleeping, TimeAt, Msec, do_gettimeofday,
                        get_timer_offset_usec, Carry, diff_us
    <2> QED BY <2>3, <2>4, <2>5 DEF ClockInv
  <1> QED BY <1>1, <1>2, <1>3, <1>4, <1>5, <1>6, <1>7 DEF ClockNext, Run

LEMMA ClockInvariant == ClockSpec => []ClockInv
  BY InitClock, ClockInductive, PTL DEF ClockSpec
-----------------------------------------------------------------------------
(***************************************************************************)
(* gettimeofday divides exactly, whatever the counter and the rate.        *)
(***************************************************************************)
THEOREM ClockDivides == ClockSpec => []DivisionExact
  <1>1. ClockInv => DivisionExact
    BY Unique DEF ClockInv, Dividing, DivInv, Numbers, Phase, DivisionExact
  <1> QED BY <1>1, ClockInvariant, PTL

(***************************************************************************)
(* timer_init ends in a fault only on CPUs without the counter and on      *)
(* those that cpu_type does not measure: for every CPU, every rate and     *)
(* also when the measurement fails.                                        *)
(***************************************************************************)
THEOREM OnlyOldCpusTrap == ClockSpec => []TrapsOnlyOldCpus
  <1>1. ClockInv => TrapsOnlyOldCpus
    <2> SUFFICES ASSUME ClockInv, pc = "trap"
                 PROVE  OldCpu(cpu)
      BY DEF TrapsOnlyOldCpus
    <2>1. cpu \in Cpus /\ cpu \in Cpu /\ (cpu.id => cpu.ac) /\ (cpu.hastsc \/ OldCpu(cpu))
      BY CpuAssumption DEF CpuAssumption, ClockInv, Rate
    <2>2. CASE doing = "cpu_type"
      BY <2>1, <2>2 DEF ClockInv, Dividing
    <2>3. CASE doing # "cpu_type"
      <3>1. extclock = 0
        BY <2>3 DEF ClockInv, Dividing, DivInv, Phase
      <3>2. ReturnsEarly(cpu_id(cpu))
        BY <2>3, <3>1 DEF ClockInv, Rate
      <3>3. cpu.level \in Nat /\ cpu.family \in 0 .. 15 /\ cpu.ac \in BOOLEAN /\ cpu.id \in BOOLEAN
        BY <2>1 DEF Cpu
      <3>4. CASE cpu.id /\ cpu.level > 0
        <4>1. cpu_id(cpu) = [cpuid |-> cpu.level, type |-> cpu.family, vendor |-> cpu.vendor]
          BY <2>1, <3>3, <3>4 DEF cpu_id
        <4> QED BY <3>2, <3>3, <3>4, <4>1 DEF ReturnsEarly, OldCpu
      <3> QED BY <3>3, <3>4 DEF OldCpu
    <2> QED BY <2>2, <2>3
  <1> QED BY <1>1, ClockInvariant, PTL

\* Readings a whole number d of milliseconds apart are more than d - 1
\* milliseconds of cycles apart.
LEMMA CyclesBetween ==
  ASSUME NEW a \in Nat, NEW b \in Nat, NEW e \in Nat, e > 0
  PROVE  b - a > ((b \div e) - (a \div e) - 1) * e
  <1> DEFINE qa == a \div e
             qb == b \div e
             ra == a % e
             rb == b % e
  <1>1. /\ qa \in Nat /\ ra \in Nat /\ ra < e /\ a = e * qa + ra
        /\ qb \in Nat /\ rb \in Nat /\ rb < e /\ b = e * qb + rb
    BY Euclid
  <1> HIDE DEF qa, qb, ra, rb
  <1>2. (qb - qa - 1) * e = e * qb - e * qa - e
    BY <1>1
  <1>3. e * qa \in Nat /\ e * qb \in Nat
    BY <1>1
  <1>4. b - a > (qb - qa - 1) * e
    BY <1>1, <1>2, <1>3
  <1> QED BY <1>4 DEF qa, qb

\* From whole milliseconds d to cycles c, with m microseconds in a
\* millisecond and e cycles.
LEMMA LessThanOneEarly ==
  ASSUME NEW c \in Int, NEW d \in Int, NEW g \in Int, NEW e \in Nat, NEW m \in Nat,
         e > 0, m > 0, d * m >= g, c > (d - 1) * e
  PROVE  c * m > (g - m) * e
  <1> DEFINE x == (d - 1) * e
             y == (d - 1) * m
  <1>1. x \in Int /\ y \in Int /\ x * m = y * e /\ y = d * m - m
    OBVIOUS
  <1>2. c > x
    OBVIOUS
  <1> HIDE DEF x, y
  <1>3. c * m > x * m
    BY <1>1, <1>2
  <1>4. y >= g - m
    <2> DEFINE z == d * m
    <2>1. z \in Int /\ z >= g /\ y = z - m
      BY <1>1
    <2> HIDE DEF z
    <2> QED BY <1>1, <2>1
  <1>5. y * e >= (g - m) * e
    <2> DEFINE w == g - m
    <2>1. w \in Int /\ y >= w
      BY <1>4
    <2> HIDE DEF w
    <2>2. y * e >= w * e
      BY <1>1, <2>1
    <2> QED BY <2>2 DEF w
  <1> DEFINE p == c * m
             q == x * m
             u == (g - m) * e
  <1>6. p \in Int /\ q \in Int /\ u \in Int /\ p > q /\ q >= u
    BY <1>1, <1>3, <1>5
  <1> HIDE DEF p, q, u
  <1>7. p > u
    BY <1>6
  <1> QED BY <1>7 DEF p, u

(***************************************************************************)
(* usleep, msleep and sleep return less than a millisecond of the measured *)
(* rate early, however often the microseconds wrapped meanwhile, when the  *)
(* microseconds asked for fit the word.                                    *)
(***************************************************************************)
THEOREM UsleepSleepsEnough == ClockSpec => []SleptEnough
  <1>1. ClockInv => SleptEnough
    <2> SUFFICES ASSUME ClockInv, doing = "woke", asked < ULONG
                 PROVE  (num0 - began) * USEC_PER_MSEC > (asked - USEC_PER_MSEC) * extclock
      BY DEF SleptEnough
    <2>1. pc = "idle"
      BY DEF ClockInv, Dividing, Reading
    <2>2. /\ extclock \in Nat /\ extclock # 0 /\ began \in Nat /\ num0 \in Nat
          /\ began <= num0 /\ usec \in Nat /\ asked \in Nat /\ usec = asked
          /\ beg = TimeAt(began) /\ cur = TimeAt(num0) /\ diff_us(beg, cur) >= usec
      BY <2>1 DEF ClockInv, Sleeping, Counter, Rate
    <2> DEFINE a == Usec(began)
               b == Usec(num0)
               ra == a % ULONG
               rb == b % ULONG
               d == Msec(num0) - Msec(began)
    <2>3. /\ a \in Nat /\ b \in Nat /\ a <= b /\ ra \in Nat /\ rb \in Nat
          /\ Msec(began) \in Nat /\ Msec(num0) \in Nat
      BY <2>2, Microseconds, UsecMonotone
    <2>4. diff_us(beg, cur) = (rb - ra) % ULONG
      <3>1. beg = do_gettimeofday(ra) /\ cur = do_gettimeofday(rb)
        BY <2>2, Microseconds
      <3> HIDE DEF ra, rb
      <3> QED BY <2>3, <3>1, Difference
    <2>5. (rb - ra) % ULONG <= b - a
      <3> HIDE DEF a, b
      <3>1. a \in Nat /\ b \in Nat /\ a <= b /\ ULONG \in Nat /\ ULONG > 0
        BY <2>3, Units
      <3>2. ((b % ULONG) - (a % ULONG)) % ULONG <= b - a
        BY <3>1, WrappedDifference
      <3> QED BY <3>2
    <2>6. b - a = d * USEC_PER_MSEC
      BY <2>3, Units DEF Usec
    <2>7. (rb - ra) % ULONG \in Nat
      <3> HIDE DEF ra, rb
      <3> QED BY <2>3, Units
    <2>8. num0 - began > (d - 1) * extclock
      BY <2>2, CyclesBetween DEF Msec
    <2>9. d \in Int /\ num0 - began \in Int
      BY <2>2, <2>3
    <2> HIDE DEF a, b, ra, rb, d
    <2>10. b - a >= asked
      <3> DEFINE w == (rb - ra) % ULONG
      <3>1. w >= asked /\ w <= b - a /\ w \in Nat
        BY <2>2, <2>4, <2>5, <2>7
      <3> HIDE DEF w
      <3> QED BY <2>2, <2>3, <3>1
    <2> DEFINE c == num0 - began
    <2>11. /\ c \in Int /\ asked \in Int /\ extclock > 0 /\ d * USEC_PER_MSEC >= asked
           /\ c > (d - 1) * extclock
      BY <2>2, <2>6, <2>8, <2>9, <2>10
    <2> HIDE DEF c
    <2>12. c * USEC_PER_MSEC > (asked - USEC_PER_MSEC) * extclock
      BY <2>2, <2>9, <2>11, Units, LessThanOneEarly
    <2> QED BY <2>12 DEF c
  <1> QED BY <1>1, ClockInvariant, PTL

\* Exact division by the milliseconds in a second.
LEMMA MillisecondDifference ==
  ASSUME NEW k \in Nat, NEW m \in Nat, m > 0, NEW d \in Int, NEW s \in Int, NEW u \in Int,
         s * (k * m) + u = d * m
  PROVE  s * k + (u \div m) = d
  <1>1. s * (k * m) = (s * k) * m
    OBVIOUS
  <1> DEFINE p == s * k
  <1>2. p \in Int /\ s * (k * m) = p * m
    BY <1>1
  <1> HIDE DEF p
  <1>3. u = d * m - p * m
    BY <1>2
  <1>4. u = (d - p) * m
    BY <1>2, <1>3
  <1>5. u \div m = d - p
    <2>1. ASSUME NEW x \in Int, NEW n \in Nat, n > 0
          PROVE  (x * n) \div n = x
      BY <2>1
    <2> QED BY <1>2, <1>4, <2>1
  <1>6. p + (u \div m) = d
    BY <1>2, <1>5
  <1> QED BY <1>6 DEF p

(***************************************************************************)
(* Two times the microseconds did not wrap between differ by what the      *)
(* counter counted, to the millisecond, and tv_usec is less than a second. *)
(***************************************************************************)
THEOREM StopwatchIsExact == ClockSpec => []StopwatchExact
  <1>1. ClockInv => StopwatchExact
    <2> SUFFICES ASSUME ClockInv, pc = "idle", doing \in {"sleeping", "woke"}
                 PROVE  /\ cur.usec < USEC_PER_SEC
                        /\ Usec(num0) \div ULONG = Usec(began) \div ULONG
                           => time_diff_msec(beg, cur) = Msec(num0) - Msec(began)
      BY DEF StopwatchExact, Usec
    <2>1. /\ extclock \in Nat /\ extclock # 0 /\ began \in Nat /\ num0 \in Nat
          /\ beg = TimeAt(began) /\ cur = TimeAt(num0)
      BY DEF ClockInv, Sleeping, Counter, Rate
    <2> DEFINE a == Usec(began)
               b == Usec(num0)
               ra == a % ULONG
               rb == b % ULONG
    <2>2. /\ a \in Nat /\ b \in Nat /\ ra \in Nat /\ rb \in Nat
          /\ Msec(began) \in Nat /\ Msec(num0) \in Nat
          /\ beg = do_gettimeofday(ra) /\ cur = do_gettimeofday(rb)
      BY <2>1, Microseconds
    <2>3. /\ beg.sec \in Nat /\ beg.usec \in Nat /\ beg.sec * USEC_PER_SEC + beg.usec = ra
          /\ cur.sec \in Nat /\ cur.usec \in Nat /\ cur.sec * USEC_PER_SEC + cur.usec = rb
          /\ cur.usec < USEC_PER_SEC
      <3> HIDE DEF ra, rb
      <3> QED BY <2>2, Split
    <2>4. ASSUME b \div ULONG = a \div ULONG
          PROVE  time_diff_msec(beg, cur) = Msec(num0) - Msec(began)
      <3>1. rb - ra = b - a
        <4>1. /\ a = ULONG * (a \div ULONG) + ra /\ b = ULONG * (b \div ULONG) + rb
              /\ a \div ULONG \in Nat
          <5> HIDE DEF a, b
          <5> QED BY <2>2, Units, Euclid
        <4> DEFINE q == ULONG * (a \div ULONG)
        <4>2. q \in Nat
          BY <4>1, Units
        <4>3. a = q + ra /\ b = q + rb
          BY <4>1, <2>4
        <4> HIDE DEF q, a, b, ra, rb
        <4> QED BY <2>2, <4>2, <4>3
      <3>2. b - a = (Msec(num0) - Msec(began)) * USEC_PER_MSEC
        BY <2>2, Units DEF Usec
      <3> DEFINE k == USEC_PER_SEC \div USEC_PER_MSEC
                 d == Msec(num0) - Msec(began)
                 s == cur.sec - beg.sec
                 u == cur.usec - beg.usec
      <3>3. k \in Nat /\ USEC_PER_SEC = k * USEC_PER_MSEC
        BY Units
      <3>4. d \in Int /\ s \in Int /\ u \in Int
        BY <2>2, <2>3
      <3>5. s * USEC_PER_SEC + u = rb - ra
        <4>1. s * USEC_PER_SEC = cur.sec * USEC_PER_SEC - beg.sec * USEC_PER_SEC
          BY <2>3, Units
        <4>2. cur.sec * USEC_PER_SEC \in Nat /\ beg.sec * USEC_PER_SEC \in Nat
          BY <2>3, Units
        <4> HIDE DEF ra, rb
        <4> QED BY <2>2, <2>3, <4>1, <4>2
      <3> HIDE DEF a, b, ra, rb, k, d, s, u
      <3>6. s * (k * USEC_PER_MSEC) + u = d * USEC_PER_MSEC
        BY <3>1, <3>2, <3>3, <3>5 DEF d
      <3>7. s * k + (u \div USEC_PER_MSEC) = d
        BY <3>3, <3>4, <3>6, Units, MillisecondDifference
      <3> QED BY <3>7 DEF time_diff_msec, MSEC_PER_SEC, s, k, u, d
    <2> QED BY <2>3, <2>4
  <1> QED BY <1>1, ClockInvariant, PTL
=============================================================================
