------------------------------ MODULE Calendar ------------------------------
(***************************************************************************)
(* timer.c: from the registers of the CMOS clock to the seconds since 1970 *)
(* that gettimeofday starts from: bcd2bin, the year window and the month   *)
(* shift of rtc_get_rtc_time, get_timer_base_sec and my_mktime.            *)
(*                                                                         *)
(* External: the calendar itself, which counts the present date one day at *)
(* a time from 1970-01-01, and how the clock chip shows it, in BCD or in   *)
(* binary.                                                                 *)
(***************************************************************************)
EXTENDS Integers

CONSTANT LastYear    \* the calendar is followed to the end of this year

Time ==
  { t \in [hour : Nat, min : Nat, sec : Nat] : t.hour < 24 /\ t.min < 60 /\ t.sec < 60 }

ASSUME YearAssumption == LastYear \in Nat /\ 1970 <= LastYear /\ LastYear <= 2069

VARIABLES year, mon, day,   \* the present date
          days              \* days since 1970-01-01

date == <<year, mon, day, days>>

Leap(y) == y % 4 = 0 /\ (y % 100 # 0 \/ y % 400 = 0)

DaysIn(y, m) ==
  CASE m = 2 -> IF Leap(y) THEN 29 ELSE 28
    [] m \in {4, 6, 9, 11} -> 30
    [] OTHER -> 31

FirstDay == year = 1970 /\ mon = 1 /\ day = 1 /\ days = 0

NextDay ==
  /\ ~(year = LastYear /\ mon = 12 /\ day = 31)
  /\ \/ /\ day < DaysIn(year, mon)
        /\ day' = day + 1
        /\ UNCHANGED <<year, mon>>
     \/ /\ day = DaysIn(year, mon) /\ mon < 12
        /\ day' = 1 /\ mon' = mon + 1
        /\ UNCHANGED year
     \/ /\ day = DaysIn(year, mon) /\ mon = 12
        /\ day' = 1 /\ mon' = 1 /\ year' = year + 1
  /\ days' = days + 1

\* The seconds in n days and the time t.
SecondsAt(n, t) == n * 86400 + t.hour * 3600 + t.min * 60 + t.sec

\* A register holding n, and all of them on date y, m, d at time t.
Encode(n, binary) == IF binary THEN n ELSE 16 * (n \div 10) + (n % 10)

Registers(y, m, d, t, binary) ==
  [sec  |-> Encode(t.sec, binary), min |-> Encode(t.min, binary),
   hour |-> Encode(t.hour, binary), mday |-> Encode(d, binary),
   mon  |-> Encode(m, binary), year |-> Encode(y % 100, binary)]
-----------------------------------------------------------------------------
(* The code                                                                *)

epoch == 1900

bcd2bin(val) == (val % 16) + (val \div 16) * 10

tm_year(y) == LET t == y + epoch - 1900 IN IF t <= 69 THEN t + 100 ELSE t

\* rtc_get_rtc_time after the reads: binary is bit RTC_DM_BINARY of RTC_CONTROL.
rtc_tm(r, binary) ==
  LET Value(v) == IF binary THEN v ELSE bcd2bin(v)
  IN  [tm_sec |-> Value(r.sec), tm_min |-> Value(r.min), tm_hour |-> Value(r.hour),
       tm_mday |-> Value(r.mday), tm_mon |-> Value(r.mon) - 1,
       tm_year |-> tm_year(Value(r.year))]

\* Mutant: February is not moved behind December.
mktime_days_mut(year0, mon0, d) ==
  LET m == IF 0 > mon0 - 2 THEN mon0 + 10 ELSE mon0 - 2
      y == IF 0 > mon0 - 2 THEN year0 - 1 ELSE year0
  IN  ((y \div 4) - (y \div 100) + (y \div 400) + ((367 * m) \div 12) + d)
        + y * 365 - 719499

(***************************************************************************)
(* my_mktime's day number; February comes last, "since it has leap day".   *)
(* The test is 0 >= (int)(mon -= 2).  The terms do not overflow an         *)
(* unsigned int and the sum is never negative.                             *)
(***************************************************************************)
mktime_days(year0, mon0, d) ==
  LET m == IF 0 >= mon0 - 2 THEN mon0 + 10 ELSE mon0 - 2
      y == IF 0 >= mon0 - 2 THEN year0 - 1 ELSE year0
  IN  ((y \div 4) - (y \div 100) + (y \div 400) + ((367 * m) \div 12) + d)
        + y * 365 - 719499

my_mktime(year0, mon0, d, hour, min, sec) ==
  ((mktime_days(year0, mon0, d) * 24 + hour) * 60 + min) * 60 + sec

get_timer_base_sec(tm) ==
  my_mktime(tm.tm_year + epoch, tm.tm_mon + 1, tm.tm_mday,
            tm.tm_hour, tm.tm_min, tm.tm_sec)
=============================================================================
