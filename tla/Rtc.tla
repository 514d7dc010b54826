-------------------------------- MODULE Rtc ---------------------------------
(***************************************************************************)
(* timer.c: timer_init reads the date and time from the CMOS clock with    *)
(* rtc_get_rtc_time, one port access per register, while the clock runs.   *)
(*                                                                         *)
(* External: the clock chip.  While the machine is off days go by.  Once   *)
(* it is on, a second lasts Period accesses.  In its last Update accesses  *)
(* the chip rewrites the registers and a read returns anything.  Its       *)
(* update-in-progress bit (RTC_UIP) is set Guard accesses before that (244 *)
(* us on the chip; an access takes about one) and cleared with the new     *)
(* second.                                                                 *)
(***************************************************************************)
EXTENDS Calendar, Sequences

CONSTANTS Period, Guard, Update,
          BootDates,    \* bound: dates on which the machine may be switched on
          TimesOfDay,   \* bound: the times of day at which it may
          Garbage       \* what a register may show during an update

\* The registers read, in this order; then RTC_CONTROL.
Order == <<"sec", "min", "hour", "mday", "mon", "year", "wday">>
Reads == Len(Order) + 1

ASSUME ChipAssumption ==
  /\ Period \in Nat /\ Guard \in Nat /\ Update \in Nat \ {0}
  /\ Guard >= Reads
  /\ Guard + Update < Period
ASSUME TimeAssumption == TimesOfDay \subseteq Time

VARIABLES tod, phase,   \* the chip: time of day, accesses since the second began
          binary,       \* the chip: RTC_DM_BINARY
          at,           \* "off", "poll", "read", "done"
          next,         \* the register read next
          tm,           \* rtc_tm as read, before its conversion
          started       \* history: the time when the poll ended

rtcVars == <<date, tod, phase, binary, at, next, tm, started>>

\* External: the seconds since 1970.
Now == SecondsAt(days, tod)

Uip      == phase >= Period - Update - Guard
Updating == phase >= Period - Update
Shown    == Registers(year, mon, day, tod, binary)

Midnight == [hour |-> 0, min |-> 0, sec |-> 0]

\* External: a second has passed.
NextSecond ==
  \/ /\ tod.sec < 59
     /\ tod' = [tod EXCEPT !.sec = @ + 1]
     /\ UNCHANGED date
  \/ /\ tod.sec = 59 /\ tod.min < 59
     /\ tod' = [hour |-> tod.hour, min |-> tod.min + 1, sec |-> 0]
     /\ UNCHANGED date
  \/ /\ tod.sec = 59 /\ tod.min = 59 /\ tod.hour < 23
     /\ tod' = [hour |-> tod.hour + 1, min |-> 0, sec |-> 0]
     /\ UNCHANGED date
  \/ /\ tod.sec = 59 /\ tod.min = 59 /\ tod.hour = 23
     /\ tod' = Midnight
     /\ NextDay

\* One access to the chip takes one unit of its time.
Access ==
  \/ phase + 1 < Period /\ phase' = phase + 1 /\ UNCHANGED <<tod, date>>
  \/ phase + 1 = Period /\ phase' = 0 /\ NextSecond

RtcInit ==
  /\ FirstDay
  /\ tod = Midnight /\ phase = 0 /\ binary = FALSE
  /\ at = "off" /\ next = 1
  /\ tm = [sec |-> 0, min |-> 0, hour |-> 0, mday |-> 0, mon |-> 0, year |-> 0]
  /\ started = 0

DayPasses ==
  /\ at = "off"
  /\ NextDay
  /\ UNCHANGED <<tod, phase, binary, at, next, tm, started>>

\* The program is started, at any moment of a second.
PowerOn ==
  /\ at = "off" /\ <<year, mon, day>> \in BootDates
  /\ tod' \in TimesOfDay
  /\ phase' \in 0 .. Period - 1
  /\ binary' \in BOOLEAN
  /\ at' = "poll"
  /\ UNCHANGED <<date, next, tm, started>>

\* Mutant: one look at the bit, whatever it says.
PollOk_mut == TRUE

\* rtc_is_updating returned 0.
PollOk == ~Uip

Poll ==
  /\ at = "poll"
  /\ at' = IF PollOk THEN "read" ELSE "poll"
  /\ started' = Now
  /\ Access
  /\ UNCHANGED <<binary, next, tm>>

\* The day of the week is read as well, and never used.
ReadRegister ==
  /\ at = "read" /\ next < Reads
  /\ IF Order[next] = "wday" THEN UNCHANGED tm
     ELSE \E v \in IF Updating THEN Garbage ELSE {Shown[Order[next]]} :
            tm' = [tm EXCEPT ![Order[next]] = v]
  /\ next' = next + 1
  /\ Access
  /\ UNCHANGED <<binary, at, started>>

\* The control register; what follows touches no port.
ReadControl ==
  /\ at = "read" /\ next = Reads
  /\ at' = "done"
  /\ Access
  /\ UNCHANGED <<binary, next, tm, started>>

Read == Poll \/ ReadRegister \/ ReadControl
RtcNext == DayPasses \/ PowerOn \/ Read
RtcSpec == RtcInit /\ [][RtcNext]_rtcVars

\* The program executes, and each access takes some of the chip's time.
RtcFairSpec == RtcSpec /\ WF_rtcVars(Read)
-----------------------------------------------------------------------------
(***************************************************************************)
(* The seconds since 1970 that gettimeofday starts from are the time at    *)
(* which the poll ended, on every day and in both register formats: the    *)
(* registers are never a mixture of two seconds, although the bit is looked*)
(* at only once before the eight accesses (rtc_get_rtc_time), and the      *)
(* conversion is right across leap years and the window that tells 1970    *)
(* from 2069 (get_timer_base_sec, my_mktime).                              *)
(***************************************************************************)
BaseSecExact == at = "done" => get_timer_base_sec(rtc_tm(tm, binary)) = started

(***************************************************************************)
(* The empty loop "while (rtc_is_updating() != 0)" ends, and the time read *)
(* is less than a second old: timer_init takes it for the present.         *)
(***************************************************************************)
ReadEnds == at = "poll" ~> (at = "done" /\ Now = started)
=============================================================================
