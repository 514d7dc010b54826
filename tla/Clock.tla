-------------------------------- MODULE Clock --------------------------------
(***************************************************************************)
(* timer.c and lib.c: the running clock.  timer_init has cpu_type measure  *)
(* the rate of the time stamp counter, gettimeofday divides the counter by *)
(* it (one step per iteration of __udivmoddi4, module Udivmod), and usleep *)
(* compares two times.  Times count from the base that module Rtc reads.   *)
(*                                                                         *)
(* External: the counter, which advances between readings, and the CPU.    *)
(* (The counter is latched by rdtsc: what it does during a division shows  *)
(* only in the next reading, so that it stands still meanwhile.)           *)
(***************************************************************************)
EXTENDS Udivmod

CONSTANTS
  ULONG,                        \* 2^32, the range of unsigned long
  USEC_PER_MSEC, USEC_PER_SEC,  \* 1000, 1000000
  ROUNDING,                     \* 50 or 500, added to the measured rate
  Cpus,                         \* the CPUs there are
  Speeds,                       \* the rates in kHz a measurement may give
  Sleeps                        \* the arguments of usleep, msleep and sleep

(***************************************************************************)
(* External: a CPU, by what can be found out about it: whether bits AC and *)
(* ID of EFLAGS can be changed, whether a division leaves the flags alone  *)
(* (Cyrix), what CPUID says, and whether it has the counter.               *)
(***************************************************************************)
Cpu ==
  [ac : BOOLEAN, id : BOOLEAN, keepsflags : BOOLEAN, level : Nat, family : 0 .. 15,
   vendor : {"Intel", "Transmeta", "AMD", "Centaur", "Cyrix", "other"}, hastsc : BOOLEAN]

\* External: no CPUID, a 486, or of a make cpu_type does not know.
OldCpu(c) == ~c.id \/ c.level = 0 \/ c.family <= 4 \/ c.vendor \in {"Cyrix", "other"}

\* head.S: cpu_id, as far as it decides whether the speed is measured.
cpu_id(c) ==
  CASE ~c.ac                            -> [cpuid |-> -1, type |-> 3, vendor |-> "none"]
    [] c.ac /\ ~c.id /\ ~c.keepsflags   -> [cpuid |-> -1, type |-> 4, vendor |-> "none"]
    [] c.ac /\ ~c.id /\ c.keepsflags    -> [cpuid |-> -1, type |-> 2, vendor |-> "none"]
    [] c.ac /\ c.id /\ c.level = 0      -> [cpuid |-> 0, type |-> 4, vendor |-> c.vendor]
    [] c.ac /\ c.id /\ c.level > 0      -> [cpuid |-> c.level, type |-> c.family, vendor |-> c.vendor]

ASSUME UnitAssumption ==
  /\ USEC_PER_MSEC \in Nat \ {0} /\ USEC_PER_SEC \in Nat \ {0}
  /\ USEC_PER_SEC % USEC_PER_MSEC = 0
  /\ ULONG \in Nat /\ ULONG <= 2 * TOP /\ ROUNDING \in 2 .. ULONG - 1
\* Bit AC came with the 486, bit ID with later ones, the counter with the
\* Pentium and what competed with it.
ASSUME CpuAssumption ==
  /\ Cpus \subseteq Cpu /\ \A c \in Cpus : (c.id => c.ac) /\ (c.hastsc \/ OldCpu(c))
  /\ \A s \in Speeds : s \in Nat \ {0} /\ s + ROUNDING < ULONG
  /\ Sleeps \subseteq 0 .. ULONG - 1

VARIABLES
  cpu, tsc,                \* the CPU and its counter
  extclock, tm_base_clk,
  doing,                   \* who reads the clock
  usec, beg, cur,          \* usleep
  asked, began             \* history: the microseconds usleep, msleep or sleep was
                           \* called for, and the counter when usleep read beg

divVars   == <<num, den, quot, qbit, pc, num0, den0, qbits>>
clockVars == <<cpu, tsc, extclock, tm_base_clk, doing, usec, beg, cur, asked, began>>

ClockInit ==
  /\ cpu \in Cpus /\ tsc \in {0, TOP}
  /\ extclock = 0 /\ tm_base_clk = 0
  /\ doing = "cpu_type"
  /\ usec = 0 /\ beg = [sec |-> 0, usec |-> 0] /\ cur = beg /\ asked = 0 /\ began = 0
  /\ num0 = 0 /\ den0 = 0 /\ num = 0 /\ den = 0 /\ quot = 0 /\ qbit = 1 /\ qbits = {1}
  /\ pc = "idle"

\* Mutant: level 1 is not enough.
ReturnsEarly_mut(ident) == ident.cpuid < 2

\* cpu_type returns before it measures the speed.
ReturnsEarly(ident) ==
  \/ ident.cpuid < 1
  \/ ident.vendor \in {"AMD", "Intel"} /\ ident.type = 4
  \/ ident.vendor = "Cyrix" /\ ident.type = 5
  \/ ident.vendor = "other" /\ ident.type \in {5, 6}

(***************************************************************************)
(* cpuspeed's result; -1, when it is not credible, is stored in a uint32_t *)
(* and passes the test "> 0".                                              *)
(***************************************************************************)
cpuspeed == Speeds \cup {ULONG - 1}

\* cpu_type: rounded, and stored as the rate.
rounded(speed) == (speed + ROUNDING) % ULONG

(***************************************************************************)
(* timer_init up to its own gettimeofday.  Without a counter, rdtsc is an  *)
(* undefined opcode, in cpuspeed or in timer_init, and inter.c does not    *)
(* return from the fault.                                                  *)
(***************************************************************************)
timer_init ==
  /\ pc = "idle" /\ doing = "cpu_type"
  /\ \/ /\ ~cpu.hastsc
        /\ pc' = "trap"
        /\ UNCHANGED <<extclock, tm_base_clk, doing>>
     \/ /\ cpu.hastsc
        /\ IF ReturnsEarly(cpu_id(cpu)) THEN UNCHANGED extclock
           ELSE \E speed \in cpuspeed : extclock' = rounded(speed)
        /\ tm_base_clk' = tsc
        /\ doing' = "timer_init"
        /\ UNCHANGED pc
  /\ UNCHANGED <<num, den, quot, qbit, num0, den0, qbits, cpu, tsc, usec, beg, cur, asked, began>>

\* External: time passes.
Tick ==
  /\ pc = "idle" /\ doing # "cpu_type" /\ tsc + 1 \in Word
  /\ tsc' = tsc + 1
  /\ UNCHANGED <<divVars, cpu, extclock, tm_base_clk, doing, usec, beg, cur, asked, began>>

\* usleep(us), called for the given number of microseconds: once per behaviour.
BeginSleep(us, given) ==
  /\ doing = "nothing"
  /\ usec' = us /\ asked' = given
  /\ doing' = "usleep"
  /\ UNCHANGED <<divVars, cpu, tsc, extclock, tm_base_clk, beg, cur, began>>

MSEC_PER_SEC == USEC_PER_SEC \div USEC_PER_MSEC

\* The arguments are multiplied in 32 bits.
usleep(u) == BeginSleep(u, u)
msleep(m) == BeginSleep((m * USEC_PER_MSEC) % ULONG, m * USEC_PER_MSEC)
sleep(s) ==
  BeginSleep((((s * MSEC_PER_SEC) % ULONG) * USEC_PER_MSEC) % ULONG, s * USEC_PER_SEC)

\* gettimeofday up to the division: rdtsc, cur -= tm_base_clk.
rdtsc ==
  /\ pc = "idle" /\ doing \in {"timer_init", "usleep", "sleeping"}
  /\ num0' = tsc - tm_base_clk /\ num' = num0'
  /\ den0' = extclock /\ den' = den0'
  /\ quot' = 0 /\ qbit' = 1 /\ qbits' = {1}
  /\ pc' = "start"
  /\ UNCHANGED clockVars

udivdi3 == Next /\ UNCHANGED clockVars

get_timer_offset_usec(msec) == (msec * USEC_PER_MSEC) % ULONG

\* Mutant: a whole second is not carried over.
Carry_mut(us) == IF us = 0 THEN 0 ELSE (us - 1) \div USEC_PER_SEC

\* do_gettimeofday: how often the loop "be safe" subtracts a second.
Carry(us) == us \div USEC_PER_SEC

do_gettimeofday(us) == [sec |-> Carry(us), usec |-> us - Carry(us) * USEC_PER_SEC]

\* Mutant: whole seconds only.
diff_us_mut(t0, t1) == ((t1.sec - t0.sec) * USEC_PER_SEC) % ULONG

\* usleep: computed in useconds_t, which wraps.
diff_us(t0, t1) == ((t1.sec - t0.sec) * USEC_PER_SEC + (t1.usec - t0.usec)) % ULONG

\* gettimeofday returns to its caller.
gettimeofday ==
  /\ pc = "done"
  /\ pc' = "idle"
  /\ LET tv == do_gettimeofday(get_timer_offset_usec(quot))
     IN  \/ /\ doing = "timer_init"
            /\ doing' = "nothing"
            /\ UNCHANGED <<beg, cur, began>>
         \/ /\ doing = "usleep"
            /\ beg' = tv /\ cur' = tv /\ began' = num0
            /\ doing' = "sleeping"
         \/ /\ doing = "sleeping"
            /\ cur' = tv
            /\ doing' = IF diff_us(beg, tv) >= usec THEN "woke" ELSE "sleeping"
            /\ UNCHANGED <<beg, began>>
  /\ UNCHANGED <<num, den, quot, qbit, num0, den0, qbits,
                 cpu, tsc, extclock, tm_base_clk, usec, asked>>

Run == timer_init \/ rdtsc \/ udivdi3 \/ gettimeofday

ClockNext == Run \/ Tick \/ \E t \in Sleeps : usleep(t) \/ msleep(t) \/ sleep(t)

\* The program executes; how time passes meanwhile is not assumed.
ClockSpec ==
  ClockInit /\ [][ClockNext]_<<divVars, clockVars>> /\ WF_<<divVars, clockVars>>(Run)
-----------------------------------------------------------------------------
\* The milliseconds of the clock that the counter value c stands for.
Msec(c) == c \div extclock

\* update_progress: the time since reset_progress.
time_diff_msec(t0, t1) ==
  (t1.sec - t0.sec) * MSEC_PER_SEC + (t1.usec - t0.usec) \div USEC_PER_MSEC

(***************************************************************************)
(* usleep, msleep and sleep wake less than one millisecond of the measured *)
(* rate early, counted in cycles from the reading of beg: the clock counts *)
(* whole milliseconds, and although it falls back by 2^32 microseconds     *)
(* every 71 minutes, the difference usleep computes wraps with it.  Said   *)
(* of times whose microseconds fit 32 bits; longer ones are cut where      *)
(* msleep and sleep multiply (lib.c usleep, msleep, sleep; timer.c         *)
(* get_timer_offset_usec).                                                 *)
(***************************************************************************)
SleptEnough ==
  doing = "woke" /\ asked < ULONG =>
    (num0 - began) * USEC_PER_MSEC > (asked - USEC_PER_MSEC) * extclock

(***************************************************************************)
(* Two times between which the microseconds did not wrap are as far apart  *)
(* as the counter says, to the millisecond, for the speed and the time     *)
(* left that update_progress shows; and tv_usec is less than a second.     *)
(***************************************************************************)
StopwatchExact ==
  pc = "idle" /\ doing \in {"sleeping", "woke"} =>
    /\ cur.usec < USEC_PER_SEC
    /\ (Msec(num0) * USEC_PER_MSEC) \div ULONG = (Msec(began) * USEC_PER_MSEC) \div ULONG
       => time_diff_msec(beg, cur) = Msec(num0) - Msec(began)

(***************************************************************************)
(* timer_init ends in a fault, of a division by zero or of an rdtsc that   *)
(* is not there, only on CPUs without CPUID, 486s, Cyrix CPUs and unknown  *)
(* vendors: every later one gets a rate, even when the measurement fails   *)
(* (head.S from "Find out the CPU type", timer.c cpu_type).                *)
(***************************************************************************)
TrapsOnlyOldCpus == pc = "trap" => OldCpu(cpu)
=============================================================================
