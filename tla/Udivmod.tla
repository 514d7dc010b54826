------------------------------ MODULE Udivmod -------------------------------
(***************************************************************************)
(* lib.c: __udivmoddi4, the 64-bit division the compiler calls for every   *)
(* uint64_t quotient and remainder (__udivdi3, __umoddi3): the request     *)
(* loop of wipe_disk, lba2chs, the progress bar, the clock.                *)
(* One iteration of a loop is one step.  Words are numbers below 2 * TOP.  *)
(***************************************************************************)
EXTENDS Integers

CONSTANT TOP        \* the sign bit of int64_t, 2^63 in the code

ASSUME TopAssumption == TOP \in Nat \ {0}

Word == {n \in Nat : n < 2 * TOP}

VARIABLES num, den, quot, qbit,
          pc,           \* "start", "justify", "divide", "done", "trap"
          num0, den0,   \* history: the arguments
          qbits         \* history: the values the first loop gave qbit

vars == <<num, den, quot, qbit, pc, num0, den0, qbits>>

Init ==
  /\ num0 \in 0 .. 2 * TOP - 1 /\ den0 \in 0 .. 2 * TOP - 1
  /\ num = num0 /\ den = den0
  /\ quot = 0 /\ qbit = 1 /\ qbits = {1}
  /\ pc = "start"

\* 1/((unsigned)den) with den = 0: the divide fault, from which inter.c does
\* not return.
DivideByZero ==
  /\ pc = "start" /\ den = 0
  /\ pc' = "trap"
  /\ UNCHANGED <<num, den, quot, qbit, num0, den0, qbits>>

Start ==
  /\ pc = "start" /\ den # 0
  /\ pc' = "justify"
  /\ UNCHANGED <<num, den, quot, qbit, num0, den0, qbits>>

ShiftLeft(w) == (2 * w) % (2 * TOP)

\* Mutant: the sign bit alone does not end the shift.
Negative_mut(w) == w > TOP

\* (int64_t)w < 0
Negative(w) == w >= TOP

Justify ==
  /\ pc = "justify" /\ ~Negative(den)
  /\ den' = ShiftLeft(den)
  /\ qbit' = ShiftLeft(qbit)
  /\ qbits' = qbits \cup {qbit'}
  /\ UNCHANGED <<num, quot, pc, num0, den0>>

Justified ==
  /\ pc = "justify" /\ Negative(den)
  /\ pc' = "divide"
  /\ UNCHANGED <<num, den, quot, qbit, num0, den0, qbits>>

\* Mutant: strict comparison.
Goes_mut == den < num

\* den <= num
Goes == den <= num

Divide ==
  /\ pc = "divide" /\ qbit # 0
  /\ num' = IF Goes THEN num - den ELSE num
  /\ quot' = IF Goes THEN (quot + qbit) % (2 * TOP) ELSE quot
  /\ den' = den \div 2
  /\ qbit' = qbit \div 2
  /\ UNCHANGED <<pc, num0, den0, qbits>>

Return ==
  /\ pc = "divide" /\ qbit = 0
  /\ pc' = "done"
  /\ UNCHANGED <<num, den, quot, qbit, num0, den0, qbits>>

Next == DivideByZero \/ Start \/ Justify \/ Justified \/ Divide \/ Return
Spec == Init /\ [][Next]_vars
FairSpec == Spec /\ WF_vars(Next)
-----------------------------------------------------------------------------
(***************************************************************************)
(* The quotient and the remainder __udivmoddi4 returns are those of the    *)
(* division, for all words: no bit is lost in the shifts, and the quotient *)
(* bits add up without a carry.                                            *)
(***************************************************************************)
DivisionExact ==
  pc = "done" => quot = num0 \div den0 /\ num = num0 % den0

(***************************************************************************)
(* The two loops end: the first reaches the sign bit, the second shifts    *)
(* qbit out; a zero divisor traps instead of looping.                      *)
(***************************************************************************)
DivisionEnds == <>(IF den0 = 0 THEN pc = "trap" ELSE pc = "done")
=============================================================================
