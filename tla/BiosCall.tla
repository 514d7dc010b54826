------------------------------ MODULE BiosCall ------------------------------
(***************************************************************************)
(* What int13_1 .. int13_4 promise their C callers: a BIOS call is a       *)
(* function call.  It returns the carry flag of the one INT 13h it made    *)
(* and leaves the caller's registers alone.  Only an exception in C code   *)
(* stops the machine.                                                      *)
(***************************************************************************)
EXTENDS Naturals

VARIABLES phase,    \* "c" code runs, the "bios" runs, it has "answered", "halted"
          regs,     \* the registers the C caller relies on
          answer,   \* the BIOS's carry flag
          result    \* {what int13_n returned}, {} before it has

vars == <<phase, regs, answer, result>>

Init == phase = "c" /\ answer = 0 /\ result = {0}

Call ==
  /\ phase = "c"
  /\ phase' = "bios"
  /\ result' = {}
  /\ UNCHANGED <<regs, answer>>

Answer(cf) ==
  /\ phase = "bios"
  /\ phase' = "answered"
  /\ answer' = cf
  /\ UNCHANGED <<regs, result>>

Return ==
  /\ phase = "answered"
  /\ phase' = "c"
  /\ result' = {answer}
  /\ UNCHANGED <<regs, answer>>

Halt ==
  /\ phase = "c"
  /\ phase' = "halted"
  /\ UNCHANGED <<regs, answer, result>>

Next == Call \/ (\E cf \in {0, 1} : Answer(cf)) \/ Return \/ Halt

Spec == Init /\ [][Next]_vars

\* A call returns.
LiveSpec == Spec /\ (phase = "bios" ~> phase = "c")
=============================================================================
