-------------------------------- MODULE Start -------------------------------
(***************************************************************************)
(* From the boot loader's jump to the first question to the disks: setup.S *)
(* (module A20), head.S startup_32, and the operations do_main calls       *)
(* before it needs the BIOS, with what they print on the serial console    *)
(* (module Serial).                                                        *)
(*                                                                         *)
(* The boot loader leaves the command line in low memory and its address   *)
(* in setup.S's header.  Here it is its debug option; how the whole of it  *)
(* is read is module Cmdline.  Characters are numbered messages.           *)
(***************************************************************************)
EXTENDS A20, Serial

VARIABLES
  pc,        \* "setup", an operation of Prologue, "main", "lost"
  where,     \* what the command line lies in the way of
  memory,    \* the command line in memory
  given,     \* history: the command line passed by the boot loader
  debug,     \* opt.debug
  pending    \* messages still to be logged or left out

startVars == <<pc, where, memory, given, debug, pending>>
vars == <<a20Vars, uartVars, startVars>>

MINIOS_LOG_INFO == 4
MINIOS_LOG_DBG  == 8

StartInit ==
  /\ A20Init /\ SerialInit
  /\ pc = "setup"
  /\ where \in {"REAL_CODE_ADDR", "elsewhere"}
  /\ given \in {0, 4, 8, 15}
  /\ memory = given
  /\ debug = 0 /\ pending = <<>>

\* opt.debug & level of _minios_print_log; 0 stands for a plain fprintf.
Selected(d, level) == level # 0 => (d \div level) % 2 = 1

\* The messages of op, with their levels.
Log(op, levels) ==
  [i \in 1 .. Len(levels) |-> [op |-> op, n |-> i, level |-> levels[i]]]

Boot ==
  /\ pc = "setup"
  /\ Setup
  /\ UNCHANGED <<uartVars, startVars>>

\* With A20 shut the jump to 1 MB is one to address 0.  head.S keeps what the
\* header says, then clears bss and the screen, which hold no command line.
startup_32 ==
  /\ pc = "setup" /\ at = "prot"
  /\ pc' = IF A20On THEN "serial_echo_init" ELSE "lost"
  /\ UNCHANGED <<a20Vars, uartVars, where, memory, given, debug, pending>>

\* Mutant: the command line is read after relocate_real.
After_mut(op) ==
  CASE op = "serial_echo_init" -> "timer_init"    [] op = "timer_init"    -> "relocate_real"
    [] op = "relocate_real"    -> "parse_cmdline" [] op = "parse_cmdline" -> "main"

\* The order of do_main.
After(op) ==
  CASE op = "serial_echo_init" -> "parse_cmdline" [] op = "parse_cmdline" -> "timer_init"
    [] op = "timer_init"       -> "relocate_real" [] op = "relocate_real" -> "main"

\* do_main calls op once the one before has printed all it has to print.
Enters(op) == pc = op /\ pending = <<>> /\ pc' = After(op)

InitSerial ==
  /\ Enters("serial_echo_init")
  /\ serial_echo_init
  /\ UNCHANGED <<a20Vars, where, memory, given, debug, pending>>

\* The line is printed, copied and read; the options are printed.
parse_cmdline ==
  /\ Enters("parse_cmdline")
  /\ debug' = memory
  /\ pending' = Log("parse_cmdline", <<0, 0, 0>>)
  /\ UNCHANGED <<a20Vars, uartVars, where, memory, given>>

\* cpu_type logs what it was given and the type and speed it found, timer_init
\* the time.  (A CPU whose speed is not measured traps here: module Clock.)
timer_init ==
  /\ Enters("timer_init")
  /\ pending' = LET info == MINIOS_LOG_INFO
                    dbg  == MINIOS_LOG_DBG
                IN  Log("timer_init", <<dbg, dbg, dbg, info, info, dbg, dbg, dbg, info>>)
  /\ UNCHANGED <<a20Vars, uartVars, where, memory, given, debug>>

\* The real-mode code is copied to REAL_CODE_ADDR, over whatever is there.
relocate_real ==
  /\ Enters("relocate_real")
  /\ memory' = IF where = "REAL_CODE_ADDR" THEN 0 ELSE memory
  /\ pending' = Log("relocate_real", [i \in 1 .. 12 |-> MINIOS_LOG_DBG])
  /\ UNCHANGED <<a20Vars, uartVars, where, given, debug>>

\* _minios_print_log prints, _write sends one character after the other.
write ==
  /\ pending # <<>> /\ Selected(debug, Head(pending).level)
  /\ serial_echo(Head(pending))
  /\ pending' = Tail(pending)
  /\ UNCHANGED <<a20Vars, pc, where, memory, given, debug>>

\* _minios_print_log returns early.
NotLogged ==
  /\ pending # <<>> /\ ~Selected(debug, Head(pending).level)
  /\ pending' = Tail(pending)
  /\ UNCHANGED <<a20Vars, uartVars, pc, where, memory, given, debug>>

do_main == InitSerial \/ parse_cmdline \/ timer_init \/ relocate_real \/ write \/ NotLogged

Controller == KbcTakes /\ UNCHANGED <<uartVars, startVars>>
Keyboard   == Key /\ pc = "setup" /\ UNCHANGED <<uartVars, startVars>>
Uart       == Transmit /\ UNCHANGED <<a20Vars, startVars>>

StartNext == Boot \/ startup_32 \/ do_main \/ Controller \/ Keyboard \/ Uart

\* The CPU and the UART run; a controller whose output was read takes its input.
StartSpec ==
  /\ StartInit /\ [][StartNext]_vars
  /\ WF_vars(Boot \/ startup_32 \/ do_main)
  /\ WF_vars(~kbc.obf /\ Controller)
  /\ WF_vars(Uart)
-----------------------------------------------------------------------------
\* Whatever keys are pressed meanwhile and however slow the controller is,
\* on a machine that has an 8042 the program is not entered with A20 shut
\* (setup.S empty_8042 before each write and before the jump).
A20Open == pc = "lost" => ~kbc.present

(***************************************************************************)
(* The log is the one asked for on the command line: a message of a level  *)
(* is printed during start-up exactly if its bit is given, so the option   *)
(* is in force before the first message and is read before relocate_real   *)
(* overwrites low memory (do_main: "must before relocate_real !").         *)
(***************************************************************************)
LogAsGiven ==
  pc = "main" /\ pending = <<>> =>
    \A level \in {MINIOS_LOG_INFO, MINIOS_LOG_DBG} :
      (\E i \in DOMAIN sent : sent[i].level = level)
        <=> given \in {n \in 0 .. 15 : (n \div level) % 2 = 1}

\* Start-up ends, with all of its messages printed: neither empty_8042 nor
\* WAIT_FOR_XMITR, which have no timeout, waits for ever.
StartUpEnds == <>(pc = "lost" \/ (pc = "main" /\ pending = <<>>))
=============================================================================
