-------------------------------- MODULE A20 ---------------------------------
(***************************************************************************)
(* setup.S start_of_setup: the A20 line is opened, through port 0x92 and   *)
(* through the keyboard controller, before the jump to the program, which  *)
(* lies at 1 MB.  A step is one access to a port.                          *)
(*                                                                         *)
(* External: the 8042, which runs beside the CPU, takes a byte out of its  *)
(* input buffer when it gets to it and puts a scan code into its output    *)
(* buffer whenever a key is pressed.  The ports of a device the machine    *)
(* does not have read 0xff.                                                *)
(***************************************************************************)
EXTENDS Integers, Sequences

CONSTANT MaxKeys   \* bound: keys pressed while the program starts

ASSUME KeysAssumption == MaxKeys \in Nat

VARIABLES
  at,       \* "port92", "empty_8042", "drain", "outb", "prot"
  writes,   \* bytes written to the controller
  port92,   \* "absent", or bit 1 of port 0x92
  kbc,      \* the controller
  keys      \* keys pressed

a20Vars == <<at, writes, port92, kbc, keys>>

\* ibf and obf: the input buffer's byte, "none" if empty; output buffer full.
\* expects: the next data byte is the output port's; gate: its A20 bit.
A20Init ==
  /\ at = "port92" /\ writes = 0 /\ keys = 0
  /\ port92 \in {"absent", "on", "off"}
  /\ \E present, full \in BOOLEAN, byte \in {"none", "old"} :
       kbc = [present |-> present, ibf |-> byte, obf |-> full, expects |-> FALSE, gate |-> FALSE]

\* The byte that decides, 4(%esp), is not set by this code: either value.
SetPort92 ==
  /\ at = "port92"
  /\ port92' \in IF port92 = "absent" THEN {"absent"} ELSE {"on", "off"}
  /\ at' = "empty_8042"
  /\ UNCHANGED <<writes, kbc, keys>>

\* Mutant: the test of the input buffer is forgotten.
InputFull_mut == FALSE

\* testb $2, %al
InputFull == kbc.ibf # "none"

\* empty_8042 polls the status until there is nothing to read nor to take.
empty_8042 ==
  /\ at = "empty_8042"
  /\ ~kbc.present \/ kbc.obf \/ ~InputFull
  /\ at' = IF kbc.present /\ kbc.obf THEN "drain" ELSE "outb"
  /\ UNCHANGED <<writes, port92, kbc, keys>>

\* Mutant: the scan code is not read.
Drained_mut == kbc

\* inb $0x60, %al
Drained == [kbc EXCEPT !.obf = FALSE]

Drain ==
  /\ at = "drain"
  /\ kbc' = Drained
  /\ at' = "empty_8042"
  /\ UNCHANGED <<writes, port92, keys>>

\* 0xD1 to port 0x64, 0xDF to port 0x60, protected mode.
Outb ==
  /\ at = "outb"
  /\ IF writes < 2
     THEN /\ writes' = writes + 1
          /\ at' = "empty_8042"
          /\ kbc' = [kbc EXCEPT !.ibf = IF writes = 0 THEN "D1" ELSE "DF"]
     ELSE /\ at' = "prot"
          /\ UNCHANGED <<writes, kbc>>
  /\ UNCHANGED <<port92, keys>>

Setup == SetPort92 \/ empty_8042 \/ Drain \/ Outb

\* External: the controller takes the byte in its input buffer.
KbcTakes ==
  /\ kbc.present /\ kbc.ibf # "none"
  /\ kbc' = [kbc EXCEPT !.ibf = "none", !.expects = (kbc.ibf = "D1"),
                        !.gate = @ \/ (kbc.ibf = "DF" /\ kbc.expects)]
  /\ UNCHANGED <<at, writes, port92, keys>>

\* External: a key is pressed.
Key ==
  /\ kbc.present /\ ~kbc.obf /\ keys < MaxKeys
  /\ keys' = keys + 1
  /\ kbc' = [kbc EXCEPT !.obf = TRUE]
  /\ UNCHANGED <<at, writes, port92>>

\* External: either gate opens the line.
A20On == port92 = "on" \/ kbc.gate
=============================================================================
