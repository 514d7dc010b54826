------------------------------- MODULE Serial -------------------------------
(***************************************************************************)
(* serial.c and serial.h: the serial console, which stdout and stderr go   *)
(* to (newlib/libgloss/minios/write.c).                                    *)
(*                                                                         *)
(* External: the UART, which moves characters from its holding register to *)
(* its shift register and on to the line in its own time.  Its registers 0 *)
(* and 1 are the divisor while bit 7 of LCR (DLAB) is set.                 *)
(***************************************************************************)
EXTENDS Integers, Sequences

VARIABLES
  uart,   \* registers; thr and shift hold at most one character
  line,   \* characters on the line, with the rate and format they were sent at
  sent    \* history: the characters passed to serial_echo

uartVars == <<uart, line, sent>>

DLAB(u) == u.lcr >= 128

\* What the firmware leaves behind: any rate, any format, DLAB set or not.
SerialInit ==
  /\ \E present \in BOOLEAN, l \in {3, 27, 131}, d \in {1, 12} :
       uart = [present |-> present, lcr |-> l, dll |-> d, dlm |-> 1, ier |-> 1,
               thr |-> <<>>, shift |-> <<>>]
  /\ line = <<>> /\ sent = <<>>

\* External: what a write to port 0 (THR or DLL), 1 (IER or DLM), 3 (LCR) sets.
Port0(u, v) == IF DLAB(u) THEN [u EXCEPT !.dll = v] ELSE [u EXCEPT !.thr = <<v>>]
Port1(u, v) == IF DLAB(u) THEN [u EXCEPT !.dlm = v] ELSE [u EXCEPT !.ier = v]
Port3(u, v) == [u EXCEPT !.lcr = v]

Written(u, port, v) ==
  CASE port = 0 -> Port0(u, v) [] port = 1 -> Port1(u, v) [] port = 3 -> Port3(u, v)

serial_echo_outb(u, port, v) == IF u.present THEN Written(u, port, v) ELSE u

serial_lcr == 3    \* serial_parity | (serial_bits - 5): 8N1
serial_div == 12   \* 115200 / 9600

\* Mutant: the last write of LCR is forgotten.
InitWrites_mut ==
  LET set     == serial_echo_outb(uart, 3, 128 + (uart.lcr % 128))
      restore == serial_echo_outb(set, 3, uart.lcr)
      format  == serial_echo_outb(restore, 3, serial_lcr)
      divisor == serial_echo_outb(format, 3, 128 + serial_lcr)
      dll     == serial_echo_outb(divisor, 0, serial_div % 256)
      dlm     == serial_echo_outb(dll, 1, serial_div \div 256)
  IN  serial_echo_outb(dlm, 1, 0)

\* The port writes of serial_echo_init, in their order.
InitWrites ==
  LET set     == serial_echo_outb(uart, 3, 128 + (uart.lcr % 128))
      restore == serial_echo_outb(set, 3, uart.lcr)
      format  == serial_echo_outb(restore, 3, serial_lcr)
      divisor == serial_echo_outb(format, 3, 128 + serial_lcr)
      dll     == serial_echo_outb(divisor, 0, serial_div % 256)
      dlm     == serial_echo_outb(dll, 1, serial_div \div 256)
      data    == serial_echo_outb(dlm, 3, serial_lcr)
  IN  serial_echo_outb(data, 1, 0)

serial_echo_init ==
  /\ uart' = InitWrites
  /\ UNCHANGED <<line, sent>>

\* LSR & BOTH_EMPTY; an absent UART reads 0xff.
BothEmpty == uart.present => uart.thr = <<>> /\ uart.shift = <<>>

serial_echo(ch) ==
  /\ BothEmpty
  /\ uart' = serial_echo_outb(uart, 0, ch)
  /\ sent' = Append(sent, ch)
  /\ UNCHANGED line

\* External: the holding register is copied to the shift register.
Load ==
  /\ uart.shift = <<>> /\ uart.thr # <<>>
  /\ uart' = [uart EXCEPT !.shift = uart.thr, !.thr = <<>>]
  /\ UNCHANGED <<line, sent>>

\* External: a character leaves the UART.
Shift ==
  /\ uart.shift # <<>>
  /\ line' = Append(line, [ch |-> Head(uart.shift), div |-> uart.dlm * 256 + uart.dll,
                           lcr |-> uart.lcr])
  /\ uart' = [uart EXCEPT !.shift = <<>>]
  /\ UNCHANGED sent

Transmit == Load \/ Shift
-----------------------------------------------------------------------------
(***************************************************************************)
(* Nothing that is printed is lost, doubled or garbled: the characters on  *)
(* the line and in the UART are those printed, in that order, and each was *)
(* sent at 9600 baud, 8N1, although nothing but the polling of LSR paces   *)
(* the writes (serial_echo) and the firmware may have left DLAB set.       *)
(***************************************************************************)
TextInOrder ==
  uart.present =>
    /\ [i \in DOMAIN line |-> line[i].ch] \o uart.shift \o uart.thr = sent
    /\ \A i \in DOMAIN line : line[i].div = serial_div /\ line[i].lcr = serial_lcr
=============================================================================
