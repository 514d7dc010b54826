----------------------------- MODULE StartProofs ----------------------------
(***************************************************************************)
(* Theorems of modules A20, Serial and Start: the program is entered with  *)
(* A20 open, what it prints arrives as it was printed, and the log is the  *)
(* one the command line asks for.                                          *)
(*                                                                         *)
(* Each has an invariant of its own.  A20Inv follows the bytes 0xD1 and    *)
(* 0xDF through the controller: between two writes the one before is in    *)
(* the input buffer or has had its effect.  UartInv says that the divisor  *)
(* and the format are set before the first character is written.  LogInv   *)
(* says that a message asked for is still pending until it is sent.        *)
(***************************************************************************)
EXTENDS Start, SequenceTheorems, TLAPS

\* The controller has had the effect of the bytes it has taken.
A20Inv ==
  /\ kbc \in [present : BOOLEAN, ibf : {"none", "old", "D1", "DF"}, obf : BOOLEAN,
              expects : BOOLEAN, gate : BOOLEAN]
  /\ kbc.present =>
       /\ writes \in {0, 1, 2}
       /\ writes = 0 => kbc.ibf \in {"none", "old"}
       /\ writes = 1 => kbc.ibf = "D1" \/ (kbc.ibf = "none" /\ kbc.expects)
       /\ writes = 2 => (kbc.ibf = "DF" /\ kbc.expects) \/ (kbc.ibf = "none" /\ kbc.gate)
       /\ at \in {"outb", "prot"} => kbc.ibf = "none"
       /\ at = "prot" => writes = 2
  /\ pc = "lost" => ~kbc.present

Operations == {"serial_echo_init", "parse_cmdline", "timer_init", "relocate_real"}
Message    == [op : Operations, n : Nat, level : {0, 4, 8}]

Character == [ch : Message, div : Int, lcr : Int]

UartRecord ==
  [present : BOOLEAN, lcr : Int, dll : Int, dlm : Int, ier : Int,
   thr : Seq(Message), shift : Seq(Message)]

\* Before the UART is set up nothing is printed; after, it sends at 9600, 8N1.
Quiet == pc \in {"setup", "lost", "serial_echo_init"}
UartInv ==
  /\ pc \in Operations \cup {"setup", "lost", "main"}
  /\ pending \in Seq(Message) /\ sent \in Seq(Message)
  /\ Quiet \/ pc = "parse_cmdline" => pending = <<>>
  /\ uart \in UartRecord
  /\ uart.present =>
       /\ Len(uart.shift) <= 1 /\ Len(uart.thr) <= 1
       /\ line \in Seq(Character)
       /\ Quiet => uart.shift = <<>> /\ uart.thr = <<>> /\ line = <<>> /\ sent = <<>>
       /\ ~Quiet => uart.lcr = serial_lcr /\ uart.dll = serial_div /\ uart.dlm = 0

\* Whether the option asks for messages of this level.
Asked(level) == given \in 0 .. 15 /\ (given \div level) % 2 = 1

Printed(level) == \E i \in DOMAIN sent : sent[i].level = level
Waiting(level) == \E i \in DOMAIN pending : pending[i].level = level

LogInv ==
  /\ given \in 0 .. 15
  /\ pc # "main" => memory = given
  /\ pc \in {"timer_init", "relocate_real", "main"} => debug = given
  /\ \A level \in {4, 8} : Printed(level) => Asked(level)
  /\ pc \in {"relocate_real", "main"} =>
       \A level \in {4, 8} : Asked(level) => Printed(level) \/ Waiting(level)
-----------------------------------------------------------------------------
(* A20.                                                                    *)

LEMMA A20Initially == StartInit => A20Inv
  BY DEF StartInit, A20Init, A20Inv

\* A step that leaves the controller, the CPU's place in setup.S and the
\* place in the program alone.
LEMMA A20Kept ==
  ASSUME A20Inv, UNCHANGED <<at, writes, kbc>>, pc' = "lost" => pc = "lost"
  PROVE  A20Inv'
  BY DEF A20Inv

LEMMA BootKeepsA20 ==
  ASSUME A20Inv, Boot
  PROVE  A20Inv'
  <1>1. pc' = pc /\ pc = "setup"
    BY DEF Boot, startVars
  <1>2. CASE SetPort92
    BY <1>1, <1>2 DEF A20Inv, SetPort92
  <1>3. CASE empty_8042
    BY <1>1, <1>3 DEF A20Inv, empty_8042, InputFull
  <1>4. CASE Drain
    BY <1>1, <1>4 DEF A20Inv, Drain, Drained
  <1>5. CASE Outb
    <2>1. CASE writes < 2
      BY <1>1, <1>5, <2>1 DEF A20Inv, Outb
    <2>2. CASE ~(writes < 2)
      BY <1>1, <1>5, <2>2 DEF A20Inv, Outb
    <2> QED BY <2>1, <2>2
  <1> QED BY <1>2, <1>3, <1>4, <1>5 DEF Boot, Setup

LEMMA A20Inductive ==
  ASSUME A20Inv, [StartNext]_vars
  PROVE  A20Inv'
  <1>1. CASE Boot
    BY <1>1, BootKeepsA20
  <1>2. CASE startup_32
    <2>1. UNCHANGED <<at, writes, kbc>>
      BY <1>2 DEF startup_32, a20Vars
    <2>2. pc' = "lost" => ~kbc.present
      BY <1>2 DEF startup_32, A20On, A20Inv
    <2> QED BY <2>1, <2>2 DEF A20Inv
  <1>3. CASE do_main
    <2>1. UNCHANGED <<at, writes, kbc>>
      BY <1>3 DEF do_main, InitSerial, parse_cmdline, timer_init, relocate_real, write,
                  NotLogged, a20Vars
    <2>2. pc' = "lost" => pc = "lost"
      BY <1>3 DEF do_main, InitSerial, parse_cmdline, timer_init, relocate_real, write,
                  NotLogged, Enters, After
    <2> QED BY <2>1, <2>2, A20Kept
  <1>4. CASE Controller
    BY <1>4 DEF Controller, KbcTakes, A20Inv, startVars
  <1>5. CASE Keyboard
    BY <1>5 DEF Keyboard, Key, A20Inv, startVars
  <1>6. CASE Uart
    BY <1>6, A20Kept DEF Uart, a20Vars, startVars
  <1>7. CASE UNCHANGED vars
    BY <1>7, A20Kept DEF vars, a20Vars, startVars
  <1> QED BY <1>1, <1>2, <1>3, <1>4, <1>5, <1>6, <1>7 DEF StartNext

(***************************************************************************)
(* On a machine with an 8042 the jump to the program finds A20 open, for   *)
(* any number of keys pressed meanwhile and whatever port 0x92 does.       *)
(***************************************************************************)
THEOREM A20IsOpen == StartSpec => []A20Open
  <1>1. A20Inv => A20Open
    BY DEF A20Inv, A20Open
  <1> QED BY <1>1, A20Initially, A20Inductive, PTL DEF StartSpec
-----------------------------------------------------------------------------
(* The serial console.                                                     *)

LEMMA WriteToPort ==
  ASSUME NEW u, NEW v, u.present
  PROVE  /\ serial_echo_outb(u, 0, v) = Port0(u, v)
         /\ serial_echo_outb(u, 1, v) = Port1(u, v)
         /\ serial_echo_outb(u, 3, v) = Port3(u, v)
  <1>1. \A port : serial_echo_outb(u, port, v) = Written(u, port, v)
    BY Zenon DEF serial_echo_outb
  <1>2. /\ Written(u, 0, v) = Port0(u, v) /\ Written(u, 1, v) = Port1(u, v)
        /\ Written(u, 3, v) = Port3(u, v)
    BY DEF Written
  <1> QED BY Zenon, <1>1, <1>2

\* A UART that is absent ignores it.
LEMMA WriteNowhere ==
  ASSUME NEW u, NEW port, NEW v, ~u.present
  PROVE  serial_echo_outb(u, port, v) = u
  BY Zenon DEF serial_echo_outb

\* A UART that differs from u in control registers at most.
SameData(w, u) ==
  w \in UartRecord /\ w.present = u.present /\ w.thr = u.thr /\ w.shift = u.shift

Control(w, lcr, dll, dlm) == w.lcr = lcr /\ w.dll = dll /\ w.dlm = dlm

LEMMA SetLcr ==
  ASSUME NEW u \in UartRecord, NEW v \in Int, u.present
  PROVE  /\ SameData(serial_echo_outb(u, 3, v), u)
         /\ Control(serial_echo_outb(u, 3, v), v, u.dll, u.dlm)
  <1>1. serial_echo_outb(u, 3, v) = [u EXCEPT !.lcr = v]
    BY Zenon, WriteToPort DEF Port3
  <1> QED BY <1>1 DEF UartRecord, SameData, Control

LEMMA SetDll ==
  ASSUME NEW u \in UartRecord, NEW v \in Int, u.present, DLAB(u)
  PROVE  /\ SameData(serial_echo_outb(u, 0, v), u)
         /\ Control(serial_echo_outb(u, 0, v), u.lcr, v, u.dlm)
  <1>1. serial_echo_outb(u, 0, v) = [u EXCEPT !.dll = v]
    BY Zenon, WriteToPort DEF Port0
  <1> QED BY <1>1 DEF UartRecord, SameData, Control

LEMMA SetDlm ==
  ASSUME NEW u \in UartRecord, NEW v \in Int, u.present, DLAB(u)
  PROVE  /\ SameData(serial_echo_outb(u, 1, v), u)
         /\ Control(serial_echo_outb(u, 1, v), u.lcr, u.dll, v)
  <1>1. serial_echo_outb(u, 1, v) = [u EXCEPT !.dlm = v]
    BY Zenon, WriteToPort DEF Port1
  <1> QED BY <1>1 DEF UartRecord, SameData, Control

LEMMA SetIer ==
  ASSUME NEW u \in UartRecord, NEW v \in Int, u.present, ~DLAB(u)
  PROVE  /\ SameData(serial_echo_outb(u, 1, v), u)
         /\ Control(serial_echo_outb(u, 1, v), u.lcr, u.dll, u.dlm)
  <1>1. serial_echo_outb(u, 1, v) = [u EXCEPT !.ier = v]
    BY Zenon, WriteToPort DEF Port1
  <1> QED BY <1>1 DEF UartRecord, SameData, Control

LEMMA SetThr ==
  ASSUME NEW u \in UartRecord, NEW m \in Message, u.present, ~DLAB(u)
  PROVE  LET w == serial_echo_outb(u, 0, m)
         IN  /\ w \in UartRecord /\ w.present = u.present
             /\ w.shift = u.shift /\ w.thr = <<m>>
             /\ Control(w, u.lcr, u.dll, u.dlm)
  <1> DEFINE w == serial_echo_outb(u, 0, m)
             t == <<m>>
  <1>1. w = [u EXCEPT !.thr = t]
    BY Zenon, WriteToPort DEF Port0
  <1>2. t \in Seq(Message)
    OBVIOUS
  <1> HIDE DEF t, w
  <1>3. /\ w \in UartRecord /\ w.present = u.present /\ w.shift = u.shift /\ w.thr = t
        /\ Control(w, u.lcr, u.dll, u.dlm)
    BY <1>1, <1>2 DEF UartRecord, Control
  <1> QED BY <1>3 DEF t, w

\* serial_echo_init sets the rate and the format, whatever the firmware left.
LEMMA InitWritesFacts ==
  ASSUME uart \in UartRecord
  PROVE  /\ InitWrites \in UartRecord
         /\ InitWrites.present = uart.present
         /\ uart.present => /\ InitWrites.lcr = serial_lcr /\ InitWrites.dll = serial_div
                            /\ InitWrites.dlm = 0
                            /\ InitWrites.thr = uart.thr /\ InitWrites.shift = uart.shift
  <1>1. CASE ~uart.present
    <2>1. \A port, v : serial_echo_outb(uart, port, v) = uart
      BY <1>1, WriteNowhere
    <2>2. InitWrites = uart
      BY <2>1 DEF InitWrites
    <2> QED BY <1>1, <2>2
  <1>2. CASE uart.present
    <2> DEFINE set     == serial_echo_outb(uart, 3, 128 + (uart.lcr % 128))
               restore == serial_echo_outb(set, 3, uart.lcr)
               format  == serial_echo_outb(restore, 3, serial_lcr)
               divisor == serial_echo_outb(format, 3, 128 + serial_lcr)
               dll     == serial_echo_outb(divisor, 0, serial_div % 256)
               dlm     == serial_echo_outb(dll, 1, serial_div \div 256)
               data    == serial_echo_outb(dlm, 3, serial_lcr)
               last    == serial_echo_outb(data, 1, 0)
               Ready(u) == u \in UartRecord /\ u.present
                             /\ u.thr = uart.thr /\ u.shift = uart.shift
    <2>1. InitWrites = last
      BY DEF InitWrites
    <2>2. Ready(uart) /\ uart.lcr \in Int
      BY <1>2 DEF UartRecord
    <2>3. 128 + (uart.lcr % 128) \in Int
      BY <2>2
    <2>4. Ready(set)
      BY <2>2, <2>3, SetLcr DEF SameData, Control
    <2> HIDE DEF set
    <2>5. Ready(restore)
      BY <2>2, <2>4, SetLcr DEF SameData, Control
    <2> HIDE DEF restore
    <2>6. Ready(format)
      BY <2>5, SetLcr DEF SameData, Control, serial_lcr
    <2> HIDE DEF format
    <2>7. Ready(divisor) /\ divisor.lcr = 131
      BY <2>6, SetLcr DEF SameData, Control, serial_lcr
    <2> HIDE DEF divisor
    <2>8. Ready(dll) /\ dll.lcr = 131 /\ dll.dll = serial_div
      BY <2>7, SetDll DEF SameData, Control, serial_div, DLAB
    <2> HIDE DEF dll
    <2>9. Ready(dlm) /\ dlm.dll = serial_div /\ dlm.dlm = 0
      BY <2>8, SetDlm DEF SameData, Control, serial_div, DLAB
    <2> HIDE DEF dlm
    <2>10. Ready(data) /\ data.dll = serial_div /\ data.dlm = 0 /\ data.lcr = serial_lcr
      BY <2>9, SetLcr DEF SameData, Control, serial_lcr
    <2> HIDE DEF data
    <2>11. Ready(last) /\ last.dll = serial_div /\ last.dlm = 0 /\ last.lcr = serial_lcr
      BY <2>10, SetIer DEF SameData, Control, serial_lcr, DLAB
    <2> HIDE DEF last
    <2> QED BY <1>2, <2>1, <2>11
  <1> QED BY <1>1, <1>2

\* A log call's messages are messages.
LEMMA LogMessages ==
  ASSUME NEW op \in Operations, NEW levels \in Seq({0, 4, 8})
  PROVE  Log(op, levels) \in Seq(Message)
  <1>1. ASSUME NEW i \in 1 .. Len(levels)
        PROVE  [op |-> op, n |-> i, level |-> levels[i]] \in Message
    <2>1. i \in Nat /\ levels[i] \in {0, 4, 8}
      OBVIOUS
    <2> QED BY <2>1, Zenon DEF Message
  <1>2. Log(op, levels) \in [1 .. Len(levels) -> Message]
    BY <1>1 DEF Log
  <1>3. Len(levels) \in Nat
    OBVIOUS
  <1> HIDE DEF Log
  <1> QED BY <1>2, <1>3

LEMMA Levels ==
  /\ <<0, 0, 0>> \in Seq({0, 4, 8})
  /\ <<8, 8, 8, 4, 4, 8, 8, 8, 4>> \in Seq({0, 4, 8})
  /\ [i \in 1 .. 12 |-> 8] \in Seq({0, 4, 8})
  <1>1. <<0, 0, 0>> \in Seq({0, 4, 8})
    OBVIOUS
  <1>2. <<8, 8, 8, 4, 4, 8, 8, 8, 4>> \in Seq({0, 4, 8})
    OBVIOUS
  <1>3. [i \in 1 .. 12 |-> 8] \in Seq({0, 4, 8})
    OBVIOUS
  <1> QED BY <1>1, <1>2, <1>3

\* The characters of a line, and what one more does to them.
Chars(l) == [i \in DOMAIN l |-> l[i].ch]

LEMMA CharsOfLine ==
  ASSUME NEW l \in Seq(Character)
  PROVE  Chars(l) \in Seq(Message) /\ Len(Chars(l)) = Len(l)
  <1>1. DOMAIN l = 1 .. Len(l) /\ Len(l) \in Nat
    OBVIOUS
  <1>2. ASSUME NEW i \in 1 .. Len(l)
        PROVE  l[i].ch \in Message
    <2>1. l[i] \in Character
      OBVIOUS
    <2>2. ASSUME NEW c \in Character
          PROVE  c.ch \in Message
      BY DEF Character
    <2> QED BY Zenon, <2>1, <2>2
  <1>3. Chars(l) = [i \in 1 .. Len(l) |-> l[i].ch]
    BY <1>1 DEF Chars
  <1>4. Chars(l) \in [1 .. Len(l) -> Message]
    BY Zenon, <1>2, <1>3
  <1> QED BY <1>1, <1>4

LEMMA CharsAppend ==
  ASSUME NEW l \in Seq(Character), NEW c \in Character
  PROVE  Chars(Append(l, c)) = Append(Chars(l), c.ch)
  <1> DEFINE k == Append(l, c)
             x == Chars(k)
             y == Append(Chars(l), c.ch)
  <1>1. k \in Seq(Character) /\ Len(k) = Len(l) + 1
    OBVIOUS
  <1>2. c.ch \in Message
    BY DEF Character
  <1>3. x \in Seq(Message) /\ Len(x) = Len(l) + 1
    BY <1>1, CharsOfLine
  <1>4. y \in Seq(Message) /\ Len(y) = Len(l) + 1
    BY <1>2, CharsOfLine
  <1>5. ASSUME NEW i \in 1 .. Len(l) + 1
        PROVE  x[i] = y[i]
    <2>1. x[i] = k[i].ch
      <3>1. i \in DOMAIN k
        BY <1>1
      <3> HIDE DEF k
      <3> QED BY <3>1, Zenon DEF Chars
    <2>2. CASE i <= Len(l)
      <3>1. k[i] = l[i]
        BY <2>2
      <3>2. y[i] = Chars(l)[i]
        BY <2>2, CharsOfLine
      <3>3. Chars(l)[i] = l[i].ch
        BY <2>2 DEF Chars
      <3> QED BY <2>1, <3>1, <3>2, <3>3
    <2>3. CASE i = Len(l) + 1
      <3>1. k[i] = c
        BY <2>3
      <3>2. y[i] = c.ch
        BY <2>3, CharsOfLine
      <3> QED BY <2>1, <3>1, <3>2
    <2>4. i <= Len(l) \/ i = Len(l) + 1
      BY <1>5
    <2> QED BY Zenon, <2>2, <2>3, <2>4
  <1> HIDE DEF x, y, k
  <1>6. x = y
    BY <1>3, <1>4, <1>5, SeqEqual
  <1> QED BY <1>6 DEF x, y, k

LEMMA UartInitially == StartInit => UartInv /\ TextInOrder
  <1> SUFFICES ASSUME StartInit
               PROVE  UartInv /\ TextInOrder
    OBVIOUS
  <1>1. PICK present \in BOOLEAN, l \in {3, 27, 131}, d \in {1, 12} :
          uart = [present |-> present, lcr |-> l, dll |-> d, dlm |-> 1, ier |-> 1,
                  thr |-> <<>>, shift |-> <<>>]
    BY Zenon DEF StartInit, SerialInit
  <1>2. pc = "setup" /\ pending = <<>> /\ line = <<>> /\ sent = <<>>
    BY DEF StartInit, SerialInit
  <1>3. <<>> \in Seq(Message) /\ <<>> \in Seq(Character) /\ Len(<<>>) = 0
    OBVIOUS
  <1>4. uart \in UartRecord /\ uart.thr = <<>> /\ uart.shift = <<>>
    BY <1>1, <1>3 DEF UartRecord
  <1>5. UartInv
    BY <1>2, <1>3, <1>4 DEF UartInv, Quiet
  <1>6. Chars(line) \in Seq(Message) /\ Len(Chars(line)) = 0
    BY <1>2, <1>3, CharsOfLine
  <1>7. Chars(line) = <<>>
    BY <1>6
  <1>8. Chars(line) \o uart.shift \o uart.thr = sent
    BY <1>2, <1>4, <1>7
  <1>9. DOMAIN line = {}
    BY <1>2
  <1> QED BY <1>5, <1>8, <1>9 DEF TextInOrder, Chars

\* Steps that leave the UART alone.
LEMMA UartUntouched ==
  ASSUME UartInv, TextInOrder, UNCHANGED uartVars,
         pc' \in Operations \cup {"setup", "lost", "main"},
         pending' \in Seq(Message),
         Quiet' <=> Quiet,
         Quiet' \/ pc' = "parse_cmdline" => pending' = <<>>
  PROVE  UartInv' /\ TextInOrder'
  <1>1. uart' = uart /\ line' = line /\ sent' = sent
    BY DEF uartVars
  <1>2. UartInv'
    BY <1>1 DEF UartInv
  <1>3. TextInOrder'
    BY <1>1 DEF TextInOrder
  <1> QED BY <1>2, <1>3

LEMMA Orders ==
  /\ After("serial_echo_init") = "parse_cmdline" /\ After("parse_cmdline") = "timer_init"
  /\ After("timer_init") = "relocate_real" /\ After("relocate_real") = "main"
  BY DEF After

LEMMA TailOfPending ==
  ASSUME pending \in Seq(Message), pending # <<>>
  PROVE  Tail(pending) \in Seq(Message) /\ Head(pending) \in Message
  OBVIOUS

LEMMA InitSerialKeeps ==
  ASSUME UartInv, TextInOrder, InitSerial
  PROVE  UartInv' /\ TextInOrder'
  <1>1. /\ pc = "serial_echo_init" /\ pc' = "parse_cmdline"
        /\ pending = <<>> /\ pending' = pending
        /\ uart' = InitWrites /\ line' = line /\ sent' = sent
    BY Orders DEF InitSerial, Enters, serial_echo_init
  <1>2. uart \in UartRecord /\ Quiet /\ ~Quiet'
    BY <1>1 DEF UartInv, Quiet
  <1>3. /\ uart' \in UartRecord /\ uart'.present = uart.present
        /\ uart.present => /\ uart'.lcr = serial_lcr /\ uart'.dll = serial_div
                           /\ uart'.dlm = 0
                           /\ uart'.thr = uart.thr /\ uart'.shift = uart.shift
    BY <1>1, <1>2, InitWritesFacts
  <1>4. UartInv'
    BY <1>1, <1>2, <1>3 DEF UartInv, Operations
  <1>5. TextInOrder'
    BY <1>1, <1>3 DEF TextInOrder
  <1> QED BY <1>4, <1>5

\* A character joins the others: BothEmpty leaves room for it.
LEMMA WriteKeeps ==
  ASSUME UartInv, TextInOrder, write
  PROVE  UartInv' /\ TextInOrder'
  <1> DEFINE m == Head(pending)
  <1>1. /\ pending # <<>> /\ pending' = Tail(pending) /\ pc' = pc /\ line' = line
        /\ BothEmpty /\ uart' = serial_echo_outb(uart, 0, m) /\ sent' = Append(sent, m)
    BY DEF write, serial_echo
  <1>2. pending \in Seq(Message) /\ sent \in Seq(Message) /\ uart \in UartRecord
    BY DEF UartInv
  <1>3. pending' \in Seq(Message) /\ m \in Message
    BY <1>1, <1>2, TailOfPending
  <1>4. ~Quiet /\ pc # "parse_cmdline" /\ ~Quiet' /\ pc' # "parse_cmdline"
    BY <1>1 DEF UartInv, Quiet
  <1> HIDE DEF m
  <1>5. sent' \in Seq(Message)
    BY <1>1, <1>2, <1>3
  <1>6. CASE ~uart.present
    <2>1. uart' = uart
      BY <1>1, <1>6, WriteNowhere
    <2>2. UartInv'
      BY <1>1, <1>3, <1>4, <1>5, <1>6, <2>1 DEF UartInv
    <2> QED BY <1>6, <2>1, <2>2 DEF TextInOrder
  <1>7. CASE uart.present
    <2>1. /\ uart.thr = <<>> /\ uart.shift = <<>> /\ line \in Seq(Character)
          /\ uart.lcr = serial_lcr /\ uart.dll = serial_div /\ uart.dlm = 0
      BY <1>1, <1>4, <1>7 DEF BothEmpty, UartInv
    <2>2. ~DLAB(uart)
      BY <2>1 DEF DLAB, serial_lcr
    <2>3. /\ uart' \in UartRecord /\ uart'.present = uart.present
          /\ uart'.shift = uart.shift /\ uart'.thr = <<m>>
          /\ Control(uart', uart.lcr, uart.dll, uart.dlm)
      BY <1>1, <1>2, <1>3, <1>7, <2>2, SetThr
    <2>4. UartInv'
      <3>1. Len(<<m>>) = 1 /\ Len(<<>>) = 0
        OBVIOUS
      <3>2. Len(uart'.shift) <= 1 /\ Len(uart'.thr) <= 1
        BY <2>1, <2>3, <3>1
      <3>3. uart'.lcr = serial_lcr /\ uart'.dll = serial_div /\ uart'.dlm = 0
        BY <2>1, <2>3 DEF Control
      <3>4. line' \in Seq(Character) /\ pc' \in Operations \cup {"setup", "lost", "main"}
        BY <1>1, <2>1 DEF UartInv
      <3> QED BY Zenon, <1>3, <1>4, <1>5, <2>3, <3>2, <3>3, <3>4 DEF UartInv
    <2> DEFINE c == Chars(line)
    <2>5. c \in Seq(Message)
      BY <2>1, CharsOfLine
    <2>6. c \o <<>> \o <<>> = sent
      BY <1>7, <2>1 DEF TextInOrder, Chars
    <2> HIDE DEF c
    <2>7. c = sent
      BY <2>5, <2>6
    <2>8. c \o <<>> \o <<m>> = Append(sent, m)
      BY <2>5, <2>7, <1>3
    <2>9. TextInOrder'
      BY <1>1, <1>7, <2>1, <2>3, <2>8 DEF TextInOrder, Chars, c
    <2> QED BY <2>4, <2>9
  <1> QED BY <1>6, <1>7

\* A sequence of at most one element is empty or its head.
LEMMA AtMostOne ==
  ASSUME NEW q \in Seq(Message), q # <<>>, Len(q) <= 1
  PROVE  Head(q) \in Message /\ q = <<Head(q)>>
  <1> DEFINE h == Head(q)
             p == <<h>>
  <1>1. h \in Message /\ h = q[1] /\ Len(q) = 1
    <2>1. Len(q) \in Nat \ {0}
      BY EmptySeq
    <2>2. Len(q) = 1
      BY <2>1
    <2> QED BY <2>2, HeadTailProperties
  <1> HIDE DEF h
  <1>2. p \in Seq(Message) /\ Len(p) = 1 /\ p[1] = h
    BY <1>1
  <1> HIDE DEF p
  <1>3. \A i \in 1 .. Len(q) : q[i] = p[i]
    BY <1>1, <1>2
  <1>4. q = p
    BY <1>1, <1>2, <1>3, SeqEqual
  <1> QED BY <1>1, <1>4 DEF h, p

LEMMA LoadKeeps ==
  ASSUME UartInv, TextInOrder, Load, UNCHANGED startVars
  PROVE  UartInv' /\ TextInOrder'
  <1> DEFINE t == uart.thr
             e == <<>>
  <1>1. /\ uart.shift = e /\ t # e /\ line' = line /\ sent' = sent
        /\ uart' = [uart EXCEPT !.shift = t, !.thr = e]
    BY DEF Load
  <1>2. pc' = pc /\ pending' = pending /\ (Quiet' <=> Quiet)
    BY DEF startVars, Quiet
  <1>3. uart \in UartRecord /\ t \in Seq(Message)
    BY DEF UartInv, UartRecord
  <1>4. e \in Seq(Message) /\ Len(e) = 0
    OBVIOUS
  <1> HIDE DEF t, e
  <1>5. /\ uart' \in UartRecord /\ uart'.present = uart.present
        /\ uart'.shift = t /\ uart'.thr = e
        /\ Control(uart', uart.lcr, uart.dll, uart.dlm)
    BY <1>1, <1>3, <1>4 DEF UartRecord, Control
  <1>6. CASE ~uart.present
    <2>1. UartInv'
      BY <1>1, <1>2, <1>5, <1>6 DEF UartInv
    <2> QED BY <1>5, <1>6, <2>1 DEF TextInOrder
  <1>7. CASE uart.present
    <2>1. /\ ~Quiet /\ line \in Seq(Character) /\ Len(t) <= 1
          /\ uart.lcr = serial_lcr /\ uart.dll = serial_div /\ uart.dlm = 0
      BY <1>1, <1>7 DEF UartInv, t, e
    <2>2. Len(uart'.shift) <= 1 /\ Len(uart'.thr) <= 1
      BY <1>4, <1>5, <2>1
    <2>3. uart'.lcr = serial_lcr /\ uart'.dll = serial_div /\ uart'.dlm = 0
      BY <1>5, <2>1 DEF Control
    <2>4. UartInv'
      <3>1. /\ pc \in Operations \cup {"setup", "lost", "main"}
            /\ pending \in Seq(Message) /\ sent \in Seq(Message)
            /\ Quiet \/ pc = "parse_cmdline" => pending = <<>>
        BY DEF UartInv
      <3> QED BY Zenon, <1>1, <1>2, <1>5, <2>1, <2>2, <2>3, <3>1 DEF UartInv
    <2> DEFINE c == Chars(line)
    <2>5. c \in Seq(Message)
      BY <2>1, CharsOfLine
    <2>6. c \o e \o t = sent
      BY <1>1, <1>7 DEF TextInOrder, Chars, t
    <2> HIDE DEF c
    <2>7. c \o e \o t = c \o t \o e
      BY <1>3, <2>5 DEF e
    <2>8. TextInOrder'
      BY <1>1, <1>5, <1>7, <2>6, <2>7 DEF TextInOrder, Chars, c
    <2> QED BY <2>4, <2>8
  <1> QED BY <1>6, <1>7

\* The character that leaves is the first that is not on the line yet, and it
\* leaves at the rate and in the format that serial_echo_init set.
LEMMA ShiftKeeps ==
  ASSUME UartInv, TextInOrder, Shift, UNCHANGED startVars
  PROVE  UartInv' /\ TextInOrder'
  <1> DEFINE q == uart.shift
             t == uart.thr
             e == <<>>
             r == [ch |-> Head(q), div |-> uart.dlm * 256 + uart.dll, lcr |-> uart.lcr]
  <1>1. /\ q # e /\ sent' = sent /\ line' = Append(line, r)
        /\ uart' = [uart EXCEPT !.shift = e]
    BY DEF Shift
  <1>2. pc' = pc /\ pending' = pending /\ (Quiet' <=> Quiet)
    BY DEF startVars, Quiet
  <1>3. uart \in UartRecord /\ t \in Seq(Message) /\ q \in Seq(Message)
    BY DEF UartInv, UartRecord
  <1>4. e \in Seq(Message) /\ Len(e) = 0
    OBVIOUS
  <1> HIDE DEF t, e, q, r
  <1>5. /\ uart' \in UartRecord /\ uart'.present = uart.present
        /\ uart'.shift = e /\ uart'.thr = t
        /\ Control(uart', uart.lcr, uart.dll, uart.dlm)
    BY <1>1, <1>3, <1>4 DEF UartRecord, Control, t
  <1>6. CASE ~uart.present
    <2>1. UartInv'
      BY <1>1, <1>2, <1>5, <1>6 DEF UartInv
    <2> QED BY <1>5, <1>6, <2>1 DEF TextInOrder
  <1>7. CASE uart.present
    <2>1. /\ ~Quiet /\ line \in Seq(Character) /\ Len(t) <= 1 /\ Len(q) <= 1
          /\ uart.lcr = serial_lcr /\ uart.dll = serial_div /\ uart.dlm = 0
      BY <1>1, <1>7 DEF UartInv, t, e, q
    <2>2. Head(q) \in Message /\ q = <<Head(q)>>
      BY <1>1, <1>3, <2>1, AtMostOne DEF e
    <2>3. /\ r \in Character /\ r.ch = Head(q) /\ r.div = serial_div /\ r.lcr = serial_lcr
      BY <2>1, <2>2 DEF r, Character, serial_div, serial_lcr
    <2>4. line' \in Seq(Character)
      BY <1>1, <2>1, <2>3
    <2>5. UartInv'
      <3>1. /\ pc \in Operations \cup {"setup", "lost", "main"}
            /\ pending \in Seq(Message) /\ sent \in Seq(Message)
            /\ Quiet \/ pc = "parse_cmdline" => pending = <<>>
        BY DEF UartInv
      <3>2. Len(uart'.shift) <= 1 /\ Len(uart'.thr) <= 1
        BY <1>4, <1>5, <2>1
      <3>3. uart'.lcr = serial_lcr /\ uart'.dll = serial_div /\ uart'.dlm = 0
        BY <1>5, <2>1 DEF Control
      <3> QED BY Zenon, <1>1, <1>2, <1>5, <2>1, <2>4, <3>1, <3>2, <3>3 DEF UartInv
    <2> DEFINE c == Chars(line)
               d == Chars(line)'
    <2>6. c \in Seq(Message)
      BY <2>1, CharsOfLine
    <2>7. c \o q \o t = sent
      BY <1>7 DEF TextInOrder, Chars, t, q
    <2>8. d = Append(c, Head(q))
      <3>1. d = Chars(Append(line, r))
        BY <1>1 DEF Chars
      <3> QED BY <3>1, <2>1, <2>3, CharsAppend
    <2> HIDE DEF c, d
    <2>9. d \o e \o t = c \o q \o t
      <3> DEFINE x == Head(q)
      <3>1. x \in Message /\ q = <<x>>
        BY <2>2
      <3> HIDE DEF x
      <3>2. Append(c, x) \o <<>> = c \o <<x>>
        BY <2>6, <3>1
      <3> QED BY <2>8, <3>1, <3>2 DEF e, x
    <2>10. \A i \in DOMAIN line' : line'[i].div = serial_div /\ line'[i].lcr = serial_lcr
      <3> SUFFICES ASSUME NEW i \in DOMAIN line'
                   PROVE  line'[i].div = serial_div /\ line'[i].lcr = serial_lcr
        OBVIOUS
      <3>1. \/ i \in DOMAIN line /\ line'[i] = line[i]
            \/ line'[i] = r
        BY <1>1, <2>1
      <3> QED BY <1>7, <2>3, <3>1 DEF TextInOrder
    <2>11. TextInOrder'
      <3>1. d \o uart'.shift \o uart'.thr = sent'
        BY <1>1, <1>5, <2>7, <2>9
      <3> QED BY <3>1, <2>10 DEF TextInOrder, Chars, d
    <2> QED BY <2>5, <2>11
  <1> QED BY <1>6, <1>7

LEMMA UartInductive ==
  ASSUME UartInv, TextInOrder, [StartNext]_vars
  PROVE  UartInv' /\ TextInOrder'
  <1> DEFINE Places == Operations \cup {"setup", "lost", "main"}
  <1>1. pc \in Places /\ pending \in Seq(Message)
        /\ (Quiet \/ pc = "parse_cmdline" => pending = <<>>)
    BY DEF UartInv
  <1>2. CASE Boot \/ Controller \/ Keyboard \/ UNCHANGED vars
    <2>1. UNCHANGED uartVars /\ pc' = pc /\ pending' = pending
      BY <1>2 DEF Boot, Controller, Keyboard, vars, startVars
    <2> QED BY <1>1, <2>1, UartUntouched DEF Quiet
  <1>3. CASE startup_32
    <2>1. /\ UNCHANGED uartVars /\ pending' = pending
          /\ pc = "setup" /\ pc' \in {"serial_echo_init", "lost"}
      BY <1>3 DEF startup_32
    <2> QED BY <1>1, <2>1, UartUntouched DEF Quiet, Operations
  <1>4. CASE InitSerial
    BY <1>4, InitSerialKeeps
  <1>5. CASE parse_cmdline
    <2>1. /\ UNCHANGED uartVars /\ pc = "parse_cmdline" /\ pc' = "timer_init"
          /\ pending' = Log("parse_cmdline", <<0, 0, 0>>)
      BY <1>5, Orders DEF parse_cmdline, Enters
    <2>2. pending' \in Seq(Message)
      BY <2>1, Levels, LogMessages DEF Operations
    <2> QED BY <2>1, <2>2, UartUntouched DEF Quiet, Operations
  <1>6. CASE timer_init
    <2>1. /\ UNCHANGED uartVars /\ pc = "timer_init" /\ pc' = "relocate_real"
          /\ pending' = Log("timer_init", <<8, 8, 8, 4, 4, 8, 8, 8, 4>>)
      BY <1>6, Orders DEF timer_init, Enters, MINIOS_LOG_INFO, MINIOS_LOG_DBG
    <2>2. pending' \in Seq(Message)
      BY <2>1, Levels, LogMessages DEF Operations
    <2> QED BY <2>1, <2>2, UartUntouched DEF Quiet, Operations
  <1>7. CASE relocate_real
    <2>1. /\ UNCHANGED uartVars /\ pc = "relocate_real" /\ pc' = "main"
          /\ pending' = Log("relocate_real", [i \in 1 .. 12 |-> 8])
      BY <1>7, Orders DEF relocate_real, Enters, MINIOS_LOG_DBG
    <2>2. pending' \in Seq(Message)
      BY <2>1, Levels, LogMessages DEF Operations
    <2> QED BY <2>1, <2>2, UartUntouched DEF Quiet, Operations
  <1>8. CASE write
    BY <1>8, WriteKeeps
  <1>9. CASE NotLogged
    <2>1. UNCHANGED uartVars /\ pc' = pc /\ pending # <<>> /\ pending' = Tail(pending)
      BY <1>9 DEF NotLogged
    <2>2. pending' \in Seq(Message)
      BY <1>1, <2>1, TailOfPending
    <2> QED BY <1>1, <2>1, <2>2, UartUntouched DEF Quiet
  <1>10. CASE Uart
    BY <1>10, LoadKeeps, ShiftKeeps DEF Uart, Transmit
  <1> QED BY <1>2, <1>3, <1>4, <1>5, <1>6, <1>7, <1>8, <1>9, <1>10 DEF StartNext, do_main

LEMMA UartInvariant == StartSpec => [](UartInv /\ TextInOrder)
  BY UartInitially, UartInductive, PTL DEF StartSpec

(***************************************************************************)
(* Whatever rate, format and DLAB the firmware left, and however slowly    *)
(* the UART sends: what arrives on the line is what was printed, in order, *)
(* at 9600 baud, 8N1.                                                      *)
(***************************************************************************)
THEOREM TextArrivesInOrder == StartSpec => []TextInOrder
  BY UartInvariant, PTL
-----------------------------------------------------------------------------
(* The log.                                                                *)

LEMMA LogInitially == StartInit => LogInv
  BY DEF StartInit, A20Init, SerialInit, LogInv, Printed

LEMMA SelectedIsAsked ==
  ASSUME NEW level \in {4, 8}, given \in 0 .. 15
  PROVE  Selected(given, level) <=> Asked(level)
  BY DEF Selected, Asked

\* Steps that print nothing and leave what is to be printed alone.
LEMMA LogUntouched ==
  ASSUME LogInv, UNCHANGED <<sent, pending, memory, given, debug>>,
         pc' = pc \/ (pc = "setup" /\ pc' \in {"lost", "serial_echo_init"})
                  \/ (pc = "serial_echo_init" /\ pc' = "parse_cmdline")
  PROVE  LogInv'
  <1>1. \A level \in {4, 8} : /\ Asked(level)' <=> Asked(level)
                              /\ Printed(level)' <=> Printed(level)
                              /\ Waiting(level)' <=> Waiting(level)
    BY DEF Asked, Printed, Waiting
  <1> QED BY <1>1 DEF LogInv

\* The message at the head leaves the queue, printed if it is asked for.
LEMMA LogMoves ==
  ASSUME UartInv, LogInv, write \/ NotLogged
  PROVE  LogInv'
  <1> DEFINE m == Head(pending)
             rest == Tail(pending)
  <1>1. /\ pending # <<>> /\ pending' = rest /\ pc' = pc
        /\ UNCHANGED <<memory, given, debug>>
        /\ IF Selected(debug, m.level) THEN sent' = Append(sent, m) ELSE sent' = sent
    BY DEF write, NotLogged, serial_echo, uartVars
  <1>2. pending \in Seq(Message) /\ sent \in Seq(Message)
    BY DEF UartInv
  <1>3. m \in Message
    BY <1>1, <1>2, TailOfPending
  <1>4. pc \in {"timer_init", "relocate_real", "main"} /\ debug = given /\ given \in 0 .. 15
    BY <1>1 DEF UartInv, Quiet, LogInv, Operations
  <1>5. \A i \in DOMAIN pending : pending[i] = m \/ \E j \in DOMAIN rest : rest[j] = pending[i]
    <2> SUFFICES ASSUME NEW i \in DOMAIN pending, i # 1
                 PROVE  \E j \in DOMAIN rest : rest[j] = pending[i]
      BY <1>1, <1>2
    <2>1. i - 1 \in DOMAIN rest /\ rest[i - 1] = pending[i]
      BY <1>1, <1>2
    <2> QED BY <2>1
  <1>6. /\ \A i \in DOMAIN sent : \E j \in DOMAIN sent' : sent'[j] = sent[i]
        /\ \A j \in DOMAIN sent' : \/ \E i \in DOMAIN sent : sent[i] = sent'[j]
                                   \/ sent'[j] = m /\ Selected(given, m.level)
        /\ Selected(given, m.level) => \E j \in DOMAIN sent' : sent'[j] = m
    <2>1. CASE Selected(given, m.level)
      <3> HIDE DEF m, rest
      <3>1. sent' = Append(sent, m)
        BY <1>1, <1>4, <2>1
      <3>2. /\ DOMAIN sent' = 1 .. Len(sent) + 1 /\ sent'[Len(sent) + 1] = m
            /\ \A i \in 1 .. Len(sent) : sent'[i] = sent[i]
            /\ DOMAIN sent = 1 .. Len(sent) /\ Len(sent) \in Nat
        BY <1>2, <1>3, <3>1
      <3> QED BY <2>1, <3>2
    <2>2. CASE ~Selected(given, m.level)
      <3>1. sent' = sent
        BY <1>1, <1>4, <2>2
      <3> QED BY <2>2, <3>1
    <2> QED BY <2>1, <2>2
  <1> HIDE DEF m, rest
  <1>7. ASSUME NEW level \in {4, 8}
        PROVE  /\ Asked(level)' <=> Asked(level)
               /\ Printed(level)' => Asked(level)
               /\ Printed(level) => Printed(level)'
               /\ Waiting(level) /\ Asked(level) => Printed(level)' \/ Waiting(level)'
    <2>1. Asked(level)' <=> Asked(level)
      BY <1>1 DEF Asked
    <2>2. Selected(given, level) <=> Asked(level)
      BY <1>4, SelectedIsAsked
    <2>3. Printed(level)' => Asked(level)
      BY <1>6, <2>2 DEF Printed, LogInv
    <2>4. Printed(level) => Printed(level)'
      BY <1>6 DEF Printed
    <2>5. Waiting(level) /\ Asked(level) => Printed(level)' \/ Waiting(level)'
      BY <1>1, <1>5, <1>6, <2>2 DEF Printed, Waiting
    <2> QED BY <2>1, <2>3, <2>4, <2>5
  <1> QED BY <1>1, <1>4, <1>7 DEF LogInv

LEMMA LogInductive ==
  ASSUME UartInv, LogInv, [StartNext]_vars
  PROVE  LogInv'
  <1>1. CASE Boot \/ startup_32 \/ InitSerial \/ Controller \/ Keyboard \/ Uart \/ UNCHANGED vars
    <2>1. UNCHANGED <<sent, pending, memory, given, debug>>
      BY <1>1 DEF Boot, startup_32, InitSerial, Controller, Keyboard, Uart, Transmit, Load,
                  Shift, serial_echo_init, vars, startVars, uartVars
    <2>2. pc' = pc \/ (pc = "setup" /\ pc' \in {"lost", "serial_echo_init"})
                   \/ (pc = "serial_echo_init" /\ pc' = "parse_cmdline")
      BY <1>1, Orders DEF Boot, startup_32, InitSerial, Enters, Controller, Keyboard, Uart,
                          vars, startVars
    <2> QED BY <2>1, <2>2, LogUntouched
  <1>2. CASE parse_cmdline
    <2>1. /\ UNCHANGED <<sent, memory, given>> /\ debug' = memory
          /\ pc = "parse_cmdline" /\ pc' = "timer_init"
      BY <1>2, Orders DEF parse_cmdline, Enters, uartVars
    <2>2. \A level \in {4, 8} : Printed(level)' => Asked(level)'
      BY <2>1 DEF LogInv, Printed, Asked
    <2> QED BY <2>1, <2>2 DEF LogInv
  <1>3. CASE timer_init
    <2> DEFINE levels == <<8, 8, 8, 4, 4, 8, 8, 8, 4>>
    <2>1. /\ UNCHANGED <<sent, memory, given, debug>>
          /\ pc = "timer_init" /\ pc' = "relocate_real"
          /\ pending' = Log("timer_init", levels)
      BY <1>3, Orders DEF timer_init, Enters, uartVars, MINIOS_LOG_INFO, MINIOS_LOG_DBG
    <2>2. \A level \in {4, 8} : Printed(level)' => Asked(level)'
      BY <2>1 DEF LogInv, Printed, Asked
    <2>3. Len(levels) = 9 /\ levels[1] = 8 /\ levels[4] = 4
      OBVIOUS
    <2> HIDE DEF levels
    <2>4. /\ 1 \in DOMAIN pending' /\ pending'[1].level = 8
          /\ 4 \in DOMAIN pending' /\ pending'[4].level = 4
      BY <2>1, <2>3 DEF Log
    <2>5. Waiting(8)' /\ Waiting(4)'
      BY <2>4 DEF Waiting
    <2> QED BY <2>1, <2>2, <2>5 DEF LogInv
  <1>4. CASE relocate_real
    <2>1. /\ UNCHANGED <<sent, given, debug>>
          /\ pc = "relocate_real" /\ pc' = "main" /\ pending = <<>>
      BY <1>4, Orders DEF relocate_real, Enters, uartVars
    <2>2. \A level \in {4, 8} : Printed(level)' => Asked(level)'
      BY <2>1 DEF LogInv, Printed, Asked
    <2>3. \A level \in {4, 8} : ~Waiting(level)
      BY <2>1 DEF Waiting
    <2>4. \A level \in {4, 8} : Asked(level)' => Printed(level)'
      BY <2>1, <2>3 DEF LogInv, Printed, Asked
    <2> QED BY <2>1, <2>2, <2>4 DEF LogInv
  <1>5. CASE write \/ NotLogged
    BY <1>5, LogMoves
  <1> QED BY <1>1, <1>2, <1>3, <1>4, <1>5 DEF StartNext, do_main

(***************************************************************************)
(* Once start-up has printed all it prints, there is a message of a level  *)
(* among what was printed exactly if the command line asked for that       *)
(* level, wherever the command line lay in memory.                         *)
(***************************************************************************)
THEOREM LogIsAsGiven == StartSpec => []LogAsGiven
  <1>1. UartInv /\ LogInv => LogAsGiven
    <2> SUFFICES ASSUME UartInv, LogInv, pc = "main", pending = <<>>,
                        NEW level \in {MINIOS_LOG_INFO, MINIOS_LOG_DBG}
                 PROVE  Printed(level) <=> Asked(level)
      BY DEF LogAsGiven, Printed, Asked
    <2>1. level \in {4, 8}
      BY DEF MINIOS_LOG_INFO, MINIOS_LOG_DBG
    <2>2. ~Waiting(level)
      BY DEF Waiting
    <2> QED BY <2>1, <2>2 DEF LogInv
  <1> QED BY <1>1, LogInitially, LogInductive, UartInvariant, PTL DEF StartSpec
=============================================================================
