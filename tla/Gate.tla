-------------------------------- MODULE Gate --------------------------------
(***************************************************************************)
(* disk.c, int13.S and head.S query_pcbios: how protected-mode C code calls*)
(* INT 13h.  The CPU leaves protected mode, runs the relocated code at     *)
(* 1000:0000 with interrupts on, and comes back.  Also head.S int_hand and *)
(* inter.c: what becomes of an exception.                                  *)
(*                                                                         *)
(* Instructions are grouped into steps; a step ends where the mode, the    *)
(* descriptor tables, the interrupt flag or the owner of the registers     *)
(* changes.  External: the BIOS, which may change every register except    *)
(* ds, ss and sp, and the hardware, which may interrupt whenever IF is     *)
(* set, and raise an exception or an NMI (rtc_cmos_read's writes to port   *)
(* 0x70 enable it) in C code.  The protected-mode stack holds only the     *)
(* saved registers; "lost" is a CPU that went where no handler is.         *)
(***************************************************************************)
EXTENDS Integers, Sequences, FiniteSets

CONSTANTS
  real_code_begin,                                       \* where it was linked to,
  real_reg, real_dap, real_disk_param_ext, real_buffer,  \* and the data in it
  BufferSize,     \* MAX_SECTOR_BUFFER_SIZE
  BiosStack,      \* external: stack the BIOS and its interrupt handlers need
  Vals,           \* contents a register may have
  MaxCalls        \* bound: BIOS calls

REAL_CODE_SEG  == 4096      \* 0x1000
REAL_CODE_ADDR == 65536

\* relocate_real copies the code and its data to REAL_CODE_ADDR.
relocate_real(a) == a - (real_code_begin - REAL_CODE_ADDR)

p_real_reg            == relocate_real(real_reg)
p_real_dap            == relocate_real(real_dap)
p_real_disk_param_ext == relocate_real(real_disk_param_ext)
p_real_buffer         == relocate_real(real_buffer)

\* All of it lies within 64 KB.
ASSUME LayoutAssumption ==
  /\ real_code_begin \in Nat
  /\ \A a \in {real_reg, real_dap, real_disk_param_ext, real_buffer} :
       a \in Nat /\ real_code_begin <= a /\ a < real_code_begin + 65536

\* The stack grows down from the end of the same 64 KB.
ASSUME RoomAssumption ==
  /\ BufferSize \in Nat /\ BiosStack \in Nat
  /\ p_real_buffer + BufferSize + BiosStack <= 2 * REAL_CODE_ADDR

ASSUME BoundAssumption == MaxCalls \in Nat

Callee == {"ebx", "esi", "edi", "ebp"}   \* what the C compiler expects preserved

VARIABLES
  pc,
  pe, idt, gdt, segs, intr,  \* CR0.PE, loaded tables, segment registers, IF
  regs,                      \* the registers of Callee
  stack,                     \* protected-mode stack
  real_stack,
  real_regs,                 \* what *p_real_reg and *p_real_dap hold
  fn,                        \* the function of disk.c that calls the BIOS
  calls, caller, answer,     \* history: calls, registers at the call, BIOS's answer
  frame                      \* the words on the stack when inter() is called

cpuVars  == <<pe, idt, gdt, segs, intr>>
dataVars == <<regs, stack, real_stack, real_regs>>
histVars == <<fn, calls, caller, answer>>
vars == <<pc, cpuVars, dataVars, histVars, frame>>

\* head.S up to the call of do_main: own gdt and idt, interrupts off.
Init ==
  /\ pc = "c_code"
  /\ pe = TRUE /\ idt = "prot" /\ gdt = "main" /\ segs = "kernel" /\ intr = FALSE
  /\ regs \in [Callee -> Vals]
  /\ stack = <<>> /\ real_stack = <<>>
  /\ real_regs = [ah |-> 0, bx |-> 0, es |-> 0, si |-> 0, di |-> 0, res |-> 0,
                  dap |-> [offset |-> 0, base |-> 0]]
  /\ fn = "none" /\ calls = 0 /\ caller = regs /\ answer = [cf |-> 0, ah |-> 0]
  /\ frame = <<>>

-----------------------------------------------------------------------------
(* disk.c                                                                  *)

\* The functions that use *p_real_reg, by the AH they put there.
Functions ==
  {"reset_disk_drive", "get_last_status", "get_disk_param", "check_extensions_present",
   "sector_chs_verify", "sector_chs_rw", "sectors_lba_rw", "get_disk_param_ext"}

Ah(f) ==
  CASE f = "reset_disk_drive"  -> {0}   [] f = "get_last_status"          -> {1}
    [] f = "get_disk_param"    -> {8}   [] f = "check_extensions_present" -> {65}
    [] f = "sector_chs_verify" -> {4}   [] f = "sector_chs_rw"            -> {2, 3}
    [] f = "sectors_lba_rw"    -> {66, 67}
    [] f = "get_disk_param_ext" -> {72}

\* BX is 0x55AA for the extensions check, otherwise 0.
Bx(f) == IF f = "check_extensions_present" THEN 21930 ELSE 0

\* The int13_n that f calls.
Wrapper(f) ==
  CASE f \in {"sector_chs_verify", "sector_chs_rw"} -> 2
    [] f = "sectors_lba_rw"     -> 3
    [] f = "get_disk_param_ext" -> 4
    [] OTHER -> 1

(***************************************************************************)
(* What f may return for the image its last BIOS call left: ret == 0 ? ret *)
(* : h.ah, except in two functions that return the carry flag (and have no *)
(* caller).  In sector_chs_rw ret is also -1 when sector_chs_verify        *)
(* refuses, without a call of its own, to verify a short write; the AH of  *)
(* the write is then returned.  (A verification that does call the BIOS is *)
(* a Call of its own, and what it returns is returned.)                    *)
(***************************************************************************)
Returned(f, image) ==
  { IF image.res = 0 \/ f \in {"reset_disk_drive", "get_last_status"}
    THEN image.res ELSE image.ah }
  \cup IF f = "sector_chs_rw" /\ image.res = 0 THEN {image.ah} ELSE {}

-----------------------------------------------------------------------------
(* int13.S                                                                 *)

\* A 16-bit register holds the low half of a 32-bit one.
Low16(a) == a % 65536

Xor64K(a) == IF (a \div 65536) % 2 = 1 THEN a - 65536 ELSE a + 65536

\* Mutant: the shift of int13_4 instead of that of int13_3.
DapBase_mut(a) == (a \div 65536) % 16

\* (a & 0x000f0000) >> 4
DapBase(a) == ((a \div 65536) % 16) * 4096

\* The image when int13_n is called: what f sets, and n's pointer registers.
Pointers(n, f, ah) ==
  [ah  |-> ah,
   bx  |-> IF n = 2 THEN Low16(Xor64K(p_real_buffer)) ELSE Bx(f),
   es  |-> IF n = 1 THEN 0 ELSE IF n = 2 THEN REAL_CODE_SEG ELSE real_regs.es,
   si  |-> IF n = 3 THEN Low16(p_real_dap)
           ELSE IF n = 4 THEN Low16(p_real_disk_param_ext) ELSE 0,
   di  |-> 0,
   res |-> real_regs.res,
   dap |-> IF n = 3 THEN [offset |-> Low16(p_real_buffer), base |-> DapBase(p_real_buffer)]
           ELSE real_regs.dap]

\* esi when query_pcbios is called: int13_1 does not use it.
WrapperEsi(n) ==
  CASE n = 1 -> regs["esi"]
    [] n = 2 -> Xor64K(p_real_buffer)
    [] n = 3 -> DapBase(p_real_buffer)
    [] n = 4 -> (p_real_disk_param_ext \div 65536) % 16

\* Pushed by the wrapper: esi by all but int13_1.  (ecx is the caller's to save.)
WrapperSaves(n) == IF n = 1 THEN <<"edi", "ebx">> ELSE <<"esi", "edi", "ebx">>

Push(s, names) == s \o [i \in 1 .. Len(names) |-> regs[names[i]]]

\* The registers after popping names, pushed in this order, off the stack s.
Popped(r, s, names) ==
  [q \in Callee |->
     LET hits == {i \in 1 .. Len(names) : names[i] = q}
     IN  IF hits = {} THEN r[q]
         ELSE s[Len(s) - Len(names) + (CHOOSE i \in hits : TRUE)]]

Drop(s, n) == SubSeq(s, 1, Len(s) - n)

\* f fills in the general registers of the image and calls its int13_n.
Call(f) ==
  /\ pc = "c_code" /\ calls < MaxCalls
  /\ calls' = calls + 1
  /\ fn' = f
  /\ caller' = regs
  /\ stack' = Push(stack, WrapperSaves(Wrapper(f)))
  /\ \E ah \in Ah(f) : real_regs' = Pointers(Wrapper(f), f, ah)
  /\ regs' = [regs EXCEPT !["edi"] = p_real_reg, !["esi"] = WrapperEsi(Wrapper(f))]
  /\ pc' = "query_pcbios"
  /\ UNCHANGED <<cpuVars, real_stack, answer, frame>>

-----------------------------------------------------------------------------
(* query_pcbios                                                            *)

\* Mutant: ebp is left to the BIOS.
Saves_mut == <<"ebx", "esi", "edi">>

Saves == <<"ebx", "esi", "edi", "ebp">>

\* Mutant: the protected-mode idt stays loaded.
IdtForBios_mut == idt

\* lidt idt_real
IdtForBios == "real"

\* Registers saved, the real-mode idt loaded, 16-bit segments, ebx = esp.
Enter ==
  /\ pc = "query_pcbios"
  /\ stack' = Push(stack, Saves)
  /\ idt' = IdtForBios
  /\ segs' = "real16"
  /\ regs' = [regs EXCEPT !["ebx"] = Len(stack')]
  /\ pc' = "leave_prot"
  /\ UNCHANGED <<pe, gdt, intr, real_stack, real_regs, histVars, frame>>

\* PE cleared, jump to 1000:0000, real-mode segments and stack, old esp pushed.
ToReal ==
  /\ pc = "leave_prot"
  /\ pe' = FALSE
  /\ segs' = "real"
  /\ regs' = [regs EXCEPT !["edi"] = Xor64K(@)]
  /\ real_stack' = <<regs["ebx"]>>
  /\ intr' = TRUE
  /\ pc' = "load_regs"
  /\ UNCHANGED <<idt, gdt, stack, real_regs, histVars, frame>>

\* The registers are loaded from ds:di, di is pushed, INT 13h.
IntBios ==
  /\ pc = "load_regs"
  /\ real_stack' = Append(real_stack, regs["edi"])
  /\ pc' = "bios"
  /\ UNCHANGED <<cpuVars, regs, stack, real_regs, histVars, frame>>

\* Mutant: the result is stored only when the carry flag is set.
StoreRes_mut(cf) == IF cf = 1 THEN 1 ELSE real_regs.res

\* The carry flag, stored on both branches of jc.
StoreRes(cf) == cf

\* The BIOS returns with any registers; the answer goes to ds:di, di popped.
BiosReturn ==
  /\ pc = "bios"
  /\ \E v, ah \in Vals, cf \in {0, 1} :
       /\ regs' = [q \in Callee |-> IF q = "edi" THEN real_stack[Len(real_stack)] ELSE v]
       /\ answer' = [cf |-> cf, ah |-> ah]
       /\ real_regs' = [ah |-> ah, bx |-> v, es |-> v, si |-> v, di |-> real_regs.di,
                         res |-> StoreRes(cf), dap |-> real_regs.dap]
  /\ real_stack' = Drop(real_stack, 1)
  /\ pc' = "leave_real"
  /\ UNCHANGED <<cpuVars, stack, fn, calls, caller, frame>>

\* Mutant: interrupts stay on.
ClearIF_mut == intr

\* cli
ClearIF == FALSE

Cli ==
  /\ pc = "leave_real"
  /\ intr' = ClearIF
  /\ pc' = "switch"
  /\ UNCHANGED <<pe, idt, gdt, segs, dataVars, histVars, frame>>

\* esp restored, the copied gdt loaded, PE set, flat segments.
ToProt ==
  /\ pc = "switch"
  /\ LET esp == real_stack[Len(real_stack)]
     IN  /\ regs' = [regs EXCEPT !["ebx"] = esp]
         /\ stack' = SubSeq(stack, 1, esp)
  /\ real_stack' = Drop(real_stack, 1)
  /\ gdt' = "copy" /\ pe' = TRUE /\ segs' = "kernel"
  /\ pc' = "prot"
  /\ UNCHANGED <<idt, intr, real_regs, histVars, frame>>

\* gdt reloaded, the saved registers popped.  The idt is not reloaded.
Leave ==
  /\ pc = "prot"
  /\ gdt' = "main"
  /\ regs' = Popped(regs, stack, Saves)
  /\ stack' = Drop(stack, Len(Saves))
  /\ pc' = "unwrap"
  /\ UNCHANGED <<pe, idt, segs, intr, real_stack, real_regs, histVars, frame>>

\* Back in int13_n: eax = *p_real_reg's res, registers popped.
Unwrap ==
  /\ pc = "unwrap"
  /\ regs' = Popped(regs, stack, WrapperSaves(Wrapper(fn)))
  /\ stack' = Drop(stack, Len(WrapperSaves(Wrapper(fn))))
  /\ pc' = "c_code"
  /\ UNCHANGED <<cpuVars, real_stack, real_regs, histVars, frame>>

-----------------------------------------------------------------------------
(* Interrupts and exceptions                                               *)

\* The BIOS's handlers run only in real mode, by its table, on its stack.
RealWorld == ~pe /\ idt = "real" /\ segs = "real"

\* External: a hardware interrupt.
Interrupt ==
  /\ intr
  /\ pc' = IF RealWorld THEN pc ELSE "lost"
  /\ UNCHANGED <<cpuVars, dataVars, histVars, frame>>

\* External: the vectors for which the CPU pushes an error code.
CpuPushesCode == {8, 10, 11, 12, 13, 14, 17}

\* Mutant: vec17 as vec16, a 0 above the CPU's alignment-check code.
StubPushesCode_mut == (0 .. 19) \ {8, 10, 11, 12, 13, 14}

\* The stubs with a pushl $0.
StubPushesCode == (0 .. 19) \ {8, 10, 11, 12, 13, 14, 17}

IntHandWords == <<"esp", "ebp", "esi", "edi", "edx", "ecx", "ebx", "eax">>

\* The words on the stack for vector v, the last one pushed first.
Frame(v) ==
  IntHandWords \o <<"vect">>
    \o (IF v \in StubPushesCode THEN <<"code">> ELSE <<>>)
    \o (IF v \in CpuPushesCode THEN <<"code">> ELSE <<>>)
    \o <<"eip", "cs", "eflag">>

(***************************************************************************)
(* Exception v in C code reaches vec<v> and int_hand through the own idt   *)
(* only.  inter() then halts: it returns for vector 2 alone, and the word  *)
(* it compares with 2 is the interrupted eip (struct eregs begins with two *)
(* words int_hand does not push).                                          *)
(***************************************************************************)
Exception(v) ==
  /\ pc = "c_code"
  /\ IF idt = "prot"
     THEN pc' = "inter" /\ frame' = Frame(v)
     ELSE pc' = "lost" /\ UNCHANGED frame
  /\ UNCHANGED <<cpuVars, dataVars, histVars>>

Run == \/ \E f \in Functions : Call(f)
       \/ Enter \/ ToReal \/ IntBios \/ BiosReturn \/ Cli \/ ToProt \/ Leave \/ Unwrap

Next == Run \/ Interrupt \/ \E v \in 0 .. 19 : Exception(v)
Spec == Init /\ [][Next]_vars

\* The CPU runs, and the BIOS returns, whatever interrupts it.
FairSpec == Spec /\ WF_vars(Run)

-----------------------------------------------------------------------------
(* Properties                                                              *)

\* Interrupts are enabled only while the CPU is in real mode with the
\* BIOS's table and the real-mode segments (sti .. cli of query_pcbios): a
\* timer tick never meets a half-switched CPU.
InterruptsSafe == intr => RealWorld

\* When int13_n returns, the C caller finds the registers it may rely on,
\* its stack and the protected-mode environment as they were, although the
\* BIOS was free to change every register in between.
CallTransparent ==
  pc = "c_code" => /\ \A q \in Callee : regs[q] = caller[q]
                   /\ stack = <<>> /\ real_stack = <<>>
                   /\ pe /\ ~intr /\ segs = "kernel" /\ gdt = "main"

\* The linear address of a real-mode segment and offset.
Linear(seg, off) == seg * 16 + off

\* At INT 13h di was loaded from p_real_reg, and the pointer registers the
\* function number needs lead, by real-mode addressing, to the structures
\* the C code accesses by linear address, with no stale pointer in si, di.
PointersResolve ==
  pc = "bios" =>
    /\ Linear(REAL_CODE_SEG, regs["edi"]) = p_real_reg
    /\ real_regs.di = 0
    /\ Wrapper(fn) = 1 => real_regs.es = 0 /\ real_regs.si = 0
    /\ Wrapper(fn) = 2 => Linear(real_regs.es, real_regs.bx) = p_real_buffer
    /\ Wrapper(fn) = 3 => /\ Linear(REAL_CODE_SEG, real_regs.si) = p_real_dap
                      /\ Linear(real_regs.dap.base, real_regs.dap.offset) = p_real_buffer
    /\ Wrapper(fn) = 4 => Linear(REAL_CODE_SEG, real_regs.si) = p_real_disk_param_ext

\* What a function of disk.c makes of the shared image is this call's
\* answer, never an earlier one's nor the AH it put there itself: the error
\* code if the carry flag was set, else 0, or, when the verification of a
\* short write is refused (disk.c:367), the AH of the write.
ResultFresh ==
  pc = "c_code" /\ calls > 0 =>
    \A result \in Returned(fn, real_regs) :
      \/ answer.cf = 0 /\ result = 0
      \/ answer.cf = 0 /\ result = answer.ah /\ fn = "sector_chs_rw"
      \/ answer.cf = 1 /\ result = IF fn \in {"reset_disk_drive", "get_last_status"}
                                 THEN 1 ELSE answer.ah

Halted == pc \in {"inter", "lost"}

Bios == INSTANCE BiosCall WITH
  phase  <- IF pc = "c_code" THEN "c" ELSE IF Halted THEN "halted"
            ELSE IF pc \in {"query_pcbios", "leave_prot", "load_regs", "bios"}
                 THEN "bios" ELSE "answered",
  regs   <- IF pc = "c_code" \/ Halted THEN regs ELSE caller,
  answer <- answer.cf,
  result <- IF pc = "c_code" \/ Halted THEN {real_regs.res} ELSE {}

(***************************************************************************)
(* Seen from C, int13_n is a function call: it comes back, however many    *)
(* interrupts are served meanwhile, with the caller's registers and the    *)
(* carry flag of its own INT 13h, and no interrupt stops the machine half  *)
(* way through the switch of modes.                                        *)
(***************************************************************************)
ImplementsCall == Bios!LiveSpec

(***************************************************************************)
(* Whichever of the twenty exceptions it was, inter() is called with the   *)
(* same words in the same places: what the CPU pushes and what the stub    *)
(* adds balance (head.S vec0 .. vec19), so the error code of one is never  *)
(* taken for the eip of another.  Whether the places are those of struct   *)
(* eregs is another matter.                                                *)
(***************************************************************************)
FramesAlike ==
  pc = "inter" => \A v \in 0 .. 19 : frame = Frame(v)

\* head.S:173 and 338 set up and load an exception handler for the C code:
\* an exception there reaches inter().
ExceptionsReported == pc = "c_code" => idt = "prot"
=============================================================================
