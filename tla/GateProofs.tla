----------------------------- MODULE GateProofs -----------------------------
(***************************************************************************)
(* Proofs about Gate: for every place the linker may put the real-mode     *)
(* code and its data, whatever the BIOS does to the registers and whenever *)
(* the hardware interrupts, a BIOS call is a function call.                *)
(***************************************************************************)
EXTENDS Gate, SequenceTheorems, TLAPS

\* On the way to the BIOS; in real mode with interrupts on; on the way back.
Calling   == {"query_pcbios", "leave_prot", "load_regs", "bios"}
Sti       == {"load_regs", "bios", "leave_real"}
Returning == {"leave_real", "switch", "prot", "unwrap"}

\* What a register may hold: what the BIOS leaves there, an address, a depth.
Contents == Vals \cup Int

\* The image of the registers at *p_real_reg, with the packet.
Image ==
  [ah : Contents, bx : Contents, es : Contents, si : Contents, di : Contents,
   res : {0, 1}, dap : [offset : Int, base : Int]]

GateType ==
  /\ pc \in {"c_code", "inter", "lost"} \cup Calling \cup Returning
  /\ fn \in Functions \cup {"none"}
  /\ regs \in [Callee -> Contents] /\ caller \in [Callee -> Contents]
  /\ stack \in Seq(Contents) /\ real_stack \in Seq(Contents)
  /\ real_regs \in Image
  /\ answer \in [cf : {0, 1}, ah : Contents]
  /\ calls \in Nat

\* Which mode, tables and segments the CPU is in, at each step of the switch.
CpuInv ==
  /\ intr \in BOOLEAN /\ pe \in BOOLEAN
  /\ intr <=> pc \in Sti
  /\ pe <=> pc \notin Sti \cup {"switch"}
  /\ pc \in (Calling \cup Returning) \ {"query_pcbios", "unwrap"} => idt = "real"
  /\ segs = IF ~pe THEN "real" ELSE IF pc = "leave_prot" THEN "real16" ELSE "kernel"
  /\ gdt = IF pc = "prot" THEN "copy" ELSE "main"

\* The registers the wrapper has pushed, and the one it leaves alone.
Outer(s) ==
  /\ Wrapper(fn) = 1 => /\ Len(s) >= 2
                        /\ s[1] = caller["edi"] /\ s[2] = caller["ebx"]
  /\ Wrapper(fn) # 1 => /\ Len(s) >= 3
                        /\ s[1] = caller["esi"] /\ s[2] = caller["edi"] /\ s[3] = caller["ebx"]

Kept(esi, ebp) == (Wrapper(fn) = 1 => esi = caller["esi"]) /\ ebp = caller["ebp"]

\* How many words the wrapper has pushed.
Depth == IF Wrapper(fn) = 1 THEN 2 ELSE 3

(***************************************************************************)
(* The protected-mode stack: the wrapper's words, and above them, between  *)
(* Enter and Leave, those of query_pcbios; what is not on it is still in   *)
(* its register.                                                           *)
(***************************************************************************)
StackInv ==
  /\ pc = "c_code" => stack = <<>> /\ regs = caller
  /\ pc \in Calling \cup Returning => Outer(stack)
  /\ pc \in {"query_pcbios", "unwrap"} =>
       Len(stack) = Depth /\ Kept(regs["esi"], regs["ebp"])
  /\ pc \in (Calling \cup Returning) \ {"query_pcbios", "unwrap"} =>
       Len(stack) = Depth + 4 /\ Kept(stack[Depth + 2], stack[Depth + 4])

\* The real-mode stack, from which esp and di come back.
RealStackInv ==
  /\ pc \in {"c_code", "query_pcbios", "leave_prot", "prot", "unwrap"} => real_stack = <<>>
  /\ pc = "query_pcbios" => regs["edi"] = p_real_reg
  /\ pc = "leave_prot" => regs["edi"] = p_real_reg /\ regs["ebx"] = Len(stack)
  /\ pc \in {"load_regs", "bios"} => regs["edi"] = Xor64K(p_real_reg)
  /\ pc \in {"load_regs", "leave_real", "switch"} => real_stack = <<Len(stack)>>
  /\ pc = "bios" => real_stack = <<Len(stack), Xor64K(p_real_reg)>>

\* The pointers of the image lead to the structures, from the call on.
Resolved ==
  /\ real_regs.di = 0
  /\ Wrapper(fn) = 1 => real_regs.es = 0 /\ real_regs.si = 0
  /\ Wrapper(fn) = 2 => Linear(real_regs.es, real_regs.bx) = p_real_buffer
  /\ Wrapper(fn) = 3 => /\ Linear(REAL_CODE_SEG, real_regs.si) = p_real_dap
                        /\ Linear(real_regs.dap.base, real_regs.dap.offset) = p_real_buffer
  /\ Wrapper(fn) = 4 => Linear(REAL_CODE_SEG, real_regs.si) = p_real_disk_param_ext

\* The image holds the answer, except between a call and its own answer.
ImageInv ==
  /\ pc \in Calling => Resolved
  /\ pc \notin Calling => real_regs.res = answer.cf /\ real_regs.ah = answer.ah

(***************************************************************************)
(* The invariant of the gate: where the CPU is decides its mode, what is   *)
(* on the two stacks and what the image of the registers holds.            *)
(***************************************************************************)
GateInv == GateType /\ CpuInv /\ StackInv /\ RealStackInv /\ ImageInv
-----------------------------------------------------------------------------
(* Lemmas about the operators of Gate                                      *)

\* A linear address in the 64 KB that the relocated code addresses.
InReach(a) == a \in Int /\ 65536 <= a /\ a < 131072

\* The four structures lie there.
LEMMA Relocated ==
  \A a \in {p_real_reg, p_real_dap, p_real_disk_param_ext, p_real_buffer} : InReach(a)
  <1>1. ASSUME NEW b \in Nat, NEW a \in Nat, b <= a, a < b + 65536
        PROVE  a - (b - 65536) \in Int /\ 65536 <= a - (b - 65536) /\ a - (b - 65536) < 131072
    BY <1>1
  <1>2. ASSUME NEW a \in {real_reg, real_dap, real_disk_param_ext, real_buffer}
        PROVE  InReach(relocate_real(a))
    BY <1>1, LayoutAssumption DEF relocate_real, REAL_CODE_ADDR, InReach
  <1>3. QED
    BY <1>2, Zenon DEF p_real_reg, p_real_dap, p_real_disk_param_ext, p_real_buffer

\* Real-mode addressing leads back to the linear address: through the low
\* half of it, through what xorl $REAL_CODE_ADDR leaves of it, and through the
\* segment made for the packet.
LEMMA Addressing ==
  ASSUME NEW a, InReach(a)
  PROVE  /\ a \in Int /\ Low16(a) \in Int /\ Xor64K(a) \in Int
         /\ Low16(Xor64K(a)) \in Int /\ DapBase(a) \in Int
         /\ Linear(REAL_CODE_SEG, Low16(a)) = a
         /\ Linear(REAL_CODE_SEG, Xor64K(a)) = a
         /\ Linear(REAL_CODE_SEG, Low16(Xor64K(a))) = a
         /\ Linear(DapBase(a), Low16(a)) = a
  <1>1. a \in Int /\ 65536 <= a /\ a < 131072
    BY DEF InReach
  <1>2. Xor64K(a) = a - 65536 /\ a % 65536 = a - 65536 /\ (a - 65536) % 65536 = a - 65536
    BY <1>1, SMT DEF Xor64K
  <1>3. DapBase(a) = 4096
    BY <1>1, SMT DEF DapBase
  <1>4. QED
    BY <1>1, <1>2, <1>3, SMT DEF Linear, Low16, REAL_CODE_SEG

LEMMA WrapperRange ==
  ASSUME NEW f \in Functions \cup {"none"}
  PROVE  Wrapper(f) \in {1, 2, 3, 4}
  BY DEF Wrapper

\* Where register q is among those pushed.
Places(names, q) == {i \in 1 .. Len(names) : names[i] = q}

Pick(S) == CHOOSE i \in S : TRUE

LEMMA CalleeElements ==
  "ebx" \in Callee /\ "esi" \in Callee /\ "edi" \in Callee /\ "ebp" \in Callee
  BY DEF Callee

\* What popping gives to a register, by its place.
LEMMA PopOne ==
  ASSUME NEW r, NEW s, NEW names, NEW q \in Callee
  PROVE  Popped(r, s, names)[q] =
           IF Places(names, q) = {} THEN r[q] ELSE s[Len(s) - Len(names) + Pick(Places(names, q))]
  BY DEF Popped, Places, Pick

LEMMA PoppedFunction ==
  ASSUME NEW r, NEW s, NEW names
  PROVE  /\ \A S : (\A q \in Callee : Popped(r, s, names)[q] \in S)
                      => Popped(r, s, names) \in [Callee -> S]
         /\ \A g \in [Callee -> Contents] :
              (\A q \in Callee : Popped(r, s, names)[q] = g[q]) => Popped(r, s, names) = g
  BY SMT DEF Popped

LEMMA PickOne == \A i : Pick({i}) = i
  BY DEF Pick

\* Popping what query_pcbios pushed, what int13_1 pushed, and what the others did.
LEMMA PopSaves ==
  ASSUME NEW r, NEW s \in Seq(Contents)
  PROVE  /\ Len(Saves) = 4
         /\ Popped(r, s, Saves)["ebx"] = s[Len(s) - 3]
         /\ Popped(r, s, Saves)["esi"] = s[Len(s) - 2]
         /\ Popped(r, s, Saves)["edi"] = s[Len(s) - 1]
         /\ Popped(r, s, Saves)["ebp"] = s[Len(s)]
  <1>1. Saves = <<"ebx", "esi", "edi", "ebp">> /\ Len(Saves) = 4
    BY DEF Saves
  <1>2. /\ Places(Saves, "ebx") = {1}
        /\ Places(Saves, "esi") = {2}
        /\ Places(Saves, "edi") = {3}
        /\ Places(Saves, "ebp") = {4}
    BY <1>1 DEF Places
  <1> DEFINE at(q) == IF Places(Saves, q) = {} THEN r[q]
                      ELSE s[Len(s) - Len(Saves) + Pick(Places(Saves, q))]
  <1>3. /\ Popped(r, s, Saves)["ebx"] = at("ebx")
        /\ Popped(r, s, Saves)["esi"] = at("esi")
        /\ Popped(r, s, Saves)["edi"] = at("edi")
        /\ Popped(r, s, Saves)["ebp"] = at("ebp")
    BY PopOne, CalleeElements
  <1>4. Len(Saves) = 4
    BY <1>1
  <1>5. /\ at("ebx") = s[Len(s) - 4 + 1]
        /\ at("esi") = s[Len(s) - 4 + 2]
        /\ at("edi") = s[Len(s) - 4 + 3]
        /\ at("ebp") = s[Len(s) - 4 + 4]
    BY <1>2, <1>4, PickOne
  <1> HIDE DEF at
  <1>6. QED
    BY <1>3, <1>4, <1>5

LEMMA PopWrapper1 ==
  ASSUME NEW r, NEW s \in Seq(Contents)
  PROVE  /\ Len(WrapperSaves(1)) = 2
         /\ Popped(r, s, WrapperSaves(1))["edi"] = s[Len(s) - 1]
         /\ Popped(r, s, WrapperSaves(1))["ebx"] = s[Len(s)]
         /\ Popped(r, s, WrapperSaves(1))["esi"] = r["esi"]
         /\ Popped(r, s, WrapperSaves(1))["ebp"] = r["ebp"]
  <1>1. WrapperSaves(1) = <<"edi", "ebx">> /\ Len(WrapperSaves(1)) = 2
    BY DEF WrapperSaves
  <1>2. /\ Places(WrapperSaves(1), "edi") = {1}
        /\ Places(WrapperSaves(1), "ebx") = {2}
        /\ Places(WrapperSaves(1), "esi") = {}
        /\ Places(WrapperSaves(1), "ebp") = {}
    BY <1>1 DEF Places
  <1> DEFINE at(q) == IF Places(WrapperSaves(1), q) = {} THEN r[q]
                      ELSE s[Len(s) - Len(WrapperSaves(1)) + Pick(Places(WrapperSaves(1), q))]
  <1>3. /\ Popped(r, s, WrapperSaves(1))["edi"] = at("edi")
        /\ Popped(r, s, WrapperSaves(1))["ebx"] = at("ebx")
        /\ Popped(r, s, WrapperSaves(1))["esi"] = at("esi")
        /\ Popped(r, s, WrapperSaves(1))["ebp"] = at("ebp")
    BY PopOne, CalleeElements
  <1>4. Len(WrapperSaves(1)) = 2
    BY <1>1
  <1>5. /\ at("edi") = s[Len(s) - 2 + 1]
        /\ at("ebx") = s[Len(s) - 2 + 2]
        /\ at("esi") = r["esi"]
        /\ at("ebp") = r["ebp"]
    BY <1>2, <1>4, PickOne
  <1> HIDE DEF at
  <1>6. QED
    BY <1>3, <1>4, <1>5

LEMMA PopWrapper2 ==
  ASSUME NEW r, NEW s \in Seq(Contents), NEW m, m # 1
  PROVE  /\ Len(WrapperSaves(m)) = 3
         /\ Popped(r, s, WrapperSaves(m))["esi"] = s[Len(s) - 2]
         /\ Popped(r, s, WrapperSaves(m))["edi"] = s[Len(s) - 1]
         /\ Popped(r, s, WrapperSaves(m))["ebx"] = s[Len(s)]
         /\ Popped(r, s, WrapperSaves(m))["ebp"] = r["ebp"]
  <1>1. WrapperSaves(m) = <<"esi", "edi", "ebx">> /\ Len(WrapperSaves(m)) = 3
    BY DEF WrapperSaves
  <1>2. /\ Places(WrapperSaves(m), "esi") = {1}
        /\ Places(WrapperSaves(m), "edi") = {2}
        /\ Places(WrapperSaves(m), "ebx") = {3}
        /\ Places(WrapperSaves(m), "ebp") = {}
    BY <1>1 DEF Places
  <1> DEFINE at(q) == IF Places(WrapperSaves(m), q) = {} THEN r[q]
                      ELSE s[Len(s) - Len(WrapperSaves(m)) + Pick(Places(WrapperSaves(m), q))]
  <1>3. /\ Popped(r, s, WrapperSaves(m))["esi"] = at("esi")
        /\ Popped(r, s, WrapperSaves(m))["edi"] = at("edi")
        /\ Popped(r, s, WrapperSaves(m))["ebx"] = at("ebx")
        /\ Popped(r, s, WrapperSaves(m))["ebp"] = at("ebp")
    BY PopOne, CalleeElements
  <1>4. Len(WrapperSaves(m)) = 3
    BY <1>1
  <1>5. /\ at("esi") = s[Len(s) - 3 + 1]
        /\ at("edi") = s[Len(s) - 3 + 2]
        /\ at("ebx") = s[Len(s) - 3 + 3]
        /\ at("ebp") = r["ebp"]
    BY <1>2, <1>4, PickOne
  <1> HIDE DEF at
  <1>6. QED
    BY <1>3, <1>4, <1>5

\* Pushing adds its words above what is there.
LEMMA PushSaves ==
  ASSUME GateType
  PROVE  LET t == Push(stack, Saves)
             n == Len(stack)
         IN  /\ t \in Seq(Contents) /\ Len(t) = n + 4
             /\ \A i \in 1 .. n : t[i] = stack[i]
             /\ t[n + 2] = regs["esi"] /\ t[n + 4] = regs["ebp"]
             /\ t[n + 1] = regs["ebx"] /\ t[n + 3] = regs["edi"]
  <1> DEFINE w == [i \in 1 .. Len(Saves) |-> regs[Saves[i]]]
  <1>1. /\ w \in Seq(Contents) /\ Len(w) = 4
        /\ w[1] = regs["ebx"] /\ w[2] = regs["esi"] /\ w[3] = regs["edi"] /\ w[4] = regs["ebp"]
    <2>1. Saves = <<"ebx", "esi", "edi", "ebp">> /\ Len(Saves) = 4
      BY DEF Saves
    <2>2. w = [i \in 1 .. 4 |-> regs[Saves[i]]]
      BY <2>1
    <2>3. \A i \in 1 .. 4 : Saves[i] \in Callee
      BY <2>1 DEF Callee
    <2>4. \A i \in 1 .. 4 : regs[Saves[i]] \in Contents
      BY <2>3 DEF GateType
    <2>5. QED
      BY <2>1, <2>2, <2>4
  <1>2. stack \in Seq(Contents)
    BY DEF GateType
  <1>3. Push(stack, Saves) = stack \o w
    BY DEF Push
  <1> HIDE DEF w
  <1>4. /\ stack \o w \in Seq(Contents) /\ Len(stack \o w) = Len(stack) + Len(w)
        /\ \A i \in 1 .. Len(stack) + Len(w) :
             (stack \o w)[i] = IF i <= Len(stack) THEN stack[i] ELSE w[i - Len(stack)]
    BY <1>1, <1>2, ConcatProperties, Zenon
  <1>5. QED
    BY <1>1, <1>2, <1>3, <1>4

\* Pushing a second word and popping it again.
LEMMA TwoWords ==
  ASSUME NEW x \in Contents, NEW y \in Contents
  PROVE  /\ <<x>> \in Seq(Contents) /\ <<x, y>> \in Seq(Contents)
         /\ Append(<<x>>, y) = <<x, y>> /\ Drop(<<x, y>>, 1) = <<x>>
  <1>1. <<x>> \in Seq(Contents) /\ <<x, y>> \in Seq(Contents)
    OBVIOUS
  <1>2. Append(<<x>>, y) = <<x, y>>
    <2>1. /\ Append(<<x>>, y) \in Seq(Contents) /\ Len(Append(<<x>>, y)) = 2
          /\ Append(<<x>>, y)[1] = x /\ Append(<<x>>, y)[2] = y
      BY <1>1
    <2>2. Len(<<x, y>>) = 2 /\ <<x, y>>[1] = x /\ <<x, y>>[2] = y
      OBVIOUS
    <2>3. \A i \in 1 .. 2 : Append(<<x>>, y)[i] = <<x, y>>[i]
      BY <2>1, <2>2
    <2>4. QED
      BY <1>1, <2>1, <2>2, <2>3, SeqEqual
  <1>3. Len(<<x, y>>) - 1 = 1
    OBVIOUS
  <1>4. SubSeq(<<x, y>>, 1, 1) = <<x>>
    <2>1. \A i \in 1 .. 1 : <<x, y>>[i] \in Contents
      OBVIOUS
    <2>2. /\ SubSeq(<<x, y>>, 1, 1) \in Seq(Contents) /\ Len(SubSeq(<<x, y>>, 1, 1)) = 1
          /\ SubSeq(<<x, y>>, 1, 1)[1] = x
      BY <1>1, <2>1
    <2>3. \A i \in 1 .. 1 : SubSeq(<<x, y>>, 1, 1)[i] = <<x>>[i]
      BY <2>2
    <2>4. QED
      BY <1>1, <2>2, <2>3, SeqEqual
  <1>5. QED
    BY <1>1, <1>2, <1>3, <1>4, Zenon DEF Drop

LEMMA PushWrapper ==
  ASSUME GateType, NEW m, stack = <<>>
  PROVE  LET t == Push(stack, WrapperSaves(m))
         IN  /\ m = 1 => t = <<regs["edi"], regs["ebx"]>>
             /\ m # 1 => t = <<regs["esi"], regs["edi"], regs["ebx"]>>
  <1>1. CASE m = 1
    <2>1. WrapperSaves(m) = <<"edi", "ebx">>
      BY <1>1 DEF WrapperSaves
    <2>2. QED
      BY <1>1, <2>1 DEF Push
  <1>2. CASE m # 1
    <2>1. WrapperSaves(m) = <<"esi", "edi", "ebx">>
      BY <1>2 DEF WrapperSaves
    <2>2. QED
      BY <1>2, <2>1 DEF Push
  <1>3. QED
    BY <1>1, <1>2

\* The image the wrapper completes leads to the structures.
LEMMA PointersResolved ==
  ASSUME real_regs \in Image, NEW m \in {1, 2, 3, 4}, NEW f, NEW ah \in Nat
  PROVE  LET p == Pointers(m, f, ah)
         IN  /\ p \in Image
             /\ p.di = 0
             /\ m = 1 => p.es = 0 /\ p.si = 0
             /\ m = 2 => Linear(p.es, p.bx) = p_real_buffer
             /\ m = 3 => /\ Linear(REAL_CODE_SEG, p.si) = p_real_dap
                         /\ Linear(p.dap.base, p.dap.offset) = p_real_buffer
             /\ m = 4 => Linear(REAL_CODE_SEG, p.si) = p_real_disk_param_ext
  <1>1. InReach(p_real_buffer) /\ InReach(p_real_dap) /\ InReach(p_real_disk_param_ext)
    BY Relocated, Zenon
  <1>2. /\ Low16(p_real_dap) \in Int /\ Linear(REAL_CODE_SEG, Low16(p_real_dap)) = p_real_dap
        /\ Low16(p_real_disk_param_ext) \in Int
        /\ Linear(REAL_CODE_SEG, Low16(p_real_disk_param_ext)) = p_real_disk_param_ext
        /\ Low16(p_real_buffer) \in Int /\ DapBase(p_real_buffer) \in Int
        /\ Low16(Xor64K(p_real_buffer)) \in Int
        /\ Linear(REAL_CODE_SEG, Low16(Xor64K(p_real_buffer))) = p_real_buffer
        /\ Linear(DapBase(p_real_buffer), Low16(p_real_buffer)) = p_real_buffer
    BY <1>1, Addressing, Zenon
  <1>3. REAL_CODE_SEG \in Contents /\ Bx(f) \in Contents
    BY SMT DEF REAL_CODE_SEG, Bx, Contents
  <1>4. \A x \in Int : x \in Contents
    BY SMT DEF Contents
  <1>5. Pointers(m, f, ah) \in Image
    BY <1>2, <1>3, <1>4, SMT DEF Pointers, Image
  <1>6. QED
    BY <1>2, <1>5, SMT DEF Pointers

-----------------------------------------------------------------------------
(* Every step keeps the invariant                                          *)

LEMMA Reals ==
  /\ p_real_reg \in Int /\ Xor64K(p_real_reg) \in Int
  /\ Xor64K(p_real_buffer) \in Int /\ DapBase(p_real_buffer) \in Int
  /\ Linear(REAL_CODE_SEG, Xor64K(p_real_reg)) = p_real_reg
  <1>1. InReach(p_real_buffer) /\ InReach(p_real_reg)
    BY Relocated, Zenon
  <1>2. QED
    BY <1>1, Addressing, Zenon

LEMMA WrapperEsiType ==
  ASSUME GateType, NEW m \in {1, 2, 3, 4}
  PROVE  WrapperEsi(m) \in Contents /\ (m = 1 => WrapperEsi(m) = regs["esi"])
  <1>1. p_real_disk_param_ext \in Int
    BY Relocated DEF InReach
  <1>2. /\ WrapperEsi(1) = regs["esi"] /\ WrapperEsi(2) = Xor64K(p_real_buffer)
        /\ WrapperEsi(3) = DapBase(p_real_buffer)
        /\ WrapperEsi(4) = (p_real_disk_param_ext \div 65536) % 16
    BY SMT DEF WrapperEsi
  <1>3. regs["esi"] \in Contents
    BY SMT DEF GateType, Callee
  <1>4. QED
    BY <1>1, <1>2, <1>3, Reals, SMT DEF Contents

LEMMA InitGate == Init => GateInv
  <1> SUFFICES ASSUME Init PROVE GateInv
    OBVIOUS
  <1>1. GateType
    BY DEF Init, GateType, Contents, Image
  <1>2. CpuInv
    BY DEF Init, CpuInv, Calling, Sti, Returning
  <1>3. StackInv
    BY DEF Init, StackInv, Calling, Returning
  <1>4. RealStackInv
    BY DEF Init, RealStackInv
  <1>5. ImageInv
    BY DEF Init, ImageInv, Calling
  <1>6. QED
    BY <1>1, <1>2, <1>3, <1>4, <1>5 DEF GateInv

LEMMA CallStep ==
  ASSUME GateInv, NEW f \in Functions, Call(f)
  PROVE  GateInv'
  <1> USE DEF GateInv, GateType
  <1>1. fn' = f /\ Wrapper(f) \in {1, 2, 3, 4} /\ caller' = regs /\ pc = "c_code" /\ stack = <<>>
        /\ pc' = "query_pcbios"
    BY WrapperRange DEF Call, StackInv
  <1>2. PICK ah \in Ah(f) : real_regs' = Pointers(Wrapper(f), f, ah)
    BY DEF Call
  <1>3. ah \in Nat
    BY SMT DEF Ah, Functions
  <1>4. real_regs' \in Image /\ Resolved'
    BY <1>1, <1>2, <1>3, PointersResolved, SMT DEF Resolved
  <1>5. WrapperEsi(Wrapper(f)) \in Contents /\ (Wrapper(f) = 1 => WrapperEsi(Wrapper(f)) = regs["esi"])
    BY <1>1, WrapperEsiType
  <1>6. /\ regs' \in [Callee -> Contents] /\ regs'["edi"] = p_real_reg
        /\ regs'["esi"] = WrapperEsi(Wrapper(f)) /\ regs'["ebp"] = regs["ebp"]
    <2> DEFINE r == [regs EXCEPT !["edi"] = p_real_reg]
    <2>1. regs' = [r EXCEPT !["esi"] = WrapperEsi(Wrapper(f))]
      BY Zenon DEF Call
    <2>2. p_real_reg \in Contents
      BY Reals, SMT DEF Contents
    <2>3. r \in [Callee -> Contents] /\ r["edi"] = p_real_reg /\ r["ebp"] = regs["ebp"]
      BY <2>2, SMT DEF Callee
    <2> HIDE DEF r
    <2>4. QED
      BY <1>5, <2>1, <2>3, SMT DEF Callee
  <1>7. /\ Wrapper(f) = 1 => stack' = <<regs["edi"], regs["ebx"]>>
        /\ Wrapper(f) # 1 => stack' = <<regs["esi"], regs["edi"], regs["ebx"]>>
    BY <1>1, PushWrapper DEF Call
  <1>8. GateType'
    <2>1. stack' \in Seq(Contents)
      <3>1. regs["edi"] \in Contents /\ regs["ebx"] \in Contents /\ regs["esi"] \in Contents
        BY SMT DEF Callee
      <3>2. CASE Wrapper(f) = 1
        <4>1. <<regs["edi"], regs["ebx"]>> \in Seq(Contents)
          BY <3>1
        <4>2. QED
          BY <1>7, <3>2, <4>1, Zenon
      <3>3. CASE Wrapper(f) # 1
        <4>1. <<regs["esi"], regs["edi"], regs["ebx"]>> \in Seq(Contents)
          BY <3>1
        <4>2. QED
          BY <1>7, <3>3, <4>1, Zenon
      <3>4. QED
        BY <3>2, <3>3
    <2>2. calls' \in Nat /\ UNCHANGED <<real_stack, answer>>
      BY DEF Call
    <2>3. QED
      BY <1>1, <1>4, <1>6, <2>1, <2>2 DEF Calling
  <1>9. CpuInv'
    BY <1>1 DEF Call, CpuInv, cpuVars, Calling, Sti, Returning
  <1>10. StackInv'
    BY <1>1, <1>5, <1>6, <1>7 DEF StackInv, Outer, Kept, Depth, Calling, Returning
  <1>11. RealStackInv'
    BY <1>1, <1>6 DEF Call, RealStackInv
  <1>12. ImageInv'
    BY <1>1, <1>4 DEF ImageInv, Calling
  <1>13. QED
    BY <1>8, <1>9, <1>10, <1>11, <1>12

LEMMA EnterStep ==
  ASSUME GateInv, Enter
  PROVE  GateInv'
  <1> USE DEF GateInv, GateType
  <1>1. /\ stack' \in Seq(Contents) /\ Len(stack') = Len(stack) + 4
        /\ \A i \in 1 .. Len(stack) : stack'[i] = stack[i]
        /\ stack'[Len(stack) + 2] = regs["esi"] /\ stack'[Len(stack) + 4] = regs["ebp"]
    BY PushSaves, Zenon DEF Enter
  <1>2. pc = "query_pcbios" /\ pc' = "leave_prot"
    BY DEF Enter
  <1>3. /\ regs' \in [Callee -> Contents] /\ regs'["edi"] = p_real_reg
        /\ regs'["ebx"] = Len(stack')
    BY <1>1, <1>2 DEF Enter, RealStackInv, Contents, Callee
  <1>4. GateType'
    BY <1>1, <1>2, <1>3 DEF Enter, histVars, Calling
  <1>5. CpuInv'
    BY <1>2 DEF Enter, CpuInv, IdtForBios, Calling, Sti, Returning
  <1>6. StackInv'
    <2>1. Len(stack) = Depth /\ Kept(regs["esi"], regs["ebp"]) /\ Outer(stack)
      BY <1>2 DEF StackInv, Calling
    <2>2. UNCHANGED <<fn, caller>> /\ Depth' = Depth /\ Depth \in {2, 3}
      BY DEF Enter, histVars, Depth
    <2>3. Outer(stack)'
      BY <1>1, <2>1, <2>2 DEF Outer, Depth
    <2>4. Len(stack') = Depth' + 4 /\ Kept(stack[Depth + 2], stack[Depth + 4])'
      BY <1>1, <2>1, <2>2 DEF Kept
    <2>5. QED
      BY <1>1, <1>2, <2>2, <2>3, <2>4 DEF StackInv, Calling, Returning
  <1>7. RealStackInv'
    BY <1>2, <1>3 DEF Enter, RealStackInv
  <1>8. ImageInv'
    BY <1>2 DEF Enter, ImageInv, Resolved, histVars, Calling
  <1>9. QED
    BY <1>4, <1>5, <1>6, <1>7, <1>8

LEMMA ToRealStep ==
  ASSUME GateInv, ToReal
  PROVE  GateInv'
  <1> USE DEF GateInv, GateType
  <1>1. pc = "leave_prot" /\ pc' = "load_regs" /\ UNCHANGED <<stack, real_regs, fn, calls, caller, answer>>
    BY DEF ToReal, histVars
  <1>2. real_stack' = <<Len(stack)>> /\ real_stack' \in Seq(Contents)
    BY <1>1 DEF ToReal, RealStackInv, Contents
  <1>3. regs' \in [Callee -> Contents] /\ regs'["edi"] = Xor64K(p_real_reg)
    <2>1. regs["edi"] = p_real_reg /\ Xor64K(p_real_reg) \in Contents
      BY <1>1, Reals DEF RealStackInv, Contents
    <2>2. regs' = [regs EXCEPT !["edi"] = Xor64K(regs["edi"])]
      BY DEF ToReal
    <2>3. QED
      BY <2>1, <2>2 DEF Callee
  <1>4. GateType'
    BY <1>1, <1>2, <1>3 DEF Calling
  <1>5. CpuInv'
    BY <1>1 DEF ToReal, CpuInv, Calling, Sti, Returning
  <1>6. StackInv'
    BY <1>1 DEF StackInv, Outer, Kept, Depth, Calling, Returning
  <1>7. RealStackInv'
    BY <1>1, <1>2, <1>3 DEF RealStackInv
  <1>8. ImageInv'
    BY <1>1 DEF ImageInv, Resolved, Calling
  <1>9. QED
    BY <1>4, <1>5, <1>6, <1>7, <1>8

LEMMA IntBiosStep ==
  ASSUME GateInv, IntBios
  PROVE  GateInv'
  <1> USE DEF GateInv, GateType
  <1>1. /\ pc = "load_regs" /\ pc' = "bios"
        /\ UNCHANGED <<cpuVars, regs, stack, real_regs, fn, calls, caller, answer>>
    BY DEF IntBios, histVars
  <1>2. real_stack' = <<Len(stack), Xor64K(p_real_reg)>> /\ real_stack' \in Seq(Contents)
    <2>1. real_stack = <<Len(stack)>> /\ regs["edi"] = Xor64K(p_real_reg)
      BY <1>1 DEF RealStackInv
    <2>2. Xor64K(p_real_reg) \in Contents /\ Len(stack) \in Contents
      BY Reals DEF Contents
    <2>3. real_stack' = Append(real_stack, regs["edi"])
      BY DEF IntBios
    <2>4. /\ Append(<<Len(stack)>>, Xor64K(p_real_reg)) = <<Len(stack), Xor64K(p_real_reg)>>
          /\ <<Len(stack), Xor64K(p_real_reg)>> \in Seq(Contents)
      BY <2>2, TwoWords, Zenon
    <2>5. QED
      BY <2>1, <2>3, <2>4, Zenon
  <1>4. GateType'
    BY <1>1, <1>2 DEF Calling
  <1>5. CpuInv'
    BY <1>1 DEF cpuVars, CpuInv, Calling, Sti, Returning
  <1>6. StackInv'
    BY <1>1 DEF StackInv, Outer, Kept, Depth, Calling, Returning
  <1>7. RealStackInv'
    BY <1>1, <1>2 DEF RealStackInv
  <1>8. ImageInv'
    BY <1>1 DEF ImageInv, Resolved, Calling
  <1>9. QED
    BY <1>4, <1>5, <1>6, <1>7, <1>8

LEMMA BiosReturnStep ==
  ASSUME GateInv, BiosReturn
  PROVE  GateInv'
  <1> USE DEF GateInv, GateType
  <1>1. pc = "bios" /\ pc' = "leave_real" /\ UNCHANGED <<cpuVars, stack, fn, calls, caller>>
    BY DEF BiosReturn
  <1>2. real_stack = <<Len(stack), Xor64K(p_real_reg)>>
    BY <1>1 DEF RealStackInv
  <1>3. Xor64K(p_real_reg) \in Contents /\ Len(stack) \in Contents
    BY Reals DEF Contents
  <1>4. real_stack' = <<Len(stack)>> /\ real_stack' \in Seq(Contents)
    <2>1. real_stack' = Drop(real_stack, 1)
      BY DEF BiosReturn
    <2>2. QED
      BY <1>2, <1>3, <2>1, TwoWords, Zenon
  <1>5. PICK v \in Vals, ah \in Vals, cf \in {0, 1} :
          /\ regs' = [q \in Callee |-> IF q = "edi" THEN real_stack[Len(real_stack)] ELSE v]
          /\ answer' = [cf |-> cf, ah |-> ah]
          /\ real_regs' = [ah |-> ah, bx |-> v, es |-> v, si |-> v, di |-> real_regs.di,
                            res |-> StoreRes(cf), dap |-> real_regs.dap]
    BY DEF BiosReturn
  <1>6. v \in Contents /\ ah \in Contents /\ real_stack[Len(real_stack)] \in Contents
    BY <1>2, <1>3 DEF Contents
  <1>7. regs' \in [Callee -> Contents]
    BY <1>5, <1>6
  <1>8. real_regs' \in Image /\ real_regs'.res = cf /\ real_regs'.ah = ah
    BY <1>5, <1>6 DEF Image, StoreRes
  <1>9. GateType'
    BY <1>1, <1>4, <1>5, <1>6, <1>7, <1>8 DEF Returning
  <1>10. CpuInv'
    BY <1>1 DEF cpuVars, CpuInv, Calling, Sti, Returning
  <1>11. StackInv'
    BY <1>1 DEF StackInv, Outer, Kept, Depth, Calling, Returning
  <1>12. RealStackInv'
    BY <1>1, <1>4 DEF RealStackInv
  <1>13. ImageInv'
    BY <1>1, <1>5, <1>8 DEF ImageInv, Calling
  <1>14. QED
    BY <1>9, <1>10, <1>11, <1>12, <1>13

LEMMA CliStep ==
  ASSUME GateInv, Cli
  PROVE  GateInv'
  <1> USE DEF GateInv, GateType
  <1>1. /\ pc = "leave_real" /\ pc' = "switch"
        /\ UNCHANGED <<regs, stack, real_stack, real_regs, fn, calls, caller, answer>>
    BY DEF Cli, dataVars, histVars
  <1>4. GateType'
    BY <1>1 DEF Returning
  <1>5. CpuInv'
    BY <1>1 DEF Cli, ClearIF, CpuInv, Calling, Sti, Returning
  <1>6. StackInv'
    BY <1>1 DEF StackInv, Outer, Kept, Depth, Calling, Returning
  <1>7. RealStackInv'
    BY <1>1 DEF RealStackInv
  <1>8. ImageInv'
    BY <1>1 DEF ImageInv, Calling
  <1>9. QED
    BY <1>4, <1>5, <1>6, <1>7, <1>8

LEMMA ToProtStep ==
  ASSUME GateInv, ToProt
  PROVE  GateInv'
  <1> USE DEF GateInv, GateType
  <1>1. pc = "switch" /\ pc' = "prot" /\ UNCHANGED <<real_regs, fn, calls, caller, answer>>
    BY DEF ToProt, histVars
  <1>2. real_stack = <<Len(stack)>>
    BY <1>1 DEF RealStackInv
  <1>3. real_stack[Len(real_stack)] = Len(stack) /\ Len(stack) \in Contents
    BY <1>2 DEF Contents
  <1>4. real_stack' = <<>> /\ real_stack' \in Seq(Contents)
    <2>1. real_stack' = SubSeq(real_stack, 1, Len(real_stack) - 1)
      BY DEF ToProt, Drop
    <2>2. QED
      BY <1>2, <1>3, <2>1
  <1>5. stack' = stack
    <2>1. stack' = SubSeq(stack, 1, Len(stack))
      BY <1>3 DEF ToProt
    <2>2. QED
      BY <2>1
  <1>6. regs' \in [Callee -> Contents]
    BY <1>3 DEF ToProt
  <1>7. GateType'
    BY <1>1, <1>4, <1>5, <1>6 DEF Returning
  <1>8. CpuInv'
    BY <1>1 DEF ToProt, CpuInv, Calling, Sti, Returning
  <1>9. StackInv'
    BY <1>1, <1>5 DEF StackInv, Outer, Kept, Depth, Calling, Returning
  <1>10. RealStackInv'
    BY <1>1, <1>4 DEF RealStackInv
  <1>11. ImageInv'
    BY <1>1 DEF ImageInv, Calling, Returning
  <1>12. QED
    BY <1>7, <1>8, <1>9, <1>10, <1>11

LEMMA LeaveStep ==
  ASSUME GateInv, Leave
  PROVE  GateInv'
  <1> USE DEF GateInv, GateType
  <1>1. /\ pc = "prot" /\ pc' = "unwrap"
        /\ UNCHANGED <<real_stack, real_regs, fn, calls, caller, answer>>
    BY DEF Leave, histVars
  <1>2. /\ Len(stack) = Depth + 4 /\ Kept(stack[Depth + 2], stack[Depth + 4])
        /\ Outer(stack) /\ Depth \in {2, 3}
    BY <1>1 DEF StackInv, Depth, Calling, Returning
  <1>3. /\ regs' \in [Callee -> Contents]
        /\ regs'["esi"] = stack[Depth + 2] /\ regs'["ebp"] = stack[Depth + 4]
    <2>1. /\ Popped(regs, stack, Saves)["ebx"] = stack[Len(stack) - 3]
          /\ Popped(regs, stack, Saves)["esi"] = stack[Len(stack) - 2]
          /\ Popped(regs, stack, Saves)["edi"] = stack[Len(stack) - 1]
          /\ Popped(regs, stack, Saves)["ebp"] = stack[Len(stack)]
      BY PopSaves, Zenon
    <2>2. regs' = Popped(regs, stack, Saves)
      BY DEF Leave
    <2>3. /\ regs'["ebx"] = stack[Depth + 1] /\ regs'["esi"] = stack[Depth + 2]
          /\ regs'["edi"] = stack[Depth + 3] /\ regs'["ebp"] = stack[Depth + 4]
      BY <1>2, <2>1, <2>2
    <2>4. \A i \in 1 .. Len(stack) : stack[i] \in Contents
      OBVIOUS
    <2>5. \A q \in Callee : regs'[q] \in Contents
      BY <1>2, <2>3, <2>4 DEF Callee
    <2>6. QED
      BY <2>2, <2>3, <2>5, PoppedFunction, Zenon
  <1>4. /\ stack' \in Seq(Contents) /\ Len(stack') = Depth
        /\ \A i \in 1 .. Depth : stack'[i] = stack[i]
    <2>1. stack' = SubSeq(stack, 1, Len(stack) - 4)
      BY PopSaves DEF Leave, Drop
    <2>2. stack' = SubSeq(stack, 1, Depth)
      BY <1>2, <2>1
    <2>3. Depth \in 0 .. Len(stack)
      BY <1>2
    <2>4. QED
      BY <2>2, <2>3, SubSeqProperties
  <1>5. GateType'
    BY <1>1, <1>3, <1>4 DEF Returning
  <1>6. CpuInv'
    BY <1>1 DEF Leave, CpuInv, Calling, Sti, Returning
  <1>7. StackInv'
    <2>1. Outer(stack)'
      BY <1>1, <1>2, <1>4 DEF Outer, Depth
    <2>2. Len(stack') = Depth' /\ Kept(regs["esi"], regs["ebp"])'
      BY <1>1, <1>2, <1>3, <1>4 DEF Kept, Depth
    <2>3. QED
      BY <1>1, <2>1, <2>2 DEF StackInv, Calling, Returning
  <1>8. RealStackInv'
    BY <1>1 DEF RealStackInv
  <1>9. ImageInv'
    BY <1>1 DEF ImageInv, Calling
  <1>10. QED
    BY <1>5, <1>6, <1>7, <1>8, <1>9

LEMMA UnwrapStep ==
  ASSUME GateInv, Unwrap
  PROVE  GateInv'
  <1> USE DEF GateInv, GateType
  <1>1. /\ pc = "unwrap" /\ pc' = "c_code"
        /\ UNCHANGED <<cpuVars, real_stack, real_regs, fn, calls, caller, answer>>
    BY DEF Unwrap, histVars
  <1>2. Len(stack) = Depth /\ Kept(regs["esi"], regs["ebp"]) /\ Outer(stack)
    BY <1>1 DEF StackInv, Calling, Returning
  <1>3. regs' = Popped(regs, stack, WrapperSaves(Wrapper(fn)))
    BY DEF Unwrap
  <1>4. /\ regs'["ebx"] = caller["ebx"] /\ regs'["esi"] = caller["esi"]
        /\ regs'["edi"] = caller["edi"] /\ regs'["ebp"] = caller["ebp"]
        /\ stack' = <<>>
    <2>1. CASE Wrapper(fn) = 1
      <3>1. /\ regs'["edi"] = stack[Len(stack) - 1] /\ regs'["ebx"] = stack[Len(stack)]
            /\ regs'["esi"] = regs["esi"] /\ regs'["ebp"] = regs["ebp"]
        BY <1>3, <2>1, PopWrapper1, Zenon
      <3>2. stack' = SubSeq(stack, 1, Len(stack) - 2)
        BY <2>1, PopWrapper1 DEF Unwrap, Drop
      <3>3. QED
        BY <1>2, <2>1, <3>1, <3>2 DEF Outer, Kept, Depth
    <2>2. CASE Wrapper(fn) # 1
      <3>1. /\ regs'["esi"] = stack[Len(stack) - 2] /\ regs'["edi"] = stack[Len(stack) - 1]
            /\ regs'["ebx"] = stack[Len(stack)] /\ regs'["ebp"] = regs["ebp"]
        BY <1>3, <2>2, PopWrapper2
      <3>2. stack' = SubSeq(stack, 1, Len(stack) - 3)
        BY <2>2, PopWrapper2 DEF Unwrap, Drop
      <3>3. QED
        BY <1>2, <2>2, <3>1, <3>2 DEF Outer, Kept, Depth
    <2>3. QED
      BY <2>1, <2>2
  <1>5. regs' = caller
    <2>1. \A q \in Callee : regs'[q] = caller[q]
      BY <1>4 DEF Callee
    <2>2. caller \in [Callee -> Contents]
      OBVIOUS
    <2>3. (\A q \in Callee : Popped(regs, stack, WrapperSaves(Wrapper(fn)))[q] = caller[q])
            => Popped(regs, stack, WrapperSaves(Wrapper(fn))) = caller
      BY <2>2, PoppedFunction
    <2>4. QED
      BY <1>3, <2>1, <2>3, Zenon
  <1>6. GateType'
    BY <1>1, <1>4, <1>5
  <1>7. CpuInv'
    BY <1>1 DEF cpuVars, CpuInv, Calling, Sti, Returning
  <1>8. StackInv'
    BY <1>1, <1>4, <1>5 DEF StackInv, Calling, Returning
  <1>9. RealStackInv'
    BY <1>1 DEF RealStackInv
  <1>10. ImageInv'
    BY <1>1 DEF ImageInv, Calling
  <1>11. QED
    BY <1>6, <1>7, <1>8, <1>9, <1>10

\* An interrupt finds the BIOS's world, and leaves it.
LEMMA InterruptStep ==
  ASSUME GateInv, Interrupt
  PROVE  UNCHANGED vars
  BY DEF GateInv, CpuInv, Interrupt, RealWorld, Sti, Calling, Returning, vars

LEMMA StutterStep ==
  ASSUME GateInv, UNCHANGED vars
  PROVE  GateInv'
  BY DEF GateInv, GateType, CpuInv, StackInv, RealStackInv, ImageInv, Resolved, Outer, Kept,
         Depth, vars, cpuVars, dataVars, histVars

LEMMA ExceptionStep ==
  ASSUME GateInv, NEW v \in 0 .. 19, Exception(v)
  PROVE  GateInv'
  <1> USE DEF GateInv, GateType
  <1>1. pc = "c_code" /\ pc' \in {"inter", "lost"} /\ UNCHANGED <<cpuVars, dataVars, histVars>>
    BY DEF Exception
  <1>2. GateType' /\ ImageInv'
    BY <1>1 DEF dataVars, histVars, ImageInv, Calling
  <1>3. CpuInv'
    BY <1>1 DEF cpuVars, CpuInv, Calling, Sti, Returning
  <1>4. StackInv' /\ RealStackInv'
    BY <1>1 DEF StackInv, RealStackInv, Calling, Returning
  <1>5. QED
    BY <1>2, <1>3, <1>4

LEMMA GateInductive == GateInv /\ [Next]_vars => GateInv'
  BY CallStep, EnterStep, ToRealStep, IntBiosStep, BiosReturnStep, CliStep, ToProtStep, LeaveStep,
     UnwrapStep, InterruptStep, StutterStep, ExceptionStep DEF Next, Run

(***************************************************************************)
(* From the start on, where the CPU is decides its mode, what is on its    *)
(* two stacks and what the image of the registers holds (GateInv).         *)
(***************************************************************************)
THEOREM GateInvariant == Spec => []GateInv
  BY InitGate, GateInductive, PTL DEF Spec
-----------------------------------------------------------------------------
(* What follows for the C code                                             *)

\* Whenever interrupts are enabled, the CPU is in real mode with the BIOS's
\* table and the real-mode segments (sti .. cli of query_pcbios).
THEOREM InterruptsAreSafe == Spec => []InterruptsSafe
  <1>1. GateInv => InterruptsSafe
    BY DEF GateInv, CpuInv, InterruptsSafe, RealWorld, Calling, Sti, Returning
  <1>2. QED
    BY <1>1, GateInvariant, PTL

\* Back in C code, the callee-saved registers, both stacks, the mode, the
\* segments and the gdt are as they were before int13_n was called, for
\* everything the BIOS may have left in the registers.
THEOREM CallIsTransparent == Spec => []CallTransparent
  <1>1. GateInv => CallTransparent
    BY DEF GateInv, CpuInv, StackInv, RealStackInv, CallTransparent, Calling, Sti, Returning
  <1>2. QED
    BY <1>1, GateInvariant, PTL

\* At INT 13h the segment and offset registers lead to the structures the C
\* code uses by linear address, wherever in its 64 KB the linker put them.
THEOREM PointersAlwaysResolve == Spec => []PointersResolve
  <1>1. GateInv => PointersResolve
    BY Reals, Zenon DEF GateInv, RealStackInv, ImageInv, Resolved, PointersResolve, Calling
  <1>2. QED
    BY <1>1, GateInvariant, PTL

\* What a function of disk.c returns is made of the answer of the INT 13h it
\* made, whatever an earlier call left in the image; the verification that
\* sector_chs_rw gives up without a call included.
THEOREM ResultIsFresh == Spec => []ResultFresh
  <1>1. GateInv => ResultFresh
    BY DEF GateInv, GateType, ImageInv, ResultFresh, Returned, Calling
  <1>2. QED
    BY <1>1, GateInvariant, PTL

\* The names of the words on the stack.
Words ==
  {"esp", "ebp", "esi", "edi", "edx", "ecx", "ebx", "eax", "vect", "code", "eip", "cs", "eflag"}

\* The stubs push a 0 exactly where the CPU pushes no error code, so that
\* there is one frame for all vectors.
LEMMA FrameLayout ==
  ASSUME NEW v \in 0 .. 19
  PROVE  Frame(v) = IntHandWords \o <<"vect">> \o <<"code">> \o <<"eip", "cs", "eflag">>
  <1> DEFINE a == IntHandWords \o <<"vect">>
             last == <<"eip", "cs", "eflag">>
             code == <<"code">>
  <1>1. a \in Seq(Words) /\ code \in Seq(Words)
    <2>1. IntHandWords \in Seq(Words)
      BY DEF IntHandWords, Words
    <2>2. <<"vect">> \in Seq(Words) /\ code \in Seq(Words)
      BY DEF Words
    <2> QED BY <2>1, <2>2, ConcatProperties
  <1> HIDE DEF a, last, code
  <1>2. a \o code \in Seq(Words)
    BY <1>1, ConcatProperties
  <1>3. (a \o code) \o <<>> = a \o code /\ a \o <<>> = a
    BY <1>1, <1>2, ConcatEmptySeq
  <1>4. CASE v \in StubPushesCode
    <2>1. v \notin CpuPushesCode
      BY <1>4 DEF StubPushesCode, CpuPushesCode
    <2> QED BY <1>3, <1>4, <2>1, Zenon DEF Frame, a, last, code
  <1>5. CASE v \notin StubPushesCode
    <2>1. v \in CpuPushesCode
      BY <1>5 DEF StubPushesCode, CpuPushesCode
    <2> QED BY <1>3, <1>5, <2>1, Zenon DEF Frame, a, last, code
  <1> QED BY <1>4, <1>5

\* The frame is written where the exception handler is entered.
FrameInv == pc = "inter" => \E v \in 0 .. 19 : frame = Frame(v)

(***************************************************************************)
(* Whichever exception it was, inter() is called with the same words in    *)
(* the same places (head.S vec0 .. vec19, int_hand).                       *)
(***************************************************************************)
THEOREM FramesAreAlike == Spec => []FramesAlike
  <1>1. Init => FrameInv
    BY DEF Init, FrameInv
  <1>2. FrameInv /\ [Next]_vars => FrameInv'
    <2> SUFFICES ASSUME FrameInv, [Next]_vars PROVE FrameInv'
      OBVIOUS
    <2>1. CASE Run
      BY <2>1 DEF Run, FrameInv, Call, Enter, ToReal, IntBios, BiosReturn, Cli, ToProt, Leave, Unwrap
    <2>2. CASE Interrupt
      BY <2>2 DEF Interrupt, FrameInv
    <2>3. ASSUME NEW v \in 0 .. 19, Exception(v)
          PROVE  FrameInv'
      BY <2>3, Zenon DEF Exception, FrameInv
    <2>4. CASE UNCHANGED vars
      BY <2>4 DEF FrameInv, vars
    <2>5. QED
      BY <2>1, <2>2, <2>3, <2>4 DEF Next
  <1>3. FrameInv => FramesAlike
    BY FrameLayout, Zenon DEF FrameInv, FramesAlike
  <1>4. QED
    BY <1>1, <1>2, <1>3, PTL DEF Spec
-----------------------------------------------------------------------------
(* A BIOS call is a function call                                          *)

\* The four parts of the abstract state, by where the CPU is.
Phase  == IF pc = "c_code" THEN "c" ELSE IF Halted THEN "halted"
          ELSE IF pc \in {"query_pcbios", "leave_prot", "load_regs", "bios"}
               THEN "bios" ELSE "answered"
Caller == IF pc = "c_code" \/ Halted THEN regs ELSE caller
Result == IF pc = "c_code" \/ Halted THEN {real_regs.res} ELSE {}

AbstractStep ==
  \/ /\ Phase = "c" /\ Phase' = "bios" /\ Result' = {} /\ Caller' = Caller
     /\ answer'.cf = answer.cf
  \/ /\ Phase = "bios" /\ Phase' = "answered" /\ answer'.cf \in {0, 1}
     /\ Caller' = Caller /\ Result' = Result
  \/ /\ Phase = "answered" /\ Phase' = "c" /\ Result' = {answer.cf}
     /\ Caller' = Caller /\ answer'.cf = answer.cf
  \/ /\ Phase = "c" /\ Phase' = "halted"
     /\ Caller' = Caller /\ answer'.cf = answer.cf /\ Result' = Result
  \/ Phase' = Phase /\ Caller' = Caller /\ answer'.cf = answer.cf /\ Result' = Result

LEMMA CallSimulates ==
  ASSUME GateInv, GateInv', [Next]_vars
  PROVE  AbstractStep
  <1> USE DEF Phase, Caller, Result, Halted
  <1>1. ASSUME NEW f \in Functions, Call(f)
        PROVE  AbstractStep
    BY <1>1 DEF Call, AbstractStep
  <1>2. CASE Enter \/ ToReal \/ IntBios
    BY <1>2 DEF Enter, ToReal, IntBios, AbstractStep, histVars
  <1>3. CASE BiosReturn
    BY <1>3 DEF BiosReturn, AbstractStep
  <1>4. CASE Cli \/ ToProt \/ Leave
    BY <1>4 DEF Cli, ToProt, Leave, AbstractStep, histVars
  <1>5. CASE Unwrap
    BY <1>5 DEF Unwrap, AbstractStep, histVars, GateInv, StackInv, ImageInv, Calling
  <1>6. CASE UNCHANGED vars
    BY <1>6 DEF AbstractStep, vars, dataVars, histVars
  <1>7. CASE Interrupt
    BY <1>6, <1>7, InterruptStep
  <1>8. ASSUME NEW v \in 0 .. 19, Exception(v)
        PROVE  AbstractStep
    BY <1>8 DEF Exception, AbstractStep, dataVars, histVars
  <1>9. QED
    BY <1>1, <1>2, <1>3, <1>4, <1>5, <1>6, <1>7, <1>8 DEF Next, Run

(***************************************************************************)
(* The safety part of ImplementsCall: seen from C, every behaviour of the  *)
(* gate is one of BiosCall, whose calls return with the caller's registers *)
(* and the carry flag of their own INT 13h, whatever interrupts them.      *)
(***************************************************************************)
THEOREM GateImplementsCall == Spec => Bios!Spec
  <1>1. Init => Bios!Init
    BY DEF Init, Bios!Init
  <1>2. GateInv /\ GateInv' /\ [Next]_vars => [Bios!Next]_(Bios!vars)
    BY CallSimulates DEF AbstractStep, Phase, Caller, Result, Bios!Next, Bios!Call, Bios!Answer, Bios!Return,
       Bios!Halt, Bios!vars
  <1>3. QED
    BY <1>1, <1>2, GateInvariant, PTL DEF Spec, Bios!Spec

=============================================================================
