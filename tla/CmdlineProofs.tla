---------------------------- MODULE CmdlineProofs ---------------------------
(***************************************************************************)
(* Theorems of module Cmdline: what parse_cmdline makes of a line, for     *)
(* every number of slots, every line and every library conversion.         *)
(*                                                                         *)
(* As long as the array is not left, slot i holds what token i says, and   *)
(* get_cmd_item finds the first of several slots with a key.  Of the slots *)
(* after a write beyond the array nothing is claimed.                      *)
(***************************************************************************)
EXTENDS Cmdline, SequenceTheorems, TLAPS

Name == Word \cup {NULL, SPOILT}
Slot == [key : Name, val : Name]

\* What parse_cmdline sets the options to, once the slots are filled.
Parsed ==
  [skip      |-> IF get_cmd_item("skip") # NULL THEN get_cmd_item("skip") ELSE "NIMIME",
   debug     |-> IF get_cmd_item("debug") # NULL THEN Clamp(atoi(get_cmd_item("debug"))) ELSE 0,
   test      |-> is_cmd_exist("test"),
   check     |-> is_cmd_exist("check"),
   force_chs |-> is_cmd_exist("force_chs"),
   mbr       |-> is_cmd_exist("mbr"),
   mode      |-> IF get_cmd_item("mode") # NULL THEN ModeOf(get_cmd_item("mode")) ELSE "FAST"]

\* The tokens consumed and the ones left make up the line.
TokensInv ==
  /\ input \in Seq(Seq(Word)) /\ line \in Seq(Seq(Word)) /\ slots \in Seq(Slot)
  /\ Len(slots) + Len(line) = Len(input)
  /\ \A i \in 1 .. Len(line) : line[i] = input[Len(slots) + i]

\* The slots hold the beginning of the line, unless the array was left.
SlotsInv ==
  /\ pc \in {"split", "options", "done"}
  /\ pc = "split" => Len(slots) <= MAX_CMDLINE_SLOT
  /\ pc # "split" => line = <<>> \/ Len(slots) > MAX_CMDLINE_SLOT
  /\ Len(slots) <= MAX_CMDLINE_SLOT =>
       \A i \in 1 .. Len(slots) : slots[i] = SlotOf(input[i])

OptInv ==
  /\ pc # "done" => opt = set_default_opt
  /\ pc = "done" => opt = Parsed

CmdInv == TokensInv /\ SlotsInv /\ OptInv

-----------------------------------------------------------------------------
LEMMA SlotOfType ==
  ASSUME NEW token \in Seq(Word)
  PROVE  SlotOf(token) \in Slot /\ [SlotOf(token) EXCEPT !.key = NULL] \in Slot
  <1> DEFINE n == Len(token)
             odd == IF n % 2 = 1 THEN n ELSE n - 1
             even == IF n % 2 = 0 THEN n ELSE n - 1
             k == IF n = 0 THEN NULL ELSE token[odd]
             v == IF n < 2 THEN NULL ELSE token[even]
  <1>1. n \in Nat /\ \A i \in 1 .. n : token[i] \in Word
    BY LenProperties, ElementOfSeq
  <1>2. n # 0 => odd \in 1 .. n
    BY <1>1
  <1>3. n >= 2 => even \in 1 .. n
    BY <1>1
  <1>4. k \in Name /\ v \in Name
    BY <1>1, <1>2, <1>3 DEF Name
  <1>5. SlotOf(token) = [key |-> k, val |-> v]
    BY DEF SlotOf
  <1> HIDE DEF k, v
  <1>6. NULL \in Name
    BY DEF Name
  <1>7. [[key |-> k, val |-> v] EXCEPT !.key = NULL] = [key |-> NULL, val |-> v]
    OBVIOUS
  <1> QED BY <1>4, <1>5, <1>6, <1>7 DEF Slot

\* What a word as the documentation writes it leaves in its slot.
LEMMA WellFormedSlot ==
  ASSUME NEW token \in Seq(Word), WellFormed(token)
  PROVE  /\ SlotOf(token).key = token[1]
         /\ token[1] \in Valued => SlotOf(token).val = token[2] /\ token[2] \in Word
  <1>1. CASE Len(token) = 1 /\ token[1] \in Switches
    <2>1. SlotOf(token).key = token[1]
      BY <1>1 DEF SlotOf
    <2>2. token[1] \notin Valued
      BY <1>1 DEF Switches, Valued
    <2> QED BY <2>1, <2>2
  <1>2. CASE Len(token) = 2 /\ token[1] \in Valued
    <2>1. SlotOf(token).key = token[1] /\ SlotOf(token).val = token[2]
      BY <1>2 DEF SlotOf
    <2>2. token[2] \in Word
      BY <1>2, ElementOfSeq
    <2> QED BY <2>1, <2>2
  <1> QED BY <1>1, <1>2 DEF WellFormed

\* get_cmd_item finds the first slot with the key.
LEMMA FirstHit ==
  ASSUME slots \in Seq(Slot), NEW key, NEW i \in 1 .. Len(slots), slots[i].key = key,
         \A j \in 1 .. i : slots[j].key = key => j = i
  PROVE  get_cmd_item(key) = slots[i].val
  <1> DEFINE hits == {j \in 1 .. Len(slots) : slots[j].key = key}
             First(c) == \A j \in hits : c <= j
  <1>1. Len(slots) \in Nat
    BY LenProperties
  <1>2. i \in hits /\ First(i)
    BY <1>1
  <1>3. \A c \in hits : First(c) => c = i
    BY <1>1, <1>2
  <1>4. get_cmd_item(key) = slots[CHOOSE c \in hits : First(c)].val
    BY <1>2 DEF get_cmd_item
  <1> HIDE DEF hits, First
  <1>5. (CHOOSE c \in hits : First(c)) = i
    BY <1>2, <1>3
  <1> QED BY <1>4, <1>5

LEMMA NoHit ==
  ASSUME NEW key, \A j \in 1 .. Len(slots) : slots[j].key # key
  PROVE  get_cmd_item(key) = NULL
  BY DEF get_cmd_item

-----------------------------------------------------------------------------
\* Overwritten slots are slots.
LEMMA SpoiltType ==
  ASSUME slots \in Seq(Slot), NEW n \in Nat
  PROVE  Spoilt(n) \in Seq(Slot) /\ Len(Spoilt(n)) = Len(slots)
  <1> DEFINE f == [i \in 1 .. Len(slots) |->
                     IF i > n THEN slots[i]
                     ELSE [key |-> SPOILT, val |-> IF slots[i].val = NULL THEN NULL ELSE SPOILT]]
  <1>1. Len(slots) \in Nat
    BY LenProperties
  <1>2. ASSUME NEW i \in 1 .. Len(slots) PROVE f[i] \in Slot
    <2>1. slots[i] \in Slot
      BY ElementOfSeq
    <2>2. [key |-> SPOILT, val |-> IF slots[i].val = NULL THEN NULL ELSE SPOILT] \in Slot
      BY DEF Slot, Name
    <2> QED BY <2>1, <2>2
  <1>3. f \in [1 .. Len(slots) -> Slot]
    BY <1>2
  <1>4. Spoilt(n) = f
    BY DEF Spoilt
  <1> HIDE DEF f
  <1>5. f \in Seq(Slot) /\ Len(f) = Len(slots)
    BY <1>1, <1>3
  <1> QED BY <1>4, <1>5

\* Storing adds one slot; within the array it is the token's.
LEMMA StoredType ==
  ASSUME slots \in Seq(Slot), NEW token \in Seq(Word), NEW s \in Stored(token)
  PROVE  /\ s \in Seq(Slot) /\ Len(s) = Len(slots) + 1
         /\ Len(slots) < MAX_CMDLINE_SLOT => s = Append(slots, SlotOf(token))
  <1>1. SlotOf(token) \in Slot /\ [SlotOf(token) EXCEPT !.key = NULL] \in Slot
    BY SlotOfType
  <1>2. ASSUME NEW t \in Seq(Slot), NEW e \in Slot
        PROVE  Append(t, e) \in Seq(Slot) /\ Len(Append(t, e)) = Len(t) + 1
    BY AppendProperties
  <1>3. CASE s = Append(slots, SlotOf(token))
    BY <1>1, <1>2, <1>3
  <1>4. CASE ~(Len(slots) < MAX_CMDLINE_SLOT)
             /\ s = Append(slots, [SlotOf(token) EXCEPT !.key = NULL])
    BY <1>1, <1>2, <1>4
  <1>5. ASSUME NEW n \in 1 .. MAX_CMDLINE_SLOT, ~(Len(slots) < MAX_CMDLINE_SLOT),
               s = Append(Spoilt(n), SlotOf(token))
        PROVE  s \in Seq(Slot) /\ Len(s) = Len(slots) + 1
    <2>1. n \in Nat
      BY SlotAssumption
    <2>2. Spoilt(n) \in Seq(Slot) /\ Len(Spoilt(n)) = Len(slots)
      BY <2>1, SpoiltType
    <2> QED BY <1>1, <1>2, <1>5, <2>2
  <1> QED BY <1>3, <1>4, <1>5 DEF Stored

\* A step of the splitting consumes one token and fills one slot.
LEMMA SplitKeepsTokens ==
  ASSUME TokensInv, Split
  PROVE  TokensInv' /\ Len(slots') = Len(slots) + 1
  <1>1. /\ line \in Seq(Seq(Word)) /\ line # <<>> /\ input' = input
        /\ line' = Tail(line) /\ slots \in Seq(Slot) /\ input \in Seq(Seq(Word))
    BY DEF TokensInv, Split
  <1>2. slots' \in Stored(Head(line))
    BY DEF Split
  <1>3. Head(line) \in Seq(Word)
    BY <1>1, HeadTailProperties
  <1>5. slots' \in Seq(Slot) /\ Len(slots') = Len(slots) + 1
    BY <1>1, <1>2, <1>3, StoredType
  <1>6. /\ Tail(line) \in Seq(Seq(Word)) /\ Len(Tail(line)) = Len(line) - 1
        /\ \A i \in 1 .. Len(Tail(line)) : Tail(line)[i] = line[i + 1]
    BY <1>1, HeadTailProperties
  <1>7. Len(line) \in Nat /\ Len(slots) \in Nat /\ Len(input) \in Nat
    BY <1>1, LenProperties
  <1>8. \A i \in 1 .. Len(line') : line'[i] = input'[Len(slots') + i]
    <2> SUFFICES ASSUME NEW i \in 1 .. Len(line) - 1
                 PROVE  line'[i] = input[Len(slots) + 1 + i]
      BY <1>1, <1>5, <1>6
    <2>1. line'[i] = line[i + 1] /\ i + 1 \in 1 .. Len(line)
      BY <1>1, <1>6, <1>7
    <2>2. line[i + 1] = input[Len(slots) + (i + 1)]
      BY <2>1 DEF TokensInv
    <2>3. Len(slots) + (i + 1) = Len(slots) + 1 + i
      BY <1>7
    <2> QED BY <2>1, <2>2, <2>3
  <1>9. Len(slots') + Len(line') = Len(input')
    BY <1>1, <1>5, <1>6, <1>7 DEF TokensInv
  <1> QED BY <1>1, <1>5, <1>6, <1>8, <1>9 DEF TokensInv

\* Within the array the slot filled is the one of the token, and the others stay.
LEMMA SplitFillsSlot ==
  ASSUME TokensInv, Split, Len(slots) < MAX_CMDLINE_SLOT
  PROVE  /\ slots'[Len(slots) + 1] = SlotOf(input[Len(slots) + 1])
         /\ \A i \in 1 .. Len(slots) : slots'[i] = slots[i]
  <1>1. line \in Seq(Seq(Word)) /\ line # <<>> /\ slots \in Seq(Slot)
    BY DEF TokensInv, Split
  <1> DEFINE slot == SlotOf(Head(line))
  <1>2. slots' \in Stored(Head(line))
    BY DEF Split
  <1>3. slots' = Append(slots, slot) /\ slot \in Slot
    BY <1>1, <1>2, HeadTailProperties, StoredType, SlotOfType
  <1>4. Head(line) = line[1] /\ Len(line) \in Nat /\ Len(line) # 0
    BY <1>1, LenProperties, EmptySeq, HeadTailProperties
  <1>5. line[1] = input[Len(slots) + 1]
    BY <1>4 DEF TokensInv
  <1>6. slot = SlotOf(input[Len(slots) + 1])
    BY <1>4, <1>5
  <1> HIDE DEF slot
  <1>7. slots'[Len(slots) + 1] = slot /\ \A i \in 1 .. Len(slots) : slots'[i] = slots[i]
    BY <1>1, <1>3, AppendProperties
  <1> QED BY <1>6, <1>7

\* The options depend on the slots only.
LEMMA ParsedStays ==
  ASSUME slots' = slots
  PROVE  Parsed' = Parsed
  <1>1. \A key : get_cmd_item(key)' = get_cmd_item(key)
    BY DEF get_cmd_item
  <1>2. \A key : is_cmd_exist(key)' = is_cmd_exist(key)
    BY DEF is_cmd_exist
  <1> QED BY <1>1, <1>2 DEF Parsed, Clamp, ModeOf

LEMMA CmdInvariant == Spec => []CmdInv
  <1>1. Init => CmdInv
    <2> SUFFICES ASSUME Init PROVE CmdInv
      OBVIOUS
    <2>1. input \in Seq(Seq(Word)) /\ line = input /\ slots = <<>>
      BY LinesAssumption DEF Init
    <2>2. Len(slots) = 0 /\ slots \in Seq(Slot) /\ Len(input) \in Nat
      BY <2>1, EmptySeq, LenProperties
    <2>3. TokensInv
      BY <2>1, <2>2 DEF TokensInv
    <2>4. SlotsInv
      BY <2>2, SlotAssumption DEF SlotsInv, Init
    <2> QED BY <2>3, <2>4 DEF CmdInv, OptInv, Init
  <1>2. CmdInv /\ [Next]_vars => CmdInv'
    <2> SUFFICES ASSUME CmdInv, [Next]_vars PROVE CmdInv'
      OBVIOUS
    <2>1. CASE Split
      <3>1. TokensInv' /\ Len(slots') = Len(slots) + 1
        BY <2>1, SplitKeepsTokens DEF CmdInv
      <3>2. Len(slots) \in Nat /\ Len(slots) <= MAX_CMDLINE_SLOT
        BY <2>1, LenProperties DEF CmdInv, TokensInv, SlotsInv, Split
      <3>3. Len(slots') <= MAX_CMDLINE_SLOT =>
              \A i \in 1 .. Len(slots') : slots'[i] = SlotOf(input'[i])
        <4> SUFFICES ASSUME Len(slots) + 1 <= MAX_CMDLINE_SLOT, NEW i \in 1 .. Len(slots) + 1
                     PROVE  slots'[i] = SlotOf(input[i])
          BY <3>1, <2>1 DEF Split
        <4>0. Len(slots) < MAX_CMDLINE_SLOT
          BY <3>2, SlotAssumption
        <4>1. CASE i <= Len(slots)
          <5>1. slots[i] = SlotOf(input[i])
            BY <4>1, <3>2 DEF CmdInv, SlotsInv
          <5>2. slots'[i] = slots[i]
            BY <4>0, <4>1, <3>2, <2>1, SplitFillsSlot DEF CmdInv
          <5> QED BY <5>1, <5>2
        <4>2. CASE i = Len(slots) + 1
          BY <4>0, <4>2, <2>1, SplitFillsSlot DEF CmdInv
        <4> QED BY <4>1, <4>2, <3>2
      <3>4. SlotsInv'
        <4>1. pc' \in {"split", "options"} /\ (pc' = "split" => Len(slots') <= MAX_CMDLINE_SLOT)
          BY <3>1, <3>2, <2>1, SlotAssumption DEF Split
        <4>2. pc' # "split" => Len(slots') > MAX_CMDLINE_SLOT
          BY <3>1, <2>1 DEF Split
        <4> QED BY <4>1, <4>2, <3>3 DEF SlotsInv
      <3>5. OptInv'
        <4>1. pc = "split" /\ opt' = opt /\ pc' \in {"split", "options"}
          BY <2>1 DEF Split
        <4>2. opt = set_default_opt
          BY <4>1 DEF CmdInv, OptInv
        <4>3. set_default_opt' = set_default_opt
          BY DEF set_default_opt
        <4> QED BY <4>1, <4>2, <4>3 DEF OptInv
      <3> QED BY <3>1, <3>4, <3>5 DEF CmdInv
    <2>2. CASE SplitDone
      <3>1. TokensInv' /\ SlotsInv'
        BY <2>2 DEF CmdInv, TokensInv, SlotsInv, SplitDone
      <3>2. OptInv'
        BY <2>2 DEF CmdInv, OptInv, SplitDone, set_default_opt
      <3> QED BY <3>1, <3>2 DEF CmdInv
    <2>3. CASE Options
      <3>1. TokensInv' /\ SlotsInv'
        BY <2>3 DEF CmdInv, TokensInv, SlotsInv, Options
      <3>2. opt = set_default_opt
        BY <2>3 DEF CmdInv, OptInv, Options
      <3>3. /\ opt.skip = "NIMIME" /\ opt.debug = 0 /\ opt.test = FALSE /\ opt.check = FALSE
            /\ opt.force_chs = FALSE /\ opt.mbr = FALSE /\ opt.mode = "FAST"
        BY <3>2 DEF set_default_opt
      <3>4. opt' = Parsed
        <4>1. \A key : (FALSE \/ is_cmd_exist(key)) = is_cmd_exist(key)
          BY DEF is_cmd_exist
        <4> QED BY <4>1, <3>3, <2>3 DEF Options, Parsed
      <3>5. Parsed' = Parsed /\ pc' = "done"
        BY <2>3, ParsedStays DEF Options
      <3> QED BY <3>1, <3>4, <3>5 DEF CmdInv, OptInv
    <2>4. CASE UNCHANGED vars
      <3>1. TokensInv' /\ SlotsInv'
        BY <2>4 DEF CmdInv, TokensInv, SlotsInv, vars
      <3>2. Parsed' = Parsed
        BY <2>4, ParsedStays DEF vars
      <3>3. OptInv'
        BY <3>2, <2>4 DEF CmdInv, OptInv, vars, set_default_opt
      <3> QED BY <3>1, <3>3 DEF CmdInv
    <2> QED BY <2>1, <2>2, <2>3, <2>4 DEF Next
  <1> QED BY <1>1, <1>2, PTL DEF Spec
-----------------------------------------------------------------------------
\* The words of a documented beginning of the line are in their slots.
LEMMA PrefixSlots ==
  ASSUME CmdInv, pc = "done", Len(input) <= MAX_CMDLINE_SLOT,
         NEW front \in Seq(Seq(Word)), Len(front) <= Len(input),
         \A i \in 1 .. Len(front) : front[i] = input[i],
         Documented(front)
  PROVE  /\ Len(front) <= Len(slots)
         /\ \A i \in 1 .. Len(front) :
              /\ slots[i].key = front[i][1]
              /\ front[i][1] \in Valued =>
                   slots[i].val = front[i][2] /\ front[i][2] \in Word
  <1>1. Len(front) \in Nat /\ Len(slots) \in Nat /\ Len(input) \in Nat /\ Len(line) \in Nat
    BY LenProperties DEF CmdInv, TokensInv
  <1>2. Len(front) <= MAX_CMDLINE_SLOT
    BY DEF Documented
  <1>3. Len(front) <= Len(slots)
    <2>1. CASE line = <<>>
      <3>1. Len(line) = 0
        BY <2>1, EmptySeq
      <3> QED BY <3>1, <1>1 DEF CmdInv, TokensInv
    <2>2. CASE Len(slots) > MAX_CMDLINE_SLOT
      BY <2>2, <1>1, <1>2, SlotAssumption DEF CmdInv, TokensInv
    <2> QED BY <2>1, <2>2 DEF CmdInv, SlotsInv
  <1>4. ASSUME NEW i \in 1 .. Len(front)
        PROVE  /\ slots[i].key = front[i][1]
               /\ front[i][1] \in Valued =>
                    slots[i].val = front[i][2] /\ front[i][2] \in Word
    <2>1. slots[i] = SlotOf(front[i])
      <3>1. Len(slots) <= MAX_CMDLINE_SLOT
        BY <1>1, SlotAssumption DEF CmdInv, TokensInv
      <3>2. i \in 1 .. Len(slots)
        BY <1>1, <1>3
      <3> QED BY <3>1, <3>2 DEF CmdInv, SlotsInv
    <2>2. front[i] \in Seq(Word) /\ WellFormed(front[i])
      BY ElementOfSeq DEF Documented
    <2> QED BY <2>1, <2>2, WellFormedSlot
  <1> QED BY <1>3, <1>4

\* A valued option of a documented beginning is the item get_cmd_item finds.
LEMMA PrefixItem ==
  ASSUME CmdInv, pc = "done", Len(input) <= MAX_CMDLINE_SLOT,
         NEW front \in Seq(Seq(Word)), Len(front) <= Len(input),
         \A i \in 1 .. Len(front) : front[i] = input[i],
         Documented(front),
         NEW key \in Valued, NEW i \in 1 .. Len(front), front[i][1] = key, NEW d
  PROVE  /\ get_cmd_item(key) = front[i][2]
         /\ Given(front, key, d) = front[i][2]
         /\ front[i][2] \in Word /\ front[i][2] # NULL
  <1>1. Len(front) \in Nat /\ Len(slots) \in Nat /\ slots \in Seq(Slot)
    BY LenProperties DEF CmdInv, TokensInv
  <1>2. \A j \in 1 .. Len(front) : front[j][1] = key => j = i
    BY DEF Documented
  <1>3. Len(front) <= Len(slots)
    BY PrefixSlots
  <1>4. \A j \in 1 .. Len(front) : slots[j].key = front[j][1]
    BY PrefixSlots
  <1>5. slots[i].val = front[i][2] /\ front[i][2] \in Word
    BY PrefixSlots
  <1>6. get_cmd_item(key) = slots[i].val
    <2>1. i \in 1 .. Len(slots) /\ slots[i].key = key
      BY <1>1, <1>3, <1>4
    <2>2. ASSUME NEW j \in 1 .. i, slots[j].key = key PROVE j = i
      <3>1. j \in 1 .. Len(front)
        BY <1>1
      <3>2. front[j][1] = key
        BY <3>1, <2>2, <1>4
      <3> QED BY <3>1, <3>2, <1>2
    <2> QED BY <1>1, <2>1, <2>2, FirstHit
  <1>7. Given(front, key, d) = front[i][2]
    <2> DEFINE vals == {front[k][2] : k \in {j \in 1 .. Len(front) : front[j][1] = key}}
    <2>1. vals = {front[i][2]}
      BY <1>2
    <2>2. Given(front, key, d) = IF vals = {} THEN d ELSE CHOOSE v \in vals : TRUE
      BY DEF Given
    <2> HIDE DEF vals
    <2>3. (CHOOSE v \in vals : TRUE) = front[i][2]
      BY <2>1
    <2> QED BY <2>1, <2>2, <2>3
  <1> QED BY <1>5, <1>6, <1>7, LinesAssumption

\* An option the whole of a documented line does not name is not found.
LEMMA LineWithout ==
  ASSUME CmdInv, pc = "done", Documented(input),
         NEW key, \A i \in 1 .. Len(input) : input[i][1] # key, NEW d
  PROVE  get_cmd_item(key) = NULL /\ ~is_cmd_exist(key) /\ Given(input, key, d) = d
  <1>1. Len(slots) \in Nat /\ Len(input) \in Nat /\ Len(line) \in Nat
        /\ input \in Seq(Seq(Word)) /\ Len(slots) + Len(line) = Len(input)
    BY LenProperties DEF CmdInv, TokensInv
  <1>2. \A i \in 1 .. Len(slots) : slots[i].key # key
    <2>1. ASSUME NEW i \in 1 .. Len(input) PROVE slots[i].key = input[i][1]
      <3>1. Len(input) <= Len(input) /\ Len(input) <= MAX_CMDLINE_SLOT
        BY <1>1 DEF Documented
      <3> QED BY <3>1, <1>1, PrefixSlots
    <2>2. \A i \in 1 .. Len(slots) : i \in 1 .. Len(input)
      BY <1>1
    <2> QED BY <2>1, <2>2
  <1>3. get_cmd_item(key) = NULL /\ ~is_cmd_exist(key)
    BY <1>2, NoHit DEF is_cmd_exist
  <1>4. {input[k][2] : k \in {j \in 1 .. Len(input) : input[j][1] = key}} = {}
    OBVIOUS
  <1>5. Given(input, key, d) = d
    BY <1>4 DEF Given
  <1> QED BY <1>3, <1>5

\* A switch that the beginning names is found.
LEMMA PrefixSwitch ==
  ASSUME CmdInv, pc = "done", Len(input) <= MAX_CMDLINE_SLOT,
         NEW front \in Seq(Seq(Word)), Len(front) <= Len(input),
         \A i \in 1 .. Len(front) : front[i] = input[i],
         Documented(front),
         NEW key, NEW i \in 1 .. Len(front), front[i][1] = key
  PROVE  is_cmd_exist(key)
  <1>1. Len(front) \in Nat /\ Len(slots) \in Nat
    BY LenProperties DEF CmdInv, TokensInv
  <1>2. Len(front) <= Len(slots)
    BY PrefixSlots
  <1>3. slots[i].key = front[i][1]
    BY PrefixSlots
  <1> QED BY <1>1, <1>2, <1>3 DEF is_cmd_exist

\* The switches of opt are what is_cmd_exist says.
LEMMA SwitchParsed ==
  ASSUME CmdInv, pc = "done", NEW k \in Switches
  PROVE  opt[k] = is_cmd_exist(k)
  <1>1. opt = Parsed
    BY DEF CmdInv, OptInv
  <1>2. /\ opt["test"] = is_cmd_exist("test") /\ opt["check"] = is_cmd_exist("check")
        /\ opt["force_chs"] = is_cmd_exist("force_chs") /\ opt["mbr"] = is_cmd_exist("mbr")
    BY <1>1, Zenon DEF Parsed
  <1> QED BY <1>2, Zenon DEF Switches

(***************************************************************************)
(* Every documented line, in whatever order its words come and however     *)
(* many slots there are, sets the switches it names and no other, and the  *)
(* label, the mode and the debug mask to what it gives (cmdline.c          *)
(* parse_cmdline).                                                         *)
(***************************************************************************)
THEOREM LinesAreParsedAsGiven == Spec => []ParsedAsGiven
  <1>1. CmdInv => ParsedAsGiven
    <2> SUFFICES ASSUME CmdInv, pc = "done", Documented(input)
                 PROVE  /\ \A k \in Switches : opt[k] <=> Names(input, k)
                        /\ Names(input, "skip") => opt.skip = Given(input, "skip", NULL)
                        /\ opt.debug \in 0 .. 15
                        /\ atoi(Given(input, "debug", "0")) \in 0 .. 15 =>
                             opt.debug = atoi(Given(input, "debug", "0"))
                        /\ \A m \in {"FAST", "DOD", "OCD"} :
                             (Names(input, "mode") /\ stricmp(Given(input, "mode", NULL), m) = 0)
                               => opt.mode = m
      BY DEF ParsedAsGiven
    <2>1. /\ input \in Seq(Seq(Word)) /\ Len(input) \in Nat /\ Len(input) <= Len(input)
          /\ Len(input) <= MAX_CMDLINE_SLOT
      BY LenProperties DEF CmdInv, TokensInv, Documented
    <2>2. opt = Parsed
      BY DEF CmdInv, OptInv
    <2>3. \A k \in Switches : opt[k] <=> Names(input, k)
      <3> SUFFICES ASSUME NEW k \in Switches PROVE is_cmd_exist(k) <=> Names(input, k)
        BY SwitchParsed, Zenon
      <3>1. ASSUME Names(input, k) PROVE is_cmd_exist(k)
        BY <3>1, <2>1, PrefixSwitch DEF Names
      <3>2. ASSUME ~Names(input, k) PROVE ~is_cmd_exist(k)
        BY <3>2, <2>1, LineWithout DEF Names
      <3> QED BY <3>1, <3>2
    <2>4. ASSUME NEW key \in Valued, NEW d
          PROVE  \/ /\ Names(input, key)
                    /\ get_cmd_item(key) = Given(input, key, d)
                    /\ get_cmd_item(key) \in Word /\ get_cmd_item(key) # NULL
                 \/ ~Names(input, key) /\ get_cmd_item(key) = NULL /\ Given(input, key, d) = d
      <3>1. CASE Names(input, key)
        <4>1. PICK i \in 1 .. Len(input) : input[i][1] = key
          BY <3>1 DEF Names
        <4> QED BY <3>1, <4>1, <2>1, PrefixItem
      <3>2. CASE ~Names(input, key)
        BY <3>2, <2>1, LineWithout DEF Names
      <3> QED BY <3>1, <3>2
    <2>5. ASSUME Names(input, "skip") PROVE opt.skip = Given(input, "skip", NULL)
      <3>1. "skip" \in Valued
        BY DEF Valued
      <3>2. get_cmd_item("skip") = Given(input, "skip", NULL) /\ get_cmd_item("skip") # NULL
        BY <3>1, <2>4, <2>5
      <3> QED BY <3>2, <2>2 DEF Parsed
    <2>6. /\ opt.debug \in 0 .. 15
          /\ atoi(Given(input, "debug", "0")) \in 0 .. 15 =>
               opt.debug = atoi(Given(input, "debug", "0"))
      <3> DEFINE item == get_cmd_item("debug")
                 g == Given(input, "debug", "0")
      <3>1. (item = g /\ item \in Word /\ item # NULL) \/ (item = NULL /\ g = "0")
        BY <2>4 DEF Valued
      <3>2. opt.debug = IF item # NULL THEN Clamp(atoi(item)) ELSE 0
        BY <2>2 DEF Parsed
      <3> HIDE DEF item, g
      <3>3. item \in Word => atoi(item) \in Int
        BY LibraryAssumption
      <3>4. opt.debug \in 0 .. 15 /\ (atoi(g) \in 0 .. 15 => opt.debug = atoi(g))
        BY <3>1, <3>2, <3>3, LibraryAssumption DEF Clamp
      <3> QED BY <3>4 DEF g
    <2>7. ASSUME NEW m \in {"FAST", "DOD", "OCD"}, Names(input, "mode"),
                 stricmp(Given(input, "mode", NULL), m) = 0
          PROVE  opt.mode = m
      <3> DEFINE item == get_cmd_item("mode")
                 g == Given(input, "mode", NULL)
      <3>1. item = g /\ item \in Word /\ item # NULL
        BY <2>4, <2>7 DEF Valued
      <3>2. opt.mode = IF item # NULL THEN ModeOf(item) ELSE "FAST"
        BY <2>2 DEF Parsed
      <3>3. stricmp(g, m) = 0
        BY <2>7
      <3> HIDE DEF item, g
      <3> QED BY <3>1, <3>2, <3>3, LibraryAssumption DEF ModeOf
    <2> QED BY <2>3, <2>5, <2>6, <2>7
  <1> QED BY <1>1, CmdInvariant, PTL

(***************************************************************************)
(* On every line that fits the slots, malformed as it may be, a documented *)
(* beginning decides: nothing after it unsets a switch nor replaces the    *)
(* label or the mode it gives.                                             *)
(***************************************************************************)
THEOREM BeginningDecides == Spec => []FirstWordsDecide
  <1>1. CmdInv => FirstWordsDecide
    <2> SUFFICES ASSUME CmdInv, pc = "done", Len(input) <= MAX_CMDLINE_SLOT,
                        NEW n \in 0 .. Len(input), Documented(SubSeq(input, 1, n))
                 PROVE  LET front == SubSeq(input, 1, n)
                        IN  /\ \A k \in Switches : Names(front, k) => opt[k]
                            /\ Names(front, "skip") => opt.skip = Given(front, "skip", NULL)
                            /\ Names(front, "mode") =>
                                 opt.mode = ModeOf(Given(front, "mode", NULL))
      BY DEF FirstWordsDecide
    <2> DEFINE front == SubSeq(input, 1, n)
    <2>1. input \in Seq(Seq(Word)) /\ Len(input) \in Nat /\ n \in Nat /\ n <= Len(input)
      BY LenProperties DEF CmdInv, TokensInv
    <2>2. /\ front \in Seq(Seq(Word)) /\ Len(front) = n
          /\ \A i \in 1 .. n : front[i] = input[i]
      <3>1. /\ front \in Seq(Seq(Word))
            /\ Len(front) = IF 1 <= n THEN n - 1 + 1 ELSE 0
            /\ \A i \in 1 .. n - 1 + 1 : front[i] = input[1 + i - 1]
        BY <2>1, SubSeqProperties
      <3>2. n - 1 + 1 = n /\ \A i \in 1 .. n : 1 + i - 1 = i
        BY <2>1
      <3> QED BY <3>1, <3>2, <2>1
    <2>3. Documented(front) /\ Len(front) <= Len(input)
      BY <2>1, <2>2
    <2>4. opt = Parsed
      BY DEF CmdInv, OptInv
    <2> HIDE DEF front
    <2>5. ASSUME NEW k \in Switches, NEW i \in 1 .. n, front[i][1] = k
          PROVE  opt[k]
      <3>1. is_cmd_exist(k)
        BY <2>2, <2>3, <2>5, PrefixSwitch
      <3> QED BY <3>1, SwitchParsed, Zenon
    <2>6. ASSUME NEW key \in Valued, NEW i \in 1 .. n, front[i][1] = key
          PROVE  get_cmd_item(key) = Given(front, key, NULL) /\ get_cmd_item(key) # NULL
      BY <2>2, <2>3, <2>6, PrefixItem
    <2>7. "skip" \in Valued /\ "mode" \in Valued
      BY DEF Valued
    <2>8. ASSUME NEW i \in 1 .. n, front[i][1] = "skip"
          PROVE  opt.skip = Given(front, "skip", NULL)
      BY <2>4, <2>6, <2>7, <2>8 DEF Parsed
    <2>9. ASSUME NEW i \in 1 .. n, front[i][1] = "mode"
          PROVE  opt.mode = ModeOf(Given(front, "mode", NULL))
      <3>1. opt.mode = IF get_cmd_item("mode") # NULL
                       THEN ModeOf(get_cmd_item("mode")) ELSE "FAST"
        BY <2>4 DEF Parsed
      <3> QED BY <3>1, <2>6, <2>7, <2>9
    <2> QED BY <2>2, <2>5, <2>8, <2>9 DEF front, Names
  <1> QED BY <1>1, CmdInvariant, PTL
=============================================================================
