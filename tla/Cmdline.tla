------------------------------ MODULE Cmdline -------------------------------
(***************************************************************************)
(* cmdline.c: parse_cmdline, which splits the kernel's command line into   *)
(* slots and reads the options of the wipe from them.                      *)
(*                                                                         *)
(* A command line is a sequence of tokens (strtok_r on comma and space), a *)
(* token the sequence of its subtokens (strtok_r on '='): "mode=dod" is    *)
(* <<"mode", "dod">>, "test" is <<"test">>, "=" is <<>>.                   *)
(***************************************************************************)
EXTENDS Integers, Sequences

CONSTANTS MAX_CMDLINE_SLOT,   \* 64 in the code
          Word,               \* the words a command line is made of
          Lines,              \* the command lines considered
          atoi(_),            \* external: the C library's conversion
          stricmp(_, _)       \* external: its comparison without regard to case

NULL == "NULL"       \* a slot's key or value that was never set
SPOILT == "SPOILT"   \* text overwritten by the bytes of two pointers: no option's name

ASSUME SlotAssumption == MAX_CMDLINE_SLOT \in Nat \ {0}
ASSUME LinesAssumption == Lines \subseteq Seq(Seq(Word)) /\ NULL \notin Word /\ SPOILT \notin Word

\* "0" is the number 0; no word equals two names of modes.
ASSUME LibraryAssumption ==
  /\ atoi("0") = 0
  /\ \A s \in Word : atoi(s) \in Int
  /\ \A m, n \in {"FAST", "DOD", "OCD"} : \A s \in Word :
       (stricmp(s, m) = 0 /\ stricmp(s, n) = 0) => m = n

VARIABLES line,    \* the command line, tokens not consumed yet
          input,   \* history: the command line
          slots,   \* cmd_slot[0 .. cmd_slot_cnt - 1]
          pc, opt

vars == <<line, input, slots, pc, opt>>

set_default_opt ==
  [skip |-> "NIMIME", debug |-> 0, test |-> FALSE, check |-> FALSE,
   force_chs |-> FALSE, mbr |-> FALSE, mode |-> "FAST"]

Init ==
  /\ input \in Lines
  /\ line = input
  /\ slots = <<>>
  /\ pc = "split"
  /\ opt = set_default_opt

\* Mutant: the toggle forgotten, every subtoken is stored as key.
SlotOf_mut(token) ==
  [key |-> IF token = <<>> THEN NULL ELSE token[Len(token)], val |-> NULL]

(***************************************************************************)
(* is_val toggles with every subtoken: the odd ones are stored as key, the *)
(* even ones as value, so that the last of each kind stays.                *)
(***************************************************************************)
SlotOf(token) ==
  LET n == Len(token)
  IN  [key |-> IF n = 0 THEN NULL ELSE token[IF n % 2 = 1 THEN n ELSE n - 1],
       val |-> IF n < 2 THEN NULL ELSE token[IF n % 2 = 0 THEN n ELSE n - 1]]

\* The text of the first n words overwritten.
Spoilt(n) ==
  [i \in 1 .. Len(slots) |->
     IF i > n THEN slots[i]
     ELSE [key |-> SPOILT, val |-> IF slots[i].val = NULL THEN NULL ELSE SPOILT]]

(***************************************************************************)
(* What the slots may be once token is stored.  The loop is left when      *)
(* index > MAX_CMDLINE_SLOT, so one slot more is written than cmd_slot     *)
(* has, on what the linker put behind it: an object the parser does not    *)
(* use (the slot then reads back as written), cmd_slot_cnt (the key is     *)
(* lost when line 80 sets it), or the beginning of cmd_line, where the     *)
(* slots before point to.                                                  *)
(***************************************************************************)
Stored(token) ==
  {Append(slots, SlotOf(token))} \cup
    IF Len(slots) < MAX_CMDLINE_SLOT THEN {}
    ELSE {Append(slots, [SlotOf(token) EXCEPT !.key = NULL])}
           \cup {Append(Spoilt(n), SlotOf(token)) : n \in 1 .. MAX_CMDLINE_SLOT}

Split ==
  /\ pc = "split" /\ line # <<>>
  /\ slots' \in Stored(Head(line))
  /\ line' = Tail(line)
  /\ pc' = IF Len(slots) + 1 > MAX_CMDLINE_SLOT THEN "options" ELSE "split"
  /\ UNCHANGED <<input, opt>>

SplitDone ==
  /\ pc = "split" /\ line = <<>>
  /\ pc' = "options"
  /\ UNCHANGED <<line, input, slots, opt>>

is_cmd_exist(key) == \E i \in 1 .. Len(slots) : slots[i].key = key

\* Mutant: the last matching slot.
get_cmd_item_mut(key) ==
  LET hits == {i \in 1 .. Len(slots) : slots[i].key = key}
  IN  IF hits = {} THEN NULL ELSE slots[CHOOSE i \in hits : \A j \in hits : j <= i].val

\* The value of the first slot with this key.
get_cmd_item(key) ==
  LET hits == {i \in 1 .. Len(slots) : slots[i].key = key}
  IN  IF hits = {} THEN NULL ELSE slots[CHOOSE i \in hits : \A j \in hits : i <= j].val

Clamp(n) == IF n < 0 THEN 0 ELSE IF n > 15 THEN 15 ELSE n

ModeOf(s) ==
  CASE stricmp(s, "FAST") = 0 -> "FAST" [] stricmp(s, "DOD") = 0 -> "DOD" [] OTHER -> "OCD"

Options ==
  /\ pc = "options"
  /\ opt' = [skip      |-> IF get_cmd_item("skip") # NULL THEN get_cmd_item("skip") ELSE opt.skip,
             debug     |-> IF get_cmd_item("debug") # NULL
                           THEN Clamp(atoi(get_cmd_item("debug"))) ELSE opt.debug,
             test      |-> opt.test \/ is_cmd_exist("test"),
             check     |-> opt.check \/ is_cmd_exist("check"),
             force_chs |-> opt.force_chs \/ is_cmd_exist("force_chs"),
             mbr       |-> opt.mbr \/ is_cmd_exist("mbr"),
             mode      |-> IF get_cmd_item("mode") # NULL
                           THEN ModeOf(get_cmd_item("mode")) ELSE opt.mode]
  /\ pc' = "done"
  /\ UNCHANGED <<line, input, slots>>

Next == Split \/ SplitDone \/ Options
Spec == Init /\ [][Next]_vars
-----------------------------------------------------------------------------
Switches == {"test", "check", "force_chs", "mbr"}
Valued   == {"skip", "debug", "mode"}

\* A token as the documentation writes them: a switch, or a key and a value.
WellFormed(token) ==
  \/ Len(token) = 1 /\ token[1] \in Switches
  \/ Len(token) = 2 /\ token[1] \in Valued

\* Every token well formed, no key twice, not more than there are slots.
Documented(ln) ==
  /\ Len(ln) <= MAX_CMDLINE_SLOT
  /\ \A i \in 1 .. Len(ln) : WellFormed(ln[i])
  /\ \A i, j \in 1 .. Len(ln) : ln[i][1] = ln[j][1] => i = j

\* The line has a word with this key.
Names(ln, key) == \E i \in 1 .. Len(ln) : ln[i][1] = key

\* The value a documented line gives to key, or the default d.
Given(ln, key, d) ==
  LET vals == {ln[i][2] : i \in {j \in 1 .. Len(ln) : ln[j][1] = key}}
  IN  IF vals = {} THEN d ELSE CHOOSE v \in vals : TRUE

(***************************************************************************)
(* A documented line has the effect it asks for, whatever the order of its *)
(* words: a switch is set exactly if it is named, the label and the mode   *)
(* are the ones given, and debug is the number given, 0 without one, and   *)
(* never outside its range (cmdline.c parse_cmdline).  Which label is      *)
(* skipped when none is given is not part of it: option.c and the README   *)
(* disagree.                                                               *)
(***************************************************************************)
ParsedAsGiven ==
  (pc = "done" /\ Documented(input)) =>
    /\ \A k \in Switches : opt[k] <=> Names(input, k)
    /\ Names(input, "skip") => opt.skip = Given(input, "skip", NULL)
    /\ opt.debug \in 0 .. 15
    /\ atoi(Given(input, "debug", "0")) \in 0 .. 15 =>
         opt.debug = atoi(Given(input, "debug", "0"))
    /\ \A m \in {"FAST", "DOD", "OCD"} :
         (Names(input, "mode") /\ stricmp(Given(input, "mode", NULL), m) = 0) => opt.mode = m

(***************************************************************************)
(* On a line that fits the slots, the first token that names an option     *)
(* decides it: what follows, however malformed, cannot unset a switch nor  *)
(* replace a label or a mode (get_cmd_item returns the first match).  A    *)
(* line with more words than slots loses this: see Stored.                 *)
(***************************************************************************)
FirstWordsDecide ==
  (pc = "done" /\ Len(input) <= MAX_CMDLINE_SLOT) =>
    \A n \in 0 .. Len(input) :
      LET front == SubSeq(input, 1, n)
      IN  Documented(front) =>
            /\ \A k \in Switches : Names(front, k) => opt[k]
            /\ Names(front, "skip") => opt.skip = Given(front, "skip", NULL)
            /\ Names(front, "mode") => opt.mode = ModeOf(Given(front, "mode", NULL))
=============================================================================
