---------------------------- MODULE WipeService -----------------------------
(***************************************************************************)
(* What dwipe promises of the drives of a machine, whatever the BIOS       *)
(* answers: it lists drives, takes each in turn, and puts it on exactly    *)
(* one of three counters.                                                  *)
(***************************************************************************)
EXTENDS Naturals, Sequences

CONSTANT Drives

VARIABLES
  phase,     \* "find" drives, "wipe" them, or "off"
  found,     \* the drives listed
  current,   \* the drive being worked on is found[current]
  tally,     \* how many were done, ended in error, were skipped
  readonly,  \* only reading was asked for
  spared,    \* drives to leave alone, as far as can be known
  written,   \* drives of which some sector has been written
  wiped,     \* drives with nothing of the old data left
  lacking    \* drives a requested write did not reach in full

vars == <<phase, found, current, tally, readonly, spared, written, wiped, lacking>>

Outcomes == {"done", "error", "skiped"}

Init ==
  /\ phase = "find" /\ found = <<>> /\ current = 1
  /\ tally = [o \in Outcomes |-> 0]
  /\ readonly \in BOOLEAN
  /\ spared \in SUBSET Drives
  /\ written = {} /\ wiped = {} /\ lacking = {}

\* A drive is listed, perhaps recognised only in part; it may be empty.
Find(d) ==
  /\ phase = "find"
  /\ \A k \in 1 .. Len(found) : found[k] # d
  /\ found' = Append(found, d)
  /\ spared' \in {spared, spared \ {d}}
  /\ wiped' \in {wiped, wiped \cup {d}}
  /\ UNCHANGED <<phase, current, tally, readonly, written, lacking>>

Begin ==
  /\ phase = "find"
  /\ phase' = IF found = <<>> THEN "off" ELSE "wipe"
  /\ UNCHANGED <<found, current, tally, readonly, spared, written, wiped, lacking>>

\* The drive cannot be examined: whether it was to be spared is not known.
Doubt ==
  /\ phase = "wipe"
  /\ spared' = spared \ {found[current]}
  /\ UNCHANGED <<phase, found, current, tally, readonly, written, wiped, lacking>>

\* Only the current drive is written, and only if that is allowed; a write
\* may fall short, or not reach the drive at all.
Write ==
  /\ phase = "wipe" /\ ~readonly
  /\ found[current] \notin spared
  /\ \/ /\ written' = written \cup {found[current]}
        /\ wiped' \in {wiped \cup {found[current]}, wiped \ {found[current]}}
        /\ lacking' \in {lacking, lacking \cup {found[current]}}
     \/ /\ lacking' = lacking \cup {found[current]}
        /\ UNCHANGED <<written, wiped>>
  /\ UNCHANGED <<phase, found, current, tally, readonly, spared>>

\* A drive counted as done is wiped, unless a write to it fell short; one to
\* be spared is counted as skipped.
Finish(o) ==
  /\ phase = "wipe"
  /\ o = "done" /\ ~readonly => found[current] \in wiped \cup lacking
  /\ found[current] \in spared => o = "skiped"
  /\ tally' = [tally EXCEPT ![o] = @ + 1]
  /\ current' = current + 1
  /\ phase' = IF current < Len(found) THEN "wipe" ELSE "off"
  /\ UNCHANGED <<found, readonly, spared, written, wiped, lacking>>

Next ==
  \/ \E d \in Drives : Find(d)
  \/ Begin \/ Doubt \/ Write
  \/ \E o \in Outcomes : Finish(o)

Spec == Init /\ [][Next]_vars

\* The service ends; it does not promise how long a drive takes.
LiveSpec == Spec /\ <>(phase = "off")
=============================================================================
