------------------------------ MODULE Progress ------------------------------
(***************************************************************************)
(* dwipe.c: wipe_disk with the progress line it draws, reset_progress and  *)
(* update_progress joined to the steps of Dwipe that call them.  The speed *)
(* and the time left, which nothing depends on, are left out.              *)
(***************************************************************************)
EXTENDS Dwipe

CONSTANT line_width     \* SCREEN_WIDTH - 30, 50 in the code

ASSUME LineAssumption == line_width \in Nat \ {0}

VARIABLES progress,     \* wipe_disk: struct progress_t
          shown         \* LINE_PROGRESS of the screen, and whose it is

barVars == <<progress, shown>>

\* progress is a local variable: uninitialised.
BarInit ==
  /\ progress \in [total_bytes : {1}, done_bytes : {0}, saved_pro_width : {0}, reset : BOOLEAN]
  /\ shown = [disk |-> 0, width |-> 0, percent |-> 0]

\* Mutant: the flag keeps the value it had.
reset_progress_mut(bytes) ==
  [total_bytes |-> IF bytes = 0 THEN 1 ELSE bytes, done_bytes |-> 0,
   saved_pro_width |-> 0, reset |-> progress.reset]

reset_progress(bytes) ==
  [total_bytes |-> IF bytes = 0 THEN 1 ELSE bytes, done_bytes |-> 0,
   saved_pro_width |-> 0, reset |-> FALSE]

AddBytes(p, bytes) ==
  IF p.done_bytes + bytes > p.total_bytes THEN p.total_bytes ELSE p.done_bytes + bytes

\* Mutant: rounded up.
pro_width_mut(p) == (p.done_bytes * line_width + p.total_bytes - 1) \div p.total_bytes

pro_width(p) == (p.done_bytes * line_width) \div p.total_bytes

\* "don't update display too much times": not when the width is the saved one.
Redraws(p) == ~(p.saved_pro_width = pro_width(p) /\ p.reset)

update_progress(p0, bytes) ==
  LET p == [p0 EXCEPT !.done_bytes = AddBytes(p0, bytes)]
  IN  IF Redraws(p)
      THEN /\ progress' = [p EXCEPT !.reset = TRUE, !.saved_pro_width = pro_width(p)]
           /\ shown' = [disk |-> index, width |-> pro_width(p),
                        percent |-> (p.done_bytes * 100) \div p.total_bytes]
      ELSE /\ progress' = p
           /\ UNCHANGED shown

-----------------------------------------------------------------------------
\* wipe_disk up to its loop: an empty bar.
BeginBar ==
  /\ Malloc
  /\ update_progress(reset_progress(total_sec' * sector_size), 0)

wipe_sectors_lba == NoChsAddress \/ TestRead \/ WipePass

\* The end of a request of the loop; the bar grows after a negative value too.
LoopRequest ==
  /\ wipe_sectors_lba /\ InLoop /\ pc' # "wipe_sectors"
  /\ update_progress(progress, WIPE_BUFFER_SIZE)

\* The update after the loop, made without a rest as well.
LastUpdate ==
  /\ wipe_sectors_lba \/ NoRequestLeft
  /\ ~InLoop /\ pc' = "write_mbr"
  /\ update_progress(progress, left_sec * sector_size)

\* Between passes, and when the rest fails with a negative value: no update.
NoUpdate ==
  /\ wipe_sectors_lba
  /\ pc' = "wipe_sectors" \/ (~InLoop /\ pc' = "count")
  /\ UNCHANGED barVars

\* The other steps of do_main do not touch the bar.
Elsewhere ==
  /\ \/ EnumNone \/ EnumDone \/ \E has_ext \in BOOLEAN : EnumFound(has_ext)
     \/ SkipCdrom \/ ReadMbr \/ ScanEntry \/ MallocFails
     \/ NextRequest \/ WriteMbr \/ NoMbr \/ Count
  /\ UNCHANGED barVars

BarNext == BeginBar \/ LoopRequest \/ LastUpdate \/ NoUpdate \/ Elsewhere

BarSpec == Init /\ BarInit /\ [][BarNext]_<<vars, barVars>>
-----------------------------------------------------------------------------
(***************************************************************************)
(* While a disk is wiped the bar is that disk's, and as long as the share  *)
(* of the disk the loop has gone through: the redraws update_progress      *)
(* saves ("blink!") leave no stale bar behind, neither within a disk nor   *)
(* from the disk before.                                                   *)
(***************************************************************************)
BarIsCurrent ==
  pc \in {"loop", "wipe_sectors"} =>
    /\ shown.disk = index
    /\ total_sec > 0 => shown.width = (offset_lba * line_width) \div total_sec

(***************************************************************************)
(* A full bar says 100%, and means that every sector wipe_disk set out to  *)
(* wipe has had all its passes, except where a transfer failed or fell     *)
(* short; whenever wipe_disk gets through a disk that is not empty, the    *)
(* bar is full.                                                            *)
(***************************************************************************)
FullMeansWhole ==
  /\ pc = "write_mbr" /\ total_sec > 0 => shown.disk = index /\ shown.width = line_width
  /\ shown.width = line_width =>
       /\ shown.percent = 100
       /\ shown.disk = index /\ ~opt.test =>
            \A s \in DOMAIN hist[param.disk_id] :
              s < total_sec /\ s \notin bad[param.disk_id] =>
                Len(hist[param.disk_id][s]) >= Passes(opt.mode)
=============================================================================
