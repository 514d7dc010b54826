-------------------------------- MODULE Dwipe -------------------------------
(***************************************************************************)
(* dwipe.c: do_main from enum_disk to reboot.  Every BIOS call is one      *)
(* step, except that the calls made about one disk identification (INT 13h *)
(* AH=08h, 41h and 48h) are one step, and a verified C/H/S write is one    *)
(* step: nothing else runs between them.                                   *)
(*                                                                         *)
(* The environment is the machine: which disks answer at which drive id,   *)
(* their geometry, size, partition table and labels, and what the BIOS     *)
(* answers to each transfer (modules Disk and Fat).                        *)
(***************************************************************************)
EXTENDS Fat, Sequences

CONSTANTS FirstId, LastId,     \* drive ids tried, 0x80 .. 0xff in the code
          WIPE_BUFFER_SIZE,    \* 8192 in the code
          Machines,            \* the machines the program may be started on
          Options,             \* the option sets parse_cmdline may produce
          MaxFaults            \* bound on device faults in one behaviour

Modes == {"FAST", "DOD", "OCD"}

\* struct options_t, without debug
options_t ==
  [skip : Labels, test : BOOLEAN, check : BOOLEAN, force_chs : BOOLEAN,
   mbr : BOOLEAN, mode : Modes]

(***************************************************************************)
(* External: a disk as the hardware has it.  ext says whether the BIOS     *)
(* offers the packet interface for it, labels which sectors carry a volume *)
(* label where contain_fat_label looks for one.                            *)
(***************************************************************************)
Hardware ==
  [last_heads : 0 .. CHS_HEAD_MAX + 1, last_cylinders : 0 .. CHS_CYLINDER_MAX,
   last_sectors_per_track : 0 .. CHS_SECTOR_MAX,
   ext : BOOLEAN, nsectors : Nat, bytes_per_sector : Nat,
   mbr : [1 .. 4 -> mbr_entry], labels : SUBSET (Nat \X Labels)]

\* External: the number of sectors the disk really has.
Capacity(hw) == IF hw.ext THEN hw.nsectors ELSE chs_capacity(hw)

ASSUME IdAssumption == FirstId \in Nat /\ LastId \in Nat /\ FirstId <= LastId
ASSUME BufferAssumption ==
  /\ WIPE_BUFFER_SIZE \in Nat \ {0}
  /\ WIPE_BUFFER_SIZE <= MAX_SECTOR_BUFFER_SIZE
  /\ WIPE_BUFFER_SIZE % 512 = 0
ASSUME MachinesAssumption ==
  \A m \in Machines : /\ DOMAIN m \subseteq FirstId .. LastId
                      /\ m \in [DOMAIN m -> Hardware]
ASSUME OptionsAssumption == Options \subseteq options_t
ASSUME FaultsAssumption == MaxFaults \in Nat

\* What a sector or the wipe buffer may be filled with; "stale" is any other data.
Patterns == {"zero", "ones", "rand", "mbr", "stale"}

VARIABLES
  machine,     \* the disks of the machine, by drive id
  opt,         \* the options
  pc,          \* where do_main is
  id,          \* enum_disk: the drive id tried next
  disk_list,   \* enum_disk: the disks found
  index,       \* do_main: the disk wipe_disk works on
  entry,       \* contain_fat_label: the partition entry examined
  total_sec,   \* wipe_disk: sectors to wipe
  offset_lba,  \* wipe_disk: first sector of the request
  nsectors,    \* wipe_disk: length of the request
  pass,        \* wipe_sectors_lba: passes made over the request
  buffer,      \* wipe_disk: what the wipe buffer holds
  ret,         \* wipe_disk: the value it will return
  total_disk_cnt, done_disk_cnt, error_disk_cnt, skiped_disk_cnt,
  verdict,     \* history: what wipe_disk returned for each disk
  hist,        \* history: per drive and sector, the patterns written, in order
  bad,         \* history: per drive, sectors a requested write did not reach
  blind,       \* history: drives some identification call failed for
  faults       \* history: device faults so far

enumVars  == <<id, disk_list, total_disk_cnt>>
wipeVars  == <<total_sec, offset_lba, nsectors, pass, buffer>>
countVars == <<index, done_disk_cnt, error_disk_cnt, skiped_disk_cnt, verdict>>
mediaVars == <<hist, bad>>
vars == <<machine, opt, pc, enumVars, entry, wipeVars, ret, countVars,
          mediaVars, blind, faults>>

param == disk_list[index]
hw    == machine[param.disk_id]

Init ==
  /\ machine \in Machines
  /\ opt \in Options
  /\ pc = "enum_disk"
  /\ id = FirstId
  /\ disk_list = <<>>
  /\ index = 1
  /\ entry = 1
  /\ total_sec = 0 /\ offset_lba = 0 /\ nsectors = 0 /\ pass = 0
  /\ buffer = "stale"
  /\ ret = -1
  /\ total_disk_cnt = 0 /\ done_disk_cnt = 0
  /\ error_disk_cnt = 0 /\ skiped_disk_cnt = 0
  /\ verdict = <<>>
  /\ hist = [d \in DOMAIN machine |-> [s \in 0 .. Capacity(machine[d]) - 1 |-> <<>>]]
  /\ bad = [d \in DOMAIN machine |-> {}]
  /\ blind = {}
  /\ faults = 0

\* Charge k device faults against the bound.
Charge(k) ==
  /\ faults + k <= MaxFaults
  /\ faults' = faults + k

-----------------------------------------------------------------------------
(* enum_disk                                                               *)

\* get_disk_param and, when present, get_disk_param_ext: what is stored.
DiskParam(d, h, has_ext) ==
  [disk_id |-> d,
   last_heads |-> h.last_heads, last_cylinders |-> h.last_cylinders,
   last_sectors_per_track |-> h.last_sectors_per_track,
   has_ext |-> has_ext,
   nsectors |-> IF has_ext THEN h.nsectors ELSE 0,
   bytes_per_sector |-> IF has_ext THEN h.bytes_per_sector ELSE 0]

\* INT 13h AH=08h fails: no disk with this id, or one that does not answer.
EnumNone ==
  /\ pc = "enum_disk" /\ id <= LastId
  /\ Charge(IF id \in DOMAIN machine THEN 1 ELSE 0)
  /\ id' = id + 1
  /\ UNCHANGED <<machine, opt, pc, disk_list, total_disk_cnt, entry, wipeVars,
                 ret, countVars, mediaVars, blind>>

(***************************************************************************)
(* The disk is listed; the packet interface is used only if AH=41h         *)
(* succeeds with bit 0 of CX set and AH=48h succeeds.                      *)
(***************************************************************************)
EnumFound(has_ext) ==
  /\ pc = "enum_disk" /\ id <= LastId
  /\ id \in DOMAIN machine
  /\ has_ext => machine[id].ext
  /\ Charge(IF machine[id].ext /\ ~has_ext THEN 1 ELSE 0)
  /\ blind' = IF machine[id].ext /\ ~has_ext THEN blind \cup {id} ELSE blind
  /\ disk_list' = Append(disk_list, DiskParam(id, machine[id], has_ext))
  /\ id' = id + 1
  /\ UNCHANGED <<machine, opt, pc, total_disk_cnt, entry, wipeVars, ret,
                 countVars, mediaVars>>

EnumDone ==
  /\ pc = "enum_disk" /\ id > LastId
  /\ total_disk_cnt' = Len(disk_list)
  /\ pc' = IF disk_list = <<>> THEN "reboot" ELSE "wipe_disk"
  /\ UNCHANGED <<machine, opt, id, disk_list, entry, wipeVars, ret, countVars,
                 mediaVars, blind, faults>>

-----------------------------------------------------------------------------
(* wipe_disk: is_skiped_disk                                               *)

is_cdrom(p) == p.has_ext /\ p.bytes_per_sector # 512

SkipCdrom ==
  /\ pc = "wipe_disk" /\ is_cdrom(param)
  /\ ret' = 1
  /\ pc' = "count"
  /\ UNCHANGED <<machine, opt, enumVars, entry, wipeVars, countVars,
                 mediaVars, blind, faults>>

(***************************************************************************)
(* contain_fat_label reads the MBR at 0/0/1.  When the read fails or       *)
(* returns other than 512 bytes the disk counts as unlabelled.             *)
(***************************************************************************)
ReadMbr ==
  /\ pc = "wipe_disk" /\ ~is_cdrom(param)
  /\ \E r \in TransferAnswers(Capacity(hw), 0, 1, FALSE) :
       LET refused == sector_chs_rw_refuses(FALSE, param, 0, 0, 1, 1, fat_buffer_size)
           failed  == refused \/ r.cf \/ r.cnt # 1
           fault   == ~refused /\ IsFault(Capacity(hw), 0, 1, r)
       IN  /\ Charge(IF fault THEN 1 ELSE 0)
           /\ blind' = IF fault THEN blind \cup {param.disk_id} ELSE blind
           /\ pc' = IF failed THEN "malloc" ELSE "scan_entry"
  /\ entry' = 1
  /\ ret' = -1
  /\ UNCHANGED <<machine, opt, enumVars, wipeVars, countVars, mediaVars>>

\* The body of contain_fat_label's loop over the four partition entries.
ScanEntry ==
  /\ pc = "scan_entry"
  /\ LET e   == hw.mbr[entry]
         lba == chs2lba(hw, e.cylinder, e.head, e.sector)
     IN  \E rc \in TransferAnswers(Capacity(hw), lba, 1, FALSE),
            rl \in TransferAnswers(Capacity(hw), e.lba_begin, 1, TRUE) :
           LET faultC == /\ UsesChs(e)
                         /\ chs_ret(param, e, rc) # -1
                         /\ IsFault(Capacity(hw), lba, 1, rc)
               faultL == /\ UsesLba(param, e, rc)
                         /\ lba_ret(param, e, rl) # -1
                         /\ IsFault(Capacity(hw), e.lba_begin, 1, rl)
               match  == \E x \in BootSector(param, e, rc, rl) :
                           <<x, opt.skip>> \in hw.labels
           IN  /\ Charge((IF faultC THEN 1 ELSE 0) + (IF faultL THEN 1 ELSE 0))
               /\ blind' = IF faultC \/ faultL THEN blind \cup {param.disk_id}
                                               ELSE blind
               /\ ret' = IF match THEN 1 ELSE ret
               /\ pc' = IF match THEN "count"
                        ELSE IF entry = 4 THEN "malloc" ELSE pc
  /\ entry' = IF entry = 4 THEN 1 ELSE entry + 1
  /\ UNCHANGED <<machine, opt, enumVars, wipeVars, countVars, mediaVars>>

-----------------------------------------------------------------------------
(* wipe_disk: the buffer, the size and the loop over the requests          *)

sector_size == IF param.has_ext /\ ~opt.force_chs THEN param.bytes_per_sector ELSE 512

TotalSectors ==
  IF param.has_ext /\ ~opt.force_chs THEN param.nsectors ELSE chs_capacity(param)

\* malloc returns memory nobody initialised: zero only by chance.
Malloc ==
  /\ pc = "malloc"
  /\ buffer' \in {"zero", "stale"}
  /\ total_sec' = TotalSectors
  /\ offset_lba' = 0
  /\ nsectors' = 0 /\ pass' = 0
  /\ pc' = "loop"
  /\ UNCHANGED <<machine, opt, enumVars, entry, ret, countVars, mediaVars,
                 blind, faults>>

\* The heap is exhausted: goto fail with ret still -1.
MallocFails ==
  /\ pc = "malloc"
  /\ Charge(1)
  /\ pc' = "count"
  /\ UNCHANGED <<machine, opt, enumVars, entry, wipeVars, ret, countVars,
                 mediaVars, blind>>

BufferSectors == WIPE_BUFFER_SIZE \div sector_size

\* Mutant: one request too many.
InLoop_mut ==
  offset_lba \div BufferSectors <= (total_sec * sector_size) \div WIPE_BUFFER_SIZE

(***************************************************************************)
(* The loop condition i < total_size / WIPE_BUFFER_SIZE.  The counter i is *)
(* offset_lba \div BufferSectors: both start at 0 and grow together.       *)
(***************************************************************************)
InLoop ==
  offset_lba \div BufferSectors < (total_sec * sector_size) \div WIPE_BUFFER_SIZE

\* Mutant: the remainder forgotten.
left_sec_mut == 0

\* left_sec, what remains after the loop
left_sec == total_sec - offset_lba

NextRequest ==
  /\ pc = "loop"
  /\ InLoop \/ left_sec # 0
  /\ nsectors' = IF InLoop THEN BufferSectors ELSE left_sec
  /\ pass' = 0
  /\ pc' = "wipe_sectors"
  /\ UNCHANGED <<machine, opt, enumVars, entry, total_sec, offset_lba, buffer,
                 ret, countVars, mediaVars, blind, faults>>

NoRequestLeft ==
  /\ pc = "loop"
  /\ ~InLoop /\ left_sec = 0
  /\ pc' = "write_mbr"
  /\ UNCHANGED <<machine, opt, enumVars, entry, wipeVars, ret, countVars,
                 mediaVars, blind, faults>>

\* What wipe_disk does with the value wipe_sectors_lba returned: only a
\* negative one ends the wipe.
EndRequest(value) ==
  /\ ret' = value
  /\ pass' = 0
  /\ offset_lba' = IF InLoop THEN offset_lba + nsectors ELSE offset_lba
  /\ pc' = IF value < 0 THEN "count" ELSE IF InLoop THEN "loop" ELSE "write_mbr"

-----------------------------------------------------------------------------
(* wipe_sectors_lba: one request                                           *)

\* Mutant: a fifth pass.
Passes_mut(mode) == CASE mode = "FAST" -> 1 [] mode = "DOD" -> 3 [] mode = "OCD" -> 5

Passes(mode) == CASE mode = "FAST" -> 1 [] mode = "DOD" -> 3 [] mode = "OCD" -> 4

(***************************************************************************)
(* What pass i writes when the buffer held b: FAST clears the buffer only  *)
(* on the packet interface, OCD fills it from rand() in every pass.        *)
(***************************************************************************)
Fill(mode, has_ext, i, b) ==
  CASE mode = "FAST" -> IF has_ext THEN "zero" ELSE b
    [] mode = "DOD"  -> IF i % 2 = 0 THEN "zero" ELSE "ones"
    [] mode = "OCD"  -> "rand"

chs == lba2chs(param, offset_lba)

\* The sectors of the disk the request names.
Request == (offset_lba .. offset_lba + nsectors - 1) \cap DOMAIN hist[param.disk_id]

\* Where the BIOS starts the transfer: C/H/S is resolved by the disk's geometry.
FirstSector ==
  IF param.has_ext THEN offset_lba
  ELSE chs2lba(hw, chs.cylinder, chs.head, chs.sector)

\* Sectors first .. first + cnt - 1 of drive d receive pattern p; the rest of
\* the request does not.
Transfer(d, first, cnt, request, p) ==
  LET wrote == (first .. first + cnt - 1) \cap DOMAIN hist[d]
  IN  /\ hist' = [hist EXCEPT ![d] =
                    [s \in DOMAIN @ |-> IF s \in wrote THEN Append(@[s], p) ELSE @[s]]]
      /\ bad' = [bad EXCEPT ![d] = @ \cup (request \ wrote)]

\* lba2chs cannot address the offset: -1, nothing is written.
NoChsAddress ==
  /\ pc = "wipe_sectors"
  /\ ~param.has_ext /\ chs.ret # 0
  /\ EndRequest(-1)
  /\ Transfer(param.disk_id, 0, 0, IF opt.test THEN {} ELSE Request, buffer)
  /\ UNCHANGED <<machine, opt, enumVars, entry, total_sec, nsectors, buffer,
                 countVars, blind, faults>>

\* opt.test: the request is read, once, whatever the mode.
TestRead ==
  /\ pc = "wipe_sectors" /\ opt.test
  /\ param.has_ext \/ chs.ret = 0
  /\ \E r \in TransferAnswers(Capacity(hw), FirstSector, nsectors, param.has_ext) :
       LET value == IF param.has_ext
                    THEN sectors_lba_rw_ret(FALSE, param, offset_lba, nsectors,
                                            WIPE_BUFFER_SIZE, r)
                    ELSE sector_chs_read_ret(param, chs.cylinder, chs.head, chs.sector,
                                             nsectors, WIPE_BUFFER_SIZE, r)
           fault == value # -1 /\ IsFault(Capacity(hw), FirstSector, nsectors, r)
       IN  /\ EndRequest(value)
           /\ Charge(IF fault THEN 1 ELSE 0)
           /\ buffer' = IF value = 0 THEN "stale" ELSE buffer
  /\ UNCHANGED <<machine, opt, enumVars, entry, total_sec, nsectors, countVars,
                 mediaVars, blind>>

(***************************************************************************)
(* One pass: fill the buffer, write it.  The value of a pass that is not   *)
(* the last is overwritten by the next one.                                *)
(***************************************************************************)
WipePass ==
  /\ pc = "wipe_sectors" /\ ~opt.test
  /\ param.has_ext \/ chs.ret = 0
  /\ LET check == opt.check \/ opt.mode = "OCD"
         p     == Fill(opt.mode, param.has_ext, pass, buffer)
     IN  \E w \in TransferAnswers(Capacity(hw), FirstSector, nsectors, param.has_ext),
            v \in VerifyAnswers :
           LET value == IF param.has_ext
                        THEN sectors_lba_rw_ret(TRUE, param, offset_lba, nsectors,
                                                WIPE_BUFFER_SIZE, w)
                        ELSE sector_chs_write_ret(param, chs.cylinder, chs.head, chs.sector,
                                                  nsectors, WIPE_BUFFER_SIZE, check, w, v)
               cnt   == IF value = -1 THEN 0 ELSE w.cnt
               fault == /\ value # -1
                        /\ \/ IsFault(Capacity(hw), FirstSector, nsectors, w)
                           \/ ~param.has_ext /\ check /\ ~w.cf /\ v.cf
           IN  /\ Charge(IF fault THEN 1 ELSE 0)
               /\ Transfer(param.disk_id, FirstSector, cnt, Request, p)
               /\ IF pass + 1 < Passes(opt.mode)
                  THEN /\ pass' = pass + 1
                       /\ ret' = value
                       /\ UNCHANGED <<pc, offset_lba>>
                  ELSE EndRequest(value)
               /\ buffer' = p
  /\ UNCHANGED <<machine, opt, enumVars, entry, total_sec, nsectors, countVars,
                 blind>>

-----------------------------------------------------------------------------
(* wipe_disk: the boot record, and the count in do_main                    *)

mbr_bin_len == 512

\* Mutant: test mode not considered.
WantsMbr_mut == opt.mbr

WantsMbr == opt.mbr /\ ~opt.test

\* The value of the boot record's write replaces the value of the wipe.
WriteMbr ==
  /\ pc = "write_mbr"
  /\ WantsMbr
  /\ \E w \in TransferAnswers(Capacity(hw), 0, 1, FALSE), v \in VerifyAnswers :
       LET value == sector_chs_write_ret(param, 0, 0, 1, 1, mbr_bin_len, opt.check, w, v)
           fault == /\ value # -1
                    /\ \/ IsFault(Capacity(hw), 0, 1, w)
                       \/ opt.check /\ ~w.cf /\ v.cf
       IN  /\ Charge(IF fault THEN 1 ELSE 0)
           /\ Transfer(param.disk_id, 0, IF value = -1 THEN 0 ELSE w.cnt,
                       {0} \cap DOMAIN hist[param.disk_id], "mbr")
           /\ ret' = value
  /\ buffer' = "mbr"
  /\ pc' = "count"
  /\ UNCHANGED <<machine, opt, enumVars, entry, total_sec, offset_lba, nsectors,
                 pass, countVars, blind>>

NoMbr ==
  /\ pc = "write_mbr"
  /\ ~WantsMbr
  /\ pc' = "count"
  /\ UNCHANGED <<machine, opt, enumVars, entry, wipeVars, ret, countVars,
                 mediaVars, blind, faults>>

\* Mutant: only the value 1 counts as skipped.
CountsAs_mut(value) ==
  CASE value = 0 -> "done" [] value < 0 -> "error" [] value = 1 -> "skiped"
    [] OTHER -> "none"

\* do_main: the value wipe_disk returned selects the counter.
CountsAs(value) ==
  CASE value = 0 -> "done" [] value < 0 -> "error" [] OTHER -> "skiped"

Increment(n, counter) == IF CountsAs(ret) = counter THEN n + 1 ELSE n

Count ==
  /\ pc = "count"
  /\ done_disk_cnt' = Increment(done_disk_cnt, "done")
  /\ error_disk_cnt' = Increment(error_disk_cnt, "error")
  /\ skiped_disk_cnt' = Increment(skiped_disk_cnt, "skiped")
  /\ verdict' = Append(verdict, ret)
  /\ index' = index + 1
  /\ pc' = IF index < total_disk_cnt THEN "wipe_disk" ELSE "reboot"
  /\ UNCHANGED <<machine, opt, enumVars, entry, wipeVars, ret, mediaVars,
                 blind, faults>>

Next ==
  \/ EnumNone
  \/ \E has_ext \in BOOLEAN : EnumFound(has_ext)
  \/ EnumDone
  \/ SkipCdrom \/ ReadMbr \/ ScanEntry
  \/ Malloc \/ MallocFails
  \/ NextRequest \/ NoRequestLeft
  \/ NoChsAddress \/ TestRead \/ WipePass
  \/ WriteMbr \/ NoMbr
  \/ Count

Spec == Init /\ [][Next]_vars

\* do_main never waits: BIOS calls return, so it always takes its next step.
FairSpec == Spec /\ WF_vars(Next)
-----------------------------------------------------------------------------
TypeOK ==
  /\ machine \in Machines /\ opt \in Options
  /\ pc \in {"enum_disk", "wipe_disk", "scan_entry", "malloc", "loop",
             "wipe_sectors", "write_mbr", "count", "reboot"}
  /\ id \in FirstId .. LastId + 1
  /\ disk_list \in Seq(disk_param)
  /\ index \in Nat \ {0} /\ entry \in 1 .. 4
  /\ total_sec \in Nat /\ offset_lba \in Nat /\ nsectors \in Nat /\ pass \in 0 .. 3
  /\ buffer \in Patterns
  /\ ret \in Int /\ ret >= -1
  /\ total_disk_cnt \in Nat /\ done_disk_cnt \in Nat
  /\ error_disk_cnt \in Nat /\ skiped_disk_cnt \in Nat
  /\ verdict \in Seq(Int)
  /\ DOMAIN hist = DOMAIN machine
  /\ \A d \in DOMAIN machine :
       hist[d] \in [0 .. Capacity(machine[d]) - 1 -> Seq(Patterns)]
  /\ bad \in [DOMAIN machine -> SUBSET Nat]
  /\ blind \subseteq DOMAIN machine
  /\ faults \in 0 .. MaxFaults

(***************************************************************************)
(* A request of wipe_disk names at least one sector, fits the wipe buffer  *)
(* and the BIOS's limit, ends where the wipe ends, and - unless force_chs  *)
(* took the size from the other interface - ends on the disk: the end test *)
(* commented out in sectors_lba_rw is not needed.                          *)
(***************************************************************************)
RequestInRange ==
  pc = "wipe_sectors" =>
    /\ nsectors \in 1 .. BIOS_MAX_SECTOR_CNT
    /\ nsectors * sector_size <= WIPE_BUFFER_SIZE
    /\ offset_lba + nsectors <= total_sec
    /\ param.has_ext /\ ~opt.force_chs => offset_lba + nsectors <= Capacity(hw)

\* The n-th pattern a mode promises; OCD's are what the code writes.
PassPattern(mode, n) ==
  CASE mode = "FAST" -> "zero"
    [] mode = "DOD"  -> IF n = 2 THEN "ones" ELSE "zero"
    [] mode = "OCD"  -> "rand"

\* h is what a wiped sector s of a disk has seen, the boot record included.
Overwritten(mode, has_ext, mbr, s, h) ==
  /\ Len(h) = Passes(mode) + (IF mbr /\ s = 0 THEN 1 ELSE 0)
  /\ (mode # "FAST" \/ has_ext) => \A n \in 1 .. Passes(mode) : h[n] = PassPattern(mode, n)
  /\ (mbr /\ s = 0) => h[Len(h)] = "mbr"

(***************************************************************************)
(* A disk counted as wiped (done_disk_cnt) has every pass, in order, on    *)
(* every sector that no failed or short transfer left out, and the boot    *)
(* record, when asked for, written last.  Every sector means every sector  *)
(* of the device, unless force_chs or a failed identification confined     *)
(* the wipe to what C/H/S can address.                                     *)
(***************************************************************************)
WipedInFull ==
  \A k \in 1 .. Len(verdict) :
    (verdict[k] = 0 /\ ~opt.test) =>
      LET p == disk_list[k]
          d == p.disk_id
          whole == ~opt.force_chs /\ d \notin blind
      IN  \A s \in DOMAIN hist[d] :
            ((whole \/ s < chs_capacity(p)) /\ s \notin bad[d]) =>
              Overwritten(opt.mode, p.has_ext, opt.mbr, s, hist[d][s])

\* opt.test ("only read disk not write disk", option.h): no path writes.
TestModeReadOnly ==
  opt.test => \A d \in DOMAIN hist : \A s \in DOMAIN hist[d] : hist[d][s] = <<>>

\* contain_fat_label can find entry e's boot sector where the partition is.
Recognisable(h, e) ==
  LET onDisk == /\ varify_chs(e.cylinder, e.head, e.sector) = 0
                /\ OnDisk(h, e.cylinder, e.head, e.sector)
      chsOk  == onDisk /\ chs2lba(h, e.cylinder, e.head, e.sector) = e.lba_begin
  IN  /\ e.lba_begin < Capacity(h)
      /\ \/ e.type = 11 /\ chsOk
         \/ e.type \in {12, 14} /\ h.ext
         \/ e.type = 239 /\ (chsOk \/ (h.ext /\ ~onDisk))

Protected(h) ==
  \E i \in 1 .. 4 : /\ Recognisable(h, h.mbr[i])
                    /\ <<h.mbr[i].lba_begin, opt.skip>> \in h.labels

(***************************************************************************)
(* A disk is never written when it is a CD-ROM, or when its boot record    *)
(* can be read at 0/0/1 and one of its four partitions has a type fat.c    *)
(* knows, can be located, and carries the skip label - unless a call       *)
(* needed to find that out failed (fat.c contain_fat_label).               *)
(***************************************************************************)
ProtectedUntouched ==
  \A d \in DOMAIN machine \ blind :
    LET h == machine[d]
    IN  \/ h.ext /\ h.bytes_per_sector # 512
        \/ OnDisk(h, 0, 0, 1) /\ Protected(h)
        => \A s \in DOMAIN hist[d] : hist[d][s] = <<>>

\* Sectors this step changes are sectors the program means to write.
WritesWithinRequest ==
  \A d \in DOMAIN hist : \A s \in DOMAIN hist[d] :
    hist'[d][s] # hist[d][s] =>
      /\ d = param.disk_id
      /\ \/ pc = "wipe_sectors" /\ s \in Request
         \/ pc = "write_mbr" /\ s = 0

(***************************************************************************)
(* A step writes only the drive being wiped, and there only sectors of the *)
(* current request or, for the boot record, sector 0: the address made by  *)
(* lba2chs and resolved by the drive's geometry is the intended one.       *)
(***************************************************************************)
NoStrayWrite == [][WritesWithinRequest]_vars

(***************************************************************************)
(* A C/H/S disk with more sectors than lba2chs can address is never        *)
(* counted as wiped: the refusal reaches do_main as a negative value.      *)
(***************************************************************************)
AddressLimitReported ==
  \A k \in 1 .. Len(verdict) :
    verdict[k] = 0 => \/ disk_list[k].has_ext
                      \/ chs_capacity(disk_list[k]) <= max_lba + 1

(***************************************************************************)
(* do_main gets through every disk found, whatever fails, counts each      *)
(* exactly once and reboots (dwipe.c do_main).                             *)
(***************************************************************************)
EveryDiskCounted ==
  <>( /\ pc = "reboot"
      /\ done_disk_cnt + error_disk_cnt + skiped_disk_cnt = total_disk_cnt
      /\ Len(verdict) = Len(disk_list) )
-----------------------------------------------------------------------------
(* What the documentation says and the code does not do.                   *)

\* README.md: "wipe with zero one pass|wipe with 00/FF/00 3 pass|wipe with
\* 00/FF/00/RAND 4 pass"
DocumentedPasses(mode) ==
  CASE mode = "FAST" -> <<"zero">>
    [] mode = "DOD"  -> <<"zero", "ones", "zero">>
    [] mode = "OCD"  -> <<"zero", "ones", "zero", "rand">>

(***************************************************************************)
(* A disk counted as wiped, with no device fault, has the documented passes*)
(* on every sector.  The C/H/S branch of FAST mode writes the buffer as    *)
(* malloc returned it, and OCD mode calls fill_rand in all four passes     *)
(* (dwipe.c wipe_sectors_lba).                                             *)
(***************************************************************************)
ModesAsDocumented ==
  \A k \in 1 .. Len(verdict) :
    (verdict[k] = 0 /\ faults = 0 /\ ~opt.test /\ ~opt.mbr) =>
      LET d == disk_list[k].disk_id
      IN  \A s \in DOMAIN hist[d] : hist[d][s] = DocumentedPasses(opt.mode)

(***************************************************************************)
(* README.md: "check: if set, wipe with check".  With check set a disk     *)
(* counted as wiped has no sector that a failed write left out; wipe_disk  *)
(* goes on after an AH code and the next request overwrites it.            *)
(***************************************************************************)
CheckedWipeMissesNothing ==
  \A k \in 1 .. Len(verdict) :
    (verdict[k] = 0 /\ opt.check) => bad[disk_list[k].disk_id] = {}

(***************************************************************************)
(* README.md: "skip FAT16/FAT32 label xxx".  No disk with a FAT partition  *)
(* that carries the skip label is written, when no call fails; fat.c does  *)
(* not look at the FAT16 types 1, 4 and 6.                                 *)
(***************************************************************************)
LabelledDiskSkipped ==
  \A d \in DOMAIN machine \ blind :
    (\E i \in 1 .. 4 :
       LET e == machine[d].mbr[i]
       IN  /\ e.type \in {1, 4, 6, 11, 12, 14, 239}
           /\ <<e.lba_begin, opt.skip>> \in machine[d].labels)
    => \A s \in DOMAIN hist[d] : hist[d][s] = <<>>
=============================================================================
