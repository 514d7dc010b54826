---------------------------- MODULE DwipeService ----------------------------
(***************************************************************************)
(* do_main (Dwipe) implements WipeService.                                 *)
(***************************************************************************)
EXTENDS DwipeInv

\* A CD-ROM, or a disk whose label contain_fat_label can find.
KeepOut(h) ==
  \/ h.ext /\ h.bytes_per_sector # 512
  \/ OnDisk(h, 0, 0, 1) /\ Protected(h)

\* The drives to be left alone, unless a call needed to find out failed.
Spared == {d \in DOMAIN machine \ blind : KeepOut(machine[d])}

\* Every sector that a wipe of the listed drive p is to reach has been wiped:
\* all of them, if the drive is used through the packet interface.
IsWiped(p, o, h) ==
  \A s \in DOMAIN h :
    (p.has_ext /\ ~o.force_chs) \/ s < chs_capacity(p) =>
      Overwritten(o.mode, p.has_ext, o.mbr, s, h[s])

Phase == CASE pc = "enum_disk" -> "find" [] pc = "reboot" -> "off" [] OTHER -> "wipe"
Found == [k \in 1 .. Len(disk_list) |-> disk_list[k].disk_id]
Tally == [o \in {"done", "error", "skiped"} |->
            CASE o = "done" -> done_disk_cnt [] o = "error" -> error_disk_cnt
              [] OTHER -> skiped_disk_cnt]

WrittenDrives == {d \in DOMAIN hist : \E s \in DOMAIN hist[d] : hist[d][s] # <<>>}
WipedDrives ==
  {d \in DOMAIN hist : \E k \in 1 .. Len(disk_list) :
     disk_list[k].disk_id = d /\ IsWiped(disk_list[k], opt, hist[d])}
LackingDrives == {d \in DOMAIN bad : bad[d] # {}}

Service == INSTANCE WipeService WITH
  Drives <- FirstId .. LastId, phase <- Phase, found <- Found, current <- index,
  tally <- Tally, readonly <- opt.test, spared <- Spared, written <- WrittenDrives,
  wiped <- WipedDrives, lacking <- LackingDrives

(***************************************************************************)
(* Every step of do_main is a step of the service or changes nothing the   *)
(* service shows, whatever the BIOS answers: a spared drive is never       *)
(* written and is counted as skipped, only the drive in turn is written, a *)
(* drive counted as done is wiped unless a write fell short, each drive is *)
(* counted once, and the program ends.                                     *)
(***************************************************************************)
ImplementsService == Service!LiveSpec
=============================================================================
