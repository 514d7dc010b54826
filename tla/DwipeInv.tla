------------------------------ MODULE DwipeInv ------------------------------
(***************************************************************************)
(* The inductive invariant behind WipedInFull: what is true of the disk    *)
(* list, of the request loop and of the media at every point of do_main,   *)
(* not only once a disk has been counted.                                  *)
(***************************************************************************)
EXTENDS Dwipe

\* wipe_disk is inside its request loop for disk_list[index].
Wiping == pc \in {"loop", "wipe_sectors", "write_mbr"}

\* disk_list[index] is being worked on.
Active == Wiping \/ pc \in {"wipe_disk", "scan_entry", "malloc", "count"}

\* An entry of disk_list describes the drive; the packet interface is missing
\* from it only if the drive has none or an identification call failed.
Describes(p) ==
  /\ p.disk_id \in DOMAIN machine
  /\ LET h == machine[p.disk_id]
     IN  /\ p.last_heads = h.last_heads
         /\ p.last_cylinders = h.last_cylinders
         /\ p.last_sectors_per_track = h.last_sectors_per_track
         /\ p.has_ext => /\ h.ext
                         /\ p.nsectors = h.nsectors
                         /\ p.bytes_per_sector = h.bytes_per_sector
         /\ ~p.has_ext /\ h.ext => p.disk_id \in blind

\* Each drive is listed at most once, in the order of the ids.
ListInv ==
  /\ \A k \in 1 .. Len(disk_list) : Describes(disk_list[k]) /\ disk_list[k].disk_id < id
  /\ \A k \in 1 .. Len(disk_list) : \A j \in 1 .. k - 1 :
       disk_list[j].disk_id < disk_list[k].disk_id

\* Disks before index have a verdict, the others do not.
IndexInv ==
  /\ Len(verdict) = index - 1
  /\ pc = "enum_disk" => index = 1
  /\ pc # "enum_disk" => total_disk_cnt = Len(disk_list)
  /\ Active => index <= Len(disk_list)
  /\ index <= Len(disk_list) + 1

\* Sectors the buffer holds when sectors have 512 bytes.
Chunk == WIPE_BUFFER_SIZE \div 512

\* The loop advances by whole buffers and never beyond the last sector.
LoopInv ==
  /\ (Wiping \/ pc \in {"scan_entry", "malloc"}) => ~is_cdrom(param)
  /\ Wiping =>
       /\ total_sec = TotalSectors
       /\ offset_lba <= total_sec
       /\ offset_lba % Chunk = 0
  /\ pc = "wipe_sectors" =>
       /\ nsectors = (IF offset_lba + Chunk <= total_sec THEN Chunk ELSE left_sec)
       /\ nsectors >= 1
       /\ pass < Passes(opt.mode)

\* wipe_disk's return value has not been set before the loop.
RetInv == pc \in {"scan_entry", "malloc"} => ret = -1

\* n passes of the mode are on a sector whose history is h.
Written(mode, has_ext, h, n) ==
  /\ Len(h) = n
  /\ (mode # "FAST" \/ has_ext) => \A i \in 1 .. n : h[i] = PassPattern(mode, i)

(***************************************************************************)
(* The disk being wiped, sector by sector: all passes below the request,   *)
(* pass of them in the request, nothing beyond it - where no transfer      *)
(* fell short.  PassesOn(s) is the number of passes sector s has seen.     *)
(***************************************************************************)
PassesOn(s) ==
  IF s < offset_lba \/ (pc = "write_mbr" /\ s < total_sec) THEN Passes(opt.mode)
  ELSE IF pc = "wipe_sectors" /\ s < offset_lba + nsectors THEN pass
  ELSE 0

CurrentInv ==
  (Wiping /\ ~opt.test) =>
    \A s \in DOMAIN hist[param.disk_id] :
      s \notin bad[param.disk_id] =>
        Written(opt.mode, param.has_ext, hist[param.disk_id][s], PassesOn(s))

\* Drives that have not been reached are as they were.
FreshInv ==
  \A k \in 1 .. Len(disk_list) :
    (k > index \/ (k = index /\ pc \in {"enum_disk", "wipe_disk", "scan_entry", "malloc"})) =>
      \A s \in DOMAIN hist[disk_list[k].disk_id] : hist[disk_list[k].disk_id][s] = <<>>

EnumFreshInv ==
  pc = "enum_disk" =>
    \A d \in DOMAIN hist : \A s \in DOMAIN hist[d] : hist[d][s] = <<>>

\* All of the disk p that the wipe covers has been overwritten; h is what
\* its sectors have seen and b the sectors left out.
FinishedDisk(p, o, h, b) ==
  LET n == IF p.has_ext /\ ~o.force_chs THEN p.nsectors ELSE chs_capacity(p)
  IN  \A s \in DOMAIN h :
        (s < n /\ s \notin b) => Overwritten(o.mode, p.has_ext, o.mbr, s, h[s])

Finished(k) ==
  FinishedDisk(disk_list[k], opt, hist[disk_list[k].disk_id], bad[disk_list[k].disk_id])

DoneInv ==
  ~opt.test =>
    /\ \A k \in 1 .. Len(verdict) : verdict[k] = 0 => Finished(k)
    /\ (pc = "count" /\ ret = 0) => Finished(index)

(***************************************************************************)
(* The invariant of do_main that the proof of WipedInFull rests on: every  *)
(* conjunct above, in every state (dwipe.c enum_disk, wipe_disk, do_main). *)
(***************************************************************************)
WipeInv ==
  /\ TypeOK /\ ListInv /\ IndexInv /\ LoopInv
  /\ RetInv /\ CurrentInv /\ FreshInv /\ EnumFreshInv /\ DoneInv
=============================================================================
