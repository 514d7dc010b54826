------------------------------ MODULE MCDwipe -------------------------------
(***************************************************************************)
(* Small machines for Dwipe.  Disks have a few sectors and the wipe buffer *)
(* two, so that a wipe takes several requests, a last request shorter than *)
(* the buffer, and requests that cross a track.                            *)
(***************************************************************************)
EXTENDS DwipeService, TLC

Entry(type, c, h, s, lba) ==
  [type |-> type, cylinder |-> c, head |-> h, sector |-> s, lba_begin |-> lba]

Unused == Entry(0, 0, 0, 0, 0)
NoPartitions == [i \in 1 .. 4 |-> Unused]

\* A disk with h heads, c cylinders, spt sectors per track, C/H/S only.
ChsDisk(h, c, spt) ==
  [last_heads |-> h - 1, last_cylinders |-> c - 1, last_sectors_per_track |-> spt,
   ext |-> FALSE, nsectors |-> 0, bytes_per_sector |-> 0,
   mbr |-> NoPartitions, labels |-> {}]

\* The same disk with the packet interface and n sectors.
ExtDisk(h, c, spt, n) ==
  [ChsDisk(h, c, spt) EXCEPT !.ext = TRUE, !.nsectors = n, !.bytes_per_sector = 512]

Cdrom == [ExtDisk(1, 1, 2, 3) EXCEPT !.bytes_per_sector = 2048]

\* Disk k with partition e in slot i; sector e.lba_begin is labelled l.
Labelled(k, i, e, l) ==
  [k EXCEPT !.mbr[i] = e, !.labels = {<<e.lba_begin, l>>}]

Opts(modes, tests, checks, forces, mbrs) ==
  [skip : {"MINIME"}, test : tests, check : checks, force_chs : forces,
   mbr : mbrs, mode : modes]

MCLabels == {"MINIME", "DATA"}
AllOptions == Opts(Modes, BOOLEAN, BOOLEAN, BOOLEAN, BOOLEAN)

\* One disk of each kind, and pairs in which the first disk's outcome
\* precedes the second disk's.
WipeMachines ==
  { 128 :> ExtDisk(1, 2, 2, 5),             \* C/H/S sees 4 of 5 sectors
    128 :> ExtDisk(2, 1, 2, 3),             \* C/H/S sees one sector too many
    128 :> ChsDisk(2, 2, 1),                \* every request crosses a track
    129 :> ChsDisk(1, 1, 3),                \* short last request
    128 :> ExtDisk(1, 1, 0, 0),             \* empty drive
    (128 :> Cdrom) @@ (129 :> ExtDisk(1, 1, 1, 1)),
    (128 :> ChsDisk(1, 1, 1)) @@ (129 :> ExtDisk(1, 1, 2, 2)),
    128 :> Labelled(ExtDisk(1, 2, 1, 2), 2, Entry(12, 0, 0, 0, 1), "MINIME") }

\* Where the label may be: every type fat.c reads, in a first and in a last
\* slot, the two ways of an EFI system partition, and a decoy before it.
LabelMachines ==
  LET ext == ExtDisk(1, 2, 2, 5)
      chsd == ChsDisk(1, 2, 2)
      Two(k, e1, e4) == [k EXCEPT !.mbr[1] = e1, !.mbr[4] = e4,
                           !.labels = {<<e1.lba_begin, "DATA">>, <<e4.lba_begin, "MINIME">>}]
  IN  { 128 :> Labelled(ext, 1, Entry(11, 0, 0, 2, 1), "MINIME"),
        128 :> Labelled(chsd, 4, Entry(11, 1, 0, 1, 2), "MINIME"),
        128 :> Labelled(ext, 3, Entry(12, 0, 0, 0, 4), "MINIME"),
        128 :> Labelled(ext, 4, Entry(14, 1, 0, 3, 4), "MINIME"),
        128 :> Labelled(chsd, 2, Entry(239, 0, 0, 2, 1), "MINIME"),
        128 :> Labelled(ext, 2, Entry(239, 1, 0, 3, 4), "MINIME"),
        128 :> Labelled(ext, 1, Entry(12, 0, 0, 0, 4), "DATA"),
        128 :> Two(ext, Entry(11, 0, 0, 2, 1), Entry(12, 0, 0, 0, 3)),
        (128 :> ChsDisk(1, 1, 2)) @@
        (129 :> Two(ext, Entry(12, 0, 0, 0, 2), Entry(239, 0, 0, 2, 1))),
        (128 :> Cdrom) @@ (129 :> Labelled(ext, 1, Entry(11, 0, 0, 2, 1), "MINIME")) }

\* A FAT16 partition of type 6.
Fat16Machines == { 128 :> Labelled(ExtDisk(1, 2, 2, 5), 1, Entry(6, 0, 0, 2, 1), "MINIME") }

\* One head more than CHS_HEAD_MAX = 2, and requests of six sectors: they
\* begin on heads 0 and 2 until max_lba is passed, or reach head 3 before.
LimitMachines == { 128 :> ChsDisk(4, 2, 3), 128 :> ChsDisk(4, 1, 2) }

\* Exactly one request of six sectors, and no sector at all.
ExactMachines == { 128 :> ExtDisk(1, 2, 3, 6), 128 :> ExtDisk(1, 1, 0, 0) }

CaseMachines == LabelMachines \cup LimitMachines \cup ExactMachines
CaseOptions  == Opts({"FAST"}, BOOLEAN, {FALSE}, BOOLEAN, BOOLEAN)

PlainMachines == { 128 :> ExtDisk(1, 2, 2, 5), 128 :> ChsDisk(2, 2, 1) }
PlainOptions  == Opts(Modes, {FALSE}, {FALSE}, {FALSE}, {FALSE})
CheckOptions  == Opts({"FAST"}, {FALSE}, {TRUE}, {FALSE}, {FALSE})
=============================================================================
