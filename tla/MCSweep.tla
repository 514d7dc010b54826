------------------------------ MODULE MCSweep -------------------------------
(***************************************************************************)
(* Walks over small disks from end to end, and over the ends of the        *)
(* largest ones: 255 heads (the last sector is max_lba) and 256 heads.     *)
(* The mutants are slips in the arithmetic of disk.c.                      *)
(***************************************************************************)
EXTENDS Sweep

G(heads, cylinders, spt) ==
  [last_heads |-> heads - 1, last_cylinders |-> cylinders - 1,
   last_sectors_per_track |-> spt]

MCGeometries ==
  { G(1, 1, 1), G(2, 3, 4), G(3, 2, 5), G(1, 7, 3), G(16, 4, 1), G(4, 5, 0),
    G(255, 1024, 63), G(256, 1024, 63), G(16, 1024, 63) }

\* The start of the disk, cylinder 255/256, and the last tracks of 255 and
\* 256 heads: max_lba is 16450559, the last sector of 256 heads 16515071.
MCStarts ==
  { 0, 1, 257000, 258020, 16064, 1032100, 4096500, 16450480, 16514960 }

\* A walk of at most this many sectors is explored from every start.
Window == 140

Walk == \E s \in MCStarts : offset_lba \in s .. s + Window
=============================================================================
