------------------------------ MODULE Geometry ------------------------------
(***************************************************************************)
(* Sector addressing of disk.c: the packed cylinder/sector register CX of  *)
(* INT 13h, the test every C/H/S request has to pass, and the two          *)
(* conversions between a linear sector number (LBA) and C/H/S.             *)
(*                                                                         *)
(* A geometry is any record with the three fields that get_disk_param      *)
(* fills from INT 13h AH=08h; struct disk_param (module Disk) is one.      *)
(* Cylinders and heads count from 0, sectors of a track from 1.            *)
(***************************************************************************)
EXTENDS Integers

CONSTANTS CHS_HEAD_MAX,       \* 254 in disk.h
          CHS_CYLINDER_MAX,   \* 1023
          CHS_SECTOR_MAX      \* 63

\* The C/H/S limits, at most what the registers leave room for.
ASSUME LimitsAssumption ==
  /\ CHS_HEAD_MAX \in Nat /\ CHS_HEAD_MAX <= 254
  /\ CHS_CYLINDER_MAX \in Nat /\ CHS_CYLINDER_MAX <= 1023
  /\ CHS_SECTOR_MAX \in Nat \ {0} /\ CHS_SECTOR_MAX <= 63

(***************************************************************************)
(* What INT 13h AH=08h can report: DH may name one head more than          *)
(* CHS_HEAD_MAX (256 heads); the 10 and 6 bits of CX cannot exceed the     *)
(* other limits, but the sectors per track may be zero.                    *)
(***************************************************************************)
DiskGeometry == [last_heads : 0 .. CHS_HEAD_MAX + 1,
                 last_cylinders : 0 .. CHS_CYLINDER_MAX,
                 last_sectors_per_track : 0 .. CHS_SECTOR_MAX]

-----------------------------------------------------------------------------
(* The packed register: bits 15:8 are cylinder bits 7:0, bits 7:6 are      *)
(* cylinder bits 9:8, bits 5:0 the sector.                                 *)

\* Mutant: the high cylinder bits shifted by four instead of two.
set_chs_to_pack_mut(cylinder, sector) ==
  (cylinder % 256) * 256 + ((cylinder \div 256) % 4) * 16 + sector

set_chs_to_pack(cylinder, sector) ==
  (cylinder % 256) * 256 + ((cylinder \div 256) % 4) * 64 + sector

get_chs_from_pack(c_s) ==
  [cylinder |-> (c_s \div 256) + ((c_s % 256) \div 64) * 256,
   sector   |-> c_s % 64]

-----------------------------------------------------------------------------
\* Mutant: the last head refused.
varify_chs_mut(cylinder, head, sector) ==
  IF /\ cylinder \in 0 .. CHS_CYLINDER_MAX
     /\ head \in 0 .. CHS_HEAD_MAX - 1
     /\ sector \in 1 .. CHS_SECTOR_MAX
  THEN 0
  ELSE -1

varify_chs(cylinder, head, sector) ==
  IF /\ cylinder \in 0 .. CHS_CYLINDER_MAX
     /\ head \in 0 .. CHS_HEAD_MAX
     /\ sector \in 1 .. CHS_SECTOR_MAX
  THEN 0
  ELSE -1

\* The bound of lba2chs: the last sector C/H/S can name at all.
max_lba ==
  (CHS_CYLINDER_MAX * (CHS_HEAD_MAX + 1) + CHS_HEAD_MAX) * CHS_SECTOR_MAX
    + CHS_SECTOR_MAX - 1

\* Mutant: head and cylinder exchanged.
lba2chs_swapped(g, lba) ==
  IF lba <= max_lba
  THEN [ret      |-> 0,
        cylinder |-> (lba \div g.last_sectors_per_track) % (g.last_heads + 1),
        head     |-> lba \div (g.last_sectors_per_track * (g.last_heads + 1)),
        sector   |-> (lba % g.last_sectors_per_track) + 1]
  ELSE [ret |-> -1, head |-> 0, cylinder |-> 0, sector |-> 0]

\* Mutant: no bound.
lba2chs_unbounded(g, lba) ==
  [ret      |-> 0,
   head     |-> (lba \div g.last_sectors_per_track) % (g.last_heads + 1),
   cylinder |-> lba \div (g.last_sectors_per_track * (g.last_heads + 1)),
   sector   |-> (lba % g.last_sectors_per_track) + 1]

(***************************************************************************)
(* lba2chs divides by last_sectors_per_track: a caller must not reach it   *)
(* with a geometry of zero sectors per track.                              *)
(***************************************************************************)
lba2chs(g, lba) ==
  IF lba <= max_lba
  THEN [ret      |-> 0,
        head     |-> (lba \div g.last_sectors_per_track) % (g.last_heads + 1),
        cylinder |-> lba \div (g.last_sectors_per_track * (g.last_heads + 1)),
        sector   |-> (lba % g.last_sectors_per_track) + 1]
  ELSE [ret |-> -1, head |-> 0, cylinder |-> 0, sector |-> 0]

\* The value chs2lba stores when varify_chs accepts its arguments.
chs2lba(g, cylinder, head, sector) ==
  (cylinder * (g.last_heads + 1) + head) * g.last_sectors_per_track + sector - 1

\* The number of sectors wipe_disk attributes to a disk driven by C/H/S.
chs_capacity(g) ==
  (g.last_heads + 1) * (g.last_cylinders + 1) * g.last_sectors_per_track

\* The range test sector_chs_rw and sector_chs_verify make on their arguments.
OnDisk(g, cylinder, head, sector) ==
  /\ cylinder \in 0 .. g.last_cylinders
  /\ head \in 0 .. g.last_heads
  /\ sector \in 1 .. g.last_sectors_per_track
=============================================================================
