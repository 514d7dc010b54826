------------------------------- MODULE Sweep --------------------------------
(***************************************************************************)
(* The walk wipe_disk makes over a C/H/S disk, seen one sector at a time:  *)
(* the offset starts at a sector of the disk and grows by one until it     *)
(* reaches the capacity computed from the geometry, and lba2chs turns      *)
(* every offset into the address handed to the BIOS.                       *)
(***************************************************************************)
EXTENDS Geometry

CONSTANTS Geometries,   \* the geometries the BIOS may report
          Starts        \* the offsets a walk may start from

VARIABLES geom,         \* the geometry of the disk
          offset_lba    \* the sector the walk has reached

vars == <<geom, offset_lba>>

ASSUME GeometriesAssumption == Geometries \subseteq DiskGeometry
ASSUME StartsAssumption == Starts \subseteq Nat

chs == lba2chs(geom, offset_lba)

Init ==
  /\ geom \in Geometries
  /\ offset_lba \in {s \in Starts : s < chs_capacity(geom)}

Advance ==
  /\ offset_lba + 1 < chs_capacity(geom)
  /\ offset_lba' = offset_lba + 1
  /\ UNCHANGED geom

Next == Advance

Spec == Init /\ [][Next]_vars

-----------------------------------------------------------------------------
(***************************************************************************)
(* Every sector below the capacity wipe_disk computes has an address that  *)
(* lba2chs finds, that lies on the disk, and that chs2lba maps back: no    *)
(* two offsets of a wipe name the same sector and none is refused by       *)
(* lba2chs, except beyond the 255th head (disk.c lba2chs, chs2lba).        *)
(***************************************************************************)
AddressesExact ==
  geom.last_heads <= CHS_HEAD_MAX =>
    /\ chs.ret = 0
    /\ OnDisk(geom, chs.cylinder, chs.head, chs.sector)
    /\ chs2lba(geom, chs.cylinder, chs.head, chs.sector) = offset_lba

(***************************************************************************)
(* varify_chs refuses an address of the walk only on a disk of 256 heads,  *)
(* and then exactly the sectors under head 255 - or, past max_lba, the     *)
(* ones lba2chs cannot express.  (disk.h: "due bug, max 254".)             *)
(***************************************************************************)
RefusedOnlyAtHead255 ==
  (chs.ret # 0 \/ varify_chs(chs.cylinder, chs.head, chs.sector) # 0) =>
    /\ geom.last_heads = CHS_HEAD_MAX + 1
    /\ \/ chs.ret = 0 /\ chs.head = CHS_HEAD_MAX + 1
       \/ offset_lba > max_lba

(***************************************************************************)
(* The register CX built by set_chs_to_pack fits 16 bits and unpacks, by   *)
(* get_chs_from_pack, to the cylinder and sector that went in.             *)
(***************************************************************************)
PackRoundTrip ==
  LET cx == set_chs_to_pack(chs.cylinder, chs.sector)
  IN  chs.ret = 0 =>
        /\ cx < 65536
        /\ get_chs_from_pack(cx) = [cylinder |-> chs.cylinder, sector |-> chs.sector]

(***************************************************************************)
(* One offset further is one turn of an odometer: the next sector of the   *)
(* track, or the first sector under the next head, or head 0 of the next   *)
(* cylinder.  A multi-sector request that starts at lba2chs(offset) thus   *)
(* covers the same sectors as single requests at successive offsets.       *)
(***************************************************************************)
Odometer ==
  [][ (chs.ret = 0 /\ chs'.ret = 0) =>
        \/ /\ chs'.sector = chs.sector + 1
           /\ chs'.head = chs.head
           /\ chs'.cylinder = chs.cylinder
        \/ /\ chs.sector = geom.last_sectors_per_track
           /\ chs'.sector = 1
           /\ \/ /\ chs'.head = chs.head + 1
                 /\ chs'.cylinder = chs.cylinder
              \/ /\ chs.head = geom.last_heads
                 /\ chs'.head = 0
                 /\ chs'.cylinder = chs.cylinder + 1 ]_vars
=============================================================================
