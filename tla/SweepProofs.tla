----------------------------- MODULE SweepProofs ----------------------------
(***************************************************************************)
(* The walk of module Sweep, for every geometry and every start.           *)
(***************************************************************************)
EXTENDS Sweep, GeometryProofs

\* The walk stays on the disk and its geometry is one the BIOS may report.
WalkInv ==
  /\ geom \in DiskGeometry
  /\ offset_lba \in Nat
  /\ offset_lba < chs_capacity(geom)

LEMMA WalkInvariant == Spec => []WalkInv
  <1>1. Init => WalkInv
    BY GeometriesAssumption, StartsAssumption DEF Init, WalkInv
  <1>2. WalkInv /\ [Next]_vars => WalkInv'
    BY DEF WalkInv, Next, Advance, vars
  <1> QED BY <1>1, <1>2, PTL DEF Spec

\* A disk the walk is on has at least one sector per track.
LEMMA WalkUsable ==
  ASSUME WalkInv
  PROVE  Usable(geom)
  <1>1. geom.last_sectors_per_track = 0 => chs_capacity(geom) = 0
    BY LimitsAssumption DEF WalkInv, chs_capacity, DiskGeometry
  <1> QED BY <1>1, LimitsAssumption DEF WalkInv, Usable, DiskGeometry

(***************************************************************************)
(* For every geometry the BIOS may report, within the C/H/S limits, and    *)
(* every sector of it: lba2chs finds an address, on the disk, that chs2lba *)
(* maps back to the sector.                                                *)
(***************************************************************************)
THEOREM SweepAddressesExact == Spec => []AddressesExact
  <1>1. WalkInv => AddressesExact
    <2> SUFFICES ASSUME WalkInv, geom.last_heads <= CHS_HEAD_MAX
                 PROVE  /\ chs.ret = 0
                        /\ OnDisk(geom, chs.cylinder, chs.head, chs.sector)
                        /\ chs2lba(geom, chs.cylinder, chs.head, chs.sector) = offset_lba
      BY DEF AddressesExact
    <2>1. Usable(geom) /\ offset_lba \in Nat /\ offset_lba < chs_capacity(geom)
      BY WalkUsable DEF WalkInv
    <2>2. max_lba \in Int
      <3>1. CHS_CYLINDER_MAX * (CHS_HEAD_MAX + 1) \in Int
        BY LimitsAssumption
      <3> QED BY <3>1, LimitsAssumption DEF max_lba
    <2>3. offset_lba <= max_lba
      BY <2>1, <2>2, CapacityBound
    <2>4. /\ chs.ret = 0
          /\ chs.head \in 0 .. geom.last_heads
          /\ chs.sector \in 1 .. geom.last_sectors_per_track
          /\ chs2lba(geom, chs.cylinder, chs.head, chs.sector) = offset_lba
      BY <2>1, <2>3, RoundTrip DEF chs
    <2>5. chs.cylinder \in 0 .. geom.last_cylinders
      BY <2>1, <2>3, CylinderOnDisk DEF chs
    <2> QED BY <2>4, <2>5 DEF OnDisk
  <1> QED BY <1>1, WalkInvariant, PTL

\* Where lba2chs gives an address, the registers have room for it.
LEMMA WalkAddress ==
  ASSUME WalkInv, chs.ret = 0
  PROVE  /\ offset_lba <= max_lba
         /\ chs.head \in 0 .. geom.last_heads
         /\ chs.sector \in 1 .. CHS_SECTOR_MAX
         /\ chs.cylinder \in 0 .. CHS_CYLINDER_MAX
  <1>1. Usable(geom) /\ offset_lba \in Nat /\ offset_lba < chs_capacity(geom)
    BY WalkUsable DEF WalkInv
  <1>2. offset_lba <= max_lba
    BY DEF chs, lba2chs
  <1>3. /\ chs.head \in 0 .. geom.last_heads
        /\ chs.sector \in 1 .. geom.last_sectors_per_track
    BY <1>1, <1>2, RoundTrip DEF chs
  <1>4. chs.cylinder \in 0 .. geom.last_cylinders
    BY <1>1, <1>2, CylinderOnDisk DEF chs
  <1>5. /\ geom.last_sectors_per_track \in 0 .. CHS_SECTOR_MAX
        /\ geom.last_cylinders \in 0 .. CHS_CYLINDER_MAX
    BY DEF WalkInv, DiskGeometry
  <1> QED BY <1>2, <1>3, <1>4, <1>5, LimitsAssumption

(***************************************************************************)
(* On every disk the register handed to INT 13h unpacks to the cylinder    *)
(* and sector lba2chs computed.                                            *)
(***************************************************************************)
THEOREM SweepPackRoundTrip == Spec => []PackRoundTrip
  <1>1. WalkInv => PackRoundTrip
    <2> SUFFICES ASSUME WalkInv, chs.ret = 0
                 PROVE  /\ set_chs_to_pack(chs.cylinder, chs.sector) < 65536
                        /\ get_chs_from_pack(set_chs_to_pack(chs.cylinder, chs.sector))
                             = [cylinder |-> chs.cylinder, sector |-> chs.sector]
      BY DEF PackRoundTrip
    <2>1. /\ chs.cylinder \in Nat /\ chs.cylinder < 1024
          /\ chs.sector \in Nat /\ chs.sector < 64
      BY WalkAddress, LimitsAssumption
    <2> QED BY <2>1, PackInverse
  <1> QED BY <1>1, WalkInvariant, PTL

(***************************************************************************)
(* varify_chs refuses a sector of the walk only under the one head beyond  *)
(* CHS_HEAD_MAX, and lba2chs only beyond max_lba on such a disk.           *)
(***************************************************************************)
THEOREM SweepRefusedOnlyAtHead255 == Spec => []RefusedOnlyAtHead255
  <1>1. WalkInv => RefusedOnlyAtHead255
    <2> SUFFICES ASSUME WalkInv,
                        chs.ret # 0 \/ varify_chs(chs.cylinder, chs.head, chs.sector) # 0
                 PROVE  /\ geom.last_heads = CHS_HEAD_MAX + 1
                        /\ \/ chs.ret = 0 /\ chs.head = CHS_HEAD_MAX + 1
                           \/ offset_lba > max_lba
      BY DEF RefusedOnlyAtHead255
    <2>1. /\ geom.last_heads \in 0 .. CHS_HEAD_MAX + 1
          /\ offset_lba \in Nat /\ offset_lba < chs_capacity(geom)
      BY DEF WalkInv, DiskGeometry
    <2>2. Usable(geom)
      BY WalkUsable
    <2>3. max_lba \in Int
      <3>1. CHS_CYLINDER_MAX * (CHS_HEAD_MAX + 1) \in Int
        BY LimitsAssumption
      <3> QED BY <3>1, LimitsAssumption DEF max_lba
    <2>4. CASE chs.ret # 0
      <3>1. ~(offset_lba <= max_lba)
        BY <2>4 DEF chs, lba2chs
      <3>2. ~(geom.last_heads <= CHS_HEAD_MAX)
        BY <3>1, <2>1, <2>2, <2>3, CapacityBound
      <3> QED BY <3>1, <3>2, <2>1, <2>3, LimitsAssumption
    <2>5. CASE chs.ret = 0
      <3>1. /\ chs.head \in 0 .. geom.last_heads
            /\ chs.sector \in 1 .. CHS_SECTOR_MAX
            /\ chs.cylinder \in 0 .. CHS_CYLINDER_MAX
        BY <2>5, WalkAddress
      <3>2. chs.head \notin 0 .. CHS_HEAD_MAX
        BY <2>5, <3>1 DEF varify_chs
      <3> QED BY <3>1, <3>2, <2>1, <2>5, LimitsAssumption
    <2> QED BY <2>4, <2>5
  <1> QED BY <1>1, WalkInvariant, PTL

\* The address of the sector after lba, from the one of lba.
LEMMA NextAddress ==
  ASSUME NEW g, Usable(g), NEW lba \in Nat,
         lba <= max_lba, lba + 1 <= max_lba
  PROVE  LET a == lba2chs(g, lba)
             b == lba2chs(g, lba + 1)
         IN  \/ /\ b.sector = a.sector + 1
                /\ b.head = a.head
                /\ b.cylinder = a.cylinder
             \/ /\ a.sector = g.last_sectors_per_track
                /\ b.sector = 1
                /\ \/ /\ b.head = a.head + 1
                      /\ b.cylinder = a.cylinder
                   \/ /\ a.head = g.last_heads
                      /\ b.head = 0
                      /\ b.cylinder = a.cylinder + 1
  <1> DEFINE s == g.last_sectors_per_track
             h == g.last_heads + 1
             q == lba \div s
             p == (lba + 1) \div s
             a == lba2chs(g, lba)
             b == lba2chs(g, lba + 1)
  <1>1. s \in Nat \ {0} /\ h \in Nat \ {0} /\ g.last_heads = h - 1
    BY LimitsAssumption DEF Usable
  <1>2. /\ a.cylinder = lba \div (s * h)
        /\ a.head = q % h
        /\ a.sector = (lba % s) + 1
    BY DEF lba2chs
  <1>3. /\ b.cylinder = (lba + 1) \div (s * h)
        /\ b.head = p % h
        /\ b.sector = ((lba + 1) % s) + 1
    BY DEF lba2chs
  <1> HIDE DEF a, b, s, h
  <1>4. \/ p = q /\ (lba + 1) % s = (lba % s) + 1
        \/ lba % s = s - 1 /\ p = q + 1 /\ (lba + 1) % s = 0
    BY <1>1, DivSuccessor
  <1>5. a.cylinder = q \div h /\ b.cylinder = p \div h
    <2> DEFINE n == lba + 1
    <2>1. n \in Nat
      OBVIOUS
    <2> HIDE DEF n
    <2>2. lba \div (s * h) = (lba \div s) \div h /\ n \div (s * h) = (n \div s) \div h
      BY <2>1, <1>1, DivDiv
    <2> QED BY <2>2, <1>2, <1>3 DEF n
  <1>6. q \in Nat
    BY <1>1, DivMod
  <1> HIDE DEF p, q
  <1>7. \/ (q + 1) \div h = q \div h /\ (q + 1) % h = (q % h) + 1
        \/ q % h = h - 1 /\ (q + 1) \div h = (q \div h) + 1 /\ (q + 1) % h = 0
    BY <1>1, <1>6, DivSuccessor
  <1>8. CASE p = q /\ (lba + 1) % s = (lba % s) + 1
    <2>1. b.sector = a.sector + 1 /\ b.head = a.head /\ b.cylinder = a.cylinder
      BY <1>2, <1>3, <1>5, <1>8
    <2> QED BY <2>1 DEF a, b
  <1>9. CASE lba % s = s - 1 /\ p = q + 1 /\ (lba + 1) % s = 0
    <2>1. a.sector = s /\ b.sector = 1
      BY <1>1, <1>2, <1>3, <1>9
    <2>2. \/ b.head = a.head + 1 /\ b.cylinder = a.cylinder
          \/ a.head = h - 1 /\ b.head = 0 /\ b.cylinder = a.cylinder + 1
      BY <1>2, <1>3, <1>5, <1>7, <1>9
    <2> QED BY <2>1, <2>2, <1>1 DEF a, b, s
  <1> QED BY <1>4, <1>8, <1>9

(***************************************************************************)
(* On every geometry, a step of the walk is one turn of the odometer:      *)
(* a request of several sectors covers what single requests would.         *)
(***************************************************************************)
THEOREM SweepOdometer == Spec => Odometer
  <1> DEFINE Turn ==
        (chs.ret = 0 /\ chs'.ret = 0) =>
          \/ /\ chs'.sector = chs.sector + 1
             /\ chs'.head = chs.head
             /\ chs'.cylinder = chs.cylinder
          \/ /\ chs.sector = geom.last_sectors_per_track
             /\ chs'.sector = 1
             /\ \/ /\ chs'.head = chs.head + 1
                   /\ chs'.cylinder = chs.cylinder
                \/ /\ chs.head = geom.last_heads
                   /\ chs'.head = 0
                   /\ chs'.cylinder = chs.cylinder + 1
  <1>1. WalkInv /\ [Next]_vars => [Turn]_vars
    <2> SUFFICES ASSUME WalkInv, Advance, chs.ret = 0, chs'.ret = 0
                 PROVE  Turn
      BY DEF Next
    <2>1. Usable(geom) /\ offset_lba \in Nat
      BY WalkUsable DEF WalkInv
    <2>2. chs = lba2chs(geom, offset_lba) /\ chs' = lba2chs(geom, offset_lba + 1)
      BY DEF chs, Advance
    <2>3. offset_lba <= max_lba /\ offset_lba + 1 <= max_lba
      BY <2>2 DEF lba2chs
    <2> QED BY <2>1, <2>2, <2>3, NextAddress
  <1> QED BY <1>1, WalkInvariant, PTL DEF Spec, Odometer
=============================================================================
