---------------------------- MODULE ServiceProofs ---------------------------
(***************************************************************************)
(* Which disks do_main leaves alone and which it does not count as wiped:  *)
(* proofs of AddressLimitReported and ProtectedUntouched, on top of the    *)
(* invariant of module DwipeProofs; that every step of do_main is one of   *)
(* the service that module WipeService promises, or none of it; and that   *)
(* the progress line says what was done.                                   *)
(***************************************************************************)
EXTENDS DwipeService, Progress, DwipeProofs

-----------------------------------------------------------------------------
(* The limit of C/H/S addressing.                                          *)

\* A disk driven by C/H/S with sectors that lba2chs cannot name.
TooLarge(p) == ~p.has_ext /\ chs_capacity(p) > max_lba + 1

\* What the BIOS may report beyond the limit is at least a request long.
RoomBeyondLimit ==
  \A g \in DiskGeometry : chs_capacity(g) > max_lba + 1 => chs_capacity(g) > max_lba + Chunk

(***************************************************************************)
(* The wipe of such a disk never gets past its last request, which begins  *)
(* beyond the limit; so it is not counted with the value 0.                *)
(***************************************************************************)
LimitInv ==
  /\ (Wiping /\ TooLarge(param)) => pc # "write_mbr" /\ offset_lba < total_sec
  /\ (pc = "count" /\ ret = 0) => ~TooLarge(param)
  /\ \A k \in 1 .. Len(verdict) : verdict[k] = 0 => ~TooLarge(disk_list[k])

LEMMA MaxLbaNat == max_lba \in Nat
  <1> DEFINE c == CHS_CYLINDER_MAX
             h == CHS_HEAD_MAX
             s == CHS_SECTOR_MAX
  <1>1. c \in Nat /\ h \in Nat /\ s \in Nat /\ s >= 1
    BY LimitsAssumption
  <1>2. max_lba = (c * (h + 1) + h) * s + s - 1
    BY DEF max_lba
  <1> HIDE DEF c, h, s
  <1>3. (c * (h + 1) + h) * s \in Nat
    BY <1>1
  <1> QED BY <1>1, <1>2, <1>3

\* A request that goes on begins where lba2chs can address it.
LEMMA BelowLimit ==
  ASSUME CoreInv, RoomBeyondLimit, pc = "wipe_sectors", TooLarge(param), chs.ret = 0
  PROVE  InLoop /\ offset_lba + nsectors < total_sec
  <1>1. Active /\ Wiping
    BY DEF Active, Wiping
  <1>2. param \in disk_param
    BY <1>1, ActiveParam
  <1>3. chs_capacity(param) > max_lba + Chunk
    <2> DEFINE g == [last_heads |-> param.last_heads, last_cylinders |-> param.last_cylinders,
                     last_sectors_per_track |-> param.last_sectors_per_track]
    <2>1. g \in DiskGeometry
      BY <1>2 DEF disk_param, DiskGeometry
    <2>2. chs_capacity(g) = chs_capacity(param)
      BY DEF chs_capacity
    <2> HIDE DEF g
    <2> QED BY <2>1, <2>2 DEF RoomBeyondLimit, TooLarge
  <1>4. total_sec = chs_capacity(param) /\ total_sec \in Nat
    BY <1>1 DEF CoreInv, LoopInv, TotalSectors, TooLarge, TypeOK
  <1>5. offset_lba \in Nat /\ offset_lba <= max_lba
    BY DEF chs, lba2chs, CoreInv, TypeOK
  <1>6. Chunk \in Nat /\ nsectors \in Nat /\ nsectors <= Chunk
    BY ChunkFacts, RequestFacts
  <1>7. InLoop <=> offset_lba + Chunk <= total_sec
    BY <1>1, LoopCondition
  <1> QED BY <1>3, <1>4, <1>5, <1>6, <1>7, MaxLbaNat

\* How a request ends: it is refused, goes on to a next pass, or its address is valid.
LEMMA RequestEnds ==
  ASSUME CoreInv, NoChsAddress \/ TestRead \/ WipePass
  PROVE  /\ pc = "wipe_sectors" /\ UNCHANGED <<opt, disk_list, index, verdict, total_sec>>
         /\ \/ pc' = "count" /\ ret' # 0
            \/ pc' = pc /\ offset_lba' = offset_lba
            \/ /\ param.has_ext \/ chs.ret = 0
               /\ pc' = IF InLoop THEN "loop" ELSE "write_mbr"
               /\ offset_lba' = IF InLoop THEN offset_lba + nsectors ELSE offset_lba
  <1>1. pc = "wipe_sectors" /\ UNCHANGED <<opt, disk_list, index, verdict, total_sec>>
    BY Zenon DEF NoChsAddress, TestRead, WipePass, enumVars, countVars
  <1>2. ASSUME NEW value, EndRequest(value)
        PROVE  \/ pc' = "count" /\ ret' # 0
               \/ /\ pc' = IF InLoop THEN "loop" ELSE "write_mbr"
                  /\ offset_lba' = IF InLoop THEN offset_lba + nsectors ELSE offset_lba
    <2>1. CASE value < 0
      <3>1. ret' = value /\ pc' = "count"
        BY <1>2, <2>1, Zenon DEF EndRequest
      <3>2. ret' # 0
        BY <2>1, <3>1
      <3> QED BY <3>1, <3>2
    <2>2. CASE ~(value < 0)
      BY <1>2, <2>2, Zenon DEF EndRequest
    <2> QED BY <2>1, <2>2
  <1>3. CASE NoChsAddress
    <2>1. EndRequest(-1)
      BY <1>3, Zenon DEF NoChsAddress
    <2>2. pc' = "count" /\ ret' = -1
      BY <2>1 DEF EndRequest
    <2> QED BY <1>1, <2>2
  <1>4. CASE TestRead
    <2>1. PICK value : EndRequest(value)
      BY <1>4, Zenon DEF TestRead
    <2>2. param.has_ext \/ chs.ret = 0
      BY <1>4, Zenon DEF TestRead
    <2> QED BY <1>1, <1>2, <2>1, <2>2, Zenon
  <1>5. CASE WipePass
    <2>1. (\E value : EndRequest(value)) \/ (pc' = pc /\ offset_lba' = offset_lba)
      BY <1>5, Zenon DEF WipePass
    <2>2. param.has_ext \/ chs.ret = 0
      BY <1>5, Zenon DEF WipePass
    <2> QED BY <1>1, <1>2, <2>1, <2>2, Zenon
  <1> QED BY <1>3, <1>4, <1>5

LEMMA LimitStep ==
  ASSUME RoomBeyondLimit, WipeInv, WipeInv', LimitInv, [Next]_vars
  PROVE  LimitInv'
  <1>1. CoreInv /\ CoreInv' /\ RetInv
    BY DEF WipeInv, CoreInv
  <1>2. ASSUME Wiping', TooLarge(param)'
        PROVE  pc' # "write_mbr" /\ offset_lba' < total_sec'
    <2>1. CASE Malloc
      <3>1. total_sec' = chs_capacity(param)' /\ offset_lba' = 0 /\ pc' = "loop"
        BY <1>1, <1>2, <2>1 DEF Malloc, CoreInv, LoopInv, TotalSectors, TooLarge, Wiping
      <3>2. total_sec' \in Nat
        BY <1>1 DEF CoreInv, TypeOK
      <3> QED BY <1>2, <3>1, <3>2, MaxLbaNat DEF TooLarge
    <2>2. CASE NextRequest \/ NoRequestLeft
      <3>1. Wiping /\ TooLarge(param) /\ UNCHANGED <<offset_lba, total_sec>>
        BY <1>2, <2>2 DEF NextRequest, NoRequestLeft, Wiping, TooLarge, param, enumVars, countVars, wipeVars
      <3>2. offset_lba < total_sec /\ offset_lba \in Nat /\ total_sec \in Nat
        BY <1>1, <3>1 DEF LimitInv, CoreInv, TypeOK
      <3> QED BY <2>2, <3>1, <3>2 DEF NextRequest, NoRequestLeft, left_sec
    <2>3. CASE NoChsAddress \/ TestRead \/ WipePass
      <3>1. /\ pc = "wipe_sectors" /\ UNCHANGED <<opt, disk_list, index, verdict, total_sec>>
            /\ \/ pc' = "count" /\ ret' # 0
               \/ pc' = pc /\ offset_lba' = offset_lba
               \/ /\ param.has_ext \/ chs.ret = 0
                  /\ pc' = IF InLoop THEN "loop" ELSE "write_mbr"
                  /\ offset_lba' = IF InLoop THEN offset_lba + nsectors ELSE offset_lba
        BY <1>1, <2>3, RequestEnds
      <3>2. TooLarge(param) /\ Wiping /\ pc' # "count"
        BY <1>2, <3>1 DEF TooLarge, param, Wiping
      <3>3. CASE pc' = pc /\ offset_lba' = offset_lba
        BY <3>1, <3>2, <3>3 DEF LimitInv
      <3>4. CASE /\ param.has_ext \/ chs.ret = 0
                 /\ pc' = IF InLoop THEN "loop" ELSE "write_mbr"
                 /\ offset_lba' = IF InLoop THEN offset_lba + nsectors ELSE offset_lba
        <4>1. InLoop /\ offset_lba + nsectors < total_sec
          BY <1>1, <3>1, <3>2, <3>4, BelowLimit DEF TooLarge
        <4> QED BY <3>1, <3>4, <4>1
      <3> QED BY <3>1, <3>2, <3>3, <3>4
    <2>4. CASE EnumNone \/ (\E e \in BOOLEAN : EnumFound(e)) \/ EnumDone \/ SkipCdrom
               \/ MallocFails \/ NoMbr \/ Count
      BY <1>2, <2>4 DEF EnumNone, EnumFound, EnumDone, SkipCdrom, MallocFails, NoMbr, Count, Wiping
    <2>5. CASE ReadMbr \/ ScanEntry \/ WriteMbr
      <3>1. pc' \in {"malloc", "scan_entry", "count"}
        BY <2>5, Zenon DEF ReadMbr, ScanEntry, WriteMbr
      <3> QED BY <1>2, <3>1 DEF Wiping
    <2>6. CASE UNCHANGED vars
      BY <1>2, <2>6 DEF vars, wipeVars, enumVars, countVars, LimitInv, Wiping, TooLarge, param
    <2> QED BY <2>1, <2>2, <2>3, <2>4, <2>5, <2>6, Zenon DEF Next
  <1>3. ASSUME pc' = "count", ret' = 0
        PROVE  ~TooLarge(param)'
    <2>1. NoMbr \/ WriteMbr \/ UNCHANGED vars
      BY <1>1, <1>3, CountedZero
    <2>2. CASE NoMbr \/ WriteMbr
      <3>1. pc = "write_mbr" /\ Wiping
        BY <2>2, Zenon DEF NoMbr, WriteMbr, Wiping
      <3>2. disk_list' = disk_list /\ index' = index
        BY <3>1, Frame
      <3> QED BY <3>1, <3>2 DEF LimitInv, TooLarge, param
    <2>3. CASE UNCHANGED vars
      BY <1>3, <2>3 DEF vars, enumVars, countVars, LimitInv, TooLarge, param
    <2> QED BY <2>1, <2>2, <2>3
  <1>4. ASSUME NEW k \in 1 .. Len(verdict'), verdict'[k] = 0
        PROVE  ~TooLarge(disk_list[k])'
    <2>1. verdict \in Seq(Int) /\ index \in Nat \ {0} /\ ret \in Int /\ Len(verdict) = index - 1
      BY <1>1 DEF CoreInv, TypeOK, IndexInv
    <2>2. disk_list' = disk_list
      <3>1. pc # "enum_disk"
        BY <1>1, <1>4, <2>1, Frame DEF CoreInv, IndexInv
      <3> QED BY <3>1, Frame
    <2>3. CASE verdict' = verdict
      BY <1>4, <2>2, <2>3 DEF LimitInv, TooLarge
    <2>4. CASE pc = "count" /\ verdict' = Append(verdict, ret)
      <3>1. CASE k \in 1 .. Len(verdict)
        <4>1. verdict[k] = 0
          BY <1>4, <2>1, <2>4, <3>1
        <4> QED BY <2>2, <3>1, <4>1 DEF LimitInv, TooLarge
      <3>2. CASE k \notin 1 .. Len(verdict)
        <4>1. k = index /\ ret = 0
          BY <1>4, <2>1, <2>4, <3>2
        <4> QED BY <2>2, <2>4, <4>1 DEF LimitInv, TooLarge, param
      <3> QED BY <3>1, <3>2
    <2>5. UNCHANGED vars => verdict' = verdict
      BY DEF vars, countVars
    <2> QED BY <2>3, <2>4, <2>5, Frame, Zenon
  <1> QED BY <1>2, <1>3, <1>4 DEF LimitInv

(***************************************************************************)
(* A C/H/S disk with more sectors than lba2chs can address is not counted  *)
(* as wiped, if the sectors beyond the limit make a request of their own   *)
(* (dwipe.c wipe_disk, disk.c lba2chs).                                    *)
(***************************************************************************)
THEOREM LimitIsReported ==
  ASSUME RoomBeyondLimit
  PROVE  Spec => []AddressLimitReported
  <1>1. Init => LimitInv
    BY DEF Init, LimitInv, Wiping
  <1>2. WipeInv /\ WipeInv' /\ LimitInv /\ [Next]_vars => LimitInv'
    BY LimitStep
  <1>3. WipeInv /\ LimitInv => AddressLimitReported
    <2> SUFFICES ASSUME WipeInv, LimitInv, NEW k \in 1 .. Len(verdict), verdict[k] = 0
                 PROVE  disk_list[k].has_ext \/ chs_capacity(disk_list[k]) <= max_lba + 1
      BY DEF AddressLimitReported
    <2>1. k \in 1 .. Len(disk_list)
      BY DEF WipeInv, IndexInv, TypeOK
    <2>2. disk_list[k] \in disk_param
      BY <2>1 DEF WipeInv, TypeOK
    <2>3. chs_capacity(disk_list[k]) \in Nat
      BY <2>2, ParamCapacity
    <2> QED BY <2>3, MaxLbaNat DEF LimitInv, TooLarge
  <1> QED BY <1>1, <1>2, <1>3, WipeInvariant, PTL DEF Spec

\* Where a full track holds a request, and heads outnumber a track's sectors,
\* what is beyond the limit is at least a track long.
LEMMA TrackBeyondLimit ==
  ASSUME Chunk <= CHS_SECTOR_MAX, CHS_SECTOR_MAX <= CHS_HEAD_MAX + 2
  PROVE  RoomBeyondLimit
  <1>1. ASSUME NEW m \in Nat, NEW n \in Nat, NEW t \in Nat, NEW a \in Nat, NEW b \in Nat, NEW s \in Nat,
               a <= m + 1, b <= n, s <= t, t <= m + 1, a * b * s > m * n * t
        PROVE  a * b * s >= m * n * t + t
    <2>1. a * b <= (m + 1) * n
      <3>1. a * b <= (m + 1) * b
        BY <1>1
      <3>2. (m + 1) * b <= (m + 1) * n
        BY <1>1
      <3> QED BY <3>1, <3>2
    <2>2. a * b \in Nat /\ m * n \in Nat /\ (m + 1) * n = m * n + n
      OBVIOUS
    <2> DEFINE x == a * b
               y == m * n
    <2>3. x \in Nat /\ y \in Nat /\ x <= y + n /\ x * s > y * t
      BY <1>1, <2>1, <2>2
    <2>4. n * t <= n * (m + 1) /\ n * (m + 1) = y + n
      BY <1>1
    <2> HIDE DEF x, y
    <2>5. s = t
      <3> SUFFICES ASSUME s <= t - 1 PROVE FALSE
        BY <1>1
      <3>1. x * s <= x * (t - 1) /\ t - 1 \in Nat
        BY <2>3
      <3>2. x * (t - 1) <= (y + n) * (t - 1)
        BY <2>3, <3>1
      <3>3. (y + n) * (t - 1) = y * t + n * t - y - n
        BY <2>3
      <3>4. x * s \in Nat /\ y * t \in Nat /\ n * t \in Nat /\ x * (t - 1) \in Int
        BY <2>3
      <3> QED BY <2>3, <2>4, <3>1, <3>2, <3>3, <3>4
    <2>6. x > y
      <3> SUFFICES ASSUME x <= y PROVE FALSE
        BY <2>3
      <3>1. x * t <= y * t
        BY <2>3
      <3> QED BY <2>3, <2>5, <3>1
    <2>7. x * t >= (y + 1) * t
      BY <2>3, <2>6
    <2>8. (y + 1) * t = y * t + t
      BY <2>3
    <2> QED BY <2>5, <2>7, <2>8 DEF x, y
  <1> DEFINE m == CHS_HEAD_MAX + 1
             n == CHS_CYLINDER_MAX + 1
             t == CHS_SECTOR_MAX
  <1>2. m \in Nat /\ n \in Nat /\ t \in Nat /\ t <= m + 1 /\ Chunk <= t /\ Chunk \in Nat
    BY LimitsAssumption, ChunkFacts
  <1>3. max_lba + 1 = m * n * t
    <2>1. max_lba = ((n - 1) * m + (m - 1)) * t + t - 1
      BY LimitsAssumption DEF max_lba
    <2> HIDE DEF m, n, t
    <2>2. ((n - 1) * m + (m - 1)) * t = m * n * t - t /\ m * n * t \in Nat
      BY <1>2
    <2> QED BY <1>2, <2>1, <2>2
  <1> SUFFICES ASSUME NEW g \in DiskGeometry, chs_capacity(g) > max_lba + 1
               PROVE  chs_capacity(g) > max_lba + Chunk
    BY DEF RoomBeyondLimit
  <1> DEFINE a == g.last_heads + 1
             b == g.last_cylinders + 1
             s == g.last_sectors_per_track
  <1>4. a \in Nat /\ b \in Nat /\ s \in Nat /\ a <= m + 1 /\ b <= n /\ s <= t
    BY LimitsAssumption DEF DiskGeometry
  <1>5. chs_capacity(g) = a * b * s
    BY DEF chs_capacity
  <1> HIDE DEF a, b, s, m, n, t
  <1>6. a * b * s >= m * n * t + t
    BY <1>1, <1>2, <1>3, <1>4, <1>5
  <1>7. a * b * s \in Nat /\ m * n * t \in Nat
    BY <1>2, <1>4
  <1> QED BY <1>2, <1>3, <1>5, <1>6, <1>7, MaxLbaNat

(***************************************************************************)
(* With the limits of disk.h, for every buffer BufferAssumption allows.    *)
(***************************************************************************)
THEOREM LimitIsReportedInCode ==
  ASSUME CHS_HEAD_MAX = 254, CHS_CYLINDER_MAX = 1023, CHS_SECTOR_MAX = 63
  PROVE  Spec => []AddressLimitReported
  <1>1. Chunk <= CHS_SECTOR_MAX /\ CHS_SECTOR_MAX <= CHS_HEAD_MAX + 2
    BY ChunkFacts DEF BIOS_MAX_SECTOR_CNT
  <1> QED BY <1>1, TrackBeyondLimit, LimitIsReported

-----------------------------------------------------------------------------
(* The label test.                                                         *)

\* Entry e names a partition of the disk h that has the skip label.
Carries(h, e) == Recognisable(h, e) /\ <<e.lba_begin, opt.skip>> \in h.labels

(***************************************************************************)
(* contain_fat_label has passed over entries that carry no label, and only *)
(* a disk that may be written gets as far as the wipe buffer - unless a    *)
(* call about the drive failed.                                            *)
(***************************************************************************)
ScanInv ==
  /\ pc = "scan_entry" => \/ param.disk_id \in blind
                          \/ \A i \in 1 .. entry - 1 : ~Carries(hw, hw.mbr[i])
  /\ (Wiping \/ pc = "malloc") => param.disk_id \in blind \/ ~KeepOut(hw)

\* The disk being examined, as contain_fat_label addresses it.
LEMMA Examined ==
  ASSUME CoreInv, Active, ~is_cdrom(param), param.disk_id \notin blind
  PROVE  /\ hw \in Hardware /\ Capacity(hw) \in Nat
         /\ chs_sector_size(param) = 512
         /\ hw.ext => param.has_ext /\ param.nsectors = hw.nsectors /\ param.bytes_per_sector = 512
         /\ \A c, h, s : OnDisk(param, c, h, s) <=> OnDisk(hw, c, h, s)
         /\ \A c, h, s : chs2lba(param, c, h, s) = chs2lba(hw, c, h, s)
         /\ ~(hw.ext /\ hw.bytes_per_sector # 512)
  <1>1. hw \in Hardware /\ Describes(param) /\ param \in disk_param /\ hw = machine[param.disk_id]
    BY ActiveParam
  <1>2. Capacity(hw) \in Nat
    BY <1>1, CapacityNat
  <1>3. /\ param.last_heads = hw.last_heads /\ param.last_cylinders = hw.last_cylinders
        /\ param.last_sectors_per_track = hw.last_sectors_per_track
        /\ param.has_ext => /\ hw.ext /\ param.nsectors = hw.nsectors
                            /\ param.bytes_per_sector = hw.bytes_per_sector
        /\ hw.ext => param.has_ext
    BY <1>1, Zenon DEF Describes
  <1>4. param.has_ext => param.bytes_per_sector = 512
    BY DEF is_cdrom
  <1>5. chs_sector_size(param) = 512
    BY <1>4 DEF chs_sector_size
  <1> QED BY <1>1, <1>2, <1>3, <1>4, <1>5, Zenon DEF OnDisk, chs2lba

Sectors512(p) == chs_sector_size(p) = 512

\* A read of one sector at an address on the disk is not refused.
LEMMA ChsNotRefused ==
  ASSUME NEW p, NEW c, NEW h, NEW s, Sectors512(p), varify_chs(c, h, s) = 0, OnDisk(p, c, h, s)
  PROVE  ~sector_chs_rw_refuses(FALSE, p, c, h, s, 1, fat_buffer_size)
  BY DEF sector_chs_rw_refuses, sector_chs_verify_refuses, BIOS_MAX_SECTOR_CNT,
         MAX_SECTOR_BUFFER_SIZE, fat_buffer_size, Sectors512

LEMMA ChsReadAccepted ==
  ASSUME NEW p, NEW e, NEW r, Sectors512(p), varify_chs(e.cylinder, e.head, e.sector) = 0,
         OnDisk(p, e.cylinder, e.head, e.sector)
  PROVE  chs_ret(p, e, r) = r.ah
  BY ChsNotRefused, Zenon DEF chs_ret, sector_chs_read_ret

LEMMA ChsReadRefused ==
  ASSUME NEW p, NEW c, NEW h, NEW s, NEW r, ~(varify_chs(c, h, s) = 0 /\ OnDisk(p, c, h, s))
  PROVE  sector_chs_read_ret(p, c, h, s, 1, fat_buffer_size, r) = -1
  <1>1. varify_chs(c, h, s) # 0 => varify_chs(c, h, s) < 0
    BY DEF varify_chs
  <1> QED BY <1>1, Zenon DEF sector_chs_read_ret, sector_chs_rw_refuses, sector_chs_verify_refuses

LEMMA LbaReadAccepted ==
  ASSUME NEW p, NEW e, NEW r, p.has_ext, p.bytes_per_sector = 512,
         p.nsectors \in Nat, e.lba_begin \in Nat, e.lba_begin < p.nsectors
  PROVE  lba_ret(p, e, r) = r.ah
  <1>1. ~sectors_lba_rw_refuses(FALSE, p, e.lba_begin, 1, fat_buffer_size)
    BY DEF sectors_lba_rw_refuses, BIOS_MAX_SECTOR_CNT, MAX_SECTOR_BUFFER_SIZE, fat_buffer_size
  <1> QED BY <1>1, Zenon DEF lba_ret, sectors_lba_rw_ret

(***************************************************************************)
(* Examining an entry that carries the label finds it, or a read that the  *)
(* drive should have served fails.                                         *)
(***************************************************************************)
LEMMA EntryExamined ==
  ASSUME CoreInv, pc = "scan_entry", param.disk_id \notin blind,
         NEW e, e = hw.mbr[entry], Carries(hw, e),
         NEW rc \in TransferAnswers(Capacity(hw), chs2lba(hw, e.cylinder, e.head, e.sector), 1, FALSE),
         NEW rl \in TransferAnswers(Capacity(hw), e.lba_begin, 1, TRUE)
  PROVE  \/ \E x \in BootSector(param, e, rc, rl) : <<x, opt.skip>> \in hw.labels
         \/ /\ UsesChs(e) /\ chs_ret(param, e, rc) # -1
            /\ IsFault(Capacity(hw), chs2lba(hw, e.cylinder, e.head, e.sector), 1, rc)
         \/ /\ UsesLba(param, e, rc) /\ lba_ret(param, e, rl) # -1
            /\ IsFault(Capacity(hw), e.lba_begin, 1, rl)
  <1> DEFINE at == chs2lba(hw, e.cylinder, e.head, e.sector)
             cap == Capacity(hw)
             valid == /\ varify_chs(e.cylinder, e.head, e.sector) = 0
                      /\ OnDisk(hw, e.cylinder, e.head, e.sector)
  <1>1. Active /\ ~is_cdrom(param)
    BY DEF Active, CoreInv, LoopInv
  <1>2. /\ hw \in Hardware /\ cap \in Nat
        /\ chs_sector_size(param) = 512
        /\ hw.ext => param.has_ext /\ param.nsectors = hw.nsectors /\ param.bytes_per_sector = 512
        /\ \A c, h, s : OnDisk(param, c, h, s) <=> OnDisk(hw, c, h, s)
        /\ \A c, h, s : chs2lba(param, c, h, s) = chs2lba(hw, c, h, s)
    BY <1>1, Examined, Zenon
  <1>3. e \in mbr_entry
    BY <1>2 DEF Hardware, CoreInv, TypeOK
  <1>4. e.lba_begin \in Nat
    BY <1>3 DEF mbr_entry
  <1>5. /\ e.lba_begin < cap
        /\ \/ e.type = 11 /\ valid /\ at = e.lba_begin
           \/ e.type \in {12, 14} /\ hw.ext
           \/ e.type = 239 /\ ((valid /\ at = e.lba_begin) \/ (hw.ext /\ ~valid))
        /\ <<e.lba_begin, opt.skip>> \in hw.labels
    BY Zenon DEF Carries, Recognisable
  <1>6. /\ rc.ah \in Nat /\ rc.cnt \in 0 .. 1 /\ (rc.cf <=> rc.ah # 0)
        /\ rl.ah \in Nat /\ (rl.cf <=> rl.ah # 0)
    <2>1. 1 \in Nat
      OBVIOUS
    <2> QED BY <2>1, AnswerFacts, Zenon
  <1>7. valid => chs_ret(param, e, rc) = rc.ah
    <2> SUFFICES ASSUME valid PROVE chs_ret(param, e, rc) = rc.ah
      OBVIOUS
    <2>1. OnDisk(param, e.cylinder, e.head, e.sector)
      BY <1>2, SMT
    <2>2. Sectors512(param)
      BY <1>2 DEF Sectors512
    <2> QED BY <2>1, <2>2, ChsReadAccepted, Zenon
  <1>8. ~valid => chs_ret(param, e, rc) = -1
    <2>1. OnDisk(param, e.cylinder, e.head, e.sector) <=> OnDisk(hw, e.cylinder, e.head, e.sector)
      BY <1>2, SMT
    <2> QED BY <2>1, ChsReadRefused, Zenon DEF chs_ret
  <1>9. hw.ext => lba_ret(param, e, rl) = rl.ah
    <2> SUFFICES ASSUME hw.ext PROVE lba_ret(param, e, rl) = rl.ah
      OBVIOUS
    <2>1. /\ param.has_ext /\ param.bytes_per_sector = 512 /\ param.nsectors \in Nat
          /\ e.lba_begin < param.nsectors
      BY <1>2, <1>5 DEF Capacity
    <2> QED BY <1>4, <2>1, LbaReadAccepted, SMT
  <1>10. chs2lba(param, e.cylinder, e.head, e.sector) = at
    BY <1>2, SMT
  <1> HIDE DEF at, cap, valid
  <1>11. CASE e.type \in {11, 239} /\ valid /\ at = e.lba_begin
    <2>1. UsesChs(e) /\ chs_ret(param, e, rc) # -1
      BY <1>6, <1>7, <1>11 DEF UsesChs
    <2>2. CASE rc.ah = 0 /\ rc.cnt = 1
      <3>1. ~UsesLba(param, e, rc)
        BY <1>7, <1>11, <2>2 DEF UsesLba
      <3>2. e.lba_begin \in BootSector(param, e, rc, rl)
        BY <1>7, <1>10, <1>11, <2>1, <2>2, <3>1, Zenon DEF BootSector
      <3> QED BY <1>5, <3>2, Zenon
    <2>3. CASE ~(rc.ah = 0 /\ rc.cnt = 1)
      <3>1. IsFault(cap, at, 1, rc)
        BY <1>2, <1>4, <1>5, <1>6, <1>11, <2>3 DEF IsFault
      <3> QED BY <2>1, <3>1 DEF cap, at
    <2> QED BY <2>2, <2>3
  <1>12. CASE (e.type \in {12, 14} /\ hw.ext) \/ (e.type = 239 /\ hw.ext /\ ~valid)
    <2>1. UsesLba(param, e, rc) /\ lba_ret(param, e, rl) # -1
      BY <1>6, <1>8, <1>9, <1>12 DEF UsesLba
    <2>2. CASE rl.ah = 0
      <3>1. lba_ret(param, e, rl) = 0
        BY <1>9, <1>12, <2>2
      <3>2. e.lba_begin \in BootSector(param, e, rc, rl)
        BY <2>1, <3>1, Zenon DEF BootSector
      <3> QED BY <1>5, <3>2, Zenon
    <2>3. CASE rl.ah # 0
      <3>1. IsFault(cap, e.lba_begin, 1, rl)
        BY <1>2, <1>4, <1>5, <1>6, <2>3 DEF IsFault
      <3> QED BY <2>1, <3>1 DEF cap
    <2> QED BY <2>2, <2>3
  <1>13. \/ e.type \in {11, 239} /\ valid /\ at = e.lba_begin
         \/ (e.type \in {12, 14} /\ hw.ext) \/ (e.type = 239 /\ hw.ext /\ ~valid)
    BY <1>5
  <1> QED BY <1>11, <1>12, <1>13, Zenon

\* A disk that must not be written has a boot record, and a sector to read it from.
LEMMA KeepOutReadable ==
  ASSUME CoreInv, Active, ~is_cdrom(param), param.disk_id \notin blind, KeepOut(hw)
  PROVE  /\ OnDisk(param, 0, 0, 1) /\ Sectors512(param) /\ 0 + 1 <= Capacity(hw)
         /\ \E i \in 1 .. 4 : Carries(hw, hw.mbr[i])
  <1>1. /\ hw \in Hardware /\ Capacity(hw) \in Nat /\ chs_sector_size(param) = 512
        /\ OnDisk(param, 0, 0, 1) <=> OnDisk(hw, 0, 0, 1)
        /\ ~(hw.ext /\ hw.bytes_per_sector # 512)
    BY Examined
  <1>2. OnDisk(hw, 0, 0, 1) /\ Protected(hw)
    BY <1>1 DEF KeepOut
  <1>3. PICK i \in 1 .. 4 : Carries(hw, hw.mbr[i])
    BY <1>2, Zenon DEF Protected, Carries
  <1>4. hw.mbr[i] \in mbr_entry
    BY <1>1 DEF Hardware
  <1>5. hw.mbr[i].lba_begin \in Nat
    BY <1>4 DEF mbr_entry
  <1>6. hw.mbr[i].lba_begin < Capacity(hw)
    BY <1>3, Zenon DEF Carries, Recognisable
  <1>7. 0 + 1 <= Capacity(hw)
    BY <1>1, <1>5, <1>6
  <1> QED BY <1>1, <1>2, <1>3, <1>7 DEF Sectors512

\* Not reading the boot record of such a disk is a fault of the drive.
LEMMA BootRecordRead ==
  ASSUME CoreInv, ReadMbr, pc' = "malloc"
  PROVE  param.disk_id \in blind' \/ ~KeepOut(hw)
  <1> SUFFICES ASSUME param.disk_id \notin blind', KeepOut(hw) PROVE FALSE
    OBVIOUS
  <1> DEFINE refused == sector_chs_rw_refuses(FALSE, param, 0, 0, 1, 1, fat_buffer_size)
             failed(r) == refused \/ r.cf \/ r.cnt # 1
             fault(r)  == ~refused /\ IsFault(Capacity(hw), 0, 1, r)
  <1>1. pc = "wipe_disk" /\ ~is_cdrom(param)
    BY DEF ReadMbr
  <1>2. PICK r \in TransferAnswers(Capacity(hw), 0, 1, FALSE) :
          /\ blind' = IF fault(r) THEN blind \cup {param.disk_id} ELSE blind
          /\ pc' = IF failed(r) THEN "malloc" ELSE "scan_entry"
    BY Zenon DEF ReadMbr
  <1>3. failed(r) /\ ~fault(r) /\ param.disk_id \notin blind
    <2>1. failed(r)
      <3>1. ~failed(r) => pc' = "scan_entry"
        BY <1>2, Zenon
      <3> HIDE DEF failed
      <3> QED BY <3>1
    <2>2. ~fault(r) /\ param.disk_id \notin blind
      <3> HIDE DEF fault, failed
      <3> QED BY <1>2
    <2> QED BY <2>1, <2>2
  <1>4. OnDisk(param, 0, 0, 1) /\ Sectors512(param) /\ 0 + 1 <= Capacity(hw)
    BY <1>1, <1>3, KeepOutReadable DEF Active
  <1>5. varify_chs(0, 0, 1) = 0
    BY LimitsAssumption DEF varify_chs
  <1>6. ~refused
    BY <1>4, <1>5, ChsNotRefused, Zenon
  <1>7. r.cnt \in 0 .. 1
    <2>1. 1 \in Nat
      OBVIOUS
    <2> QED BY <2>1, AnswerFacts, Zenon
  <1>8. r.cf \/ r.cnt < 1
    <2>1. r.cf \/ r.cnt # 1
      BY <1>3, <1>6, Zenon
    <2> QED BY <1>7, <2>1
  <1>9. IsFault(Capacity(hw), 0, 1, r)
    BY <1>4, <1>8 DEF IsFault
  <1> QED BY <1>3, <1>6, <1>9, Zenon

\* An entry passed over does not carry the label.
LEMMA EntryPassed ==
  ASSUME CoreInv, ScanEntry, pc' # "count"
  PROVE  param.disk_id \in blind' \/ (param.disk_id \notin blind /\ ~Carries(hw, hw.mbr[entry]))
  <1> SUFFICES ASSUME param.disk_id \notin blind', param.disk_id \in blind \/ Carries(hw, hw.mbr[entry])
               PROVE  FALSE
    OBVIOUS
  <1> DEFINE e   == hw.mbr[entry]
             lba == chs2lba(hw, e.cylinder, e.head, e.sector)
             faultC(rc) == /\ UsesChs(e)
                           /\ chs_ret(param, e, rc) # -1
                           /\ IsFault(Capacity(hw), lba, 1, rc)
             faultL(rc, rl) == /\ UsesLba(param, e, rc)
                               /\ lba_ret(param, e, rl) # -1
                               /\ IsFault(Capacity(hw), e.lba_begin, 1, rl)
             match(rc, rl) == \E x \in BootSector(param, e, rc, rl) :
                                <<x, opt.skip>> \in hw.labels
  <1>1. pc = "scan_entry"
    BY DEF ScanEntry
  <1>2. PICK rc \in TransferAnswers(Capacity(hw), lba, 1, FALSE),
             rl \in TransferAnswers(Capacity(hw), e.lba_begin, 1, TRUE) :
          /\ blind' = IF faultC(rc) \/ faultL(rc, rl) THEN blind \cup {param.disk_id} ELSE blind
          /\ pc' = IF match(rc, rl) THEN "count" ELSE IF entry = 4 THEN "malloc" ELSE pc
    BY Zenon DEF ScanEntry
  <1>3. param.disk_id \notin blind /\ ~faultC(rc) /\ ~faultL(rc, rl)
    <2> HIDE DEF faultC, faultL, match
    <2> QED BY <1>2
  <1>4. ~match(rc, rl)
    <2>1. match(rc, rl) => pc' = "count"
      BY <1>2, Zenon
    <2> HIDE DEF match
    <2> QED BY <2>1
  <1>5. Carries(hw, e)
    BY <1>3
  <1> HIDE DEF e
  <1>6. match(rc, rl) \/ faultC(rc) \/ faultL(rc, rl)
    BY <1>1, <1>3, <1>5, EntryExamined, Zenon DEF e
  <1> QED BY <1>3, <1>4, <1>6

LEMMA ScanStep ==
  ASSUME CoreInv, CoreInv', ScanInv, [Next]_vars
  PROVE  ScanInv'
  <1>1. machine' = machine /\ opt' = opt
    BY MachineKept, Frame
  <1>2. ASSUME UNCHANGED <<disk_list, index>>
        PROVE  /\ param' = param /\ hw' = hw /\ KeepOut(hw)' = KeepOut(hw)
               /\ \A i : Carries(hw, hw.mbr[i])' <=> Carries(hw, hw.mbr[i])
    BY <1>1, <1>2 DEF param, hw, KeepOut, Carries, Protected
  <1>3. CASE ReadMbr
    <2>1. UNCHANGED <<disk_list, index>> /\ entry' = 1 /\ pc' \in {"malloc", "scan_entry"}
      BY <1>3, Zenon DEF ReadMbr, enumVars, countVars
    <2>2. pc' = "malloc" => param.disk_id \in blind' \/ ~KeepOut(hw)
      BY <1>3, BootRecordRead
    <2> QED BY <1>2, <2>1, <2>2 DEF ScanInv, Wiping
  <1>4. CASE ScanEntry
    <2>1. /\ UNCHANGED <<disk_list, index>> /\ entry' = (IF entry = 4 THEN 1 ELSE entry + 1)
          /\ pc = "scan_entry"
          /\ pc' \in {"count", "malloc", "scan_entry"} /\ (pc' = "malloc" => entry = 4)
          /\ (pc' = "scan_entry" => entry # 4)
          /\ blind \subseteq blind'
      BY <1>4, Zenon DEF ScanEntry, enumVars, countVars
    <2>2. CASE pc' = "count" \/ param.disk_id \in blind'
      BY <1>2, <2>1, <2>2 DEF ScanInv, Wiping
    <2>3. CASE pc' # "count" /\ param.disk_id \notin blind'
      <3>1. param.disk_id \notin blind /\ ~Carries(hw, hw.mbr[entry])
        BY <1>4, <2>3, EntryPassed
      <3>2. entry \in 1 .. 4 /\ \A i \in 1 .. entry - 1 : ~Carries(hw, hw.mbr[i])
        BY <2>1, <3>1 DEF ScanInv, CoreInv, TypeOK
      <3>3. \A i \in 1 .. entry : ~Carries(hw, hw.mbr[i])
        BY <3>1, <3>2
      <3>4. CASE pc' = "scan_entry"
        BY <1>2, <2>1, <3>2, <3>3, <3>4 DEF ScanInv, Wiping
      <3>5. CASE pc' = "malloc"
        <4>1. ~KeepOut(hw)
          <5>1. Active /\ ~is_cdrom(param)
            BY <2>1 DEF Active, CoreInv, LoopInv
          <5> QED BY <2>1, <3>1, <3>3, <3>5, <5>1, KeepOutReadable
        <4> QED BY <1>2, <2>1, <3>5, <4>1 DEF ScanInv, Wiping
      <3> QED BY <2>1, <2>3, <3>4, <3>5
    <2> QED BY <2>2, <2>3
  <1>5. CASE Malloc \/ NextRequest \/ NoRequestLeft
    <2>1. UNCHANGED <<disk_list, index, blind>> /\ (Wiping \/ pc = "malloc") /\ pc' \notin {"scan_entry", "malloc"}
      BY <1>5 DEF Malloc, NextRequest, NoRequestLeft, enumVars, countVars, Wiping
    <2> QED BY <1>2, <2>1 DEF ScanInv
  <1>6. CASE NoChsAddress \/ TestRead \/ WipePass
    <2>1. UNCHANGED <<disk_list, index, blind>> /\ pc = "wipe_sectors"
      BY <1>6, Zenon DEF NoChsAddress, TestRead, WipePass, enumVars, countVars
    <2>2. pc' \notin Early
      BY <2>1, Frame DEF Early
    <2> QED BY <1>2, <2>1, <2>2 DEF ScanInv, Wiping, Early
  <1>7. CASE EnumNone \/ (\E x \in BOOLEAN : EnumFound(x)) \/ EnumDone \/ SkipCdrom
             \/ MallocFails \/ NoMbr \/ Count
    BY <1>7 DEF EnumNone, EnumFound, EnumDone, SkipCdrom, MallocFails, NoMbr, Count, ScanInv, Wiping
  <1>8. CASE WriteMbr
    <2>1. pc' = "count"
      BY <1>8, Zenon DEF WriteMbr
    <2> QED BY <2>1 DEF ScanInv, Wiping
  <1>9. CASE UNCHANGED vars
    <2>1. UNCHANGED <<pc, disk_list, index, blind, entry>>
      BY <1>9 DEF vars, enumVars, countVars
    <2> QED BY <1>2, <2>1 DEF ScanInv, Wiping
  <1> QED BY <1>3, <1>4, <1>5, <1>6, <1>7, <1>8, <1>9, Zenon DEF Next

LEMMA BlindGrows ==
  ASSUME [Next]_vars
  PROVE  blind \subseteq blind'
  <1>1. CASE EnumNone \/ (\E x \in BOOLEAN : EnumFound(x)) \/ EnumDone \/ SkipCdrom
             \/ Malloc \/ MallocFails \/ NextRequest \/ NoRequestLeft \/ NoMbr \/ Count
    BY <1>1 DEF EnumNone, EnumFound, EnumDone, SkipCdrom, Malloc, MallocFails, NextRequest,
                NoRequestLeft, NoMbr, Count
  <1>2. CASE ReadMbr
    BY <1>2, Zenon DEF ReadMbr
  <1>3. CASE ScanEntry
    BY <1>3, Zenon DEF ScanEntry
  <1>4. CASE NoChsAddress \/ TestRead \/ WipePass \/ WriteMbr
    <2>1. blind' = blind
      BY <1>4, Zenon DEF NoChsAddress, TestRead, WipePass, WriteMbr
    <2> QED BY <2>1
  <1>5. CASE UNCHANGED vars
    BY <1>5 DEF vars
  <1> QED BY <1>1, <1>2, <1>3, <1>4, <1>5, Zenon DEF Next

LEMMA UntouchedStep ==
  ASSUME CoreInv, ScanInv, ProtectedUntouched, [Next]_vars
  PROVE  ProtectedUntouched'
  <1>1. machine' = machine /\ opt' = opt /\ blind \subseteq blind'
    BY MachineKept, Frame, BlindGrows
  <1> SUFFICES ASSUME NEW d \in DOMAIN machine, d \notin blind', KeepOut(machine[d])
               PROVE  \A s \in DOMAIN hist'[d] : hist'[d][s] = <<>>
    BY <1>1 DEF ProtectedUntouched, KeepOut, Protected
  <1>2. d \notin blind
    BY <1>1
  <1>3. \A s \in DOMAIN hist[d] : hist[d][s] = <<>>
    BY <1>2 DEF ProtectedUntouched, KeepOut
  <1>4. pc \in {"wipe_sectors", "write_mbr"} => d # param.disk_id
    BY <1>2 DEF ScanInv, Wiping, hw
  <1> QED BY <1>3, <1>4, MediaKept

(***************************************************************************)
(* For every machine and every pattern of faults, no CD-ROM is written,    *)
(* and no disk with a partition that contain_fat_label can locate and that *)
(* carries the skip label, unless a call about that drive failed.          *)
(***************************************************************************)
THEOREM ProtectedStaysUntouched == Spec => []ProtectedUntouched
  <1>1. Init => ScanInv /\ ProtectedUntouched
    BY DEF Init, ScanInv, Wiping, ProtectedUntouched
  <1>2. CoreInv /\ CoreInv' /\ ScanInv /\ ProtectedUntouched /\ [Next]_vars
          => (ScanInv /\ ProtectedUntouched)'
    BY ScanStep, UntouchedStep
  <1> QED BY <1>1, <1>2, CoreInvariant, PTL DEF Spec

-----------------------------------------------------------------------------
(* The service.                                                            *)

\* A drive to be left alone is counted as skipped.
SpareInv == pc = "count" => param.disk_id \in blind \/ ~KeepOut(hw) \/ ret > 0

\* A match of the label test ends it with the value 1.
LEMMA LabelFound ==
  ASSUME ScanEntry, pc' = "count"
  PROVE  ret' = 1
  <1> DEFINE e   == hw.mbr[entry]
             lba == chs2lba(hw, e.cylinder, e.head, e.sector)
             match(rc, rl) == \E x \in BootSector(param, e, rc, rl) :
                                <<x, opt.skip>> \in hw.labels
  <1>1. pc = "scan_entry"
    BY DEF ScanEntry
  <1>2. PICK rc \in TransferAnswers(Capacity(hw), lba, 1, FALSE),
             rl \in TransferAnswers(Capacity(hw), e.lba_begin, 1, TRUE) :
          /\ ret' = IF match(rc, rl) THEN 1 ELSE ret
          /\ pc' = IF match(rc, rl) THEN "count" ELSE IF entry = 4 THEN "malloc" ELSE pc
    BY Zenon DEF ScanEntry
  <1> HIDE DEF match
  <1> QED BY <1>1, <1>2

LEMMA SpareStep ==
  ASSUME CoreInv, CoreInv', ScanInv, SpareInv, [Next]_vars
  PROVE  SpareInv'
  <1> SUFFICES ASSUME pc' = "count"
               PROVE  (param.disk_id \in blind \/ ~KeepOut(hw) \/ ret > 0)'
    BY DEF SpareInv
  <1>1. machine' = machine /\ opt' = opt /\ blind \subseteq blind'
    BY MachineKept, Frame, BlindGrows
  <1>2. ASSUME UNCHANGED <<disk_list, index>>
        PROVE  param' = param /\ (KeepOut(hw)' <=> KeepOut(hw))
    BY <1>1, <1>2 DEF param, hw, KeepOut, Protected
  <1>3. CASE SkipCdrom
    BY <1>3 DEF SkipCdrom
  <1>4. CASE ScanEntry
    BY <1>4, LabelFound
  <1>5. CASE (Wiping \/ pc = "malloc") /\ pc' # pc
    <2>1. UNCHANGED <<disk_list, index>>
      BY <1>5, Frame DEF Wiping
    <2>2. param.disk_id \in blind \/ ~KeepOut(hw)
      BY <1>5 DEF ScanInv
    <2> QED BY <1>1, <1>2, <2>1, <2>2
  <1>6. CASE MallocFails \/ NoMbr \/ Malloc \/ NextRequest \/ NoRequestLeft
    BY <1>5, <1>6 DEF MallocFails, NoMbr, Malloc, NextRequest, NoRequestLeft, Wiping
  <1>7. CASE NoChsAddress \/ TestRead \/ WipePass \/ WriteMbr
    <2>1. pc = "wipe_sectors" \/ pc = "write_mbr"
      BY <1>7, Zenon DEF NoChsAddress, TestRead, WipePass, WriteMbr
    <2> QED BY <1>5, <2>1 DEF Wiping
  <1>8. CASE ReadMbr
    <2>1. pc' \in {"malloc", "scan_entry"}
      BY <1>8, Zenon DEF ReadMbr
    <2> QED BY <2>1
  <1>9. CASE EnumNone \/ (\E x \in BOOLEAN : EnumFound(x)) \/ EnumDone \/ Count
    BY <1>9 DEF EnumNone, EnumFound, EnumDone, Count
  <1>10. CASE UNCHANGED vars
    BY <1>2, <1>10 DEF vars, enumVars, countVars, SpareInv
  <1> QED BY <1>3, <1>4, <1>6, <1>7, <1>8, <1>9, <1>10, Zenon DEF Next

LEMMA ServiceInvariant == Spec => [](WipeInv /\ ScanInv /\ SpareInv)
  <1>1. Init => ScanInv /\ SpareInv
    BY DEF Init, ScanInv, SpareInv, Wiping
  <1>2. WipeInv /\ WipeInv' /\ ScanInv /\ SpareInv /\ [Next]_vars => (ScanInv /\ SpareInv)'
    BY ScanStep, SpareStep DEF WipeInv, CoreInv
  <1> QED BY <1>1, <1>2, WipeInvariant, PTL DEF Spec

\* Steps that do not show.
Shown == <<machine, opt, disk_list, index, blind, hist, bad,
           done_disk_cnt, error_disk_cnt, skiped_disk_cnt>>

LEMMA MapKept ==
  /\ UNCHANGED disk_list => UNCHANGED Found
  /\ UNCHANGED <<machine, opt, blind>> => UNCHANGED Spared
  /\ UNCHANGED <<done_disk_cnt, error_disk_cnt, skiped_disk_cnt>> => UNCHANGED Tally
  /\ UNCHANGED hist => UNCHANGED WrittenDrives
  /\ UNCHANGED <<hist, opt, disk_list>> => UNCHANGED WipedDrives
  /\ UNCHANGED bad => UNCHANGED LackingDrives
  <1>1. UNCHANGED disk_list => UNCHANGED Found
    BY DEF Found
  <1>2. UNCHANGED <<machine, opt, blind>> => UNCHANGED Spared
    BY DEF Spared, KeepOut, Protected
  <1>3. UNCHANGED <<done_disk_cnt, error_disk_cnt, skiped_disk_cnt>> => UNCHANGED Tally
    BY DEF Tally
  <1>4. UNCHANGED hist => UNCHANGED WrittenDrives
    BY DEF WrittenDrives
  <1>5. UNCHANGED <<hist, opt, disk_list>> => UNCHANGED WipedDrives
    BY DEF WipedDrives
  <1>6. UNCHANGED bad => UNCHANGED LackingDrives
    BY DEF LackingDrives
  <1> QED BY <1>1, <1>2, <1>3, <1>4, <1>5, <1>6

LEMMA Quiet ==
  ASSUME UNCHANGED Shown, Phase' = Phase
  PROVE  UNCHANGED Service!vars
  BY MapKept DEF Shown, Service!vars

\* Wiping, and everything on the way there and back, is one phase.
LEMMA PhaseKept ==
  ASSUME pc \notin {"enum_disk", "reboot"}, pc' \notin {"enum_disk", "reboot"}
  PROVE  Phase = "wipe" /\ Phase' = "wipe"
  BY DEF Phase

LEMMA FoundFacts ==
  ASSUME TypeOK
  PROVE  /\ Found \in Seq(Nat) /\ Len(Found) = Len(disk_list)
         /\ \A k \in 1 .. Len(disk_list) : Found[k] = disk_list[k].disk_id
         /\ Found = <<>> <=> disk_list = <<>>
  <1>1. \A k \in 1 .. Len(disk_list) : disk_list[k].disk_id \in Nat
    BY ListEntry
  <1>2. disk_list \in Seq(disk_param) /\ Len(disk_list) \in Nat
    BY LenProperties DEF TypeOK
  <1>3. Found \in Seq(Nat) /\ Len(Found) = Len(disk_list)
    BY <1>1, <1>2 DEF Found
  <1>4. Found = <<>> <=> disk_list = <<>>
    BY <1>2, <1>3, EmptySeq
  <1> QED BY <1>3, <1>4 DEF Found

LEMMA StartOfService == Init => Service!Init
  <1> SUFFICES ASSUME Init PROVE Service!Init
    OBVIOUS
  <1>1. TypeOK
    BY InitCore DEF CoreInv
  <1>2. Found = <<>> /\ Phase = "find" /\ index = 1
    BY <1>1, FoundFacts DEF Init, Phase
  <1>3. Tally = [o \in Service!Outcomes |-> 0]
    BY DEF Init, Tally, Service!Outcomes
  <1>4. opt.test \in BOOLEAN
    BY <1>1, OptFacts
  <1>5. Spared \in SUBSET (FirstId .. LastId)
    BY <1>1, MachinesAssumption DEF Spared, TypeOK
  <1>6. WrittenDrives = {} /\ LackingDrives = {}
    BY DEF Init, WrittenDrives, LackingDrives
  <1>7. WipedDrives = {}
    <2>1. Len(disk_list) = 0
      BY EmptySeq DEF Init
    <2> QED BY <2>1 DEF WipedDrives
  <1> QED BY <1>2, <1>3, <1>4, <1>5, <1>6, <1>7, Zenon DEF Service!Init

-----------------------------------------------------------------------------
\* enum_disk lists a drive it had not listed.
LEMMA FindStep ==
  ASSUME WipeInv, NEW x \in BOOLEAN, EnumFound(x)
  PROVE  Service!Find(id)
  <1>1. TypeOK /\ ListInv
    BY DEF WipeInv
  <1>2. /\ pc = "enum_disk" /\ pc' = pc /\ id \in DOMAIN machine
        /\ disk_list' = Append(disk_list, DiskParam(id, machine[id], x))
        /\ blind' \in {blind, blind \cup {id}}
        /\ UNCHANGED <<machine, opt, index, hist, bad, done_disk_cnt, error_disk_cnt, skiped_disk_cnt>>
    BY DEF EnumFound, countVars, mediaVars
  <1> DEFINE p == DiskParam(id, machine[id], x)
             n == Len(disk_list)
  <1>3. p.disk_id = id
    BY DEF DiskParam
  <1>4. disk_list \in Seq(disk_param) /\ n \in Nat
    BY <1>1, LenProperties DEF TypeOK
  <1> HIDE DEF p
  <1>5. disk_list \in Seq(disk_param \cup {p}) /\ p \in disk_param \cup {p}
    BY <1>4
  <1>6. /\ Len(disk_list') = n + 1 /\ disk_list'[n + 1] = p
        /\ \A k \in 1 .. n : disk_list'[k] = disk_list[k]
    BY <1>2, <1>5, AppendProperties DEF p
  <1> HIDE DEF n
  <1>7. /\ Found \in Seq(Nat) /\ Len(Found) = n
        /\ \A k \in 1 .. n : Found[k] = disk_list[k].disk_id
    BY <1>1, FoundFacts DEF n
  <1>8. id \in Nat
    BY <1>1, <1>2, MachineFacts
  <1>9. \A k \in 1 .. Len(Found) : Found[k] # id
    <2>1. \A k \in 1 .. n : disk_list[k].disk_id < id /\ disk_list[k].disk_id \in Nat
      BY <1>1, ListEntry DEF ListInv, n
    <2> QED BY <1>7, <1>8, <2>1
  <1>10. Found' = Append(Found, id)
    <2>1. Found' = [k \in 1 .. n + 1 |-> disk_list'[k].disk_id]
      BY <1>6 DEF Found
    <2>2. \A k \in 1 .. n + 1 : disk_list'[k].disk_id = IF k <= n THEN Found[k] ELSE id
      BY <1>3, <1>4, <1>6, <1>7
    <2> DEFINE f == [k \in 1 .. n + 1 |-> IF k <= n THEN Found[k] ELSE id]
               g == Append(Found, id)
    <2>3. Found' = f
      BY <2>1, <2>2
    <2>4. \A k \in 1 .. n : Found[k] \in Nat
      BY <1>7, ElementOfSeq
    <2>5. f \in Seq(Nat) /\ Len(f) = n + 1
      BY <1>4, <1>8, <2>4
    <2>6. /\ g \in Seq(Nat) /\ Len(g) = n + 1 /\ g[n + 1] = id
          /\ \A k \in 1 .. n : g[k] = Found[k]
      BY <1>7, <1>8, AppendProperties
    <2>7. \A k \in 1 .. n + 1 : f[k] = IF k <= n THEN Found[k] ELSE id
      OBVIOUS
    <2> HIDE DEF f, g
    <2>8. \A k \in 1 .. Len(f) : f[k] = g[k]
      BY <1>4, <2>5, <2>6, <2>7
    <2>9. f = g
      BY <2>5, <2>6, <2>8, SeqEqual
    <2> QED BY <2>3, <2>9 DEF g
  <1>11. Spared' \in {Spared, Spared \ {id}}
    <2>1. Spared' = {d \in DOMAIN machine \ blind' : KeepOut(machine[d])}
      BY <1>2 DEF Spared, KeepOut, Protected
    <2>2. CASE blind' = blind
      BY <2>1, <2>2 DEF Spared
    <2>3. CASE blind' = blind \cup {id}
      <3>1. Spared' = Spared \ {id}
        BY <2>1, <2>3 DEF Spared
      <3> QED BY <3>1
    <2> QED BY <1>2, <2>2, <2>3
  <1>12. WipedDrives' \in {WipedDrives, WipedDrives \cup {id}}
    <2> DEFINE Has(q, d) == q.disk_id = d /\ IsWiped(q, opt, hist[d])
    <2>1. WipedDrives = {d \in DOMAIN hist : \E k \in 1 .. n : Has(disk_list[k], d)}
      BY DEF WipedDrives, n
    <2>2. WipedDrives' = {d \in DOMAIN hist : \E k \in 1 .. n + 1 : Has(disk_list'[k], d)}
      BY <1>2, <1>6 DEF WipedDrives
    <2>3. \A d : Has(p, d) => d = id
      BY <1>3
    <2> HIDE DEF Has
    <2>4. \A d : (\E k \in 1 .. n + 1 : Has(disk_list'[k], d))
                   <=> (\E k \in 1 .. n : Has(disk_list[k], d)) \/ Has(p, d)
      <3> TAKE d
      <3>1. ASSUME NEW k \in 1 .. n + 1, Has(disk_list'[k], d)
            PROVE  (\E j \in 1 .. n : Has(disk_list[j], d)) \/ Has(p, d)
        <4>1. CASE k \in 1 .. n
          BY <1>6, <3>1, <4>1
        <4>2. CASE k = n + 1
          BY <1>6, <3>1, <4>2
        <4> QED BY <1>4, <4>1, <4>2
      <3>2. ASSUME NEW k \in 1 .. n, Has(disk_list[k], d)
            PROVE  \E j \in 1 .. n + 1 : Has(disk_list'[j], d)
        <4>1. k \in 1 .. n + 1
          BY <1>4
        <4> QED BY <1>6, <3>2, <4>1
      <3>3. n + 1 \in 1 .. n + 1
        BY <1>4
      <3> QED BY <1>6, <3>1, <3>2, <3>3
    <2>5. WipedDrives' = {d \in DOMAIN hist : (\E k \in 1 .. n : Has(disk_list[k], d)) \/ Has(p, d)}
      BY <2>2, <2>4
    <2>6. CASE id \in DOMAIN hist /\ Has(p, id)
      BY <2>1, <2>3, <2>5, <2>6
    <2>7. CASE ~(id \in DOMAIN hist /\ Has(p, id))
      BY <2>1, <2>3, <2>5, <2>7
    <2> QED BY <2>6, <2>7
  <1>13. Phase = "find" /\ Phase' = Phase
    BY <1>2 DEF Phase
  <1>14. UNCHANGED <<Tally, WrittenDrives, LackingDrives, index, opt>>
    BY <1>2, MapKept
  <1> QED BY <1>9, <1>10, <1>11, <1>12, <1>13, <1>14, Zenon DEF Service!Find

\* The drive in turn, as the service names it.
LEMMA InTurn ==
  ASSUME CoreInv, Active
  PROVE  Found[index] = param.disk_id /\ param.disk_id \in DOMAIN machine /\ hw = machine[param.disk_id]
  <1>1. index \in 1 .. Len(disk_list) /\ param.disk_id \in DOMAIN machine /\ hw = machine[param.disk_id]
    BY ActiveParam
  <1>2. Found[index] = disk_list[index].disk_id
    BY <1>1, FoundFacts DEF CoreInv
  <1> QED BY <1>1, <1>2 DEF param

LEMMA BeginStep ==
  ASSUME WipeInv, EnumDone
  PROVE  Service!Begin
  <1>1. Found = <<>> <=> disk_list = <<>>
    BY FoundFacts DEF WipeInv
  <1>2. /\ pc = "enum_disk" /\ pc' = IF disk_list = <<>> THEN "reboot" ELSE "wipe_disk"
        /\ UNCHANGED Shown
    BY DEF EnumDone, countVars, mediaVars, Shown
  <1>3. Phase = "find" /\ Phase' = IF Found = <<>> THEN "off" ELSE "wipe"
    BY <1>1, <1>2 DEF Phase
  <1>4. UNCHANGED <<Found, index, Tally, opt, Spared, WrittenDrives, WipedDrives, LackingDrives>>
    BY <1>2, MapKept DEF Shown
  <1> QED BY <1>3, <1>4, Zenon DEF Service!Begin

\* The examination of the drive fails, or does not.
LEMMA DoubtStep ==
  ASSUME CoreInv, ReadMbr \/ ScanEntry
  PROVE  Service!Doubt \/ UNCHANGED Service!vars
  <1>1. /\ pc \in {"wipe_disk", "scan_entry"} /\ pc' \in {"scan_entry", "malloc", "count"}
        /\ blind' \in {blind, blind \cup {param.disk_id}}
        /\ UNCHANGED <<machine, opt, disk_list, index, hist, bad,
                       done_disk_cnt, error_disk_cnt, skiped_disk_cnt>>
    <2>1. CASE ReadMbr
      BY <2>1, Zenon DEF ReadMbr, enumVars, countVars, mediaVars
    <2>2. CASE ScanEntry
      BY <2>2, Zenon DEF ScanEntry, enumVars, countVars, mediaVars
    <2> QED BY <2>1, <2>2
  <1>2. Phase = "wipe" /\ Phase' = "wipe"
    BY <1>1, PhaseKept
  <1>3. CASE blind' = blind
    BY <1>1, <1>2, <1>3, Quiet DEF Shown
  <1>4. CASE blind' = blind \cup {param.disk_id}
    <2>1. Found[index] = param.disk_id
      BY <1>1, InTurn DEF Active
    <2>2. Spared' = {d \in DOMAIN machine \ blind' : KeepOut(machine[d])}
      BY <1>1 DEF Spared, KeepOut, Protected
    <2>3. Spared' = Spared \ {Found[index]}
      BY <1>4, <2>1, <2>2 DEF Spared
    <2>4. UNCHANGED <<Found, index, Tally, opt, WrittenDrives, WipedDrives, LackingDrives>>
      BY <1>1, MapKept
    <2> QED BY <1>2, <2>3, <2>4, Zenon DEF Service!Doubt
  <1> QED BY <1>1, <1>3, <1>4

-----------------------------------------------------------------------------
\* What a transfer to one drive does to the sets of drives.
LEMMA AppendNotEmpty ==
  ASSUME NEW S, NEW h \in Seq(S), NEW p
  PROVE  Append(h, p) # <<>>
  <1>1. h \in Seq(S \cup {p}) /\ p \in S \cup {p}
    OBVIOUS
  <1>2. Len(Append(h, p)) = Len(h) + 1 /\ Len(h) \in Nat
    BY <1>1, AppendProperties, LenProperties
  <1> QED BY <1>2, EmptySeq

LEMMA TransferSets ==
  ASSUME CoreInv, NEW d \in DOMAIN machine, NEW first \in Nat, NEW cnt \in Nat,
         NEW request, NEW p, Transfer(d, first, cnt, request, p),
         UNCHANGED <<machine, opt, disk_list>>
  PROVE  /\ \/ UNCHANGED <<WrittenDrives, WipedDrives>>
            \/ /\ WrittenDrives' = WrittenDrives \cup {d}
               /\ WipedDrives' \in {WipedDrives \cup {d}, WipedDrives \ {d}}
         /\ LackingDrives' \in {LackingDrives, LackingDrives \cup {d}}
  <1>1. /\ TypeOK /\ DOMAIN hist = DOMAIN machine /\ DOMAIN bad = DOMAIN machine
        /\ \A s \in DOMAIN hist[d] : hist[d][s] \in Seq(Patterns)
    BY DEF CoreInv, TypeOK
  <1>2. DOMAIN hist' = DOMAIN machine /\ DOMAIN bad' = DOMAIN machine /\ bad[d] \subseteq bad'[d]
    BY <1>1 DEF Transfer
  <1>3. /\ \A e \in DOMAIN machine : DOMAIN hist'[e] = DOMAIN hist[e]
        /\ \A e \in DOMAIN machine : e # d => hist'[e] = hist[e] /\ bad'[e] = bad[e]
        /\ \A s \in DOMAIN hist[d] :
             IF first <= s /\ s < first + cnt
             THEN hist'[d][s] = Append(hist[d][s], p)
             ELSE hist'[d][s] = hist[d][s]
    BY <1>1, TransferFacts
  <1>4. LackingDrives' \in {LackingDrives, LackingDrives \cup {d}}
    <2>1. LackingDrives' = {e \in DOMAIN machine : bad'[e] # {}}
      BY <1>2 DEF LackingDrives
    <2>2. LackingDrives = {e \in DOMAIN machine : bad[e] # {}}
      BY <1>1 DEF LackingDrives
    <2>3. CASE bad'[d] = {}
      <3>1. LackingDrives' = LackingDrives
        BY <1>2, <1>3, <2>1, <2>2, <2>3
      <3> QED BY <3>1
    <2>4. CASE bad'[d] # {}
      <3>1. LackingDrives' = LackingDrives \cup {d}
        BY <1>2, <1>3, <2>1, <2>2, <2>4
      <3> QED BY <3>1
    <2> QED BY <2>3, <2>4
  <1> DEFINE Touched(h) == \E s \in DOMAIN h : h[s] # <<>>
             Whole(e, h) == \E k \in 1 .. Len(disk_list) :
                              disk_list[k].disk_id = e /\ IsWiped(disk_list[k], opt, h)
  <1>5. /\ WrittenDrives = {e \in DOMAIN machine : Touched(hist[e])}
        /\ WrittenDrives' = {e \in DOMAIN machine : Touched(hist'[e])}
    BY <1>1, <1>2 DEF WrittenDrives
  <1>6. /\ WipedDrives = {e \in DOMAIN machine : Whole(e, hist[e])}
        /\ WipedDrives' = {e \in DOMAIN machine : Whole(e, hist'[e])}
    BY <1>1, <1>2 DEF WipedDrives
  <1>7. CASE \E s \in DOMAIN hist[d] : hist'[d][s] # hist[d][s]
    <2>1. PICK s \in DOMAIN hist[d] : hist'[d][s] # hist[d][s]
      BY <1>7
    <2>2. hist'[d][s] = Append(hist[d][s], p)
      BY <1>3, <2>1
    <2>3. hist'[d][s] # <<>>
      BY <1>1, <2>2, AppendNotEmpty
    <2>4. Touched(hist'[d])
      BY <1>3, <2>3
    <2> HIDE DEF Touched, Whole
    <2>5. WrittenDrives' = WrittenDrives \cup {d}
      BY <1>3, <1>5, <2>4
    <2>6. CASE Whole(d, hist'[d])
      <3>1. WipedDrives' = WipedDrives \cup {d}
        BY <1>3, <1>6, <2>6
      <3> QED BY <1>4, <2>5, <3>1
    <2>7. CASE ~Whole(d, hist'[d])
      <3>1. WipedDrives' = WipedDrives \ {d}
        BY <1>3, <1>6, <2>7
      <3> QED BY <1>4, <2>5, <3>1
    <2> QED BY <2>6, <2>7
  <1>8. CASE \A s \in DOMAIN hist[d] : hist'[d][s] = hist[d][s]
    <2>1. Touched(hist'[d]) <=> Touched(hist[d])
      BY <1>3, <1>8
    <2>2. \A q : IsWiped(q, opt, hist'[d]) <=> IsWiped(q, opt, hist[d])
      BY <1>3, <1>8 DEF IsWiped
    <2>3. Whole(d, hist'[d]) <=> Whole(d, hist[d])
      BY <2>2
    <2> HIDE DEF Touched, Whole
    <2>4. WrittenDrives' = WrittenDrives /\ WipedDrives' = WipedDrives
      BY <1>3, <1>5, <1>6, <2>1, <2>3
    <2> QED BY <1>4, <2>4
  <1> QED BY <1>7, <1>8

\* A drive that is being wiped is none of the spared ones.
LEMMA WriteStep ==
  ASSUME CoreInv, ScanInv, ~opt.test, pc \in {"wipe_sectors", "write_mbr"},
         pc' \notin {"enum_disk", "reboot"},
         UNCHANGED <<machine, opt, disk_list, index, blind,
                     done_disk_cnt, error_disk_cnt, skiped_disk_cnt>>,
         \E first \in Nat, cnt \in Nat : \E r, p : Transfer(param.disk_id, first, cnt, r, p)
  PROVE  Service!Write \/ UNCHANGED Service!vars
  <1> DEFINE d == param.disk_id
  <1>1. Active /\ Wiping
    BY DEF Active, Wiping
  <1>2. Found[index] = d /\ d \in DOMAIN machine /\ hw = machine[d]
    BY <1>1, InTurn
  <1>3. Phase = "wipe" /\ Phase' = "wipe"
    BY PhaseKept
  <1>4. d \notin Spared
    BY <1>1, <1>2 DEF ScanInv, Spared
  <1> HIDE DEF d
  <1>5. /\ \/ UNCHANGED <<WrittenDrives, WipedDrives>>
           \/ /\ WrittenDrives' = WrittenDrives \cup {d}
              /\ WipedDrives' \in {WipedDrives \cup {d}, WipedDrives \ {d}}
        /\ LackingDrives' \in {LackingDrives, LackingDrives \cup {d}}
    <2>1. PICK first \in Nat, cnt \in Nat : \E r, p : Transfer(d, first, cnt, r, p)
      BY Zenon DEF d
    <2>2. PICK r, p : Transfer(d, first, cnt, r, p)
      BY <2>1, Zenon
    <2> QED BY <1>2, <2>2, TransferSets
  <1>6. UNCHANGED <<Found, Tally, Spared>>
    BY MapKept
  <1> QED BY <1>2, <1>3, <1>4, <1>5, <1>6 DEF Service!Write, Service!vars

\* In test mode a request that cannot be addressed leaves the media alone.
LEMMA RefusedInTest ==
  ASSUME CoreInv, NoChsAddress, opt.test
  PROVE  UNCHANGED <<WrittenDrives, WipedDrives, LackingDrives>>
  <1> DEFINE d == param.disk_id
  <1>1. Transfer(d, 0, 0, {}, buffer) /\ pc = "wipe_sectors" /\ UNCHANGED <<machine, opt, disk_list>>
    BY Zenon DEF NoChsAddress, enumVars
  <1>2. d \in DOMAIN machine /\ TypeOK
    BY <1>1, ActiveParam DEF Active, Wiping, CoreInv
  <1>3. /\ DOMAIN hist = DOMAIN machine /\ DOMAIN bad = DOMAIN machine
        /\ DOMAIN hist[d] = 0 .. Capacity(machine[d]) - 1
    BY <1>2 DEF TypeOK
  <1>4. DOMAIN hist' = DOMAIN machine /\ DOMAIN bad' = DOMAIN machine /\ bad'[d] = bad[d]
    BY <1>1, <1>2, <1>3 DEF Transfer
  <1> HIDE DEF d
  <1>5. /\ \A e \in DOMAIN machine : DOMAIN hist'[e] = DOMAIN hist[e]
        /\ \A e \in DOMAIN machine : e # d => hist'[e] = hist[e] /\ bad'[e] = bad[e]
        /\ \A s \in DOMAIN hist[d] : hist'[d][s] = hist[d][s]
    <2>1. /\ \A e \in DOMAIN machine : DOMAIN hist'[e] = DOMAIN hist[e]
          /\ \A e \in DOMAIN machine : e # d => hist'[e] = hist[e] /\ bad'[e] = bad[e]
          /\ \A s \in DOMAIN hist[d] :
               IF 0 <= s /\ s < 0 + 0
               THEN hist'[d][s] = Append(hist[d][s], buffer)
               ELSE hist'[d][s] = hist[d][s]
      <3>1. 0 \in Nat
        OBVIOUS
      <3> QED BY <1>1, <1>2, <3>1, TransferFacts
    <2> QED BY <1>3, <2>1
  <1>6. \A e \in DOMAIN machine :
          /\ DOMAIN hist'[e] = DOMAIN hist[e] /\ bad'[e] = bad[e]
          /\ \A s \in DOMAIN hist[e] : hist'[e][s] = hist[e][s]
    BY <1>4, <1>5
  <1>7. WrittenDrives' = WrittenDrives
    BY <1>3, <1>4, <1>6 DEF WrittenDrives
  <1>8. LackingDrives' = LackingDrives
    BY <1>3, <1>4, <1>6 DEF LackingDrives
  <1>9. \A e \in DOMAIN machine : \A q : IsWiped(q, opt, hist'[e]) <=> IsWiped(q, opt, hist[e])
    BY <1>6 DEF IsWiped
  <1>10. WipedDrives' = WipedDrives
    BY <1>1, <1>3, <1>4, <1>9 DEF WipedDrives
  <1> QED BY <1>7, <1>8, <1>10

-----------------------------------------------------------------------------
\* A drive counted as done has nothing of the old data left, unless a write
\* to it fell short.
LEMMA DoneIsWiped ==
  ASSUME WipeInv, pc = "count", ret = 0, ~opt.test
  PROVE  param.disk_id \in WipedDrives \cup LackingDrives
  <1> DEFINE d == param.disk_id
  <1>1. CoreInv /\ Active /\ DoneInv
    BY DEF WipeInv, CoreInv, Active
  <1>2. /\ index \in 1 .. Len(disk_list) /\ param \in disk_param /\ Describes(param)
        /\ d \in DOMAIN machine /\ hw = machine[d] /\ hw \in Hardware
    BY <1>1, ActiveParam
  <1>3. /\ DOMAIN hist = DOMAIN machine /\ DOMAIN bad = DOMAIN machine
        /\ DOMAIN hist[d] = 0 .. Capacity(hw) - 1
    BY <1>1, <1>2 DEF CoreInv, TypeOK
  <1>4. FinishedDisk(param, opt, hist[d], bad[d])
    BY <1>1 DEF DoneInv, Finished, param
  <1>5. (param.has_ext /\ ~opt.force_chs) => Capacity(hw) = param.nsectors
    BY <1>2 DEF Describes, Capacity
  <1>6. CASE bad[d] # {}
    BY <1>2, <1>3, <1>6 DEF LackingDrives
  <1>7. CASE bad[d] = {}
    <2>1. Capacity(hw) \in Nat
      BY <1>2, CapacityNat
    <2>2. ASSUME NEW s \in DOMAIN hist[d],
                 (param.has_ext /\ ~opt.force_chs) \/ s < chs_capacity(param)
          PROVE  Overwritten(opt.mode, param.has_ext, opt.mbr, s, hist[d][s])
      <3>1. s \in Nat /\ s < Capacity(hw) /\ s \notin bad[d]
        BY <1>3, <1>7, <2>1
      <3>2. s < IF param.has_ext /\ ~opt.force_chs THEN param.nsectors ELSE chs_capacity(param)
        BY <1>5, <2>2, <3>1
      <3> QED BY <1>4, <3>1, <3>2 DEF FinishedDisk
    <2>3. IsWiped(param, opt, hist[d])
      BY <2>2 DEF IsWiped
    <2> QED BY <1>2, <1>3, <2>3 DEF WipedDrives, param
  <1> QED BY <1>6, <1>7

LEMMA FinishStep ==
  ASSUME WipeInv, SpareInv, Count
  PROVE  \E o \in Service!Outcomes : Service!Finish(o)
  <1> DEFINE o == CountsAs(ret)
  <1>1. /\ pc = "count" /\ index' = index + 1
        /\ pc' = IF index < total_disk_cnt THEN "wipe_disk" ELSE "reboot"
        /\ UNCHANGED <<machine, opt, disk_list, blind, hist, bad>>
    BY DEF Count, enumVars, mediaVars
  <1>2. CoreInv /\ Active /\ ret \in Int
    BY <1>1 DEF WipeInv, CoreInv, Active, TypeOK
  <1>3. Len(Found) = total_disk_cnt
    BY <1>1, <1>2, FoundFacts DEF CoreInv, IndexInv
  <1>4. Phase = "wipe" /\ Phase' = IF index < Len(Found) THEN "wipe" ELSE "off"
    BY <1>1, <1>3 DEF Phase
  <1>5. /\ o \in Service!Outcomes
        /\ o = "done" => ret = 0
        /\ ret > 0 => o = "skiped"
    BY <1>2 DEF CountsAs, Service!Outcomes
  <1>6. Found[index] = param.disk_id /\ hw = machine[param.disk_id]
    BY <1>2, InTurn
  <1>7. o = "done" /\ ~opt.test => Found[index] \in WipedDrives \cup LackingDrives
    BY <1>1, <1>5, <1>6, DoneIsWiped
  <1>8. Found[index] \in Spared => o = "skiped"
    BY <1>1, <1>5, <1>6 DEF SpareInv, Spared
  <1>9. Tally' = [Tally EXCEPT ![o] = @ + 1]
    <2>1. /\ done_disk_cnt' = IF o = "done" THEN done_disk_cnt + 1 ELSE done_disk_cnt
          /\ error_disk_cnt' = IF o = "error" THEN error_disk_cnt + 1 ELSE error_disk_cnt
          /\ skiped_disk_cnt' = IF o = "skiped" THEN skiped_disk_cnt + 1 ELSE skiped_disk_cnt
      BY DEF Count, Increment
    <2> HIDE DEF o
    <2> QED BY <1>5, <2>1 DEF Tally, Service!Outcomes
  <1>10. UNCHANGED <<Found, opt, Spared, WrittenDrives, WipedDrives, LackingDrives>>
    BY <1>1, MapKept
  <1> HIDE DEF o
  <1>11. Service!Finish(o)
    BY <1>1, <1>4, <1>7, <1>8, <1>9, <1>10, Zenon DEF Service!Finish
  <1> QED BY <1>5, <1>11

LEMMA ServiceStep ==
  ASSUME WipeInv, ScanInv, SpareInv, [Next]_vars
  PROVE  [Service!Next]_(Service!vars)
  <1>1. CoreInv /\ offset_lba \in Nat /\ nsectors \in Nat
    BY DEF WipeInv, CoreInv, TypeOK
  <1>2. CASE EnumNone
    BY <1>2, Quiet DEF EnumNone, Shown, Phase, countVars, mediaVars
  <1>3. CASE \E x \in BOOLEAN : EnumFound(x)
    <2>1. PICK x \in BOOLEAN : EnumFound(x)
      BY <1>3
    <2>2. id \in FirstId .. LastId
      BY <2>1, IdAssumption DEF EnumFound, WipeInv, TypeOK
    <2>3. Service!Find(id)
      BY <2>1, FindStep
    <2> QED BY <2>2, <2>3, Zenon DEF Service!Next
  <1>4. CASE EnumDone
    BY <1>4, BeginStep, Zenon DEF Service!Next
  <1>5. CASE SkipCdrom \/ Malloc \/ MallocFails \/ NextRequest \/ NoRequestLeft \/ NoMbr
    <2>1. /\ pc \notin {"enum_disk", "reboot"} /\ pc' \notin {"enum_disk", "reboot"}
          /\ UNCHANGED Shown
      BY <1>5 DEF SkipCdrom, Malloc, MallocFails, NextRequest, NoRequestLeft, NoMbr,
                  Shown, enumVars, countVars, mediaVars
    <2> QED BY <2>1, PhaseKept, Quiet
  <1>6. CASE ReadMbr \/ ScanEntry
    BY <1>1, <1>6, DoubtStep, Zenon DEF Service!Next
  <1>7. CASE NoChsAddress \/ TestRead \/ WipePass \/ WriteMbr
    <2>1. /\ pc \in {"wipe_sectors", "write_mbr"}
          /\ UNCHANGED <<machine, opt, disk_list, index, blind,
                         done_disk_cnt, error_disk_cnt, skiped_disk_cnt>>
      BY <1>7, Zenon DEF NoChsAddress, TestRead, WipePass, WriteMbr, enumVars, countVars
    <2>2. pc' \notin {"enum_disk", "reboot"}
      <3>1. CASE WriteMbr
        BY <3>1, Zenon DEF WriteMbr
      <3>2. CASE NoChsAddress \/ TestRead \/ WipePass
        <4>1. pc = "wipe_sectors" /\ (pc' = "count" \/ pc' = pc \/ pc' = IF InLoop THEN "loop" ELSE "write_mbr")
          BY <1>1, <3>2, RequestEnds
        <4> QED BY <4>1
      <3> QED BY <1>7, <3>1, <3>2
    <2>3. CASE UNCHANGED <<hist, bad>>
      BY <2>1, <2>2, <2>3, PhaseKept, Quiet DEF Shown
    <2>4. CASE opt.test /\ ~UNCHANGED <<hist, bad>>
      <3>1. NoChsAddress
        <4>1. TestRead => UNCHANGED <<hist, bad>>
          BY Zenon DEF TestRead, mediaVars
        <4>2. ~WipePass /\ ~WriteMbr
          BY <2>4, Zenon DEF WipePass, WriteMbr, WantsMbr
        <4> QED BY <1>7, <2>4, <4>1, <4>2
      <3>2. UNCHANGED <<WrittenDrives, WipedDrives, LackingDrives>>
        BY <1>1, <2>4, <3>1, RefusedInTest
      <3>3. UNCHANGED <<Found, Spared, Tally>> /\ Phase' = Phase
        BY <2>1, <2>2, PhaseKept, MapKept
      <3> QED BY <2>1, <3>2, <3>3 DEF Service!vars
    <2>5. CASE ~opt.test /\ ~UNCHANGED <<hist, bad>>
      <3>1. 0 .. nsectors \subseteq Nat /\ 0 .. 1 \subseteq Nat /\ 0 \in Nat
        BY <1>1
      <3>2. \E first \in Nat, cnt \in Nat : \E r, p : Transfer(param.disk_id, first, cnt, r, p)
        BY <1>1, <2>5, <3>1, MediaStep, Zenon
      <3> QED BY <1>1, <2>1, <2>2, <2>5, <3>2, WriteStep, Zenon DEF Service!Next
    <2> QED BY <2>3, <2>4, <2>5
  <1>8. CASE Count
    BY <1>8, FinishStep, Zenon DEF Service!Next
  <1>9. CASE UNCHANGED vars
    BY <1>9, Quiet DEF vars, enumVars, countVars, mediaVars, Shown, Phase
  <1> QED BY <1>2, <1>3, <1>4, <1>5, <1>6, <1>7, <1>8, <1>9, Zenon DEF Next

(***************************************************************************)
(* do_main implements the service on every machine, with every option set  *)
(* and whatever the BIOS answers: each of its steps is a step of the       *)
(* service or does not show.  So a spared drive is never written and is    *)
(* counted as skipped, only the drive in turn is written, a drive counted  *)
(* as done is wiped unless a write fell short, and each is counted once.   *)
(***************************************************************************)
THEOREM DwipeImplementsService == Spec => Service!Spec
  <1>1. Init => Service!Init
    BY StartOfService
  <1>2. WipeInv /\ ScanInv /\ SpareInv /\ [Next]_vars => [Service!Next]_(Service!vars)
    BY ServiceStep
  <1> QED BY <1>1, <1>2, ServiceInvariant, PTL DEF Spec, Service!Spec

-----------------------------------------------------------------------------
(* The progress line.                                                      *)

BarType ==
  /\ progress \in [total_bytes : Nat \ {0}, done_bytes : Nat,
                   saved_pro_width : Nat, reset : BOOLEAN]
  /\ progress.done_bytes <= progress.total_bytes
  /\ shown \in [disk : Nat, width : Nat, percent : Nat]
  /\ shown.width = line_width => shown.percent = 100

\* Inside the loop the bytes counted are those of the sectors gone through,
\* and the line shows the width they make.
BarTracks ==
  /\ progress.reset
  /\ progress.total_bytes = (IF total_sec = 0 THEN 1 ELSE total_sec * 512)
  /\ progress.done_bytes = offset_lba * 512
  /\ shown.disk = index
  /\ progress.saved_pro_width = shown.width
  /\ shown.width = pro_width(progress)

\* Sector by sector, what a full bar means.
WholeDisk ==
  ~opt.test =>
    \A s \in DOMAIN hist[param.disk_id] :
      s < total_sec /\ s \notin bad[param.disk_id] =>
        Len(hist[param.disk_id][s]) >= Passes(opt.mode)

(***************************************************************************)
(* A bar of the present disk can be seen only from the first update on; it *)
(* tracks the loop, is full after it, and if it is full when wipe_disk     *)
(* gives up, nothing was left over but what the failed request left out.   *)
(***************************************************************************)
BarInv ==
  /\ BarType
  /\ shown.disk <= index
  /\ pc \in {"enum_disk", "wipe_disk", "scan_entry", "malloc", "reboot"} => shown.disk < index
  /\ pc \in {"loop", "wipe_sectors"} => BarTracks
  /\ pc = "write_mbr" /\ total_sec > 0 => shown.disk = index /\ shown.width = line_width
  /\ pc = "count" /\ shown.width = line_width /\ shown.disk = index => WholeDisk

\* The bar is full when all is done, and not before.
LEMMA FullWidth ==
  ASSUME NEW d \in Nat, NEW t \in Nat \ {0}, NEW w \in Nat \ {0}, d <= t
  PROVE  /\ (d * w) \div t \in Nat
         /\ (d * w) \div t = w <=> d = t
  <1> DEFINE a == d * w
             q == a \div t
  <1>1. a \in Nat
    OBVIOUS
  <1>2. q \in Nat /\ a % t \in 0 .. t - 1 /\ a = t * q + (a % t)
    BY <1>1, DivMod
  <1>3. ASSUME d = t PROVE q = w
    <2>1. a = t * w + 0
      BY <1>3
    <2> HIDE DEF a
    <2> QED BY <1>1, <2>1, DivUnique
  <1>4. ASSUME q = w PROVE d = t
    <2> SUFFICES ASSUME d <= t - 1 PROVE FALSE
      OBVIOUS
    <2>1. d * w <= (t - 1) * w /\ (t - 1) * w = t * w - w
      BY MulMono
    <2>2. t * w <= a
      <3> HIDE DEF a
      <3> DEFINE r == a % t
      <3>1. r \in Nat /\ a = t * w + r /\ t * w \in Nat
        BY <1>2, <1>4
      <3> HIDE DEF r
      <3> QED BY <3>1
    <2>3. t * w \in Nat
      OBVIOUS
    <2> QED BY <2>1, <2>2, <2>3
  <1> QED BY <1>2, <1>3, <1>4

\* Bytes and sectors make the same bar.
LEMMA ScaledWidth ==
  ASSUME NEW o \in Nat, NEW t \in Nat \ {0}, NEW w \in Nat
  PROVE  ((o * 512) * w) \div (t * 512) = (o * w) \div t
  <1> DEFINE a == o * w
             q == a \div t
             r == a % t
             m == t * 512
             b == (o * 512) * w
             z == r * 512
  <1>1. a \in Nat
    OBVIOUS
  <1>2. q \in Nat /\ r \in 0 .. t - 1 /\ a = t * q + r
    BY <1>1, DivMod
  <1>3. b = 512 * a
    OBVIOUS
  <1>4. m \in Nat \ {0} /\ z \in 0 .. m - 1
    BY <1>2
  <1>5. m * q = 512 * (t * q)
    BY <1>2
  <1>6. t * q \in Nat
    BY <1>2
  <1>7. b = m * q + z /\ b \in Nat
    <2> DEFINE tq == t * q
    <2>1. a = tq + r /\ b = 512 * a /\ m * q = 512 * tq /\ tq \in Nat /\ r \in Nat
      BY <1>2, <1>3, <1>5, <1>6
    <2> HIDE DEF a, q, m, b, tq, r
    <2> QED BY <2>1
  <1> HIDE DEF a, q, m, b, z
  <1>8. b \div m = q
    BY <1>2, <1>4, <1>7, DivUnique
  <1> QED BY <1>8 DEF b, m, q, a

\* What update_progress leaves, from a bar just reset or one that is shown.
LEMMA UpdateFacts ==
  ASSUME NEW p0 \in [total_bytes : Nat \ {0}, done_bytes : Nat,
                     saved_pro_width : Nat, reset : BOOLEAN],
         NEW bytes \in Nat, index \in Nat,
         p0.done_bytes <= p0.total_bytes, BarType,
         p0.reset => shown.disk = index /\ shown.width = p0.saved_pro_width,
         update_progress(p0, bytes)
  PROVE  /\ BarType'
         /\ progress'.total_bytes = p0.total_bytes
         /\ progress'.done_bytes = AddBytes(p0, bytes)
         /\ progress'.reset
         /\ shown'.disk = index
         /\ progress'.saved_pro_width = shown'.width
         /\ shown'.width = pro_width(progress)'
  <1> DEFINE n == AddBytes(p0, bytes)
             p == [p0 EXCEPT !.done_bytes = n]
             t == p0.total_bytes
  <1>1. n \in Nat /\ n <= t /\ t \in Nat \ {0}
    BY DEF AddBytes
  <1>2. /\ p \in [total_bytes : Nat \ {0}, done_bytes : Nat,
                  saved_pro_width : Nat, reset : BOOLEAN]
        /\ p.done_bytes = n /\ p.total_bytes = t
        /\ p.saved_pro_width = p0.saved_pro_width /\ p.reset = p0.reset
    <2> HIDE DEF n
    <2> QED BY <1>1
  <1>3. pro_width(p) = (n * line_width) \div t
    <2> HIDE DEF p, n, t
    <2> QED BY <1>2 DEF pro_width
  <1>4. pro_width(p) \in Nat /\ (pro_width(p) = line_width <=> n = t)
    <2> HIDE DEF p, n, t
    <2>1. /\ (n * line_width) \div t \in Nat
          /\ (n * line_width) \div t = line_width <=> n = t
      BY <1>1, FullWidth, LineAssumption
    <2> QED BY <1>3, <2>1, Zenon
  <1>5. (n * 100) \div t \in Nat /\ (n = t => (n * 100) \div t = 100)
    <2> HIDE DEF n, t
    <2> QED BY <1>1, FullWidth
  <1>6. CASE Redraws(p)
    <2>1. /\ progress' = [p EXCEPT !.reset = TRUE, !.saved_pro_width = pro_width(p)]
          /\ shown' = [disk |-> index, width |-> pro_width(p),
                       percent |-> (p.done_bytes * 100) \div p.total_bytes]
      BY <1>6 DEF update_progress
    <2>2. pro_width(progress)' = (progress'.done_bytes * line_width) \div progress'.total_bytes
      BY DEF pro_width
    <2> DEFINE w == pro_width(p)
               c == (n * 100) \div t
    <2>3. /\ shown' = [disk |-> index, width |-> w, percent |-> c]
          /\ progress' = [p EXCEPT !.reset = TRUE, !.saved_pro_width = w]
          /\ w \in Nat /\ c \in Nat /\ (w = line_width => c = 100)
      BY <1>2, <1>4, <1>5, <2>1
    <2> HIDE DEF w, c, p, n, t
    <2>4. /\ progress' \in [total_bytes : Nat \ {0}, done_bytes : Nat,
                            saved_pro_width : Nat, reset : BOOLEAN]
          /\ progress'.total_bytes = t /\ progress'.done_bytes = n
          /\ progress'.reset /\ progress'.saved_pro_width = w
      BY <1>2, <2>3
    <2>5. /\ shown' \in [disk : Nat, width : Nat, percent : Nat]
          /\ shown'.disk = index /\ shown'.width = w /\ shown'.percent = c
      BY <2>3
    <2>6. pro_width(progress)' = w
      BY <2>2, <2>4, <1>3 DEF w
    <2> QED BY <1>1, <2>3, <2>4, <2>5, <2>6 DEF BarType, n, t
  <1>7. CASE ~Redraws(p)
    <2>1. progress' = p /\ shown' = shown
      BY <1>7 DEF update_progress
    <2>2. p.saved_pro_width = pro_width(p) /\ p.reset
      BY <1>7 DEF Redraws
    <2>3. pro_width(progress)' = pro_width(p)
      BY <2>1 DEF pro_width
    <2> HIDE DEF p, n, t
    <2>4. shown.disk = index /\ shown.width = p0.saved_pro_width
      BY <1>2, <2>2
    <2>5. BarType'
      BY <1>1, <1>2, <2>1 DEF BarType
    <2> QED BY <1>2, <2>1, <2>2, <2>3, <2>4, <2>5 DEF n, t
  <1> QED BY <1>6, <1>7

-----------------------------------------------------------------------------
(* The steps of wipe_disk with the bar.                                    *)

LEMMA BarStepsAreSteps == [BarNext]_<<vars, barVars>> => [Next]_vars
  BY Zenon DEF BarNext, BeginBar, LoopRequest, LastUpdate, NoUpdate, Elsewhere,
               wipe_sectors_lba, Next

\* The end of wipe_sectors_lba, whichever way it ends.
LEMMA RequestMoves ==
  ASSUME CoreInv, wipe_sectors_lba
  PROVE  /\ pc = "wipe_sectors" /\ index' = index /\ total_sec' = total_sec
         /\ pc' \in {"wipe_sectors", "loop", "write_mbr", "count"}
         /\ pc' = "wipe_sectors" => offset_lba' = offset_lba
         /\ pc' # "wipe_sectors" =>
              /\ offset_lba' = (IF InLoop THEN offset_lba + nsectors ELSE offset_lba)
              /\ pc' = "loop" => InLoop
              /\ pc' = "write_mbr" => ~InLoop
  <1>1. ASSUME NEW value, EndRequest(value)
        PROVE  /\ pc' \in {"loop", "write_mbr", "count"}
               /\ offset_lba' = (IF InLoop THEN offset_lba + nsectors ELSE offset_lba)
               /\ pc' = "loop" => InLoop
               /\ pc' = "write_mbr" => ~InLoop
    <2> HIDE DEF InLoop
    <2> QED BY <1>1 DEF EndRequest
  <1>2. CASE NoChsAddress
    <2>1. EndRequest(-1) /\ pc = "wipe_sectors" /\ index' = index /\ total_sec' = total_sec
      BY <1>2 DEF NoChsAddress, countVars
    <2> QED BY <1>1, <2>1
  <1>3. CASE TestRead
    <2>1. (\E value : EndRequest(value)) /\ pc = "wipe_sectors" /\ index' = index /\ total_sec' = total_sec
      BY <1>3, Zenon DEF TestRead, countVars
    <2> QED BY <1>1, <2>1
  <1>4. CASE WipePass
    <2>1. pc = "wipe_sectors" /\ index' = index /\ total_sec' = total_sec
      BY <1>4, Zenon DEF WipePass, countVars
    <2>2. (\E value : EndRequest(value)) \/ (pc' = pc /\ offset_lba' = offset_lba)
      BY <1>4, WipePassFacts, Zenon
    <2> QED BY <1>1, <2>1, <2>2
  <1> QED BY <1>2, <1>3, <1>4 DEF wipe_sectors_lba

\* What the invariants say of the numbers, inside the loop.
LEMMA BarNumbers ==
  ASSUME CoreInv, pc \in {"loop", "wipe_sectors"}
  PROVE  /\ total_sec \in Nat /\ offset_lba \in Nat /\ offset_lba <= total_sec
         /\ index \in Nat /\ nsectors \in Nat
         /\ sector_size = 512 /\ left_sec \in Nat /\ left_sec = total_sec - offset_lba
  <1>1. Active /\ Wiping /\ ~is_cdrom(param)
    BY DEF Active, Wiping, CoreInv, LoopInv
  <1> QED BY <1>1, SectorSize DEF CoreInv, TypeOK, LoopInv, left_sec

\* Full means through.
LEMMA FullIsThrough ==
  ASSUME CoreInv, BarType, BarTracks, pc \in {"loop", "wipe_sectors"},
         shown.width = line_width
  PROVE  total_sec > 0 /\ offset_lba = total_sec
  <1> DEFINE d == progress.done_bytes
             t == progress.total_bytes
  <1>1. d \in Nat /\ t \in Nat \ {0} /\ d <= t
    BY DEF BarType
  <1>2. (d * line_width) \div t = line_width
    BY DEF BarTracks, pro_width
  <1>3. d = t
    <2> HIDE DEF d, t
    <2>1. (d * line_width) \div t = line_width <=> d = t
      BY <1>1, FullWidth, LineAssumption
    <2> QED BY <1>2, <2>1, Zenon
  <1> QED BY <1>3, BarNumbers DEF BarTracks

LEMMA BeginBarStep ==
  ASSUME CoreInv, CoreInv', BarInv, BeginBar
  PROVE  BarInv'
  <1>1. /\ pc = "malloc" /\ pc' = "loop" /\ index' = index /\ offset_lba' = 0
        /\ total_sec' \in Nat /\ index \in Nat
    BY DEF BeginBar, Malloc, countVars, CoreInv, TypeOK
  <1>2. sector_size = 512
    <2>1. Active /\ ~is_cdrom(param)
      BY <1>1 DEF Active, CoreInv, LoopInv
    <2> QED BY <2>1, SectorSize
  <1> DEFINE p0 == reset_progress(total_sec' * sector_size)
             t == IF total_sec' = 0 THEN 1 ELSE total_sec' * 512
  <1>0. ASSUME NEW x \in Nat
        PROVE  /\ (IF x = 0 THEN 1 ELSE x * 512) \in Nat \ {0}
               /\ x * 512 = 0 <=> x = 0
    OBVIOUS
  <1>3. t \in Nat \ {0}
    BY <1>0, <1>1
  <1>4. p0 = [total_bytes |-> t, done_bytes |-> 0, saved_pro_width |-> 0, reset |-> FALSE]
    <2>1. total_sec' * 512 = 0 <=> total_sec' = 0
      BY <1>0, <1>1
    <2> QED BY <1>2, <2>1, Zenon DEF reset_progress
  <1>5. update_progress(p0, 0)
    BY DEF BeginBar
  <1> HIDE DEF p0, t
  <1>6. /\ p0 \in [total_bytes : Nat \ {0}, done_bytes : Nat,
                   saved_pro_width : Nat, reset : BOOLEAN]
        /\ p0.total_bytes = t /\ p0.done_bytes = 0 /\ ~p0.reset /\ p0.done_bytes <= p0.total_bytes
    BY <1>3, <1>4
  <1>7. AddBytes(p0, 0) = 0
    BY <1>3, <1>6 DEF AddBytes
  <1>8. BarType
    BY DEF BarInv
  <1>9. /\ BarType'
        /\ progress'.total_bytes = t /\ progress'.done_bytes = 0 /\ progress'.reset
        /\ shown'.disk = index /\ progress'.saved_pro_width = shown'.width
        /\ shown'.width = pro_width(progress)'
    BY <1>1, <1>5, <1>6, <1>7, <1>8, UpdateFacts
  <1>10. BarTracks'
    BY <1>1, <1>9 DEF BarTracks, t
  <1> QED BY <1>1, <1>9, <1>10 DEF BarInv

\* The last request of the loop, whatever became of it: sectors with fewer
\* passes are among those left out.
LEMMA WholeAtEnd ==
  ASSUME CoreInv, CurrentInv, [Next]_vars, wipe_sectors_lba, pc' # "wipe_sectors",
         offset_lba + nsectors = total_sec
  PROVE  WholeDisk'
  <1>1. pc = "wipe_sectors" /\ total_sec' = total_sec
    BY RequestMoves
  <1>2. param' = param /\ opt' = opt
    BY <1>1, SameParam
  <1> DEFINE d == param.disk_id
  <1> SUFFICES ASSUME ~opt.test, NEW s \in DOMAIN hist'[d], s < total_sec, s \notin bad'[d]
               PROVE  Len(hist'[d][s]) >= Passes(opt.mode)
    BY <1>1, <1>2 DEF WholeDisk
  <1>3. Active /\ Wiping /\ TypeOK
    BY <1>1 DEF Active, Wiping, CoreInv
  <1>4. Passes(opt.mode) \in Nat /\ pass \in Nat /\ offset_lba \in Nat /\ nsectors \in Nat
    <2>1. Passes(opt.mode) \in 1 .. 4
      BY <1>3, OptFacts, PassesFacts
    <2> QED BY <1>3, <2>1 DEF TypeOK
  <1>5. ASSUME WipePass
        PROVE  Len(hist'[d][s]) >= Passes(opt.mode)
    <2>1. pass < Passes(opt.mode)
      BY <1>1 DEF CoreInv, LoopInv
    <2>2. pass + 1 >= Passes(opt.mode)
      <3> SUFFICES ASSUME pass + 1 < Passes(opt.mode) PROVE FALSE
        BY <1>4
      <3>1. pc' = pc
        BY <1>5, WipePassFacts
      <3> QED BY <1>1, <3>1
    <2>3. /\ s \in Nat
          /\ Written(opt.mode, param.has_ext, hist'[d][s],
                     IF s < offset_lba THEN Passes(opt.mode)
                     ELSE IF s < offset_lba + nsectors THEN pass + 1 ELSE 0)
      BY <1>5, PassOnMedia
    <2>4. Len(hist'[d][s]) = Passes(opt.mode) \/ Len(hist'[d][s]) = pass + 1
      BY <2>3, <1>4 DEF Written
    <2> QED BY <1>4, <2>1, <2>2, <2>4
  <1>6. ASSUME NoChsAddress
        PROVE  Len(hist'[d][s]) >= Passes(opt.mode)
    <2>1. Transfer(d, 0, 0, Request, buffer)
      BY <1>6 DEF NoChsAddress
    <2>2. d \in DOMAIN machine
      BY <1>3, ActiveParam
    <2>3. DOMAIN hist'[d] = DOMAIN hist[d]
      BY <1>3, <2>1, <2>2, TransferFacts
    <2>4. s \in Nat /\ s \in DOMAIN hist[d]
      BY <1>3, <2>3, CurrentMedia
    <2>5. ~(0 <= s /\ s < 0 + 0)
      BY <2>4
    <2>6. /\ hist'[d][s] = hist[d][s]
          /\ s \notin bad[d] /\ s \notin Request
      <3> HIDE DEF d
      <3> QED BY <1>3, <2>1, <2>2, <2>4, <2>5, TransferFacts
    <2>7. s < offset_lba
      BY <1>4, <2>6, <2>4 DEF Request
    <2>8. PassesOn(s) = Passes(opt.mode)
      BY <2>7 DEF PassesOn
    <2>9. Written(opt.mode, param.has_ext, hist[d][s], Passes(opt.mode))
      BY <1>3, <2>6, <2>4, <2>8, Zenon DEF CurrentInv
    <2> QED BY <1>4, <2>6, <2>9 DEF Written
  <1>7. ~TestRead
    BY DEF TestRead
  <1> QED BY <1>5, <1>6, <1>7 DEF wipe_sectors_lba

LEMMA LoopRequestStep ==
  ASSUME CoreInv, CoreInv', CurrentInv, BarInv, [Next]_vars, LoopRequest
  PROVE  BarInv'
  <1>1. /\ pc = "wipe_sectors" /\ index' = index /\ total_sec' = total_sec
        /\ pc' \in {"loop", "count"} /\ offset_lba' = offset_lba + nsectors
    BY RequestMoves DEF LoopRequest
  <1>2. /\ total_sec \in Nat /\ offset_lba \in Nat /\ index \in Nat
        /\ nsectors \in Nat \ {0} /\ nsectors = Chunk /\ offset_lba + nsectors <= total_sec
    BY <1>1, BarNumbers, RequestFacts DEF LoopRequest
  <1>3. WIPE_BUFFER_SIZE = 512 * nsectors /\ WIPE_BUFFER_SIZE \in Nat
    BY <1>2, ChunkFacts
  <1>4. BarType /\ BarTracks
    BY <1>1 DEF BarInv
  <1>5. /\ progress \in [total_bytes : Nat \ {0}, done_bytes : Nat,
                         saved_pro_width : Nat, reset : BOOLEAN]
        /\ progress.done_bytes <= progress.total_bytes
    BY <1>4 DEF BarType
  <1>6. /\ progress.total_bytes = total_sec * 512 /\ progress.done_bytes = offset_lba * 512
        /\ shown.disk = index /\ shown.width = progress.saved_pro_width
    BY <1>2, <1>4 DEF BarTracks
  <1>7. AddBytes(progress, WIPE_BUFFER_SIZE) = (offset_lba + nsectors) * 512
    BY <1>2, <1>3, <1>6 DEF AddBytes
  <1>8. update_progress(progress, WIPE_BUFFER_SIZE)
    BY DEF LoopRequest
  <1>9. /\ BarType'
        /\ progress'.total_bytes = total_sec * 512
        /\ progress'.done_bytes = (offset_lba + nsectors) * 512
        /\ progress'.reset /\ shown'.disk = index
        /\ progress'.saved_pro_width = shown'.width
        /\ shown'.width = pro_width(progress)'
    BY <1>2, <1>3, <1>4, <1>5, <1>6, <1>7, <1>8, UpdateFacts
  <1>10. ASSUME pc' = "loop" PROVE BarTracks'
    BY <1>1, <1>2, <1>9 DEF BarTracks
  <1>11. ASSUME pc' = "count", shown'.width = line_width PROVE WholeDisk'
    <2> DEFINE d == (offset_lba + nsectors) * 512
               t == total_sec * 512
    <2>1. d \in Nat /\ t \in Nat \ {0} /\ d <= t
      BY <1>2
    <2>2. (d * line_width) \div t = line_width
      BY <1>9, <1>11 DEF pro_width
    <2>3. d = t
      <3> HIDE DEF d, t
      <3>1. (d * line_width) \div t = line_width <=> d = t
        BY <2>1, FullWidth, LineAssumption
      <3> QED BY <2>2, <3>1, Zenon
    <2>4. offset_lba + nsectors = total_sec
      BY <1>2, <2>3
    <2> QED BY <1>11, <2>4, WholeAtEnd DEF LoopRequest
  <1> QED BY <1>1, <1>2, <1>9, <1>10, <1>11 DEF BarInv

\* The update after the loop fills the bar.
LEMMA LastUpdateStep ==
  ASSUME CoreInv, CoreInv', BarInv, LastUpdate
  PROVE  BarInv'
  <1>1. /\ pc \in {"loop", "wipe_sectors"} /\ pc' = "write_mbr"
        /\ index' = index /\ total_sec' = total_sec
    <2>1. CASE wipe_sectors_lba
      BY <2>1, RequestMoves DEF LastUpdate
    <2>2. CASE NoRequestLeft
      BY <2>2 DEF LastUpdate, NoRequestLeft, countVars, wipeVars
    <2> QED BY <2>1, <2>2 DEF LastUpdate
  <1>2. /\ total_sec \in Nat /\ offset_lba \in Nat /\ index \in Nat /\ offset_lba <= total_sec
        /\ sector_size = 512 /\ left_sec = total_sec - offset_lba
    BY <1>1, BarNumbers
  <1>3. BarType /\ BarTracks
    BY <1>1 DEF BarInv
  <1>4. /\ progress \in [total_bytes : Nat \ {0}, done_bytes : Nat,
                         saved_pro_width : Nat, reset : BOOLEAN]
        /\ progress.done_bytes <= progress.total_bytes
    BY <1>3 DEF BarType
  <1>5. /\ progress.total_bytes = (IF total_sec = 0 THEN 1 ELSE total_sec * 512)
        /\ progress.done_bytes = offset_lba * 512
        /\ shown.disk = index /\ shown.width = progress.saved_pro_width
    BY <1>3 DEF BarTracks
  <1> DEFINE bytes == left_sec * sector_size
  <1>6. bytes \in Nat /\ bytes = (total_sec - offset_lba) * 512
    BY <1>2
  <1>7. update_progress(progress, bytes)
    BY DEF LastUpdate
  <1> HIDE DEF bytes
  <1>8. /\ BarType'
        /\ progress'.total_bytes = progress.total_bytes
        /\ progress'.done_bytes = AddBytes(progress, bytes)
        /\ shown'.disk = index
        /\ shown'.width = pro_width(progress)'
    BY <1>2, <1>3, <1>4, <1>5, <1>6, <1>7, UpdateFacts
  <1>9. ASSUME total_sec > 0 PROVE shown'.width = line_width
    <2> DEFINE t == total_sec * 512
    <2>1. t \in Nat \ {0} /\ progress.total_bytes = t
      BY <1>2, <1>5, <1>9
    <2>2. AddBytes(progress, bytes) = t
      BY <1>2, <1>5, <1>6, <1>9 DEF AddBytes
    <2>3. shown'.width = (t * line_width) \div t
      BY <1>8, <2>1, <2>2 DEF pro_width
    <2> HIDE DEF t
    <2>4. (t * line_width) \div t = line_width
      BY <2>1, FullWidth, LineAssumption
    <2> QED BY <2>3, <2>4, Zenon
  <1> QED BY <1>1, <1>2, <1>8, <1>9 DEF BarInv

LEMMA NoUpdateStep ==
  ASSUME CoreInv, CoreInv', BarInv, NoUpdate
  PROVE  BarInv'
  <1>1. /\ pc = "wipe_sectors" /\ index' = index /\ total_sec' = total_sec
        /\ progress' = progress /\ shown' = shown
        /\ \/ pc' = "wipe_sectors" /\ offset_lba' = offset_lba
           \/ pc' = "count" /\ ~InLoop
    BY RequestMoves DEF NoUpdate, barVars
  <1>2. BarType /\ BarTracks
    BY <1>1 DEF BarInv
  <1>3. BarType'
    BY <1>1, <1>2 DEF BarType
  <1>4. ASSUME pc' = "wipe_sectors" PROVE BarTracks'
    <2>1. pro_width(progress)' = pro_width(progress)
      BY <1>1 DEF pro_width
    <2> QED BY <1>1, <1>2, <1>4, <2>1 DEF BarTracks
  <1>5. shown.width # line_width
    <2>1. offset_lba + nsectors <= total_sec /\ nsectors \in Nat \ {0} /\ offset_lba \in Nat
      BY <1>1, RequestFacts, BarNumbers
    <2> QED BY <1>1, <1>2, <2>1, FullIsThrough
  <1> QED BY <1>1, <1>3, <1>4, <1>5 DEF BarInv

LEMMA ElsewhereStep ==
  ASSUME CoreInv, CoreInv', CurrentInv, BarInv, [Next]_vars, Elsewhere
  PROVE  BarInv'
  <1>1. progress' = progress /\ shown' = shown
    BY DEF Elsewhere, barVars
  <1>2. BarType' /\ index \in Nat
    BY <1>1 DEF BarInv, BarType, CoreInv, TypeOK
  <1>3. shown.disk \in Nat
    BY DEF BarInv, BarType
  <1>4. CASE EnumNone \/ EnumDone \/ \E has_ext \in BOOLEAN : EnumFound(has_ext)
    <2>1. pc = "enum_disk" /\ index' = index /\ pc' \in {"enum_disk", "wipe_disk", "reboot"}
      BY <1>4 DEF EnumNone, EnumDone, EnumFound, countVars
    <2> QED BY <1>1, <1>2, <1>3, <2>1 DEF BarInv
  <1>5. CASE SkipCdrom \/ ReadMbr \/ ScanEntry \/ MallocFails
    <2>1. /\ pc \in {"wipe_disk", "scan_entry", "malloc"} /\ index' = index
          /\ pc' \in {"wipe_disk", "scan_entry", "malloc", "count"}
      <3>1. CASE SkipCdrom \/ MallocFails
        BY <3>1 DEF SkipCdrom, MallocFails, countVars
      <3>2. CASE ReadMbr
        <4>1. pc = "wipe_disk" /\ index' = index /\ (\E b : pc' = IF b THEN "malloc" ELSE "scan_entry")
          BY <3>2, Zenon DEF ReadMbr, countVars
        <4> QED BY <4>1
      <3>3. CASE ScanEntry
        <4>1. /\ pc = "scan_entry" /\ index' = index
              /\ \E b : pc' = IF b THEN "count" ELSE IF entry = 4 THEN "malloc" ELSE pc
          BY <3>3, Zenon DEF ScanEntry, countVars
        <4> QED BY <4>1
      <3> QED BY <1>5, <3>1, <3>2, <3>3
    <2> QED BY <1>1, <1>2, <1>3, <2>1 DEF BarInv
  <1>6. CASE NextRequest
    <2>1. /\ pc = "loop" /\ pc' = "wipe_sectors" /\ index' = index
          /\ total_sec' = total_sec /\ offset_lba' = offset_lba
      BY <1>6 DEF NextRequest, countVars
    <2>2. BarTracks
      BY <2>1 DEF BarInv
    <2>3. pro_width(progress)' = pro_width(progress)
      BY <1>1 DEF pro_width
    <2>4. BarTracks'
      BY <1>1, <2>1, <2>2, <2>3 DEF BarTracks
    <2> QED BY <1>1, <1>2, <2>1, <2>4 DEF BarInv
  <1>7. CASE WriteMbr \/ NoMbr
    <2>1. /\ pc = "write_mbr" /\ pc' = "count" /\ index' = index /\ total_sec' = total_sec
      BY <1>7, Zenon DEF WriteMbr, NoMbr, countVars, wipeVars
    <2>2. param' = param /\ opt' = opt
      BY <2>1, SameParam
    <2>3. total_sec = TotalSectors
      BY <2>1 DEF CoreInv, LoopInv, Wiping
    <2>4. WholeDisk'
      <3> DEFINE d == param.disk_id
      <3> SUFFICES ASSUME ~opt.test, NEW s \in DOMAIN hist'[d], s < total_sec, s \notin bad'[d]
                   PROVE  Len(hist'[d][s]) >= Passes(opt.mode)
        BY <2>1, <2>2 DEF WholeDisk
      <3>1. FinishedDisk(param, opt, hist'[d], bad'[d])
        BY <1>7, WipeEnds
      <3>2. Overwritten(opt.mode, param.has_ext, opt.mbr, s, hist'[d][s])
        BY <2>3, <3>1 DEF FinishedDisk, TotalSectors
      <3>3. Passes(opt.mode) \in 1 .. 4
        BY OptFacts, PassesFacts DEF CoreInv
      <3> QED BY <3>2, <3>3 DEF Overwritten
    <2> QED BY <1>1, <1>2, <2>1, <2>4 DEF BarInv
  <1>8. CASE Count
    <2>1. pc = "count" /\ index' = index + 1 /\ pc' \in {"wipe_disk", "reboot"}
      BY <1>8 DEF Count
    <2> QED BY <1>1, <1>2, <1>3, <2>1 DEF BarInv
  <1> QED BY <1>4, <1>5, <1>6, <1>7, <1>8 DEF Elsewhere

LEMMA BarStep ==
  ASSUME WipeInv, WipeInv', BarInv, [BarNext]_<<vars, barVars>>
  PROVE  BarInv'
  <1>1. CoreInv /\ CoreInv' /\ CurrentInv /\ [Next]_vars
    BY BarStepsAreSteps DEF WipeInv, CoreInv
  <1>2. CASE BarNext
    BY <1>1, <1>2, BeginBarStep, LoopRequestStep, LastUpdateStep, NoUpdateStep, ElsewhereStep
    DEF BarNext
  <1>3. CASE UNCHANGED <<vars, barVars>>
    <2>1. UNCHANGED <<progress, shown, pc, index, total_sec, offset_lba, opt, disk_list, hist, bad>>
      BY <1>3 DEF vars, barVars, enumVars, wipeVars, countVars, mediaVars
    <2>2. pro_width(progress)' = pro_width(progress) /\ param' = param
      BY <2>1 DEF pro_width, param
    <2>3. (BarType' <=> BarType) /\ (BarTracks' <=> BarTracks) /\ (WholeDisk' <=> WholeDisk)
      BY <2>1, <2>2 DEF BarType, BarTracks, WholeDisk
    <2> QED BY <2>1, <2>3 DEF BarInv
  <1> QED BY <1>2, <1>3

LEMMA BarInvariant == BarSpec => []WipeInv /\ []BarInv
  <1>1. BarSpec => Spec
    BY BarStepsAreSteps, PTL DEF BarSpec, Spec
  <1>2. BarSpec => []WipeInv
    BY <1>1, WipeInvariant, PTL
  <1>3. Init /\ BarInit => BarInv
    <2> SUFFICES ASSUME Init, BarInit PROVE BarInv
      OBVIOUS
    <2>1. pc = "enum_disk" /\ index = 1
      BY DEF Init
    <2>2. BarType /\ shown.disk = 0
      BY LineAssumption DEF BarInit, BarType
    <2> QED BY <2>1, <2>2 DEF BarInv
  <1> QED BY <1>2, <1>3, BarStep, PTL DEF BarSpec

(***************************************************************************)
(* The bar is the present disk's and as long as the share of the disk gone *)
(* through, for a line of any width and disks of any size (dwipe.c         *)
(* update_progress, wipe_disk).                                            *)
(***************************************************************************)
THEOREM BarStaysCurrent == BarSpec => []BarIsCurrent
  <1>1. WipeInv /\ BarInv => BarIsCurrent
    <2> SUFFICES ASSUME WipeInv, BarInv, pc \in {"loop", "wipe_sectors"}
                 PROVE  /\ shown.disk = index
                        /\ total_sec > 0 => shown.width = (offset_lba * line_width) \div total_sec
      BY DEF BarIsCurrent
    <2>1. CoreInv /\ BarTracks
      BY DEF WipeInv, CoreInv, BarInv
    <2>2. total_sec \in Nat /\ offset_lba \in Nat
      BY <2>1, BarNumbers
    <2>3. ASSUME total_sec > 0
          PROVE  shown.width = (offset_lba * line_width) \div total_sec
      <3>1. shown.width = ((offset_lba * 512) * line_width) \div (total_sec * 512)
        BY <2>1, <2>2, <2>3 DEF BarTracks, pro_width
      <3>2. total_sec \in Nat \ {0}
        BY <2>2, <2>3
      <3>3. ((offset_lba * 512) * line_width) \div (total_sec * 512)
              = (offset_lba * line_width) \div total_sec
        BY <2>2, <3>2, ScaledWidth, LineAssumption
      <3> QED BY <3>1, <3>3, Zenon
    <2> QED BY <2>1, <2>3 DEF BarTracks
  <1> QED BY <1>1, BarInvariant, PTL

(***************************************************************************)
(* A full bar says 100% and means that every sector set out for has had    *)
(* its passes, but for those a failed or short transfer left out; and the  *)
(* bar of a disk gone through is full (dwipe.c update_progress, wipe_disk).*)
(***************************************************************************)
THEOREM FullBarMeansWhole == BarSpec => []FullMeansWhole
  <1>1. WipeInv /\ BarInv => FullMeansWhole
    <2> SUFFICES ASSUME WipeInv, BarInv PROVE FullMeansWhole
      OBVIOUS
    <2>1. CoreInv /\ CurrentInv /\ TypeOK /\ BarType
      BY DEF WipeInv, CoreInv, BarInv
    <2>2. pc = "write_mbr" /\ total_sec > 0 => shown.disk = index /\ shown.width = line_width
      BY DEF BarInv
    <2>3. shown.width = line_width => shown.percent = 100
      BY <2>1 DEF BarType
    <2>4. ASSUME shown.width = line_width, shown.disk = index PROVE WholeDisk
      <3>1. CASE pc \in {"loop", "wipe_sectors", "write_mbr"}
        <4> SUFFICES ASSUME ~opt.test, NEW s \in DOMAIN hist[param.disk_id],
                            s < total_sec, s \notin bad[param.disk_id]
                     PROVE  Len(hist[param.disk_id][s]) >= Passes(opt.mode)
          BY DEF WholeDisk
        <4>1. s < offset_lba \/ pc = "write_mbr"
          <5> SUFFICES ASSUME pc \in {"loop", "wipe_sectors"} PROVE s < offset_lba
            BY <3>1
          <5>1. BarTracks
            BY DEF BarInv
          <5>2. offset_lba = total_sec
            BY <2>1, <2>4, <5>1, FullIsThrough
          <5> QED BY <5>2
        <4>2. PassesOn(s) = Passes(opt.mode)
          BY <4>1 DEF PassesOn
        <4>3. Written(opt.mode, param.has_ext, hist[param.disk_id][s], Passes(opt.mode))
          BY <2>1, <3>1, <4>2 DEF CurrentInv, Wiping
        <4>4. Passes(opt.mode) \in 1 .. 4
          BY <2>1, OptFacts, PassesFacts
        <4> QED BY <4>3, <4>4 DEF Written
      <3>2. CASE pc = "count"
        BY <2>4, <3>2 DEF BarInv
      <3>3. CASE pc \in {"enum_disk", "wipe_disk", "scan_entry", "malloc", "reboot"}
        <4>1. shown.disk < index /\ index \in Nat
          BY <2>1, <3>3 DEF BarInv, TypeOK
        <4> QED BY <2>4, <4>1
      <3> QED BY <2>1, <3>1, <3>2, <3>3 DEF TypeOK
    <2> QED BY <2>2, <2>3, <2>4 DEF FullMeansWhole, WholeDisk
  <1> QED BY <1>1, BarInvariant, PTL
=============================================================================
