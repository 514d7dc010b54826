----------------------------- MODULE DwipeProofs ----------------------------
(***************************************************************************)
(* Proof that do_main (module Dwipe) preserves the invariant of module     *)
(* DwipeInv, for any machine, any options, any buffer size that is a       *)
(* multiple of 512, and any number of device faults; and what it does to   *)
(* the media: NoStrayWrite, TestModeReadOnly and WipedInFull.              *)
(***************************************************************************)
EXTENDS DwipeInv, GeometryProofs, SequenceTheorems

\* The part of the invariant that does not speak of the media.
CoreInv == TypeOK /\ ListInv /\ IndexInv /\ LoopInv

-----------------------------------------------------------------------------
(* Facts about the buffer and the entry being worked on.                   *)

LEMMA ChunkFacts ==
  /\ Chunk \in Nat \ {0}
  /\ WIPE_BUFFER_SIZE = 512 * Chunk
  /\ Chunk <= BIOS_MAX_SECTOR_CNT
  BY BufferAssumption DEF Chunk, MAX_SECTOR_BUFFER_SIZE, BIOS_MAX_SECTOR_CNT

LEMMA CapacityNat ==
  ASSUME NEW h \in Hardware
  PROVE  Capacity(h) \in Nat /\ chs_capacity(h) \in Nat
  <1> DEFINE a == h.last_heads + 1
             b == h.last_cylinders + 1
             c == h.last_sectors_per_track
  <1>1. a \in Nat /\ b \in Nat /\ c \in Nat /\ h.nsectors \in Nat
    BY LimitsAssumption DEF Hardware
  <1>2. chs_capacity(h) = a * b * c
    BY DEF chs_capacity
  <1> HIDE DEF a, b, c
  <1>3. a * b * c \in Nat
    BY <1>1
  <1> QED BY <1>1, <1>2, <1>3 DEF Capacity

LEMMA MachineFacts ==
  ASSUME TypeOK, NEW d \in DOMAIN machine
  PROVE  machine[d] \in Hardware /\ d \in Nat
  <1>1. machine \in Machines
    BY DEF TypeOK
  <1>2. machine \in [DOMAIN machine -> Hardware] /\ DOMAIN machine \subseteq FirstId .. LastId
    BY <1>1, MachinesAssumption
  <1>3. machine[d] \in Hardware
    BY <1>2
  <1>4. d \in FirstId .. LastId
    BY <1>2
  <1> QED BY <1>3, <1>4, IdAssumption

LEMMA ActiveParam ==
  ASSUME CoreInv, Active
  PROVE  /\ index \in 1 .. Len(disk_list)
         /\ param \in disk_param
         /\ Describes(param)
         /\ hw \in Hardware
         /\ param.disk_id \in DOMAIN machine
         /\ hw = machine[param.disk_id]
  <1>1. index \in 1 .. Len(disk_list)
    BY DEF CoreInv, TypeOK, IndexInv
  <1>2. param \in disk_param /\ Describes(param)
    BY <1>1 DEF CoreInv, TypeOK, ListInv, param
  <1>3. param.disk_id \in DOMAIN machine
    BY <1>2 DEF Describes
  <1>4. hw = machine[param.disk_id]
    BY DEF hw
  <1> QED BY <1>1, <1>2, <1>3, <1>4, MachineFacts DEF CoreInv

LEMMA ParamCapacity ==
  ASSUME NEW p \in disk_param
  PROVE  chs_capacity(p) \in Nat
  <1> DEFINE a == p.last_heads + 1
             b == p.last_cylinders + 1
             c == p.last_sectors_per_track
  <1>1. a \in Nat /\ b \in Nat /\ c \in Nat
    BY LimitsAssumption DEF disk_param
  <1>2. chs_capacity(p) = a * b * c
    BY DEF chs_capacity
  <1> HIDE DEF a, b, c
  <1>3. a * b * c \in Nat
    BY <1>1
  <1> QED BY <1>2, <1>3

LEMMA TotalNat ==
  ASSUME CoreInv, Active
  PROVE  TotalSectors \in Nat
  BY ActiveParam, ParamCapacity DEF TotalSectors, disk_param

\* Outside the CD-ROM case sectors have 512 bytes.
LEMMA SectorSize ==
  ASSUME CoreInv, Active, ~is_cdrom(param)
  PROVE  sector_size = 512 /\ BufferSectors = Chunk
  BY ActiveParam DEF is_cdrom, sector_size, BufferSectors, Chunk

(***************************************************************************)
(* The loop condition, in bytes in the code, says that one more whole      *)
(* buffer fits.                                                            *)
(***************************************************************************)
LEMMA LoopArithmetic ==
  ASSUME NEW b \in Nat \ {0}, NEW o \in Nat, NEW t \in Nat, o % b = 0
  PROVE  o \div b < (t * 512) \div (512 * b) <=> o + b <= t
  <1> DEFINE i == o \div b
             q == t \div b
             r == t % b
  <1>1. i \in Nat /\ o = b * i
    BY DivMod
  <1>2. q \in Nat /\ r \in 0 .. b - 1 /\ t = b * q + r
    BY DivMod
  <1>3. (t * 512) \div (512 * b) = ((t * 512) \div 512) \div b
    BY DivDiv
  <1>4. (t * 512) \div 512 = t
    OBVIOUS
  <1>5. (t * 512) \div (512 * b) = q
    BY <1>3, <1>4
  <1> HIDE DEF i, q, r
  <1>6. ASSUME i < q PROVE o + b <= t
    <2>1. b * (i + 1) <= b * q
      BY <1>6, <1>1, <1>2
    <2>2. b * (i + 1) = o + b
      BY <1>1
    <2> QED BY <2>1, <2>2, <1>1, <1>2
  <1>7. ASSUME o + b <= t PROVE i < q
    <2>1. SUFFICES ASSUME q <= i PROVE FALSE
      BY <1>1, <1>2
    <2>2. b * q <= b * i
      BY <2>1, <1>1, <1>2
    <2> QED BY <2>2, <1>7, <1>1, <1>2
  <1> QED BY <1>5, <1>6, <1>7 DEF i

LEMMA LoopCondition ==
  ASSUME CoreInv, Wiping
  PROVE  InLoop <=> offset_lba + Chunk <= total_sec
  <1>1. Active /\ ~is_cdrom(param)
    BY DEF Active, CoreInv, LoopInv
  <1>2. sector_size = 512 /\ BufferSectors = Chunk
    BY <1>1, SectorSize
  <1>3. offset_lba \in Nat /\ total_sec \in Nat /\ offset_lba % Chunk = 0
    BY DEF CoreInv, TypeOK, LoopInv
  <1>4. InLoop <=> offset_lba \div Chunk < (total_sec * 512) \div (512 * Chunk)
    BY <1>2, ChunkFacts DEF InLoop
  <1> QED BY <1>3, <1>4, ChunkFacts, LoopArithmetic

-----------------------------------------------------------------------------
(* The core of the invariant: types, the list, the index, the loop.        *)

LEMMA InitCore == Init => CoreInv
  <1> SUFFICES ASSUME Init PROVE CoreInv
    OBVIOUS
  <1>1. machine \in Machines /\ opt \in Options
    BY DEF Init
  <1>2. hist = [d \in DOMAIN machine |-> [s \in 0 .. Capacity(machine[d]) - 1 |-> <<>>]]
    BY DEF Init
  <1>3. <<>> \in Seq(Patterns) /\ <<>> \in Seq(disk_param) /\ <<>> \in Seq(Int)
    OBVIOUS
  <1>4. DOMAIN hist = DOMAIN machine
    BY <1>2
  <1>5. \A d \in DOMAIN machine :
          hist[d] \in [0 .. Capacity(machine[d]) - 1 -> Seq(Patterns)]
    BY <1>2, <1>3
  <1>6. bad \in [DOMAIN machine -> SUBSET Nat]
    BY DEF Init
  <1>7. TypeOK
    BY <1>1, <1>3, <1>4, <1>5, <1>6, IdAssumption, FaultsAssumption
       DEF Init, TypeOK, Patterns
  <1>8. ListInv /\ IndexInv /\ LoopInv
    BY DEF Init, ListInv, IndexInv, LoopInv, Active, Wiping
  <1> QED BY <1>7, <1>8 DEF CoreInv

\* A transfer keeps the types of the media.
LEMMA TransferTypes ==
  ASSUME TypeOK, NEW d \in DOMAIN machine, NEW first, NEW cnt, NEW request, NEW p \in Patterns,
         request \subseteq Nat, Transfer(d, first, cnt, request, p)
  PROVE  /\ DOMAIN hist' = DOMAIN machine
         /\ \A e \in DOMAIN machine :
              hist'[e] \in [0 .. Capacity(machine[e]) - 1 -> Seq(Patterns)]
         /\ bad' \in [DOMAIN machine -> SUBSET Nat]
  <1> DEFINE wrote == (first .. first + cnt - 1) \cap DOMAIN hist[d]
             new == [s \in DOMAIN hist[d] |->
                       IF s \in wrote THEN Append(hist[d][s], p) ELSE hist[d][s]]
  <1>1. hist' = [hist EXCEPT ![d] = new] /\ bad' = [bad EXCEPT ![d] = @ \cup (request \ wrote)]
    BY DEF Transfer
  <1>2. DOMAIN hist = DOMAIN machine /\ hist[d] \in [0 .. Capacity(machine[d]) - 1 -> Seq(Patterns)]
    BY DEF TypeOK
  <1>3. new \in [0 .. Capacity(machine[d]) - 1 -> Seq(Patterns)]
    BY <1>2
  <1> HIDE DEF new, wrote
  <1>4. DOMAIN hist' = DOMAIN machine
    BY <1>1, <1>2
  <1>5. \A e \in DOMAIN machine :
          hist'[e] \in [0 .. Capacity(machine[e]) - 1 -> Seq(Patterns)]
    BY <1>1, <1>2, <1>3 DEF TypeOK
  <1>6. bad' \in [DOMAIN machine -> SUBSET Nat]
    BY <1>1 DEF TypeOK
  <1> QED BY <1>4, <1>5, <1>6

LEMMA CodesNat ==
  ASSUME NEW x \in ErrCodes \cup {0}
  PROVE  x \in Nat
  BY ErrCodesAssumption

\* What an answer to a transfer or to a verification looks like.
LEMMA AnswerFacts ==
  ASSUME NEW cap, NEW first, NEW n \in Nat, NEW lba, NEW a \in TransferAnswers(cap, first, n, lba)
  PROVE  /\ a.ah \in Nat /\ a.cnt \in 0 .. n /\ a.cf \in BOOLEAN
         /\ a.cf <=> a.ah # 0
         /\ a.cnt # 0 => first + a.cnt <= cap
  <1>1. a \in [cf : BOOLEAN, ah : ErrCodes \cup {0}, cnt : 0 .. n]
    BY DEF TransferAnswers
  <1>2. (a.cf <=> a.ah # 0) /\ (a.cnt # 0 => first + a.cnt <= cap)
    BY Zenon DEF TransferAnswers
  <1>3. a.cnt \in 0 .. n /\ a.cf \in BOOLEAN
    BY <1>1, Zenon
  <1>4. a.ah \in Nat
    <2>1. a.ah \in ErrCodes \cup {0}
      BY <1>1, Zenon
    <2> QED BY <2>1, CodesNat, Zenon
  <1> QED BY <1>2, <1>3, <1>4, Zenon

LEMMA VerifyFacts ==
  ASSUME NEW v \in VerifyAnswers
  PROVE  v.ah \in Nat /\ v.cf \in BOOLEAN
  <1>1. v \in [cf : BOOLEAN, ah : ErrCodes \cup {0}]
    BY DEF VerifyAnswers
  <1>2. v.cf \in BOOLEAN
    BY <1>1, Zenon
  <1>3. v.ah \in Nat
    <2>1. v.ah \in ErrCodes \cup {0}
      BY <1>1, Zenon
    <2> QED BY <2>1, CodesNat, Zenon
  <1> QED BY <1>2, <1>3, Zenon

\* The values of the transfer functions are -1, 0 or an AH code.
LEMMA ReturnTypes ==
  ASSUME NEW a, a.ah \in Nat, NEW v, v.ah \in Nat,
         NEW p, NEW c, NEW h, NEW s, NEW n, NEW size, NEW check, NEW w, NEW off
  PROVE  /\ sector_chs_write_ret(p, c, h, s, n, size, check, a, v) \in Int
         /\ sector_chs_write_ret(p, c, h, s, n, size, check, a, v) >= -1
         /\ sector_chs_read_ret(p, c, h, s, n, size, a) \in Int
         /\ sector_chs_read_ret(p, c, h, s, n, size, a) >= -1
         /\ sectors_lba_rw_ret(w, p, off, n, size, a) \in Int
         /\ sectors_lba_rw_ret(w, p, off, n, size, a) >= -1
  <1>1. sector_chs_write_ret(p, c, h, s, n, size, check, a, v) \in {-1, 0, a.ah, v.ah}
    BY Zenon DEF sector_chs_write_ret
  <1>2. sector_chs_read_ret(p, c, h, s, n, size, a) \in {-1, a.ah}
    BY Zenon DEF sector_chs_read_ret
  <1>3. sectors_lba_rw_ret(w, p, off, n, size, a) \in {-1, a.ah}
    BY Zenon DEF sectors_lba_rw_ret
  <1> QED BY <1>1, <1>2, <1>3, SMT

LEMMA ListKept ==
  ASSUME ListInv, UNCHANGED <<machine, disk_list, id>>, blind \subseteq blind'
  PROVE  ListInv'
  BY DEF ListInv, Describes

LEMMA FillTypes ==
  ASSUME NEW mode \in Modes, NEW e, NEW i, NEW b \in Patterns
  PROVE  Fill(mode, e, i, b) \in Patterns
  BY DEF Modes, Fill, Patterns

LEMMA PassesFacts ==
  ASSUME NEW mode \in Modes
  PROVE  Passes(mode) \in 1 .. 4
  BY DEF Modes, Passes

LEMMA OptFacts ==
  ASSUME TypeOK
  PROVE  opt.mode \in Modes /\ opt.test \in BOOLEAN
  BY OptionsAssumption DEF TypeOK, options_t

\* The whole request is on the way, and the next offset is again a multiple
\* of the buffer.
LEMMA RequestFacts ==
  ASSUME CoreInv, pc = "wipe_sectors"
  PROVE  /\ nsectors \in Nat \ {0}
         /\ nsectors <= Chunk
         /\ offset_lba + nsectors <= total_sec
         /\ InLoop => nsectors = Chunk
         /\ ~InLoop => offset_lba + nsectors = total_sec
         /\ (offset_lba + Chunk) % Chunk = 0
  <1>1. InLoop <=> offset_lba + Chunk <= total_sec
    BY LoopCondition DEF Wiping
  <1>2. /\ offset_lba \in Nat /\ total_sec \in Nat /\ offset_lba <= total_sec
        /\ nsectors = (IF offset_lba + Chunk <= total_sec THEN Chunk ELSE left_sec)
        /\ nsectors >= 1 /\ nsectors \in Nat
        /\ offset_lba % Chunk = 0
    BY DEF CoreInv, TypeOK, LoopInv, Wiping
  <1>3. Chunk \in Nat \ {0}
    BY ChunkFacts
  <1>4. (offset_lba + Chunk) % Chunk = 0
    <2>1. offset_lba \div Chunk \in Nat /\ offset_lba = Chunk * (offset_lba \div Chunk)
      BY <1>2, <1>3, DivMod
    <2>2. PICK i \in Nat : offset_lba = Chunk * i
      BY <2>1
    <2>3. offset_lba + Chunk = Chunk * (i + 1) + 0
      BY <2>2, <1>3
    <2>4. i + 1 \in Nat /\ 0 \in 0 .. Chunk - 1 /\ offset_lba + Chunk \in Nat
      BY <1>2, <1>3
    <2> DEFINE x == offset_lba + Chunk
               j == i + 1
    <2>5. x \in Nat /\ j \in Nat /\ x = Chunk * j + 0
      BY <2>3, <2>4
    <2> HIDE DEF x, j
    <2>6. x % Chunk = 0
      BY <2>4, <2>5, <1>3, DivUnique
    <2> QED BY <2>6 DEF x
  <1> QED BY <1>1, <1>2, <1>3, <1>4 DEF left_sec

\* wipe_disk's reaction to the value of a request keeps the core invariant.
LEMMA EndRequestCore ==
  ASSUME CoreInv, pc = "wipe_sectors", NEW value \in Int, value >= -1, EndRequest(value),
         UNCHANGED <<machine, opt, enumVars, entry, total_sec, nsectors, countVars, blind>>,
         buffer' \in Patterns, faults' \in 0 .. MaxFaults,
         DOMAIN hist' = DOMAIN machine,
         \A e \in DOMAIN machine :
              hist'[e] \in [0 .. Capacity(machine[e]) - 1 -> Seq(Patterns)],
         bad' \in [DOMAIN machine -> SUBSET Nat]
  PROVE  CoreInv'
  <1>1. /\ nsectors \in Nat \ {0}
        /\ InLoop => nsectors = Chunk
        /\ offset_lba + nsectors <= total_sec
        /\ (offset_lba + Chunk) % Chunk = 0
    BY RequestFacts
  <1>2. offset_lba' \in Nat /\ offset_lba' <= total_sec /\ offset_lba' % Chunk = 0
    <2>1. /\ offset_lba \in Nat /\ offset_lba <= total_sec /\ offset_lba % Chunk = 0
          /\ total_sec \in Nat
      BY DEF CoreInv, TypeOK, LoopInv, Wiping
    <2>2. CASE InLoop
      <3>1. offset_lba' = offset_lba + Chunk
        BY <2>2, <1>1 DEF EndRequest
      <3> QED BY <3>1, <2>1, <2>2, <1>1
    <2>3. CASE ~InLoop
      <3>1. offset_lba' = offset_lba
        BY <2>3 DEF EndRequest
      <3> QED BY <3>1, <2>1
    <2> QED BY <2>2, <2>3
  <1>3. TypeOK'
    <2>1. /\ ret' = value /\ pass' = 0 /\ pc' \in {"count", "loop", "write_mbr"}
      BY DEF EndRequest
    <2>2. /\ UNCHANGED <<machine, opt, id, disk_list, total_disk_cnt, entry, total_sec, nsectors,
                          index, done_disk_cnt, error_disk_cnt, skiped_disk_cnt, verdict, blind>>
      BY DEF enumVars, countVars
    <2>3. TypeOK
      BY DEF CoreInv
    <2> QED BY <1>2, <2>1, <2>2, <2>3 DEF TypeOK
  <1>4. ListInv'
    BY ListKept DEF CoreInv, enumVars
  <1>5. IndexInv'
    BY DEF CoreInv, IndexInv, Active, Wiping, EndRequest, enumVars, countVars
  <1>6. LoopInv'
    <2>1. ~is_cdrom(param) /\ total_sec = TotalSectors
      BY DEF CoreInv, LoopInv, Wiping
    <2>2. param' = param /\ TotalSectors' = TotalSectors
      BY DEF param, TotalSectors, enumVars, countVars
    <2>3. pc' # "wipe_sectors"
      BY DEF EndRequest
    <2> QED BY <1>2, <2>1, <2>2, <2>3 DEF LoopInv, Wiping, is_cdrom, Chunk
  <1> QED BY <1>3, <1>4, <1>5, <1>6 DEF CoreInv

(***************************************************************************)
(* The BIOS starts a transfer where wipe_disk meant it to: an address made *)
(* by lba2chs and resolved by the drive's geometry is the offset again.    *)
(***************************************************************************)
LEMMA FirstSectorIsOffset ==
  ASSUME CoreInv, pc = "wipe_sectors", param.has_ext \/ chs.ret = 0
  PROVE  FirstSector = offset_lba
  <1>1. CASE param.has_ext
    BY <1>1 DEF FirstSector
  <1>2. CASE ~param.has_ext
    <2>1. Active /\ Wiping
      BY DEF Active, Wiping
    <2>2. param \in disk_param /\ Describes(param)
      BY <2>1, ActiveParam
    <2>3. offset_lba \in Nat /\ offset_lba <= max_lba
      BY <1>2 DEF chs, lba2chs, CoreInv, TypeOK
    <2>4. total_sec = chs_capacity(param)
      BY <1>2, <2>1 DEF CoreInv, LoopInv, TotalSectors
    <2>5. total_sec > 0
      BY RequestFacts DEF CoreInv, TypeOK
    <2>6. param.last_sectors_per_track # 0
      <3>1. param.last_sectors_per_track = 0 => chs_capacity(param) = 0
        BY <2>2, LimitsAssumption DEF chs_capacity, disk_param
      <3> QED BY <3>1, <2>4, <2>5
    <2>7. Usable(param)
      BY <2>2, <2>6, LimitsAssumption DEF Usable, disk_param
    <2>8. chs2lba(param, chs.cylinder, chs.head, chs.sector) = offset_lba
      BY <2>3, <2>7, RoundTrip DEF chs
    <2>9. chs2lba(hw, chs.cylinder, chs.head, chs.sector)
            = chs2lba(param, chs.cylinder, chs.head, chs.sector)
      BY <2>2 DEF Describes, hw, chs2lba
    <2> QED BY <1>2, <2>8, <2>9 DEF FirstSector
  <1> QED BY <1>1, <1>2

\* One pass in terms of the request alone.
LEMMA WipePassFacts ==
  ASSUME CoreInv, WipePass
  PROVE  \E value \in Int, cnt \in 0 .. nsectors :
           LET p == Fill(opt.mode, param.has_ext, pass, buffer)
           IN  /\ value >= -1
               /\ Transfer(param.disk_id, offset_lba, cnt, Request, p)
               /\ IF pass + 1 < Passes(opt.mode)
                  THEN /\ pass' = pass + 1
                       /\ ret' = value
                       /\ UNCHANGED <<pc, offset_lba>>
                  ELSE EndRequest(value)
               /\ buffer' = p
               /\ faults' \in 0 .. MaxFaults
  <1> DEFINE check == opt.check \/ opt.mode = "OCD"
             p     == Fill(opt.mode, param.has_ext, pass, buffer)
             Value(w, v) ==
               IF param.has_ext
               THEN sectors_lba_rw_ret(TRUE, param, offset_lba, nsectors, WIPE_BUFFER_SIZE, w)
               ELSE sector_chs_write_ret(param, chs.cylinder, chs.head, chs.sector,
                                         nsectors, WIPE_BUFFER_SIZE, check, w, v)
             Fault(w, v) == /\ Value(w, v) # -1
                            /\ \/ IsFault(Capacity(hw), FirstSector, nsectors, w)
                               \/ ~param.has_ext /\ check /\ ~w.cf /\ v.cf
             cnt(w, v) == IF Value(w, v) = -1 THEN 0 ELSE w.cnt
  <1>1. PICK w \in TransferAnswers(Capacity(hw), FirstSector, nsectors, param.has_ext),
             v \in VerifyAnswers :
          /\ Charge(IF Fault(w, v) THEN 1 ELSE 0)
          /\ Transfer(param.disk_id, FirstSector, cnt(w, v), Request, p)
          /\ IF pass + 1 < Passes(opt.mode)
             THEN /\ pass' = pass + 1
                  /\ ret' = Value(w, v)
                  /\ UNCHANGED <<pc, offset_lba>>
             ELSE EndRequest(Value(w, v))
          /\ buffer' = p
    BY Zenon DEF WipePass
  <1>2. FirstSector = offset_lba
    BY FirstSectorIsOffset DEF WipePass
  <1>3. nsectors \in Nat
    BY DEF CoreInv, TypeOK
  <1>4. w.ah \in Nat /\ w.cnt \in 0 .. nsectors /\ v.ah \in Nat
    BY <1>3, AnswerFacts, VerifyFacts, Zenon
  <1>5. Value(w, v) \in Int /\ Value(w, v) >= -1
    BY <1>4, ReturnTypes, Zenon
  <1>6. cnt(w, v) \in 0 .. nsectors
    <2>1. 0 \in 0 .. nsectors
      BY <1>3
    <2> QED BY <2>1, <1>4, Zenon
  <1>7. faults' \in 0 .. MaxFaults
    <2>1. PICK k \in {0, 1} : Charge(k)
      BY <1>1, Zenon
    <2> QED BY <2>1, FaultsAssumption DEF Charge, CoreInv, TypeOK
  <1> HIDE DEF Value, Fault, cnt, check, p
  <1>8. /\ Value(w, v) >= -1
        /\ Transfer(param.disk_id, offset_lba, cnt(w, v), Request, p)
        /\ IF pass + 1 < Passes(opt.mode)
           THEN /\ pass' = pass + 1
                /\ ret' = Value(w, v)
                /\ UNCHANGED <<pc, offset_lba>>
           ELSE EndRequest(Value(w, v))
        /\ buffer' = p
        /\ faults' \in 0 .. MaxFaults
    BY <1>1, <1>2, <1>5, <1>7, Zenon
  <1> QED BY <1>5, <1>6, <1>8, Zenon DEF p

\* The sectors of a request are sectors.
LEMMA RequestNat ==
  ASSUME CoreInv, pc = "wipe_sectors"
  PROVE  Request \subseteq Nat
  BY DEF Request, CoreInv, TypeOK

LEMMA ListEntry ==
  ASSUME TypeOK, NEW k \in 1 .. Len(disk_list)
  PROVE  disk_list[k].disk_id \in Nat
  <1>1. disk_list[k] \in disk_param
    BY DEF TypeOK
  <1> DEFINE x == disk_list[k]
  <1>2. x \in disk_param
    BY <1>1
  <1> HIDE DEF x
  <1>3. x.disk_id \in Nat
    BY <1>2 DEF disk_param
  <1> QED BY <1>3 DEF x

LEMMA CoreStep == CoreInv /\ [Next]_vars => CoreInv'
  <1> SUFFICES ASSUME CoreInv, [Next]_vars PROVE CoreInv'
    OBVIOUS
  <1> USE DEF CoreInv
  <1>1. CASE EnumNone
    <2>0. faults' \in 0 .. MaxFaults
      <3>1. PICK k \in {0, 1} : Charge(k)
        BY <1>1, Zenon DEF EnumNone
      <3> QED BY <3>1, FaultsAssumption DEF Charge, TypeOK
    <2>1. TypeOK'
      BY <1>1, <2>0, IdAssumption DEF EnumNone, TypeOK, wipeVars, countVars, mediaVars
    <2>2. ListInv'
      <3>1. \A k \in 1 .. Len(disk_list) : disk_list[k].disk_id \in Nat
        BY ListEntry
      <3> QED BY <1>1, <3>1, IdAssumption DEF EnumNone, ListInv, Describes, TypeOK
    <2>3. IndexInv' /\ LoopInv'
      BY <1>1 DEF EnumNone, IndexInv, LoopInv, Active, Wiping, countVars
    <2> QED BY <2>1, <2>2, <2>3
  <1>2. ASSUME NEW e \in BOOLEAN, EnumFound(e) PROVE CoreInv'
    <2> DEFINE p == DiskParam(id, machine[id], e)
    <2>1. id \in DOMAIN machine /\ machine[id] \in Hardware /\ id \in Nat
      BY <1>2, MachineFacts DEF EnumFound
    <2>2. p \in disk_param
      BY <2>1 DEF DiskParam, disk_param, Hardware
    <2>3. disk_list' = Append(disk_list, p)
      BY <1>2 DEF EnumFound
    <2>4. /\ faults' \in 0 .. MaxFaults
          /\ blind' \in {blind, blind \cup {id}}
          /\ (machine[id].ext /\ ~e) => id \in blind'
      <3>1. PICK k \in {0, 1} : Charge(k)
        BY <1>2, Zenon DEF EnumFound
      <3> QED BY <1>2, <3>1, FaultsAssumption DEF EnumFound, Charge, TypeOK
    <2>5. TypeOK'
      BY <1>2, <2>1, <2>2, <2>3, <2>4, IdAssumption
         DEF EnumFound, TypeOK, wipeVars, countVars, mediaVars
    <2>6. ListInv'
      <3>1. blind \subseteq blind' /\ machine' = machine /\ id' = id + 1
        BY <1>2, <2>4 DEF EnumFound
      <3>2. /\ Len(disk_list') = Len(disk_list) + 1
            /\ \A k \in 1 .. Len(disk_list) : disk_list'[k] = disk_list[k]
            /\ disk_list'[Len(disk_list) + 1] = p
            /\ Len(disk_list) \in Nat
        BY <2>2, <2>3 DEF TypeOK
      <3>3. \A k \in 1 .. Len(disk_list) :
              disk_list[k].disk_id \in Nat /\ disk_list[k].disk_id < id
        BY ListEntry DEF ListInv
      <3>4. p.disk_id = id
        BY DEF DiskParam
      <3>5. ASSUME NEW k \in 1 .. Len(disk_list')
            PROVE  Describes(disk_list[k])' /\ disk_list'[k].disk_id < id'
        <4>1. CASE k \in 1 .. Len(disk_list)
          BY <4>1, <3>1, <3>2, <3>3, <2>1 DEF ListInv, Describes
        <4>2. CASE k = Len(disk_list) + 1
          <5>1. disk_list'[k] = p
            BY <4>2, <3>2
          <5> QED BY <5>1, <3>1, <2>1, <2>4, <1>2 DEF Describes, DiskParam, EnumFound
        <4> QED BY <4>1, <4>2, <3>2
      <3> HIDE DEF p
      <3>6. ASSUME NEW k \in 1 .. Len(disk_list'), NEW j \in 1 .. k - 1
            PROVE  disk_list'[j].disk_id < disk_list'[k].disk_id
        <4>1. CASE k \in 1 .. Len(disk_list)
          BY <4>1, <3>2 DEF ListInv
        <4>2. CASE k = Len(disk_list) + 1
          <5>1. j \in 1 .. Len(disk_list) /\ disk_list'[k].disk_id = id
            BY <4>2, <3>2, <3>4
          <5> QED BY <5>1, <3>2, <3>3
        <4> QED BY <4>1, <4>2, <3>2
      <3> QED BY <3>5, <3>6 DEF ListInv
    <2>7. IndexInv' /\ LoopInv'
      BY <1>2, <2>2, <2>3 DEF EnumFound, IndexInv, LoopInv, Active, Wiping, countVars, TypeOK
    <2> QED BY <2>5, <2>6, <2>7
  <1>3. CASE EnumDone
    <2>1. TypeOK'
      BY <1>3 DEF EnumDone, TypeOK, wipeVars, countVars, mediaVars
    <2>2. ListInv'
      BY <1>3, ListKept DEF EnumDone
    <2>3. IndexInv' /\ LoopInv'
      BY <1>3 DEF EnumDone, IndexInv, LoopInv, Active, Wiping, countVars, TypeOK
    <2> QED BY <2>1, <2>2, <2>3
  <1>4. CASE SkipCdrom
    <2>1. TypeOK'
      BY <1>4 DEF SkipCdrom, TypeOK, wipeVars, countVars, mediaVars, enumVars
    <2>2. ListInv'
      BY <1>4, ListKept DEF SkipCdrom, enumVars
    <2>3. IndexInv' /\ LoopInv'
      BY <1>4 DEF SkipCdrom, IndexInv, LoopInv, Active, Wiping, countVars, enumVars
    <2> QED BY <2>1, <2>2, <2>3
  <1>5. CASE ReadMbr
    <2>1. Active /\ param' = param /\ ~is_cdrom(param)
      BY <1>5 DEF ReadMbr, Active, param, enumVars, countVars
    <2>2. param.disk_id \in DOMAIN machine
      BY <2>1, ActiveParam
    <2>3. /\ pc' \in {"malloc", "scan_entry"}
          /\ blind' = blind \/ blind' = blind \cup {param.disk_id}
      BY <1>5, Zenon DEF ReadMbr
    <2>4. faults' \in 0 .. MaxFaults
      <3>1. PICK k \in {0, 1} : Charge(k)
        BY <1>5, Zenon DEF ReadMbr
      <3> QED BY <3>1, FaultsAssumption DEF Charge, TypeOK
    <2>5. TypeOK'
      <3>1. /\ entry' = 1 /\ ret' = -1
            /\ UNCHANGED <<machine, opt, enumVars, wipeVars, countVars, mediaVars>>
        BY <1>5, Zenon DEF ReadMbr
      <3>2. blind' \subseteq DOMAIN machine
        BY <2>2, <2>3 DEF TypeOK
      <3> QED BY <2>3, <2>4, <3>1, <3>2 DEF TypeOK, wipeVars, countVars, mediaVars, enumVars
    <2>6. ListInv'
      BY <1>5, <2>3, ListKept DEF ReadMbr, enumVars
    <2>7. IndexInv' /\ LoopInv'
      BY <1>5, <2>1, <2>3
         DEF ReadMbr, IndexInv, LoopInv, Active, Wiping, countVars, enumVars, is_cdrom
    <2> QED BY <2>5, <2>6, <2>7
  <1>6. CASE ScanEntry
    <2>1. Active /\ param' = param /\ ~is_cdrom(param)
      BY <1>6 DEF ScanEntry, Active, param, enumVars, countVars, LoopInv
    <2>2. param.disk_id \in DOMAIN machine
      BY <2>1, ActiveParam
    <2>3. /\ pc' \in {"malloc", "count", "scan_entry"}
          /\ blind' = blind \/ blind' = blind \cup {param.disk_id}
          /\ ret' = 1 \/ ret' = ret
      BY <1>6, Zenon DEF ScanEntry
    <2>4. faults' \in 0 .. MaxFaults
      <3>1. PICK j \in {0, 1}, k \in {0, 1} : Charge(j + k)
        BY <1>6, Zenon DEF ScanEntry
      <3> QED BY <3>1, FaultsAssumption DEF Charge, TypeOK
    <2>5. TypeOK'
      <3>1. /\ entry' = (IF entry = 4 THEN 1 ELSE entry + 1)
            /\ UNCHANGED <<machine, opt, enumVars, wipeVars, countVars, mediaVars>>
        BY <1>6, Zenon DEF ScanEntry
      <3>2. blind' \subseteq DOMAIN machine
        BY <2>2, <2>3 DEF TypeOK
      <3>3. entry' \in 1 .. 4
        BY <3>1 DEF TypeOK
      <3>4. ret' \in Int /\ ret' >= -1
        BY <2>3 DEF TypeOK
      <3>5. UNCHANGED <<machine, opt, enumVars, wipeVars, countVars, mediaVars>>
        BY <3>1
      <3> QED BY <2>3, <2>4, <3>2, <3>3, <3>4, <3>5
              DEF TypeOK, wipeVars, countVars, mediaVars, enumVars
    <2>6. ListInv'
      BY <1>6, <2>3, ListKept DEF ScanEntry, enumVars
    <2>7. IndexInv' /\ LoopInv'
      BY <1>6, <2>1, <2>3
         DEF ScanEntry, IndexInv, LoopInv, Active, Wiping, countVars, enumVars, is_cdrom
    <2> QED BY <2>5, <2>6, <2>7
  <1>7. CASE Malloc
    <2>1. Active /\ param' = param /\ ~is_cdrom(param) /\ TotalSectors' = TotalSectors
      BY <1>7 DEF Malloc, Active, param, enumVars, countVars, LoopInv, TotalSectors
    <2>2. TotalSectors \in Nat
      BY <2>1, TotalNat
    <2>3. TypeOK'
      BY <1>7, <2>2 DEF Malloc, TypeOK, Patterns, countVars, mediaVars, enumVars
    <2>4. ListInv'
      BY <1>7, ListKept DEF Malloc, enumVars
    <2>5. IndexInv'
      BY <1>7 DEF Malloc, IndexInv, Active, Wiping, countVars, enumVars
    <2>6. 0 % Chunk = 0
      BY ChunkFacts
    <2>7. LoopInv'
      BY <1>7, <2>1, <2>2, <2>6 DEF Malloc, LoopInv, Wiping, is_cdrom, Chunk
    <2> QED BY <2>3, <2>4, <2>5, <2>7
  <1>8. CASE MallocFails
    <2>1. TypeOK'
      BY <1>8, FaultsAssumption
         DEF MallocFails, Charge, TypeOK, wipeVars, countVars, mediaVars, enumVars
    <2>2. ListInv'
      BY <1>8, ListKept DEF MallocFails, enumVars
    <2>3. IndexInv' /\ LoopInv'
      BY <1>8 DEF MallocFails, IndexInv, LoopInv, Active, Wiping, countVars, enumVars
    <2> QED BY <2>1, <2>2, <2>3
  <1>9. CASE NextRequest
    <2>1. /\ Active /\ Wiping /\ param' = param /\ ~is_cdrom(param)
          /\ TotalSectors' = TotalSectors /\ left_sec' = left_sec
      BY <1>9 DEF NextRequest, Active, Wiping, param, enumVars, countVars, LoopInv,
                  TotalSectors, left_sec
    <2>2. InLoop <=> offset_lba + Chunk <= total_sec
      BY <2>1, LoopCondition
    <2>3. BufferSectors = Chunk
      BY <2>1, SectorSize
    <2>4. /\ nsectors' = (IF offset_lba + Chunk <= total_sec THEN Chunk ELSE left_sec)
          /\ nsectors' \in Nat /\ nsectors' >= 1
      <3>1. /\ nsectors' = (IF InLoop THEN BufferSectors ELSE left_sec)
            /\ InLoop \/ left_sec # 0
        BY <1>9 DEF NextRequest
      <3>2. /\ total_sec \in Nat /\ offset_lba \in Nat /\ offset_lba <= total_sec
            /\ left_sec = total_sec - offset_lba
        BY <2>1 DEF left_sec, TypeOK, LoopInv
      <3>3. Chunk \in Nat \ {0}
        BY ChunkFacts
      <3> QED BY <2>2, <2>3, <3>1, <3>2, <3>3
    <2>5. TypeOK'
      BY <1>9, <2>4 DEF NextRequest, TypeOK, countVars, mediaVars, enumVars
    <2>6. ListInv'
      BY <1>9, ListKept DEF NextRequest, enumVars
    <2>7. IndexInv'
      BY <1>9 DEF NextRequest, IndexInv, Active, Wiping, countVars, enumVars
    <2>8. opt.mode \in Modes /\ Passes(opt.mode) \in 1 .. 4
      BY OptFacts, PassesFacts
    <2>9. LoopInv'
      BY <1>9, <2>1, <2>4, <2>8 DEF NextRequest, LoopInv, Wiping, is_cdrom, Chunk
    <2> QED BY <2>5, <2>6, <2>7, <2>9
  <1>10. CASE NoRequestLeft
    <2>1. TypeOK'
      BY <1>10 DEF NoRequestLeft, TypeOK, wipeVars, countVars, mediaVars, enumVars
    <2>2. ListInv'
      BY <1>10, ListKept DEF NoRequestLeft, enumVars
    <2>3. IndexInv'
      BY <1>10 DEF NoRequestLeft, IndexInv, Active, Wiping, countVars, enumVars
    <2>4. LoopInv'
      BY <1>10 DEF NoRequestLeft, LoopInv, Wiping, wipeVars, countVars, enumVars,
                   param, is_cdrom, TotalSectors, Chunk
    <2> QED BY <2>1, <2>2, <2>3, <2>4
  <1>11. CASE NoChsAddress
    <2>1. pc = "wipe_sectors" /\ Active
      BY <1>11 DEF NoChsAddress, Active, Wiping
    <2>2. param.disk_id \in DOMAIN machine
      BY <2>1, ActiveParam
    <2>3. (IF opt.test THEN {} ELSE Request) \subseteq Nat
      BY <2>1, RequestNat
    <2>4. /\ DOMAIN hist' = DOMAIN machine
          /\ \A e \in DOMAIN machine :
               hist'[e] \in [0 .. Capacity(machine[e]) - 1 -> Seq(Patterns)]
          /\ bad' \in [DOMAIN machine -> SUBSET Nat]
      <3>1. Transfer(param.disk_id, 0, 0, IF opt.test THEN {} ELSE Request, buffer)
        BY <1>11 DEF NoChsAddress
      <3>2. buffer \in Patterns
        BY DEF TypeOK
      <3> QED BY <2>2, <2>3, <3>1, <3>2, TransferTypes
    <2>5. EndRequest(-1) /\ buffer' \in Patterns /\ faults' \in 0 .. MaxFaults
      BY <1>11 DEF NoChsAddress, TypeOK
    <2> QED BY <1>11, <2>1, <2>4, <2>5, EndRequestCore DEF NoChsAddress
  <1>12. CASE TestRead
    <2> DEFINE Value(r) ==
                 IF param.has_ext
                 THEN sectors_lba_rw_ret(FALSE, param, offset_lba, nsectors,
                                         WIPE_BUFFER_SIZE, r)
                 ELSE sector_chs_read_ret(param, chs.cylinder, chs.head, chs.sector,
                                          nsectors, WIPE_BUFFER_SIZE, r)
    <2>1. PICK r \in TransferAnswers(Capacity(hw), FirstSector, nsectors, param.has_ext) :
            /\ EndRequest(Value(r))
            /\ \E k \in {0, 1} : Charge(k)
            /\ buffer' \in {"stale", buffer}
      BY <1>12, Zenon DEF TestRead
    <2>2. nsectors \in Nat
      BY DEF TypeOK
    <2>3. r.ah \in Nat
      BY <2>2, AnswerFacts, Zenon
    <2>4. Value(r) \in Int /\ Value(r) >= -1
      BY <2>3, ReturnTypes, Zenon
    <2>5. faults' \in 0 .. MaxFaults
      BY <2>1, FaultsAssumption DEF Charge, TypeOK
    <2>6. buffer' \in Patterns
      BY <2>1 DEF TypeOK, Patterns
    <2>7. /\ DOMAIN hist' = DOMAIN machine
          /\ \A e \in DOMAIN machine :
               hist'[e] \in [0 .. Capacity(machine[e]) - 1 -> Seq(Patterns)]
          /\ bad' \in [DOMAIN machine -> SUBSET Nat]
      BY <1>12 DEF TestRead, mediaVars, TypeOK
    <2>8. /\ UNCHANGED <<machine, opt, enumVars, entry, total_sec, nsectors, countVars, blind>>
          /\ pc = "wipe_sectors"
      BY <1>12 DEF TestRead
    <2> HIDE DEF Value
    <2>9. EndRequest(Value(r))
      BY <2>1
    <2> QED BY <2>4, <2>5, <2>6, <2>7, <2>8, <2>9, EndRequestCore
  <1>13. CASE WipePass
    <2> DEFINE p == Fill(opt.mode, param.has_ext, pass, buffer)
    <2>1. pc = "wipe_sectors" /\ Active
      BY <1>13 DEF WipePass, Active, Wiping
    <2>2. param.disk_id \in DOMAIN machine
      BY <2>1, ActiveParam
    <2>3. p \in Patterns
      BY OptFacts, FillTypes DEF TypeOK
    <2>4. PICK value \in Int, cnt \in 0 .. nsectors :
            /\ value >= -1
            /\ Transfer(param.disk_id, offset_lba, cnt, Request, p)
            /\ IF pass + 1 < Passes(opt.mode)
               THEN pass' = pass + 1 /\ ret' = value /\ UNCHANGED <<pc, offset_lba>>
               ELSE EndRequest(value)
            /\ buffer' = p
            /\ faults' \in 0 .. MaxFaults
      BY <1>13, WipePassFacts, Zenon
    <2> HIDE DEF p
    <2>5. /\ DOMAIN hist' = DOMAIN machine
          /\ \A e \in DOMAIN machine :
               hist'[e] \in [0 .. Capacity(machine[e]) - 1 -> Seq(Patterns)]
          /\ bad' \in [DOMAIN machine -> SUBSET Nat]
      BY <2>1, <2>2, <2>3, <2>4, RequestNat, TransferTypes
    <2>6. UNCHANGED <<machine, opt, enumVars, entry, total_sec, nsectors, countVars, blind>>
      BY <1>13 DEF WipePass
    <2>7. CASE pass + 1 < Passes(opt.mode)
      <3>1. pass' = pass + 1 /\ ret' = value /\ UNCHANGED <<pc, offset_lba>>
        BY <2>4, <2>7
      <3>2. Passes(opt.mode) \in 1 .. 4
        BY OptFacts, PassesFacts
      <3>3. TypeOK'
        BY <2>3, <2>4, <2>5, <2>6, <2>7, <3>1, <3>2 DEF TypeOK, enumVars, countVars
      <3>4. ListInv'
        BY <2>6, ListKept DEF enumVars
      <3>5. IndexInv'
        BY <2>6, <3>1 DEF IndexInv, Active, Wiping, enumVars, countVars
      <3>6. LoopInv'
        BY <2>6, <2>7, <3>1 DEF LoopInv, Wiping, enumVars, countVars, param, is_cdrom,
                                TotalSectors, left_sec, Chunk
      <3> QED BY <3>3, <3>4, <3>5, <3>6
    <2>8. CASE ~(pass + 1 < Passes(opt.mode))
      <3>1. EndRequest(value) /\ buffer' \in Patterns
        BY <2>3, <2>4, <2>8
      <3> QED BY <2>1, <2>4, <2>5, <2>6, <3>1, EndRequestCore
    <2> QED BY <2>7, <2>8
  <1>14. CASE WriteMbr
    <2> DEFINE none == {0} \cap DOMAIN hist[param.disk_id]
    <2>1. pc = "write_mbr" /\ Active
      BY <1>14 DEF WriteMbr, Active, Wiping
    <2>2. param.disk_id \in DOMAIN machine
      BY <2>1, ActiveParam
    <2>3. PICK w \in TransferAnswers(Capacity(hw), 0, 1, FALSE), v \in VerifyAnswers :
            /\ ret' = sector_chs_write_ret(param, 0, 0, 1, 1, mbr_bin_len, opt.check, w, v)
            /\ \E k \in {0, 1} : Charge(k)
            /\ \E cnt : Transfer(param.disk_id, 0, cnt, none, "mbr")
      BY <1>14, Zenon DEF WriteMbr
    <2>4. 1 \in Nat
      OBVIOUS
    <2>5. w.ah \in Nat /\ v.ah \in Nat
      BY <2>4, AnswerFacts, VerifyFacts, Zenon
    <2>6. ret' \in Int /\ ret' >= -1
      BY <2>3, <2>5, ReturnTypes, Zenon
    <2>7. faults' \in 0 .. MaxFaults
      BY <2>3, FaultsAssumption DEF Charge, TypeOK
    <2>8. /\ DOMAIN hist' = DOMAIN machine
          /\ \A e \in DOMAIN machine :
               hist'[e] \in [0 .. Capacity(machine[e]) - 1 -> Seq(Patterns)]
          /\ bad' \in [DOMAIN machine -> SUBSET Nat]
      <3>1. PICK cnt : Transfer(param.disk_id, 0, cnt, none, "mbr")
        BY <2>3, Zenon
      <3>2. none \subseteq Nat /\ "mbr" \in Patterns
        BY DEF Patterns
      <3> QED BY <2>2, <3>1, <3>2, TransferTypes
    <2>9. TypeOK'
      BY <1>14, <2>6, <2>7, <2>8 DEF WriteMbr, TypeOK, Patterns, countVars, enumVars
    <2>10. ListInv'
      BY <1>14, ListKept DEF WriteMbr, enumVars
    <2>11. IndexInv' /\ LoopInv'
      BY <1>14 DEF WriteMbr, IndexInv, LoopInv, Active, Wiping, countVars, enumVars
    <2> QED BY <2>9, <2>10, <2>11
  <1>15. CASE NoMbr
    <2>1. TypeOK'
      BY <1>15 DEF NoMbr, TypeOK, wipeVars, countVars, mediaVars, enumVars
    <2>2. ListInv'
      BY <1>15, ListKept DEF NoMbr, enumVars
    <2>3. IndexInv' /\ LoopInv'
      BY <1>15 DEF NoMbr, IndexInv, LoopInv, Active, Wiping, countVars, enumVars
    <2> QED BY <2>1, <2>2, <2>3
  <1>16. CASE Count
    <2>1. TypeOK'
      BY <1>16 DEF Count, Increment, TypeOK, wipeVars, mediaVars, enumVars
    <2>2. ListInv'
      BY <1>16, ListKept DEF Count, enumVars
    <2>3. IndexInv' /\ LoopInv'
      BY <1>16 DEF Count, IndexInv, LoopInv, Active, Wiping, enumVars, TypeOK
    <2> QED BY <2>1, <2>2, <2>3
  <1>17. CASE UNCHANGED vars
    <2> USE <1>17 DEF vars, enumVars, wipeVars, countVars, mediaVars
    <2>1. TypeOK'
      BY DEF TypeOK
    <2>2. ListInv'
      BY ListKept
    <2>3. IndexInv'
      BY DEF IndexInv, Active, Wiping
    <2>4. LoopInv'
      BY DEF LoopInv, Wiping, param, is_cdrom, TotalSectors, left_sec, Chunk
    <2> QED BY <2>1, <2>2, <2>3, <2>4
  <1> QED
    BY <1>1, <1>2, <1>3, <1>4, <1>5, <1>6, <1>7, <1>8, <1>9, <1>10, <1>11, <1>12,
       <1>13, <1>14, <1>15, <1>16, <1>17, Zenon DEF Next

LEMMA CoreInvariant == Spec => []CoreInv
  BY InitCore, CoreStep, PTL DEF Spec

(***************************************************************************)
(* The variables of do_main keep their types: in particular no answer of   *)
(* the BIOS makes the offset, the request or a counter negative.           *)
(***************************************************************************)
THEOREM TypeCorrect == Spec => []TypeOK
  BY CoreInvariant, PTL DEF CoreInv

LEMMA RequestRange == CoreInv => RequestInRange
  <1> SUFFICES ASSUME CoreInv, pc = "wipe_sectors"
               PROVE  /\ nsectors \in 1 .. BIOS_MAX_SECTOR_CNT
                      /\ nsectors * sector_size <= WIPE_BUFFER_SIZE
                      /\ offset_lba + nsectors <= total_sec
                      /\ param.has_ext /\ ~opt.force_chs =>
                           offset_lba + nsectors <= Capacity(hw)
    BY DEF RequestInRange
  <1>1. Active /\ Wiping
    BY DEF Active, Wiping
  <1>2. ~is_cdrom(param) /\ total_sec = TotalSectors
    BY <1>1 DEF CoreInv, LoopInv
  <1>3. sector_size = 512
    BY <1>1, <1>2, SectorSize
  <1>4. nsectors \in Nat \ {0} /\ nsectors <= Chunk /\ offset_lba + nsectors <= total_sec
    BY RequestFacts
  <1>5. nsectors \in 1 .. BIOS_MAX_SECTOR_CNT
    BY <1>4, ChunkFacts DEF BIOS_MAX_SECTOR_CNT
  <1>6. nsectors * sector_size <= WIPE_BUFFER_SIZE
    BY <1>3, <1>4, ChunkFacts
  <1>7. param.has_ext /\ ~opt.force_chs => total_sec = Capacity(hw)
    BY <1>1, <1>2, ActiveParam DEF TotalSectors, Capacity, Describes
  <1> QED BY <1>4, <1>5, <1>6, <1>7

(***************************************************************************)
(* Every request of wipe_disk names at least one sector, fits the buffer   *)
(* and the BIOS's limit, ends where the wipe ends and, with the packet     *)
(* interface and without force_chs, on the disk.  (A C/H/S request may     *)
(* still be refused, for its address.)                                     *)
(***************************************************************************)
THEOREM RequestsInRange == Spec => []RequestInRange
  BY CoreInvariant, RequestRange, PTL

-----------------------------------------------------------------------------
(* Transfers, sector by sector.                                            *)

LEMMA TransferFacts ==
  ASSUME TypeOK, NEW d \in DOMAIN machine, NEW first \in Nat, NEW cnt \in Nat,
         NEW request, NEW p, Transfer(d, first, cnt, request, p)
  PROVE  /\ \A e \in DOMAIN machine : DOMAIN hist'[e] = DOMAIN hist[e]
         /\ \A e \in DOMAIN machine : e # d => hist'[e] = hist[e] /\ bad'[e] = bad[e]
         /\ \A s \in DOMAIN hist[d] :
              IF first <= s /\ s < first + cnt
              THEN hist'[d][s] = Append(hist[d][s], p)
              ELSE hist'[d][s] = hist[d][s]
         /\ \A s \in DOMAIN hist[d] :
              s \notin bad'[d] =>
                /\ s \notin bad[d]
                /\ s \in request => first <= s /\ s < first + cnt
  <1> DEFINE wrote == (first .. first + cnt - 1) \cap DOMAIN hist[d]
             new == [s \in DOMAIN hist[d] |->
                       IF s \in wrote THEN Append(hist[d][s], p) ELSE hist[d][s]]
  <1>1. hist' = [hist EXCEPT ![d] = new] /\ bad' = [bad EXCEPT ![d] = @ \cup (request \ wrote)]
    BY DEF Transfer
  <1>2. /\ DOMAIN hist = DOMAIN machine /\ DOMAIN bad = DOMAIN machine
        /\ DOMAIN hist[d] = 0 .. Capacity(machine[d]) - 1
    BY DEF TypeOK
  <1>3. DOMAIN new = DOMAIN hist[d]
    OBVIOUS
  <1>4. \A s \in DOMAIN hist[d] : s \in wrote <=> first <= s /\ s < first + cnt
    BY <1>2
  <1>5. \A s \in DOMAIN hist[d] :
          new[s] = IF s \in wrote THEN Append(hist[d][s], p) ELSE hist[d][s]
    OBVIOUS
  <1> HIDE DEF new, wrote
  <1>6. hist'[d] = new /\ bad'[d] = bad[d] \cup (request \ wrote)
    BY <1>1, <1>2
  <1>7. \A e \in DOMAIN machine : e # d => hist'[e] = hist[e] /\ bad'[e] = bad[e]
    BY <1>1, <1>2
  <1>8. \A e \in DOMAIN machine : DOMAIN hist'[e] = DOMAIN hist[e]
    BY <1>3, <1>6, <1>7
  <1>9. \A s \in DOMAIN hist[d] :
          IF first <= s /\ s < first + cnt
          THEN hist'[d][s] = Append(hist[d][s], p)
          ELSE hist'[d][s] = hist[d][s]
    BY <1>4, <1>5, <1>6
  <1>10. \A s \in DOMAIN hist[d] :
           s \notin bad'[d] =>
             /\ s \notin bad[d]
             /\ s \in request => first <= s /\ s < first + cnt
    BY <1>4, <1>6
  <1> QED BY <1>7, <1>8, <1>9, <1>10

LEMMA TransferChanges ==
  ASSUME TypeOK, NEW d \in DOMAIN machine, NEW first \in Nat, NEW cnt \in Nat,
         NEW request, NEW p, Transfer(d, first, cnt, request, p),
         NEW e \in DOMAIN machine, NEW s \in DOMAIN hist[e], hist'[e][s] # hist[e][s]
  PROVE  e = d /\ first <= s /\ s < first + cnt
  <1>1. e = d
    BY TransferFacts
  <1>2. IF first <= s /\ s < first + cnt
        THEN hist'[d][s] = Append(hist[d][s], p)
        ELSE hist'[d][s] = hist[d][s]
    BY <1>1, TransferFacts
  <1> QED BY <1>1, <1>2

\* The boot record is one sector, at address 0.
LEMMA WriteMbrFacts ==
  ASSUME CoreInv, WriteMbr
  PROVE  \E cnt \in 0 .. 1 :
           Transfer(param.disk_id, 0, cnt, {0} \cap DOMAIN hist[param.disk_id], "mbr")
  <1> DEFINE Value(w, v) == sector_chs_write_ret(param, 0, 0, 1, 1, mbr_bin_len, opt.check, w, v)
             Cnt(w, v) == IF Value(w, v) = -1 THEN 0 ELSE w.cnt
  <1>1. PICK w \in TransferAnswers(Capacity(hw), 0, 1, FALSE), v \in VerifyAnswers :
          Transfer(param.disk_id, 0, Cnt(w, v), {0} \cap DOMAIN hist[param.disk_id], "mbr")
    BY Zenon DEF WriteMbr
  <1>2. 1 \in Nat /\ 0 \in 0 .. 1
    OBVIOUS
  <1>3. w.cnt \in 0 .. 1
    BY <1>2, AnswerFacts, Zenon
  <1>4. Cnt(w, v) \in 0 .. 1
    BY <1>2, <1>3, Zenon
  <1> QED BY <1>1, <1>4, Zenon

(***************************************************************************)
(* What a step does to the media: nothing, or a transfer to the disk being *)
(* wiped that stays in the request, or the boot record.                    *)
(***************************************************************************)
LEMMA MediaStep ==
  ASSUME CoreInv, [Next]_vars
  PROVE  \/ UNCHANGED <<hist, bad>>
         \/ /\ ~opt.test /\ pc = "wipe_sectors"
            /\ \E cnt \in 0 .. nsectors : \E p :
                 Transfer(param.disk_id, offset_lba, cnt, Request, p)
         \/ /\ ~opt.test /\ pc = "write_mbr"
            /\ \E cnt \in 0 .. 1 :
                 Transfer(param.disk_id, 0, cnt, {0} \cap DOMAIN hist[param.disk_id], "mbr")
         \/ /\ pc = "wipe_sectors"
            /\ \E r : Transfer(param.disk_id, 0, 0, r, buffer)
  <1>1. CASE UNCHANGED vars
    BY <1>1 DEF vars, mediaVars
  <1>2. CASE WipePass
    <2>1. PICK value \in Int, cnt \in 0 .. nsectors :
            Transfer(param.disk_id, offset_lba, cnt, Request,
                     Fill(opt.mode, param.has_ext, pass, buffer))
      BY <1>2, WipePassFacts, Zenon
    <2>2. ~opt.test /\ pc = "wipe_sectors"
      BY <1>2, Zenon DEF WipePass
    <2> QED BY <2>1, <2>2, Zenon
  <1>3. CASE WriteMbr
    <2>1. ~opt.test /\ pc = "write_mbr"
      BY <1>3, Zenon DEF WriteMbr, WantsMbr
    <2> QED BY <1>3, <2>1, WriteMbrFacts, Zenon
  <1>4. CASE NoChsAddress
    BY <1>4, Zenon DEF NoChsAddress
  <1>5. CASE EnumNone \/ (\E e \in BOOLEAN : EnumFound(e)) \/ EnumDone \/ SkipCdrom
    BY <1>5 DEF EnumNone, EnumFound, EnumDone, SkipCdrom, mediaVars
  <1>6. CASE ReadMbr
    BY <1>6, Zenon DEF ReadMbr, mediaVars
  <1>7. CASE ScanEntry
    BY <1>7, Zenon DEF ScanEntry, mediaVars
  <1>8. CASE TestRead
    BY <1>8, Zenon DEF TestRead, mediaVars
  <1>9. CASE Malloc \/ MallocFails \/ NextRequest \/ NoRequestLeft \/ NoMbr \/ Count
    BY <1>9 DEF Malloc, MallocFails, NextRequest, NoRequestLeft, NoMbr, Count, mediaVars
  <1> QED
    BY <1>1, <1>2, <1>3, <1>4, <1>5, <1>6, <1>7, <1>8, <1>9, Zenon DEF Next

-----------------------------------------------------------------------------
(* Writes go where they should, and only when they may.                    *)

LEMMA StepWithinRequest ==
  ASSUME CoreInv, [Next]_vars
  PROVE  [WritesWithinRequest]_vars
  <1> SUFFICES ASSUME NEW d \in DOMAIN hist, NEW s \in DOMAIN hist[d],
                      hist'[d][s] # hist[d][s]
               PROVE  /\ d = param.disk_id
                      /\ \/ pc = "wipe_sectors" /\ s \in Request
                         \/ pc = "write_mbr" /\ s = 0
    BY DEF WritesWithinRequest
  <1>1. /\ TypeOK /\ offset_lba \in Nat /\ nsectors \in Nat
        /\ d \in DOMAIN machine /\ DOMAIN hist[d] = 0 .. Capacity(machine[d]) - 1
    BY DEF CoreInv, TypeOK
  <1>2. (pc = "wipe_sectors" \/ pc = "write_mbr") => param.disk_id \in DOMAIN machine
    BY ActiveParam DEF Active, Wiping
  <1>3. CASE UNCHANGED <<hist, bad>>
    BY <1>3
  <1>4. CASE /\ pc = "wipe_sectors"
             /\ \E cnt \in 0 .. nsectors : \E p :
                  Transfer(param.disk_id, offset_lba, cnt, Request, p)
    <2>0. PICK cnt \in 0 .. nsectors : \E p : Transfer(param.disk_id, offset_lba, cnt, Request, p)
      BY <1>4, Zenon
    <2>1. PICK p : Transfer(param.disk_id, offset_lba, cnt, Request, p)
      BY <2>0, Zenon
    <2>2. /\ d = param.disk_id
          /\ offset_lba <= s /\ s < offset_lba + cnt
      <3>1. cnt \in Nat /\ param.disk_id \in DOMAIN machine
        BY <1>2, <1>4
      <3> QED BY <1>1, <2>1, <3>1, TransferChanges
    <2>3. s \in Int /\ cnt \in Int /\ s <= offset_lba + nsectors - 1
      BY <1>1, <2>2
    <2>4. s \in offset_lba .. offset_lba + nsectors - 1
      BY <1>1, <2>2, <2>3
    <2>5. s \in Request
      BY <2>2, <2>4 DEF Request
    <2> QED BY <1>4, <2>2, <2>5
  <1>5. CASE /\ pc = "write_mbr"
             /\ \E cnt \in 0 .. 1 :
                  Transfer(param.disk_id, 0, cnt, {0} \cap DOMAIN hist[param.disk_id], "mbr")
    <2>0. PICK cnt \in 0 .. 1 : \E r, p : Transfer(param.disk_id, 0, cnt, r, p)
      BY <1>5, Zenon
    <2>1. PICK r, p : Transfer(param.disk_id, 0, cnt, r, p)
      BY <2>0, Zenon
    <2>2. /\ d = param.disk_id
          /\ 0 <= s /\ s < 0 + cnt
      <3>1. cnt \in Nat /\ 0 \in Nat /\ param.disk_id \in DOMAIN machine
        BY <1>2, <1>5
      <3> QED BY <1>1, <2>1, <3>1, TransferChanges
    <2> QED BY <1>1, <1>5, <2>2
  <1>6. CASE pc = "wipe_sectors" /\ \E r : Transfer(param.disk_id, 0, 0, r, buffer)
    <2>1. PICK r : Transfer(param.disk_id, 0, 0, r, buffer)
      BY <1>6
    <2>2. 0 <= s /\ s < 0 + 0
      <3>1. 0 \in Nat /\ param.disk_id \in DOMAIN machine
        BY <1>2, <1>6
      <3> QED BY <1>1, <2>1, <3>1, TransferChanges
    <2> QED BY <1>1, <2>2
  <1> QED BY <1>3, <1>4, <1>5, <1>6, MediaStep

(***************************************************************************)
(* Whatever the machine, the options and the faults, a step of do_main     *)
(* writes only sectors of the request it is working on, or sector 0 for    *)
(* the boot record (wipe_sectors_lba, lba2chs, sector_chs_rw).             *)
(***************************************************************************)
THEOREM WritesStayInRequest == Spec => NoStrayWrite
  BY CoreInvariant, StepWithinRequest, PTL DEF Spec, NoStrayWrite

LEMMA StepReadOnly ==
  ASSUME CoreInv, TestModeReadOnly, [Next]_vars
  PROVE  TestModeReadOnly'
  <1> SUFFICES ASSUME opt'.test, NEW d \in DOMAIN hist', NEW s \in DOMAIN hist'[d]
               PROVE  hist'[d][s] = <<>>
    BY DEF TestModeReadOnly
  <1>1. opt' = opt
    <2>1. CASE EnumNone \/ (\E e \in BOOLEAN : EnumFound(e)) \/ EnumDone \/ SkipCdrom
      BY <2>1, Zenon DEF EnumNone, EnumFound, EnumDone, SkipCdrom
    <2>2. CASE ReadMbr \/ ScanEntry \/ Malloc \/ MallocFails \/ NextRequest \/ NoRequestLeft
      BY <2>2, Zenon DEF ReadMbr, ScanEntry, Malloc, MallocFails, NextRequest, NoRequestLeft
    <2>3. CASE NoChsAddress \/ TestRead \/ WipePass \/ WriteMbr \/ NoMbr \/ Count
      BY <2>3, Zenon DEF NoChsAddress, TestRead, WipePass, WriteMbr, NoMbr, Count
    <2>4. CASE UNCHANGED vars
      BY <2>4 DEF vars
    <2> QED BY <2>1, <2>2, <2>3, <2>4, Zenon DEF Next
  <1>2. /\ TypeOK /\ DOMAIN hist = DOMAIN machine
        /\ \A e \in DOMAIN machine : DOMAIN hist[e] = 0 .. Capacity(machine[e]) - 1
        /\ \A e \in DOMAIN machine : \A x \in DOMAIN hist[e] : hist[e][x] = <<>>
    BY <1>1 DEF CoreInv, TypeOK, TestModeReadOnly
  <1>3. CASE UNCHANGED <<hist, bad>>
    BY <1>2, <1>3
  <1>4. CASE pc = "wipe_sectors" /\ \E r : Transfer(param.disk_id, 0, 0, r, buffer)
    <2>1. PICK r : Transfer(param.disk_id, 0, 0, r, buffer)
      BY <1>4
    <2>2. param.disk_id \in DOMAIN machine
      BY <1>4, ActiveParam DEF Active, Wiping
    <2>3. DOMAIN hist' = DOMAIN machine
      BY <1>2, <2>1 DEF Transfer
    <2>4. /\ DOMAIN hist'[d] = DOMAIN hist[d]
          /\ d # param.disk_id => hist'[d] = hist[d]
          /\ \A x \in DOMAIN hist[param.disk_id] :
               IF 0 <= x /\ x < 0 + 0
               THEN hist'[param.disk_id][x] = Append(hist[param.disk_id][x], buffer)
               ELSE hist'[param.disk_id][x] = hist[param.disk_id][x]
      <3>1. 0 \in Nat /\ d \in DOMAIN machine
        BY <2>3
      <3> QED BY <1>2, <2>1, <2>2, <3>1, TransferFacts
    <2> QED BY <1>2, <2>2, <2>3, <2>4
  <1> QED BY <1>1, <1>3, <1>4, MediaStep

(***************************************************************************)
(* With opt.test nothing is ever written to any disk (option.h: "only read *)
(* disk not write disk"), on any machine and whatever fails.               *)
(***************************************************************************)
THEOREM TestModeNeverWrites == Spec => []TestModeReadOnly
  <1>1. Init => TestModeReadOnly
    BY DEF Init, TestModeReadOnly
  <1> QED BY <1>1, CoreInvariant, StepReadOnly, PTL DEF Spec

-----------------------------------------------------------------------------
(* The control flow of do_main, as far as the media invariant needs it.    *)

\* wipe_disk has not written to the disk yet.
Early == {"wipe_disk", "scan_entry", "malloc"}

LEMMA MachineKept ==
  ASSUME [Next]_vars
  PROVE  machine' = machine
  <1>1. CASE EnumNone \/ (\E e \in BOOLEAN : EnumFound(e)) \/ EnumDone \/ SkipCdrom
    BY <1>1, Zenon DEF EnumNone, EnumFound, EnumDone, SkipCdrom
  <1>2. CASE ReadMbr \/ ScanEntry \/ Malloc \/ MallocFails \/ NextRequest \/ NoRequestLeft
    BY <1>2, Zenon DEF ReadMbr, ScanEntry, Malloc, MallocFails, NextRequest, NoRequestLeft
  <1>3. CASE NoChsAddress \/ TestRead \/ WipePass \/ WriteMbr \/ NoMbr \/ Count
    BY <1>3, Zenon DEF NoChsAddress, TestRead, WipePass, WriteMbr, NoMbr, Count
  <1>4. CASE UNCHANGED vars
    BY <1>4 DEF vars
  <1> QED BY <1>1, <1>2, <1>3, <1>4, Zenon DEF Next

LEMMA Frame ==
  ASSUME [Next]_vars
  PROVE  /\ opt' = opt
         /\ pc # "enum_disk" => disk_list' = disk_list
         /\ pc # "count" => index' = index /\ verdict' = verdict
         /\ pc = "count" => \/ UNCHANGED vars
                            \/ index' = index + 1 /\ verdict' = Append(verdict, ret)
         /\ pc' = "enum_disk" => pc = "enum_disk"
         /\ pc' \in Early => pc \in Early \cup {"enum_disk", "count"}
  <1>1. CASE EnumNone \/ (\E e \in BOOLEAN : EnumFound(e)) \/ EnumDone
    BY <1>1 DEF EnumNone, EnumFound, EnumDone, countVars, Early
  <1>2. CASE SkipCdrom \/ Malloc \/ MallocFails \/ NextRequest \/ NoRequestLeft \/ NoMbr
    BY <1>2 DEF SkipCdrom, Malloc, MallocFails, NextRequest, NoRequestLeft, NoMbr,
                countVars, enumVars, Early
  <1>3. CASE ReadMbr
    <2>1. /\ pc = "wipe_disk" /\ pc' \in {"malloc", "scan_entry"}
          /\ UNCHANGED <<opt, enumVars, countVars>>
      BY <1>3, Zenon DEF ReadMbr
    <2> QED BY <2>1 DEF countVars, enumVars, Early
  <1>4. CASE ScanEntry
    <2>1. /\ pc = "scan_entry" /\ pc' \in {"malloc", "scan_entry", "count"}
          /\ UNCHANGED <<opt, enumVars, countVars>>
      BY <1>4, Zenon DEF ScanEntry
    <2> QED BY <2>1 DEF countVars, enumVars, Early
  <1>5. CASE NoChsAddress \/ TestRead \/ WipePass
    <2>1. /\ pc = "wipe_sectors" /\ UNCHANGED <<opt, enumVars, countVars>>
          /\ pc' \in {"count", "loop", "write_mbr", "wipe_sectors"}
      <3>1. \A v : EndRequest(v) => pc' \in {"count", "loop", "write_mbr", "wipe_sectors"}
        BY DEF EndRequest
      <3>2. CASE NoChsAddress
        BY <3>1, <3>2, Zenon DEF NoChsAddress
      <3>3. CASE TestRead
        BY <3>1, <3>3, Zenon DEF TestRead
      <3>4. CASE WipePass
        <4>1. (\E v : EndRequest(v)) \/ pc' = pc
          BY <3>4, Zenon DEF WipePass
        <4>2. pc = "wipe_sectors" /\ UNCHANGED <<opt, enumVars, countVars>>
          BY <3>4, Zenon DEF WipePass
        <4> QED BY <3>1, <4>1, <4>2
      <3> QED BY <1>5, <3>2, <3>3, <3>4
    <2> QED BY <2>1 DEF countVars, enumVars, Early
  <1>6. CASE WriteMbr
    <2>1. pc = "write_mbr" /\ pc' = "count" /\ UNCHANGED <<opt, enumVars, countVars>>
      BY <1>6, Zenon DEF WriteMbr
    <2> QED BY <2>1 DEF countVars, enumVars, Early
  <1>7. CASE Count
    BY <1>7 DEF Count, enumVars, Early
  <1>8. CASE UNCHANGED vars
    BY <1>8 DEF vars, countVars, enumVars
  <1> QED
    BY <1>1, <1>2, <1>3, <1>4, <1>5, <1>6, <1>7, <1>8, Zenon DEF Next

\* A step leaves every drive but the one being wiped alone.
LEMMA MediaKept ==
  ASSUME CoreInv, [Next]_vars, NEW e \in DOMAIN machine,
         pc \in {"wipe_sectors", "write_mbr"} => e # param.disk_id
  PROVE  hist'[e] = hist[e] /\ bad'[e] = bad[e]
  <1>1. TypeOK /\ offset_lba \in Nat /\ nsectors \in Nat
    BY DEF CoreInv, TypeOK
  <1>2. CASE UNCHANGED <<hist, bad>>
    BY <1>2
  <1>3. CASE /\ pc \in {"wipe_sectors", "write_mbr"}
             /\ \E first \in Nat, cnt \in Nat : \E r, p : Transfer(param.disk_id, first, cnt, r, p)
    <2>0. PICK first \in Nat, cnt \in Nat : \E r, p : Transfer(param.disk_id, first, cnt, r, p)
      BY <1>3, Zenon
    <2>1. PICK r, p : Transfer(param.disk_id, first, cnt, r, p)
      BY <2>0, Zenon
    <2>2. param.disk_id \in DOMAIN machine /\ e # param.disk_id
      BY <1>3, ActiveParam DEF Active, Wiping
    <2> QED BY <1>1, <2>1, <2>2, TransferFacts
  <1>4. 0 .. nsectors \subseteq Nat /\ 0 .. 1 \subseteq Nat /\ 0 \in Nat
    BY <1>1
  <1>5. \/ UNCHANGED <<hist, bad>>
        \/ /\ pc \in {"wipe_sectors", "write_mbr"}
           /\ \E first \in Nat, cnt \in Nat : \E r, p : Transfer(param.disk_id, first, cnt, r, p)
    BY <1>1, <1>4, MediaStep, Zenon
  <1> QED BY <1>2, <1>3, <1>5

\* No drive is listed twice.
LEMMA IdsDiffer ==
  ASSUME CoreInv, NEW j \in 1 .. Len(disk_list), NEW k \in 1 .. Len(disk_list), j # k
  PROVE  disk_list[j].disk_id # disk_list[k].disk_id
  <1>1. disk_list[j].disk_id \in Nat /\ disk_list[k].disk_id \in Nat
    BY ListEntry DEF CoreInv
  <1>2. CASE j < k
    BY <1>1, <1>2 DEF CoreInv, ListInv
  <1>3. CASE k < j
    BY <1>1, <1>3 DEF CoreInv, ListInv
  <1> QED BY <1>2, <1>3

-----------------------------------------------------------------------------
(* Drives not reached yet.                                                 *)

LEMMA FreshStep ==
  ASSUME CoreInv, CoreInv', FreshInv, EnumFreshInv, [Next]_vars
  PROVE  FreshInv' /\ EnumFreshInv'
  <1> USE DEF CoreInv
  <1>1. DOMAIN hist = DOMAIN machine /\ DOMAIN hist' = DOMAIN machine' /\ machine' = machine
    <2>1. DOMAIN hist = DOMAIN machine /\ DOMAIN hist' = DOMAIN machine'
      BY DEF TypeOK
    <2> QED BY <2>1, MachineKept
  <1>2. CASE pc = "enum_disk"
    <2>1. \A e \in DOMAIN machine : hist'[e] = hist[e]
      BY <1>2, MediaKept
    <2>2. \A e \in DOMAIN hist' : \A s \in DOMAIN hist'[e] : hist'[e][s] = <<>>
      BY <1>1, <1>2, <2>1 DEF EnumFreshInv
    <2>3. \A k \in 1 .. Len(disk_list') : disk_list'[k].disk_id \in DOMAIN hist'
      BY <1>1 DEF ListInv, Describes
    <2> QED BY <2>2, <2>3 DEF EnumFreshInv, FreshInv
  <1>3. CASE pc # "enum_disk"
    <2>1. EnumFreshInv'
      BY <1>3, Frame DEF EnumFreshInv
    <2>2. ASSUME NEW k \in 1 .. Len(disk_list'),
                 k > index' \/ (k = index' /\ pc' \in {"enum_disk"} \cup Early)
          PROVE  \A s \in DOMAIN hist'[disk_list'[k].disk_id] :
                   hist'[disk_list'[k].disk_id][s] = <<>>
      <3>1. disk_list' = disk_list /\ k \in 1 .. Len(disk_list) /\ pc' # "enum_disk"
        BY <1>3, Frame
      <3>2. index \in Nat /\ index' \in Nat /\ k \in Nat
        BY DEF TypeOK
      <3>3. k > index \/ (k = index /\ pc \in Early)
        <4>1. CASE pc = "count"
          <5>1. CASE UNCHANGED vars
            BY <5>1, <2>2, <3>1, <4>1 DEF vars, countVars, Early
          <5>2. CASE index' = index + 1
            BY <5>2, <2>2, <3>2
          <5> QED BY <4>1, <5>1, <5>2, Frame
        <4>2. CASE pc # "count"
          BY <4>2, <1>3, <2>2, <3>1, Frame DEF Early
        <4> QED BY <4>1, <4>2
      <3>4. \A s \in DOMAIN hist[disk_list[k].disk_id] : hist[disk_list[k].disk_id][s] = <<>>
        BY <3>1, <3>3 DEF FreshInv, Early
      <3>5. pc \in {"wipe_sectors", "write_mbr"} => disk_list[k].disk_id # param.disk_id
        <4> SUFFICES ASSUME pc \in {"wipe_sectors", "write_mbr"}
                     PROVE  disk_list[k].disk_id # param.disk_id
          OBVIOUS
        <4>1. index \in 1 .. Len(disk_list)
          BY ActiveParam DEF Active, Wiping
        <4>2. k # index
          BY <3>2, <3>3 DEF Early
        <4> QED BY <3>1, <4>1, <4>2, IdsDiffer DEF param
      <3>6. disk_list[k].disk_id \in DOMAIN machine
        BY <3>1 DEF ListInv, Describes
      <3> QED BY <3>1, <3>4, <3>5, <3>6, MediaKept
    <2>3. FreshInv'
      BY <2>2 DEF FreshInv, Early
    <2> QED BY <2>1, <2>3
  <1> QED BY <1>2, <1>3

-----------------------------------------------------------------------------
(* The disk being wiped.                                                   *)

LEMMA RetStep ==
  ASSUME RetInv, [Next]_vars
  PROVE  RetInv'
  <1>1. CASE EnumNone \/ (\E e \in BOOLEAN : EnumFound(e)) \/ EnumDone
    BY <1>1 DEF EnumNone, EnumFound, EnumDone, RetInv
  <1>2. CASE SkipCdrom \/ Malloc \/ MallocFails \/ NextRequest \/ NoRequestLeft \/ NoMbr \/ Count
    BY <1>2 DEF SkipCdrom, Malloc, MallocFails, NextRequest, NoRequestLeft, NoMbr, Count, RetInv
  <1>3. CASE ReadMbr
    BY <1>3, Zenon DEF ReadMbr, RetInv
  <1>4. CASE ScanEntry
    <2>1. pc = "scan_entry" /\ (pc' = "count" \/ ret' = ret)
      BY <1>4, Zenon DEF ScanEntry
    <2> QED BY <2>1 DEF RetInv
  <1>5. CASE NoChsAddress \/ TestRead \/ WipePass \/ WriteMbr
    <2>1. pc \in {"wipe_sectors", "write_mbr"}
      BY <1>5, Zenon DEF NoChsAddress, TestRead, WipePass, WriteMbr
    <2>2. pc' \notin Early
      BY <2>1, Frame DEF Early
    <2> QED BY <2>2 DEF RetInv, Early
  <1>6. CASE UNCHANGED vars
    BY <1>6 DEF vars, RetInv
  <1> QED BY <1>1, <1>2, <1>3, <1>4, <1>5, <1>6, Zenon DEF Next

\* One more pass on a sector.
LEMMA AppendWritten ==
  ASSUME NEW mode, NEW e, NEW h \in Seq(Patterns), NEW n \in Nat, NEW p \in Patterns,
         Written(mode, e, h, n), (mode # "FAST" \/ e) => p = PassPattern(mode, n + 1)
  PROVE  Written(mode, e, Append(h, p), n + 1)
  <1>1. Len(h) = n /\ Len(Append(h, p)) = n + 1
    BY DEF Written
  <1>2. \A i \in 1 .. n : Append(h, p)[i] = h[i]
    BY <1>1
  <1>3. Append(h, p)[n + 1] = p
    BY <1>1
  <1>4. ASSUME mode # "FAST" \/ e, NEW i \in 1 .. n + 1
        PROVE  Append(h, p)[i] = PassPattern(mode, i)
    <2>1. CASE i \in 1 .. n
      BY <1>2, <1>4, <2>1 DEF Written
    <2>2. CASE i = n + 1
      BY <1>3, <1>4, <2>2
    <2>3. i \in 1 .. n \/ i = n + 1
      OBVIOUS
    <2> QED BY <2>1, <2>2, <2>3, Zenon
  <1> QED BY <1>1, <1>4 DEF Written

\* What pass i fills the buffer with is the pattern number i + 1.
LEMMA FillIsPattern ==
  ASSUME NEW mode \in Modes, NEW e, NEW i \in 0 .. 3, i < Passes(mode), NEW b,
         mode # "FAST" \/ e
  PROVE  Fill(mode, e, i, b) = PassPattern(mode, i + 1)
  <1>1. CASE mode = "FAST"
    BY <1>1 DEF Fill, PassPattern
  <1>2. CASE mode = "DOD"
    <2>1. i \in 0 .. 2
      BY <1>2 DEF Passes
    <2>2. i % 2 = 0 <=> i + 1 # 2
      BY <2>1
    <2> QED BY <1>2, <2>2 DEF Fill, PassPattern
  <1>3. CASE mode = "OCD"
    BY <1>3 DEF Fill, PassPattern
  <1> QED BY <1>1, <1>2, <1>3 DEF Modes

\* The media of the disk being worked on.
LEMMA CurrentMedia ==
  ASSUME CoreInv, Active
  PROVE  /\ DOMAIN hist[param.disk_id] = 0 .. Capacity(hw) - 1
         /\ DOMAIN hist[param.disk_id] \subseteq Nat
         /\ \A s \in DOMAIN hist[param.disk_id] : hist[param.disk_id][s] \in Seq(Patterns)
  <1>1. hw \in Hardware /\ param.disk_id \in DOMAIN machine /\ hw = machine[param.disk_id]
    BY ActiveParam
  <1>2. hist[param.disk_id] \in [0 .. Capacity(hw) - 1 -> Seq(Patterns)]
    BY <1>1 DEF CoreInv, TypeOK
  <1>3. Capacity(hw) \in Nat
    BY <1>1, CapacityNat
  <1> QED BY <1>2, <1>3

(***************************************************************************)
(* A pass: the sectors of the request that are not left out have one more  *)
(* pattern, the right one, and the others are as they were.                *)
(***************************************************************************)
LEMMA PassOnMedia ==
  ASSUME CoreInv, CurrentInv, WipePass, NEW s \in DOMAIN hist'[param.disk_id],
         s \notin bad'[param.disk_id]
  PROVE  /\ s \in Nat /\ s \in DOMAIN hist[param.disk_id]
         /\ Written(opt.mode, param.has_ext, hist'[param.disk_id][s],
                    IF s < offset_lba THEN Passes(opt.mode)
                    ELSE IF s < offset_lba + nsectors THEN pass + 1 ELSE 0)
  <1> DEFINE d == param.disk_id
             p == Fill(opt.mode, param.has_ext, pass, buffer)
  <1>1. /\ pc = "wipe_sectors" /\ ~opt.test /\ Active /\ Wiping
    BY Zenon DEF WipePass, Active, Wiping
  <1>2. PICK value \in Int, cnt \in 0 .. nsectors : Transfer(d, offset_lba, cnt, Request, p)
    BY WipePassFacts, Zenon
  <1>3. /\ TypeOK /\ d \in DOMAIN machine /\ offset_lba \in Nat /\ nsectors \in Nat
        /\ pass \in 0 .. 3 /\ buffer \in Patterns /\ opt.mode \in Modes
    BY <1>1, ActiveParam, OptFacts DEF CoreInv, TypeOK
  <1>4. cnt \in Nat /\ cnt <= nsectors
    BY <1>3
  <1>5. p \in Patterns
    BY <1>3, FillTypes
  <1>6. (opt.mode # "FAST" \/ param.has_ext) => p = PassPattern(opt.mode, pass + 1)
    <2>1. pass < Passes(opt.mode)
      BY <1>1 DEF CoreInv, LoopInv
    <2> QED BY <1>3, <2>1, FillIsPattern
  <1> HIDE DEF p, d
  <1>7. /\ s \in DOMAIN hist[d] /\ s \notin bad[d]
        /\ IF offset_lba <= s /\ s < offset_lba + cnt
           THEN hist'[d][s] = Append(hist[d][s], p)
           ELSE hist'[d][s] = hist[d][s]
        /\ s \in Request => offset_lba <= s /\ s < offset_lba + cnt
    BY <1>2, <1>3, <1>4, TransferFacts DEF d
  <1>8. s \in Nat /\ hist[d][s] \in Seq(Patterns)
    BY <1>1, <1>7, CurrentMedia DEF d
  <1>9. Written(opt.mode, param.has_ext, hist[d][s],
                IF s < offset_lba THEN Passes(opt.mode)
                ELSE IF s < offset_lba + nsectors THEN pass ELSE 0)
    BY <1>1, <1>7 DEF CurrentInv, PassesOn, d
  <1>10. CASE s < offset_lba
    BY <1>3, <1>7, <1>8, <1>9, <1>10 DEF d
  <1>11. CASE s >= offset_lba /\ s < offset_lba + nsectors
    <2>1. s \in offset_lba .. offset_lba + nsectors - 1
      BY <1>3, <1>8, <1>11
    <2>2. s \in Request
      BY <2>1, <1>7 DEF Request, d
    <2>3. hist'[d][s] = Append(hist[d][s], p)
      BY <1>7, <2>2
    <2>4. Written(opt.mode, param.has_ext, hist[d][s], pass)
      BY <1>3, <1>8, <1>9, <1>11
    <2>5. pass \in Nat
      BY <1>3
    <2>6. Written(opt.mode, param.has_ext, Append(hist[d][s], p), pass + 1)
      BY <1>5, <1>6, <1>8, <2>4, <2>5, AppendWritten
    <2> QED BY <1>3, <1>7, <1>8, <1>11, <2>3, <2>6 DEF d
  <1>12. CASE s >= offset_lba + nsectors
    <2>1. ~(s < offset_lba) /\ ~(s < offset_lba + nsectors) /\ ~(s < offset_lba + cnt)
      BY <1>3, <1>4, <1>8, <1>12
    <2> QED BY <1>7, <1>8, <1>9, <2>1 DEF d
  <1> QED BY <1>3, <1>8, <1>10, <1>11, <1>12

\* param and the media domain across a step inside wipe_disk.
LEMMA SameParam ==
  ASSUME [Next]_vars, pc # "enum_disk", pc # "count"
  PROVE  param' = param /\ opt' = opt
  BY Frame DEF param

LEMMA CurrentStep ==
  ASSUME CoreInv, CoreInv', CurrentInv, FreshInv, [Next]_vars
  PROVE  CurrentInv'
  <1> SUFFICES ASSUME Wiping', ~opt'.test, NEW s \in DOMAIN hist'[param'.disk_id],
                      s \notin bad'[param'.disk_id]
               PROVE  Written(opt'.mode, param'.has_ext, hist'[param'.disk_id][s], PassesOn(s)')
    BY DEF CurrentInv
  <1> DEFINE d == param.disk_id
  <1>1. CASE Malloc
    <2>1. /\ pc = "malloc" /\ Active /\ param' = param /\ opt' = opt /\ UNCHANGED <<hist, bad>>
          /\ pc' = "loop" /\ offset_lba' = 0
      BY <1>1, SameParam DEF Malloc, Active, mediaVars
    <2>2. s \in Nat /\ s \in DOMAIN hist[d]
      BY <2>1, CurrentMedia
    <2>3. hist[d][s] = <<>>
      BY <2>1, <2>2, ActiveParam DEF FreshInv, param
    <2>4. PassesOn(s)' = 0
      BY <2>1, <2>2 DEF PassesOn
    <2> QED BY <2>1, <2>3, <2>4 DEF Written
  <1>2. CASE NextRequest
    <2>1. /\ pc = "loop" /\ Active /\ Wiping /\ param' = param /\ opt' = opt
          /\ UNCHANGED <<hist, bad, offset_lba>> /\ pc' = "wipe_sectors" /\ pass' = 0
      BY <1>2, SameParam DEF NextRequest, Active, Wiping, mediaVars
    <2>2. Written(opt.mode, param.has_ext, hist[d][s], PassesOn(s))
      BY <2>1 DEF CurrentInv
    <2>3. PassesOn(s)' = PassesOn(s)
      BY <2>1 DEF PassesOn
    <2> QED BY <2>1, <2>2, <2>3
  <1>3. CASE NoRequestLeft
    <2>1. /\ pc = "loop" /\ Active /\ Wiping /\ param' = param /\ opt' = opt
          /\ UNCHANGED <<hist, bad, offset_lba, total_sec>> /\ pc' = "write_mbr"
          /\ total_sec - offset_lba = 0
      BY <1>3, SameParam DEF NoRequestLeft, Active, Wiping, mediaVars, wipeVars, left_sec
    <2>2. total_sec = offset_lba
      BY <2>1 DEF CoreInv, TypeOK
    <2>3. Written(opt.mode, param.has_ext, hist[d][s], PassesOn(s))
      BY <2>1 DEF CurrentInv
    <2>4. PassesOn(s)' = PassesOn(s)
      BY <2>1, <2>2 DEF PassesOn
    <2> QED BY <2>1, <2>3, <2>4
  <1>4. CASE WipePass
    <2>1. /\ pc = "wipe_sectors" /\ param' = param /\ opt' = opt /\ Wiping /\ Active
      BY <1>4, SameParam, Zenon DEF WipePass, Wiping, Active
    <2>2. /\ s \in Nat
          /\ Written(opt.mode, param.has_ext, hist'[d][s],
                     IF s < offset_lba THEN Passes(opt.mode)
                     ELSE IF s < offset_lba + nsectors THEN pass + 1 ELSE 0)
      BY <1>4, <2>1, PassOnMedia
    <2>3. /\ offset_lba \in Nat /\ nsectors \in Nat /\ total_sec \in Nat /\ pass \in 0 .. 3
          /\ pass < Passes(opt.mode) /\ Passes(opt.mode) \in 1 .. 4
          /\ nsectors' = nsectors /\ total_sec' = total_sec
      <3>1. nsectors' = nsectors /\ total_sec' = total_sec
        BY <1>4, Zenon DEF WipePass
      <3> QED BY <2>1, <3>1, OptFacts, PassesFacts DEF CoreInv, TypeOK, LoopInv
    <2>4. PICK value \in Int, cnt \in 0 .. nsectors :
            IF pass + 1 < Passes(opt.mode)
            THEN pass' = pass + 1 /\ ret' = value /\ UNCHANGED <<pc, offset_lba>>
            ELSE EndRequest(value)
      BY <1>4, WipePassFacts, Zenon
    <2>5. CASE pass + 1 < Passes(opt.mode)
      <3>1. pass' = pass + 1 /\ pc' = "wipe_sectors" /\ offset_lba' = offset_lba
        BY <2>1, <2>4, <2>5
      <3>2. PassesOn(s)' = IF s < offset_lba THEN Passes(opt.mode)
                           ELSE IF s < offset_lba + nsectors THEN pass + 1 ELSE 0
        BY <2>1, <2>3, <3>1 DEF PassesOn
      <3> QED BY <2>1, <2>2, <3>2
    <2>6. CASE ~(pass + 1 < Passes(opt.mode))
      <3>1. EndRequest(value) /\ pass + 1 = Passes(opt.mode)
        BY <2>3, <2>4, <2>6
      <3>2. IF InLoop THEN offset_lba' = offset_lba + nsectors /\ pc' = "loop"
                      ELSE offset_lba' = offset_lba /\ pc' = "write_mbr"
        BY <3>1 DEF EndRequest, Wiping
      <3>3. ~InLoop => offset_lba + nsectors = total_sec
        BY <2>1, RequestFacts
      <3>4. PassesOn(s)' = IF s < offset_lba + nsectors THEN Passes(opt.mode) ELSE 0
        <4>1. CASE InLoop
          BY <2>1, <2>2, <2>3, <3>2, <4>1 DEF PassesOn
        <4>2. CASE ~InLoop
          BY <2>1, <2>2, <2>3, <3>2, <3>3, <4>2 DEF PassesOn
        <4> QED BY <4>1, <4>2
      <3>5. PassesOn(s)' = IF s < offset_lba THEN Passes(opt.mode)
                           ELSE IF s < offset_lba + nsectors THEN pass + 1 ELSE 0
        BY <2>2, <2>3, <3>1, <3>4
      <3> QED BY <2>1, <2>2, <3>5
    <2> QED BY <2>5, <2>6
  <1>5. CASE UNCHANGED vars
    <2>1. UNCHANGED <<pc, opt, disk_list, index, hist, bad, offset_lba, nsectors, pass, total_sec>>
      BY <1>5 DEF vars, enumVars, wipeVars, countVars, mediaVars
    <2>2. Wiping /\ param' = param /\ PassesOn(s)' = PassesOn(s)
      BY <2>1 DEF Wiping, param, PassesOn
    <2> QED BY <2>1, <2>2 DEF CurrentInv
  <1>6. CASE EnumNone \/ (\E e \in BOOLEAN : EnumFound(e)) \/ EnumDone \/ SkipCdrom
             \/ MallocFails \/ NoMbr \/ Count
    BY <1>6 DEF EnumNone, EnumFound, EnumDone, SkipCdrom, MallocFails, NoMbr, Count, Wiping
  <1>7. CASE ReadMbr \/ ScanEntry
    <2>1. pc' \in {"malloc", "scan_entry", "count"}
      BY <1>7, Zenon DEF ReadMbr, ScanEntry
    <2> QED BY <2>1 DEF Wiping
  <1>8. CASE NoChsAddress
    <2>1. EndRequest(-1)
      BY <1>8, Zenon DEF NoChsAddress
    <2> QED BY <2>1 DEF EndRequest, Wiping
  <1>9. CASE TestRead
    <2>1. opt.test /\ opt' = opt
      BY <1>9, Zenon DEF TestRead
    <2> QED BY <2>1
  <1>10. CASE WriteMbr
    <2>1. pc' = "count"
      BY <1>10, Zenon DEF WriteMbr
    <2> QED BY <2>1 DEF Wiping
  <1> QED
    BY <1>1, <1>2, <1>3, <1>4, <1>5, <1>6, <1>7, <1>8, <1>9, <1>10, Zenon DEF Next

-----------------------------------------------------------------------------
(* The disk that has been wiped.                                           *)

\* All passes, and no boot record to come.
LEMMA OverwrittenPlain ==
  ASSUME NEW mode \in Modes, NEW e, NEW mbr, NEW s, NEW h, ~(mbr /\ s = 0),
         Written(mode, e, h, Passes(mode))
  PROVE  Overwritten(mode, e, mbr, s, h)
  <1>1. Passes(mode) \in Nat
    BY PassesFacts
  <1> QED BY <1>1 DEF Overwritten, Written

\* All passes, then the boot record.
LEMMA OverwrittenMbr ==
  ASSUME NEW mode \in Modes, NEW e, NEW h \in Seq(Patterns), Written(mode, e, h, Passes(mode))
  PROVE  Overwritten(mode, e, TRUE, 0, Append(h, "mbr"))
  <1>1. Passes(mode) \in Nat /\ Len(h) = Passes(mode)
    BY PassesFacts DEF Written
  <1>2. "mbr" \in Patterns
    BY DEF Patterns
  <1>3. /\ Len(Append(h, "mbr")) = Passes(mode) + 1
        /\ Append(h, "mbr")[Passes(mode) + 1] = "mbr"
        /\ \A i \in 1 .. Passes(mode) : Append(h, "mbr")[i] = h[i]
    BY <1>1, <1>2
  <1> HIDE DEF Patterns
  <1>4. (mode # "FAST" \/ e) =>
          \A n \in 1 .. Passes(mode) : Append(h, "mbr")[n] = PassPattern(mode, n)
    BY <1>3 DEF Written
  <1> QED BY <1>3, <1>4 DEF Overwritten

\* At write_mbr every sector the wipe covers has all its passes.
LEMMA AllPasses ==
  ASSUME CoreInv, CurrentInv, pc = "write_mbr", ~opt.test,
         NEW s \in DOMAIN hist[param.disk_id], s \notin bad[param.disk_id], s < total_sec
  PROVE  Written(opt.mode, param.has_ext, hist[param.disk_id][s], Passes(opt.mode))
  <1>1. PassesOn(s) = Passes(opt.mode)
    BY DEF PassesOn
  <1> QED BY <1>1 DEF CurrentInv, Wiping

\* How a disk comes to be counted with the value 0.
LEMMA CountedZero ==
  ASSUME CoreInv, RetInv, [Next]_vars, pc' = "count", ret' = 0
  PROVE  NoMbr \/ WriteMbr \/ UNCHANGED vars
  <1>1. CASE EnumNone \/ (\E e \in BOOLEAN : EnumFound(e)) \/ EnumDone \/ SkipCdrom
             \/ Malloc \/ NextRequest \/ NoRequestLeft \/ Count
    BY <1>1 DEF EnumNone, EnumFound, EnumDone, SkipCdrom, Malloc, NextRequest, NoRequestLeft, Count
  <1>2. CASE MallocFails
    BY <1>2 DEF MallocFails, RetInv
  <1>3. CASE ReadMbr
    <2>1. ret' = -1
      BY <1>3, Zenon DEF ReadMbr
    <2> QED BY <2>1
  <1>4. CASE ScanEntry
    <2>1. pc = "scan_entry" /\ (ret' = 1 \/ ret' = ret)
      BY <1>4, Zenon DEF ScanEntry
    <2> QED BY <2>1 DEF RetInv
  <1>5. CASE NoChsAddress
    <2>1. EndRequest(-1)
      BY <1>5, Zenon DEF NoChsAddress
    <2> QED BY <2>1 DEF EndRequest
  <1>6. CASE TestRead
    <2>1. PICK value : EndRequest(value)
      BY <1>6, Zenon DEF TestRead
    <2> QED BY <2>1 DEF EndRequest
  <1>7. CASE WipePass
    <2>1. pc = "wipe_sectors"
      BY <1>7, Zenon DEF WipePass
    <2>2. PICK value \in Int, cnt \in 0 .. nsectors :
            IF pass + 1 < Passes(opt.mode)
            THEN pass' = pass + 1 /\ ret' = value /\ UNCHANGED <<pc, offset_lba>>
            ELSE EndRequest(value)
      BY <1>7, WipePassFacts, Zenon
    <2>3. EndRequest(value)
      BY <2>1, <2>2
    <2> QED BY <2>3 DEF EndRequest
  <1> QED BY <1>1, <1>2, <1>3, <1>4, <1>5, <1>6, <1>7, Zenon DEF Next

\* The step that ends the wipe of a disk finishes it.
LEMMA WipeEnds ==
  ASSUME CoreInv, CurrentInv, [Next]_vars, NoMbr \/ WriteMbr, ~opt.test
  PROVE  FinishedDisk(param, opt, hist'[param.disk_id], bad'[param.disk_id])
  <1> DEFINE d == param.disk_id
  <1>1. pc = "write_mbr" /\ Active /\ Wiping
    BY Zenon DEF NoMbr, WriteMbr, Active, Wiping
  <1>2. total_sec = TotalSectors
    BY <1>1 DEF CoreInv, LoopInv
  <1>3. opt.mode \in Modes /\ opt.mbr \in BOOLEAN
    BY OptionsAssumption DEF CoreInv, TypeOK, options_t
  <1> SUFFICES ASSUME NEW s \in DOMAIN hist'[d], s < total_sec, s \notin bad'[d]
               PROVE  Overwritten(opt.mode, param.has_ext, opt.mbr, s, hist'[d][s])
    BY <1>2 DEF FinishedDisk, TotalSectors
  <1>4. CASE NoMbr
    <2>1. hist' = hist /\ bad' = bad /\ ~opt.mbr
      BY <1>4 DEF NoMbr, mediaVars, WantsMbr
    <2>2. Written(opt.mode, param.has_ext, hist[d][s], Passes(opt.mode))
      BY <1>1, <2>1, AllPasses
    <2> QED BY <1>3, <2>1, <2>2, OverwrittenPlain
  <1>5. CASE WriteMbr
    <2>1. opt.mbr
      BY <1>5, Zenon DEF WriteMbr, WantsMbr
    <2>2. PICK cnt \in 0 .. 1 : Transfer(d, 0, cnt, {0} \cap DOMAIN hist[d], "mbr")
      BY <1>5, WriteMbrFacts
    <2> DEFINE r == {0} \cap DOMAIN hist[d]
    <2>3. TypeOK /\ d \in DOMAIN machine /\ cnt \in Nat /\ 0 \in Nat
      BY <1>1, ActiveParam DEF CoreInv
    <2>4. Transfer(d, 0, cnt, r, "mbr")
      BY <2>2
    <2>5. \A x \in DOMAIN hist[d] : (x \in r <=> x = 0)
      OBVIOUS
    <2> HIDE DEF r, d
    <2>6. /\ s \in DOMAIN hist[d] /\ s \notin bad[d]
          /\ IF 0 <= s /\ s < 0 + cnt
             THEN hist'[d][s] = Append(hist[d][s], "mbr")
             ELSE hist'[d][s] = hist[d][s]
          /\ s \in r => 0 <= s /\ s < 0 + cnt
      BY <2>3, <2>4, TransferFacts
    <2>7. s \in Nat /\ hist[d][s] \in Seq(Patterns)
      BY <1>1, <2>6, CurrentMedia DEF d
    <2>8. Written(opt.mode, param.has_ext, hist[d][s], Passes(opt.mode))
      BY <1>1, <2>6, AllPasses DEF d
    <2>9. CASE s = 0
      <3>1. hist'[d][s] = Append(hist[d][s], "mbr")
        BY <2>5, <2>6, <2>9
      <3>2. opt.mbr = TRUE
        BY <1>3, <2>1
      <3>3. Overwritten(opt.mode, param.has_ext, TRUE, 0, Append(hist[d][s], "mbr"))
        BY <1>3, <2>7, <2>8, OverwrittenMbr
      <3> QED BY <2>9, <3>1, <3>2, <3>3, Zenon
    <2>10. CASE s # 0
      <3>1. hist'[d][s] = hist[d][s]
        BY <2>2, <2>6, <2>7, <2>10
      <3>2. ~(opt.mbr /\ s = 0)
        BY <2>10
      <3> QED BY <1>3, <2>8, <3>1, <3>2, OverwrittenPlain
    <2> QED BY <2>9, <2>10
  <1> QED BY <1>4, <1>5

LEMMA DoneStep ==
  ASSUME CoreInv, CoreInv', RetInv, CurrentInv, DoneInv, [Next]_vars
  PROVE  DoneInv'
  <1> SUFFICES ASSUME ~opt'.test
               PROVE  /\ \A k \in 1 .. Len(verdict') : verdict'[k] = 0 => Finished(k)'
                      /\ (pc' = "count" /\ ret' = 0) => Finished(index)'
    BY DEF DoneInv
  <1>1. opt' = opt /\ ~opt.test
    BY Frame
  <1>2. ASSUME NEW k \in 1 .. Len(verdict'), verdict'[k] = 0 PROVE Finished(k)'
    <2>1. verdict \in Seq(Int) /\ index \in Nat \ {0} /\ ret \in Int /\ Len(verdict) = index - 1
      BY DEF CoreInv, TypeOK, IndexInv
    <2>2. pc # "enum_disk"
      BY <1>2, <2>1, Frame DEF CoreInv, IndexInv
    <2>3. disk_list' = disk_list
      BY <2>2, Frame
    <2>4. CASE k \in 1 .. Len(verdict)
      <3>1. verdict'[k] = verdict[k]
        <4>1. verdict' = verdict \/ verdict' = Append(verdict, ret)
          <5>1. UNCHANGED vars => verdict' = verdict
            BY DEF vars, countVars
          <5> QED BY <5>1, Frame, Zenon
        <4>2. Append(verdict, ret)[k] = verdict[k]
          BY <2>1, <2>4
        <4> QED BY <4>1, <4>2
      <3>2. FinishedDisk(disk_list[k], opt, hist[disk_list[k].disk_id], bad[disk_list[k].disk_id])
        BY <1>1, <1>2, <2>4, <3>1 DEF DoneInv, Finished
      <3>3. k \in 1 .. Len(disk_list) /\ k # index
        <4>1. Len(disk_list) \in Nat /\ index <= Len(disk_list) + 1
          BY DEF CoreInv, IndexInv, TypeOK
        <4> QED BY <2>1, <2>4, <4>1
      <3>4. disk_list[k].disk_id \in DOMAIN machine
        BY <3>3 DEF CoreInv, ListInv, Describes
      <3>5. pc \in {"wipe_sectors", "write_mbr"} => disk_list[k].disk_id # param.disk_id
        <4> SUFFICES ASSUME pc \in {"wipe_sectors", "write_mbr"}
                     PROVE  disk_list[k].disk_id # param.disk_id
          OBVIOUS
        <4>1. index \in 1 .. Len(disk_list)
          BY ActiveParam DEF Active, Wiping
        <4> QED BY <3>3, <4>1, IdsDiffer DEF param
      <3>6. /\ hist'[disk_list[k].disk_id] = hist[disk_list[k].disk_id]
            /\ bad'[disk_list[k].disk_id] = bad[disk_list[k].disk_id]
        BY <3>4, <3>5, MediaKept
      <3> QED BY <1>1, <2>3, <3>2, <3>6 DEF Finished
    <2>5. CASE k \notin 1 .. Len(verdict)
      <3>1. pc = "count" /\ ~UNCHANGED vars
        BY <1>2, <2>5, Frame DEF vars, countVars
      <3>2. verdict' = Append(verdict, ret)
        BY <3>1, Frame
      <3>3. k = index /\ ret = 0
        BY <1>2, <2>1, <2>5, <3>2
      <3>4. FinishedDisk(disk_list[k], opt, hist[disk_list[k].disk_id], bad[disk_list[k].disk_id])
        BY <1>1, <3>1, <3>3 DEF DoneInv, Finished
      <3>5. disk_list[k].disk_id \in DOMAIN machine
        BY <3>1, <3>3, ActiveParam DEF Active, param
      <3>6. /\ hist'[disk_list[k].disk_id] = hist[disk_list[k].disk_id]
            /\ bad'[disk_list[k].disk_id] = bad[disk_list[k].disk_id]
        BY <3>1, <3>5, MediaKept
      <3> QED BY <1>1, <2>3, <3>4, <3>6 DEF Finished
    <2> QED BY <2>4, <2>5
  <1>3. ASSUME pc' = "count", ret' = 0 PROVE Finished(index)'
    <2>1. NoMbr \/ WriteMbr \/ UNCHANGED vars
      BY <1>1, <1>3, CountedZero
    <2>2. CASE NoMbr \/ WriteMbr
      <3>1. pc = "write_mbr"
        BY <2>2, Zenon DEF NoMbr, WriteMbr
      <3>2. disk_list' = disk_list /\ index' = index
        BY <3>1, Frame
      <3>3. FinishedDisk(param, opt, hist'[param.disk_id], bad'[param.disk_id])
        BY <1>1, <2>2, WipeEnds
      <3> QED BY <1>1, <3>2, <3>3 DEF Finished, param
    <2>3. CASE UNCHANGED vars
      <3>1. UNCHANGED <<pc, ret, disk_list, index, hist, bad>>
        BY <2>3 DEF vars, enumVars, countVars, mediaVars
      <3>2. Finished(index)
        BY <1>1, <1>3, <3>1 DEF DoneInv
      <3> QED BY <1>1, <3>1, <3>2 DEF Finished
    <2> QED BY <2>1, <2>2, <2>3
  <1> QED BY <1>2, <1>3

-----------------------------------------------------------------------------
(* The theorems.                                                           *)

LEMMA InitMedia == Init => RetInv /\ CurrentInv /\ FreshInv /\ EnumFreshInv /\ DoneInv
  <1> SUFFICES ASSUME Init PROVE RetInv /\ CurrentInv /\ FreshInv /\ EnumFreshInv /\ DoneInv
    OBVIOUS
  <1>1. pc = "enum_disk" /\ disk_list = <<>> /\ verdict = <<>>
    BY DEF Init
  <1>2. \A d \in DOMAIN hist : \A s \in DOMAIN hist[d] : hist[d][s] = <<>>
    BY DEF Init
  <1> QED BY <1>1, <1>2 DEF RetInv, CurrentInv, FreshInv, EnumFreshInv, DoneInv, Wiping

LEMMA MediaInductive ==
  ASSUME WipeInv, [Next]_vars
  PROVE  WipeInv'
  <1>1. CoreInv /\ RetInv /\ CurrentInv /\ FreshInv /\ EnumFreshInv /\ DoneInv
    BY DEF WipeInv, CoreInv
  <1>2. CoreInv'
    BY <1>1, CoreStep
  <1>3. RetInv'
    BY <1>1, RetStep
  <1>4. FreshInv' /\ EnumFreshInv'
    BY <1>1, <1>2, FreshStep
  <1>5. CurrentInv'
    BY <1>1, <1>2, CurrentStep
  <1>6. DoneInv'
    BY <1>1, <1>2, DoneStep
  <1> QED BY <1>2, <1>3, <1>4, <1>5, <1>6 DEF WipeInv, CoreInv

(***************************************************************************)
(* The invariant of module DwipeInv holds of do_main: at every moment of a *)
(* wipe each sector of the disk has seen exactly the passes that the       *)
(* position of the loop says, and drives not reached yet have seen none.   *)
(***************************************************************************)
THEOREM WipeInvariant == Spec => []WipeInv
  <1>1. Init => WipeInv
    BY InitCore, InitMedia DEF WipeInv, CoreInv
  <1> QED BY <1>1, MediaInductive, PTL DEF Spec

LEMMA InvariantSuffices == WipeInv => WipedInFull
  <1> SUFFICES ASSUME WipeInv, NEW k \in 1 .. Len(verdict), verdict[k] = 0, ~opt.test,
                      NEW s \in DOMAIN hist[disk_list[k].disk_id],
                      \/ ~opt.force_chs /\ disk_list[k].disk_id \notin blind
                      \/ s < chs_capacity(disk_list[k]),
                      s \notin bad[disk_list[k].disk_id]
               PROVE  Overwritten(opt.mode, disk_list[k].has_ext, opt.mbr, s,
                                  hist[disk_list[k].disk_id][s])
    BY DEF WipedInFull
  <1> DEFINE p == disk_list[k]
             h == machine[p.disk_id]
             n == IF p.has_ext /\ ~opt.force_chs THEN p.nsectors ELSE chs_capacity(p)
  <1>1. FinishedDisk(p, opt, hist[p.disk_id], bad[p.disk_id])
    BY DEF WipeInv, DoneInv, Finished
  <1>2. k \in 1 .. Len(disk_list)
    <2>1. /\ Len(disk_list) \in Nat /\ index <= Len(disk_list) + 1
          /\ index \in Nat /\ Len(verdict) = index - 1
      BY DEF WipeInv, IndexInv, TypeOK
    <2> QED BY <2>1
  <1>3. Describes(p)
    BY <1>2 DEF WipeInv, ListInv
  <1>4. p.disk_id \in DOMAIN machine
    BY <1>3 DEF Describes
  <1>5. DOMAIN hist[p.disk_id] = 0 .. Capacity(h) - 1
    BY <1>4 DEF WipeInv, TypeOK
  <1>6. chs_capacity(p) = chs_capacity(h)
    BY <1>3 DEF Describes, chs_capacity
  <1>7. Capacity(h) \in Nat
    BY <1>4, MachineFacts, CapacityNat DEF WipeInv
  <1>8. s \in Nat /\ s < Capacity(h)
    BY <1>5, <1>7
  <1>9. s < n
    <2>1. CASE p.has_ext /\ ~opt.force_chs
      BY <1>3, <1>8, <2>1 DEF Describes, Capacity
    <2>2. CASE ~(p.has_ext /\ ~opt.force_chs)
      <3>1. CASE s < chs_capacity(p)
        BY <2>2, <3>1
      <3>2. CASE ~opt.force_chs /\ p.disk_id \notin blind
        <4>1. ~p.has_ext /\ ~h.ext
          BY <1>3, <2>2, <3>2 DEF Describes
        <4> QED BY <1>6, <1>8, <2>2, <4>1 DEF Capacity
      <3> QED BY <3>1, <3>2
    <2> QED BY <2>1, <2>2
  <1> QED BY <1>1, <1>9 DEF FinishedDisk

(***************************************************************************)
(* For every machine, every option set and every pattern of device faults, *)
(* a disk that do_main counts as wiped has every pass of the mode, in      *)
(* order, on every sector no failed or short transfer left out, and the    *)
(* boot record last when it was asked for (dwipe.c wipe_disk, do_main).    *)
(***************************************************************************)
THEOREM CountedDisksAreWiped == Spec => []WipedInFull
  BY WipeInvariant, InvariantSuffices, PTL
=============================================================================
