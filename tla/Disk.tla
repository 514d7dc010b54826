-------------------------------- MODULE Disk --------------------------------
(***************************************************************************)
(* The INT 13h layer, disk.c: what a request needs to be accepted, and the *)
(* value a request returns for what the BIOS answered.                     *)
(*                                                                         *)
(* A struct disk_param is a geometry (module Geometry) with disk_id,       *)
(* has_ext and the two fields of struct disk_param_ext that are used,      *)
(* nsectors and bytes_per_sector.  All return values follow disk.c:        *)
(* 0 success, -1 request refused before the BIOS is called, otherwise the  *)
(* AH the BIOS left with the carry flag set.                               *)
(***************************************************************************)
EXTENDS Geometry

\* disk.c: BIOS_MAX_SECTOR_CNT, MAX_SECTOR_BUFFER_SIZE
BIOS_MAX_SECTOR_CNT    == 63
MAX_SECTOR_BUFFER_SIZE == BIOS_MAX_SECTOR_CNT * 512

CONSTANT ErrCodes   \* the AH codes the BIOS uses with the carry flag set

ASSUME ErrCodesAssumption == ErrCodes \subseteq Nat \ {0}

disk_param ==
  [disk_id : Nat,
   last_heads : 0 .. CHS_HEAD_MAX + 1, last_cylinders : 0 .. CHS_CYLINDER_MAX,
   last_sectors_per_track : 0 .. CHS_SECTOR_MAX,
   has_ext : BOOLEAN, nsectors : Nat, bytes_per_sector : Nat]

\* sector_size as computed by sector_chs_rw and sector_chs_verify
chs_sector_size(param) ==
  IF param.has_ext THEN param.bytes_per_sector ELSE 512

-----------------------------------------------------------------------------
(* Requests that return -1 without calling the BIOS.                       *)

sector_chs_verify_refuses(param, c, h, s, nsector, size) ==
  LET bytes == nsector * chs_sector_size(param)
  IN  \/ varify_chs(c, h, s) < 0
      \/ nsector > BIOS_MAX_SECTOR_CNT
      \/ bytes > size
      \/ bytes > MAX_SECTOR_BUFFER_SIZE
      \/ ~OnDisk(param, c, h, s)

sector_chs_rw_refuses(is_write, param, c, h, s, nsector, size) ==
  \/ sector_chs_verify_refuses(param, c, h, s, nsector, size)
  \/ is_write /\ size > MAX_SECTOR_BUFFER_SIZE

(***************************************************************************)
(* sectors_lba_rw compares offset with the unsigned 64-bit nsectors - 1,   *)
(* so a disk of zero sectors refuses no offset; the test of the last       *)
(* sector of the request is commented out in the code.                     *)
(***************************************************************************)
sectors_lba_rw_refuses(is_write, param, offset, nsector, size) ==
  LET bytes == nsector * param.bytes_per_sector
  IN  \/ ~param.has_ext
      \/ param.nsectors # 0 /\ offset > param.nsectors - 1
      \/ nsector > BIOS_MAX_SECTOR_CNT
      \/ bytes > MAX_SECTOR_BUFFER_SIZE
      \/ bytes > size
      \/ is_write /\ size > MAX_SECTOR_BUFFER_SIZE

-----------------------------------------------------------------------------
(***************************************************************************)
(* External: what INT 13h answers.  cf is the carry flag, ah the status,   *)
(* cnt how many sectors were transferred, from the first one on.  A        *)
(* transfer that starts or ends beyond the last sector fails.  With the    *)
(* carry flag clear an extended transfer is complete, a C/H/S transfer     *)
(* may be shorter: the caller is told the count in AL.                     *)
(***************************************************************************)
TransferAnswers(capacity, first, nsector, lba) ==
  { a \in [cf : BOOLEAN, ah : ErrCodes \cup {0}, cnt : 0 .. nsector] :
      /\ a.cf <=> a.ah # 0
      /\ a.cnt # 0 => first + a.cnt <= capacity
      /\ ~a.cf => first + nsector <= capacity
      /\ ~a.cf /\ lba => a.cnt = nsector }

VerifyAnswers == { a \in [cf : BOOLEAN, ah : ErrCodes \cup {0}] : a.cf <=> a.ah # 0 }

\* The device failed a request it should have served.
IsFault(capacity, first, nsector, answer) ==
  /\ first + nsector <= capacity
  /\ answer.cf \/ answer.cnt < nsector

-----------------------------------------------------------------------------
(***************************************************************************)
(* The value of sector_chs_rw(1, ...) for the answer w to the write and v  *)
(* to the verification.  size becomes cnt * sector_size, so a short write  *)
(* makes sector_chs_verify refuse with -1; the function then returns the   *)
(* AH of the write, which is 0.                                            *)
(***************************************************************************)
sector_chs_write_ret(param, c, h, s, nsector, size, check, w, v) ==
  IF sector_chs_rw_refuses(TRUE, param, c, h, s, nsector, size) THEN -1
  ELSE IF w.cf THEN w.ah
  ELSE IF ~check THEN 0
  ELSE IF sector_chs_verify_refuses(param, c, h, s, nsector,
                                    w.cnt * chs_sector_size(param))
  THEN w.ah
  ELSE v.ah

sector_chs_read_ret(param, c, h, s, nsector, size, r) ==
  IF sector_chs_rw_refuses(FALSE, param, c, h, s, nsector, size) THEN -1
  ELSE r.ah

\* check only sets bit 0 of AL: the verification is the BIOS's own.
sectors_lba_rw_ret(is_write, param, offset, nsector, size, a) ==
  IF sectors_lba_rw_refuses(is_write, param, offset, nsector, size) THEN -1
  ELSE a.ah
=============================================================================
