-------------------------------- MODULE Fat ---------------------------------
(***************************************************************************)
(* The label test of fat.c, contain_fat_label: which sector it takes for   *)
(* the boot sector of a partition, and whether a label matches there.      *)
(* The label is compared at the FAT32 and at the FAT16 offset of the boot  *)
(* sector; a sector is modelled by the set of names found at the two.      *)
(***************************************************************************)
EXTENDS Disk

CONSTANT Labels   \* volume labels, cut at their first space

\* struct mbr_entry: partition type, first sector as C/H/S and as LBA
mbr_entry ==
  [type : Nat, cylinder : Nat, head : Nat, sector : Nat, lba_begin : Nat]

\* the size of contain_fat_label's stack buffer
fat_buffer_size == 1024

UsesChs(e) == e.type \in {11, 239}          \* 0xB, 0xEF

chs_ret(param, e, rc) ==
  sector_chs_read_ret(param, e.cylinder, e.head, e.sector, 1, fat_buffer_size, rc)

\* Mutant: type 0xE forgotten.
UsesLba_mut(param, e, rc) ==
  \/ e.type = 12
  \/ e.type = 239 /\ chs_ret(param, e, rc) # 0

\* 0xC and 0xE go by LBA; 0xEF tries LBA when the C/H/S read returned non-zero.
UsesLba(param, e, rc) ==
  \/ e.type \in {12, 14}
  \/ e.type = 239 /\ chs_ret(param, e, rc) # 0

lba_ret(param, e, rl) ==
  sectors_lba_rw_ret(FALSE, param, e.lba_begin, 1, fat_buffer_size, rl)

(***************************************************************************)
(* The sector examined for an entry, as a set of at most one sector, for   *)
(* the answers rc and rl of the BIOS to the two reads.  A C/H/S read that  *)
(* returns 0 but fewer than 512 bytes leaves nothing to examine.           *)
(***************************************************************************)
BootSector(param, e, rc, rl) ==
  IF UsesLba(param, e, rc)
  THEN { x \in {e.lba_begin} : lba_ret(param, e, rl) = 0 }
  ELSE { x \in {chs2lba(param, e.cylinder, e.head, e.sector)} :
           UsesChs(e) /\ chs_ret(param, e, rc) = 0 /\ rc.cnt = 1 }
=============================================================================
