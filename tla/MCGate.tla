------------------------------- MODULE MCGate -------------------------------
(***************************************************************************)
(* A layout like the linker's: the program is linked to 1 MB, and four     *)
(* structures, aligned to 16, follow 0x110 bytes of real-mode code; the    *)
(* buffer has 63 sectors.                                                  *)
(***************************************************************************)
EXTENDS Gate

MCreal_code_begin     == 1048576 + 51552
MCreal_reg            == MCreal_code_begin + 272
MCreal_dap            == MCreal_code_begin + 304
MCreal_disk_param_ext == MCreal_code_begin + 320
MCreal_buffer         == MCreal_code_begin + 352
=============================================================================
