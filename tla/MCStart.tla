------------------------------ MODULE MCStart -------------------------------
(***************************************************************************)
(* Every start-up: with and without an 8042, port 0x92 and UART, in each   *)
(* state firmware leaves them in, with up to MaxKeys keys pressed.         *)
(***************************************************************************)
EXTENDS Start
=============================================================================
