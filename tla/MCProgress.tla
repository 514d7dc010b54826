----------------------------- MODULE MCProgress -----------------------------
(***************************************************************************)
(* The machines of MCDwipe, with the progress line; a bar of two columns,  *)
(* so that some updates redraw it and some do not.                         *)
(***************************************************************************)
EXTENDS MCDwipe, Progress
=============================================================================
