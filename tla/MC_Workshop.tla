---------------------------- MODULE MC_Workshop ----------------------------
(***************************************************************************)
(* One Workshop for TLC: its bounds are integers, set in the .cfg files.   *)
(***************************************************************************)
EXTENDS Workshop
=============================================================================
