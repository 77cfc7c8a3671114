----------------------------- MODULE MCBrainReader -----------------------------
(***************************************************************************)
(* Two notes, three commits, two faults.                                   *)
(***************************************************************************)
EXTENDS BrainReader
================================================================================
