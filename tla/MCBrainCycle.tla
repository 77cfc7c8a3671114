----------------------------- MODULE MCBrainCycle ------------------------------
(***************************************************************************)
(* The loop with up to MaxEvents changes, foreign commits, failures and    *)
(* restarts; triggers and the timers are not counted.                      *)
(***************************************************************************)
EXTENDS BrainCycle

================================================================================
