------------------------------ MODULE MCBranchJobs -----------------------------
(***************************************************************************)
(* Two files in each folder, two source commits, two pushes a run.         *)
(***************************************************************************)
EXTENDS BranchJobs
================================================================================
