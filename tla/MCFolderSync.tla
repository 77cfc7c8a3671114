------------------------------ MODULE MCFolderSync -----------------------------
(***************************************************************************)
(* Two files, two source commits, two edits or failures.                   *)
(***************************************************************************)
EXTENDS FolderSync
================================================================================
