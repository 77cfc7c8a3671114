----------------------------- MODULE MCMeerkatSync -----------------------------
(***************************************************************************)
(* Two contacts, one write per pass, so that a pass leaves work over.      *)
(***************************************************************************)
EXTENDS MeerkatSync
================================================================================
