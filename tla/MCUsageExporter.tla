---------------------------- MODULE MCUsageExporter ----------------------------
(***************************************************************************)
(* Claude Code, whose cache tells of one message or of none, and a tool    *)
(* with documents; two files and two messages each.                        *)
(***************************************************************************)
EXTENDS UsageExporter
================================================================================
