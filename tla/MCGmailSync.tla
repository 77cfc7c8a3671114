------------------------------ MODULE MCGmailSync ------------------------------
(***************************************************************************)
(* Two threads of the same date and subject, so that they compete for the  *)
(* plain name; two entity pages their people may have; a budget of one     *)
(* look and one rendering per pass.  People break the index and remove the *)
(* note of the plain name.                                                 *)
(***************************************************************************)
EXTENDS GmailSync

MCThreads == {1, 2}
MCShort == [t \in MCThreads |-> t]
MCEdits == {<<IndexPath, Hand>>, <<<<"2026-01-05 Plans", NoSuffix>>, Absent>>}
MCBase == [t \in MCThreads |-> "2026-01-05 Plans"]
================================================================================
