----------------------------- MODULE MCRiffadoSync -----------------------------
(***************************************************************************)
(* Two recordings, two titles: the second recording's note is plain or     *)
(* carries its id, according to the first one's title.                     *)
(***************************************************************************)
EXTENDS RiffadoSync, TLC

CONSTANTS t1, t2

MCRecordings == {1, 2}
MCShort == [r \in MCRecordings |-> r]
MCTitles == {t1, t2}
================================================================================
