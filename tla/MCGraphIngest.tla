---------------------------- MODULE MCGraphIngest ------------------------------
(***************************************************************************)
(* Two notes, a text of one part and one of two, and the empty text; a     *)
(* batch takes one note.                                                   *)
(***************************************************************************)
EXTENDS GraphIngest, TLC

CONSTANTS note, other, short, long, empty

AllParts == short :> 1 @@ long :> 2 @@ empty :> 0
FullParts == short :> 1 @@ long :> 2
================================================================================
