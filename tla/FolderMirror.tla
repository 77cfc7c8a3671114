------------------------------ MODULE FolderMirror ------------------------------
(***************************************************************************)
(* What a copy of a folder promises that is refreshed now and then while   *)
(* its source changes: it may show files of different moments, or a file   *)
(* that was being replaced as Torn, but what it showed of a file it never  *)
(* takes back for something older, and it never shows anything older than  *)
(* the commit it names.                                                    *)
(***************************************************************************)
EXTENDS Naturals

CONSTANTS
    Files,
    Torn       \* a file caught while it was replaced; not a number

VARIABLES
    source,    \* for each file, the commit that last touched it
    tip,       \* how many commits the source has
    copy,      \* for each file, the commit whose text the copy shows
    label      \* for each file, the commit that had last touched it at the
               \* commit the copy names

vars == <<source, tip, copy, label>>

Init ==
    /\ tip \in Nat /\ source \in [Files -> 0 .. tip]
    /\ copy = [f \in Files |-> 0] /\ label = [f \in Files |-> 0]

Commit ==
    /\ tip' = tip + 1
    /\ source' \in {[f \in Files |-> IF f \in t THEN tip + 1 ELSE source[f]] : t \in SUBSET Files}
    /\ UNCHANGED <<copy, label>>

Refresh ==
    /\ copy' \in [Files -> (0 .. tip) \cup {Torn}]
    /\ label' \in [Files -> 0 .. tip]
    /\ \A f \in Files :
        /\ label[f] <= label'[f] /\ label'[f] <= source[f]
        /\ copy'[f] # Torn => label'[f] <= copy'[f] /\ copy'[f] <= source[f]
        /\ copy[f] # Torn /\ copy'[f] # Torn => copy[f] <= copy'[f]
    /\ UNCHANGED <<source, tip>>

\* The copy is lost with the process that held it.
Lose ==
    /\ copy' = [f \in Files |-> 0] /\ label' = [f \in Files |-> 0]
    /\ UNCHANGED <<source, tip>>

Next == Commit \/ Refresh \/ Lose

Spec == Init /\ [][Next]_vars
================================================================================
