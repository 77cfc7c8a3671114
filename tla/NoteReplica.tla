------------------------------ MODULE NoteReplica ------------------------------
(***************************************************************************)
(* What graph-ingest promises to those who ask the graph: it shows notes   *)
(* of the branch, each whole and in one text at a time, as they were when  *)
(* it last looked.                                                         *)
(***************************************************************************)
CONSTANTS
    Notes,
    Texts,
    Absent   \* no note; nothing shown; not looking

VARIABLES
    branch,  \* the notes
    seen,    \* the notes as the replica saw them, while it works
    shown    \* the notes it shows

vars == <<branch, seen, shown>>

Archive == [Notes -> Texts \cup {Absent}]

Init ==
    /\ branch \in Archive
    /\ seen = Absent
    /\ shown = [n \in Notes |-> Absent]

\* Somebody changes a note.
Commit ==
    /\ \E n \in Notes, t \in Texts \cup {Absent} : branch' = [branch EXCEPT ![n] = t]
    /\ UNCHANGED <<seen, shown>>

Look == seen = Absent /\ seen' = branch /\ UNCHANGED <<branch, shown>>

Close == seen' = Absent /\ UNCHANGED <<branch, shown>>

\* A text goes only if the note was seen to have another, or to be gone.
Withdraw ==
    /\ seen # Absent
    /\ \E n \in Notes :
        /\ shown[n] # Absent /\ shown[n] # seen[n]
        /\ shown' = [shown EXCEPT ![n] = Absent]
    /\ UNCHANGED <<branch, seen>>

\* A text appears only where no other is shown.
Show ==
    /\ seen # Absent
    /\ \E n \in Notes :
        /\ shown[n] = Absent /\ seen[n] # Absent
        /\ shown' = [shown EXCEPT ![n] = seen[n]]
    /\ UNCHANGED <<branch, seen>>

Next == Commit \/ Look \/ Close \/ Withdraw \/ Show

Spec == Init /\ [][Next]_vars
================================================================================
