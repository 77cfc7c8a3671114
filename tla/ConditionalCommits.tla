--------------------------- MODULE ConditionalCommits --------------------------
(***************************************************************************)
(* What a writer of the brain repository promises about a folder that      *)
(* people edit too, whatever it renders and however it fails: it looks at  *)
(* the folder, and until it looks again it replaces or removes only files  *)
(* that are still exactly as it saw them.                                  *)
(*                                                                         *)
(* A commit of one file looks like an edit; the clock, which advances with *)
(* what others do and never with a commit that succeeds, tells them apart. *)
(***************************************************************************)
EXTENDS Naturals

CONSTANTS Paths,    \* the paths of the folder
          Blobs,    \* every content a path can have
          Absent,   \* no file
          Nothing   \* the writer holds no listing

VARIABLES folder,   \* what the branch holds
          seen,     \* the listing the writer works from, or Nothing
          clock     \* what has happened outside the writer, and its failures

vars == <<folder, seen, clock>>

States == [Paths -> Blobs \cup {Absent}]

Init == folder \in States /\ seen = Nothing /\ clock = 0

\* The writer lists the folder.
Look == seen' = folder /\ UNCHANGED <<folder, clock>>

\* The writer's pass is over, whether it finished, failed or was killed.
Forget == seen' = Nothing /\ clock' \in {clock, clock + 1} /\ UNCHANGED folder

\* One commit, which may also be the last act of the pass: its answer is lost.
Commit ==
    /\ seen # Nothing
    /\ folder' \in States
    /\ \A p \in Paths : folder'[p] # folder[p] => folder[p] = seen[p]
    /\ \/ seen' = seen /\ clock' = clock
       \/ seen' = Nothing /\ clock' \in {clock, clock + 1}

\* Somebody else changes one file.
Edit ==
    /\ clock' = clock + 1
    /\ \E p \in Paths, b \in Blobs \cup {Absent} :
         folder' = [folder EXCEPT ![p] = b]
    /\ UNCHANGED seen

\* Something else happens.
Elapse == clock' = clock + 1 /\ UNCHANGED <<folder, seen>>

Next == Look \/ Forget \/ Commit \/ Edit \/ Elapse

Spec == Init /\ [][Next]_vars
================================================================================
