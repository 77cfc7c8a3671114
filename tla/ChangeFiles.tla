------------------------------ MODULE ChangeFiles ------------------------------
(***************************************************************************)
(* The commit path of every writer of the brain repository: the diff that  *)
(* brain_sync.apply_changes computes between what a source wants and what  *)
(* the folder held when it was listed, the batches the diff is posted in,  *)
(* and the answer of Forgejo's change-files API to one batch.              *)
(*                                                                         *)
(* A folder is a function from paths to blobs, Absent where there is no    *)
(* file.  A blob's sha identifies it, so the sha an operation carries is   *)
(* the blob the listing saw.                                               *)
(***************************************************************************)
EXTENDS FiniteSets

CONSTANT Absent     \* "no file": never a blob

(***************************************************************************)
(* One operation: create when from = Absent, delete when to = Absent,      *)
(* update otherwise; from is the sha it carries.                           *)
(***************************************************************************)
Change(path, from, to) == [path |-> path, from |-> from, to |-> to]

\* Variant: every desired file is posted, changed or not.
DiffOfAll(desired, existing, keep) ==
    { Change(p, existing[p], desired[p]) :
        p \in { q \in DOMAIN existing :
                  \/ desired[q] # Absent
                  \/ existing[q] # Absent /\ q \notin keep } }

(***************************************************************************)
(* What apply_changes puts into ops: every desired file whose blob differs *)
(* from the listing, and a delete for every listed file that is neither    *)
(* desired nor kept.                                                       *)
(***************************************************************************)
Diff(desired, existing, keep) ==
    { Change(p, existing[p], desired[p]) :
        p \in { q \in DOMAIN existing :
                  /\ desired[q] # existing[q]
                  /\ desired[q] = Absent => q \notin keep } }

(***************************************************************************)
(* ops are sorted by path, deletes after everything else, so that paths in *)
(* first (the dot-files) come before the notes.  The order among the notes *)
(* depends on their titles, which are not modelled: any order is possible. *)
(***************************************************************************)
Earlier(c, d, first) ==
    \/ c.to # Absent /\ d.to = Absent
    \/ c.to # Absent /\ c.path \in first /\ d.path \notin first

(***************************************************************************)
(* The next batch is a non-empty prefix of the remaining ops; where it is  *)
(* cut depends on the sizes of the files (MAX_COMMIT_BYTES), so every cut  *)
(* is possible.                                                            *)
(***************************************************************************)
Batches(pending, first) ==
    { b \in SUBSET pending :
        /\ b # {}
        /\ \A d \in b, c \in pending : Earlier(c, d, first) => c \in b }

(***************************************************************************)
(* Forgejo applies a batch as one commit when every operation still finds  *)
(* the blob it names.  It answers 404 when a file to update or delete is   *)
(* gone, 422 when another blob is there (a create of an existing file, a   *)
(* sha that does not match).                                               *)
(***************************************************************************)
IsCurrent(folder, batch) == \A c \in batch : folder[c.path] = c.from

IsGone(folder, batch) ==
    \E c \in batch : c.from # Absent /\ folder[c.path] = Absent

IsStale(folder, batch) ==
    \E c \in batch : folder[c.path] \notin {Absent, c.from}

(***************************************************************************)
(* The folder after a batch is committed.                                  *)
(***************************************************************************)
Committed(folder, batch) ==
    [ p \in DOMAIN folder |->
        IF \E c \in batch : c.path = p
        THEN (CHOOSE c \in batch : c.path = p).to
        ELSE folder[p] ]
================================================================================
