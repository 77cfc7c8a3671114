------------------------------- MODULE BranchJobs ------------------------------
(***************************************************************************)
(* The two CronJobs that write folders of the brain repository while       *)
(* others commit to main: brain-imports (apps/ai/brain/imports), whose     *)
(* scripts render a folder and which commits through the change-files API, *)
(* and repo-mirror (apps/ai/brain/repo-mirror/mirror.sh), which replaces a *)
(* folder by the tree of a GitHub repository and pushes with git.  Neither *)
(* runs twice at once; both start from nothing every time.                 *)
(*                                                                         *)
(* Abstractions: one import, one mirror; a text is Made by the script, the *)
(* source commit that wrote it, or Hand; git merges whole files.           *)
(***************************************************************************)
EXTENDS ChangeFiles, Naturals, Sequences

CONSTANTS
    Files,       \* in each of the two folders
    Stamp,       \* .source-commit
    Made,        \* what the script writes
    Hand,        \* what a person writes
    Nothing,     \* see ConditionalCommits
    MaxTries,    \* git push is tried this often
    MaxCommits, MaxEvents   \* bounds: source commits; edits, failures and outcomes of the script

ASSUME BoundsAssumption ==
    MaxTries \in Nat \ {0} /\ MaxCommits \in Nat \ {0} /\ MaxEvents \in Nat
ASSUME ConstantsAssumption ==
    /\ Stamp \notin Files
    /\ Made # Hand /\ {Made, Hand, Absent} \cap Nat = {} /\ Absent \notin {Made, Hand}

VARIABLES
    past,        \* the trees of the GitHub repository
    tip,         \* how many commits main has
    imported, mirrored,   \* the two folders on main
    \* brain-imports
    ipc,
    copy,        \* /work/repo: the folder as archived
    trees,       \* the folder as listed by fetch
    made,        \* what the script left there
    pending,     \* operations not posted yet
    \* mirror.sh
    mpc,
    head,        \* head of the source
    base, baseTip,  \* main as cloned or pulled last
    ours,        \* the local commit: the folder it wants
    tries,
    hand,        \* mirrored files edited since they were mirrored (history)
    late,        \* ... since the clone (history)
    events       \* how much of MaxEvents is used

main == <<tip, imported, mirrored>>
import == <<ipc, copy, trees, made, pending>>
mirror == <<mpc, head, base, baseTip, ours, tries>>
history == <<hand, late>>
vars == <<past, main, import, mirror, history, events>>

--------------------------------------------------------------------------------
Paths == Files \cup {Stamp}
Commits == 1 .. MaxCommits
Tip == past[Len(past)]
NoFiles == [f \in Files |-> Absent]
Empty == [p \in Paths |-> Absent]

Init ==
    /\ past = <<[f \in Files |-> 1]>>
    /\ tip = 0 /\ imported = NoFiles /\ mirrored = Empty
    /\ ipc = "idle" /\ copy = NoFiles /\ trees = NoFiles /\ made = NoFiles /\ pending = {}
    /\ mpc = "idle" /\ head = 0 /\ base = Empty /\ baseTip = 0 /\ ours = Empty /\ tries = 0
    /\ hand = {} /\ late = {} /\ events = 0

Event == events < MaxEvents /\ events' = events + 1

\* Somebody pushes to the source.
PushSource ==
    /\ Len(past) < MaxCommits
    /\ \E f \in Files, t \in {Len(past) + 1, Absent} :
          past' = Append(past, [Tip EXCEPT ![f] = t])
    /\ UNCHANGED <<main, import, mirror, history, events>>

\* Somebody edits a note of the imported folder.
EditImported ==
    /\ Event /\ tip' = tip + 1
    /\ \E f \in Files, t \in {Hand, Absent} : imported' = [imported EXCEPT ![f] = t]
    /\ UNCHANGED <<past, mirrored, import, mirror, history>>

EditMirrored ==
    /\ Event /\ tip' = tip + 1
    /\ \E f \in Files, t \in {Hand, Absent} :
          /\ mirrored' = [mirrored EXCEPT ![f] = t]
          /\ hand' = hand \cup {f} /\ late' = late \cup {f}
    /\ UNCHANGED <<past, imported, import, mirror>>

--------------------------------------------------------------------------------
(***************************************************************************)
(* brain-imports: fetch, run, commit.                                      *)
(***************************************************************************)

\* fetch: the archive of the head it read.
FetchArchive ==
    /\ ipc = "idle"
    /\ ipc' = "fetched" /\ copy' = imported
    /\ UNCHANGED <<past, main, trees, made, pending, mirror, history, events>>

\* ... and then list_tree of the branch, as it is by now.
FetchTree ==
    /\ ipc = "fetched"
    /\ ipc' = "listed" /\ trees' = imported
    /\ UNCHANGED <<past, main, copy, made, pending, mirror, history, events>>

\* run: the script rewrites, deletes or leaves each file of its copy.
RunScript ==
    /\ ipc = "listed" /\ Event
    /\ ipc' = "ran"
    /\ made' \in {m \in [Files -> {Made, Hand, Absent}] :
                     \A f \in Files : m[f] \in {copy[f], Made, Absent}}
    /\ UNCHANGED <<past, main, copy, trees, pending, mirror, history>>

\* The job is over: script failed or timed out, deadline, error of Forgejo.
ImportEnds ==
    /\ ipc # "idle" /\ Event
    /\ ipc' = "idle" /\ pending' = {}
    /\ UNCHANGED <<past, main, copy, trees, made, mirror, history>>

\* Mutant: commits whatever changed meanwhile.
CommitAnyway ==
    /\ ipc = "ran"
    /\ ipc' = "commit" /\ pending' = Diff(made, imported, {})
    /\ UNCHANGED <<past, main, copy, trees, made, mirror, history, events>>

\* commit: a folder that is not as listed is skipped.
Commit ==
    /\ ipc = "ran"
    /\ \/ imported = trees /\ ipc' = "commit" /\ pending' = Diff(made, imported, {})
       \/ imported # trees /\ ipc' = "idle" /\ UNCHANGED pending
    /\ UNCHANGED <<past, main, copy, trees, made, mirror, history, events>>

PostBatch ==
    /\ ipc = "commit"
    /\ \E b \in Batches(pending, {}) :
        /\ IsCurrent(imported, b)
        /\ imported' = Committed(imported, b) /\ pending' = pending \ b
    /\ tip' = tip + 1
    /\ UNCHANGED <<past, mirrored, ipc, copy, trees, made, mirror, history, events>>

\* 422 raises; 404 is taken for an answer.
PostRefused ==
    /\ ipc = "commit"
    /\ \E b \in Batches(pending, {}) :
        \/ IsStale(imported, b) /\ ipc' = "idle" /\ pending' = {}
        \/ IsGone(imported, b) /\ ipc' = ipc /\ pending' = pending \ b
    /\ UNCHANGED <<past, main, copy, trees, made, mirror, history, events>>

CommitDone ==
    /\ ipc = "commit" /\ pending = {}
    /\ ipc' = "idle"
    /\ UNCHANGED <<past, main, copy, trees, made, pending, mirror, history, events>>

Imports ==
    FetchArchive \/ FetchTree \/ RunScript \/ Commit \/ PostBatch \/ PostRefused \/ CommitDone

--------------------------------------------------------------------------------
(***************************************************************************)
(* mirror.sh.                                                              *)
(***************************************************************************)

\* git ls-remote.
LsRemote ==
    /\ mpc = "idle"
    /\ mpc' = "remote" /\ head' = Len(past)
    /\ UNCHANGED <<past, main, import, base, baseTip, ours, tries, history, events>>

\* Mutant: up to date when the folder has ever been mirrored.
CloneBrainOnce ==
    /\ mpc = "remote"
    /\ mpc' = IF mirrored[Stamp] # Absent THEN "idle" ELSE "cloned"
    /\ base' = mirrored /\ baseTip' = tip /\ late' = {}
    /\ UNCHANGED <<past, main, import, head, ours, tries, hand, events>>

\* Clones brain; up to date when the stamp there is the head.
CloneBrain ==
    /\ mpc = "remote"
    /\ mpc' = IF mirrored[Stamp] = head THEN "idle" ELSE "cloned"
    /\ base' = mirrored /\ baseTip' = tip /\ late' = {}
    /\ UNCHANGED <<past, main, import, head, ours, tries, hand, events>>

\* Mutant: the tree is unpacked over the old one.
CloneSourceOver ==
    /\ mpc = "cloned"
    /\ mpc' = "push" /\ tries' = 1
    /\ ours' = [p \in Paths |-> IF p = Stamp THEN head
                               ELSE IF Tip[p] = Absent THEN base[p] ELSE Tip[p]]
    /\ UNCHANGED <<past, main, import, head, base, baseTip, history, events>>

\* Clones the source, as it is by now, and commits.
CloneSource ==
    /\ mpc = "cloned"
    /\ mpc' = "push" /\ tries' = 1
    /\ ours' = [p \in Paths |-> IF p = Stamp THEN head ELSE Tip[p]]
    /\ UNCHANGED <<past, main, import, head, base, baseTip, history, events>>

\* Mutant: push --force.
PushForced ==
    /\ mpc = "push"
    /\ mpc' = "idle" /\ tip' = tip + 1 /\ mirrored' = ours /\ hand' = late
    /\ UNCHANGED <<past, imported, import, head, base, baseTip, ours, tries, late, events>>

\* git push: only on top of what was cloned.
Push ==
    /\ mpc = "push" /\ tip = baseTip
    /\ mpc' = "idle" /\ tip' = tip + 1 /\ mirrored' = ours /\ hand' = late
    /\ UNCHANGED <<past, imported, import, head, base, baseTip, ours, tries, late, events>>

Conflict ==
    \E p \in Paths : mirrored[p] # base[p] /\ ours[p] # base[p] /\ mirrored[p] # ours[p]

\* Refused: git pull --rebase, which stops the script on a conflict.
Pull ==
    /\ mpc = "push" /\ tip # baseTip
    /\ mpc' = IF Conflict \/ tries = MaxTries THEN "idle" ELSE "push"
    /\ tries' = tries + 1
    /\ ours' = [p \in Paths |-> IF ours[p] = base[p] THEN mirrored[p] ELSE ours[p]]
    /\ base' = mirrored /\ baseTip' = tip
    /\ UNCHANGED <<past, main, import, head, history, events>>

MirrorEnds ==
    /\ mpc # "idle" /\ Event
    /\ mpc' = "idle"
    /\ UNCHANGED <<past, main, import, head, base, baseTip, ours, tries, history>>

Mirror == LsRemote \/ CloneBrain \/ CloneSource \/ Push \/ Pull

Next ==
    \/ Imports \/ Mirror
    \/ PushSource \/ EditImported \/ EditMirrored \/ ImportEnds \/ MirrorEnds

Spec == Init /\ [][Next]_vars

\* The schedules start the jobs again and again.
FairSpec == Spec /\ WF_vars(Imports) /\ WF_vars(Mirror)

--------------------------------------------------------------------------------
(***************************************************************************)
(* Properties.                                                             *)
(***************************************************************************)
Texts == Commits \cup {Made, Hand, Absent}

\* Every variable stays in its type.
TypeOK ==
    /\ past \in Seq([Files -> Commits \cup {Absent}]) /\ Len(past) \in Commits
    /\ tip \in Nat /\ imported \in [Files -> Texts] /\ mirrored \in [Paths -> Texts]
    /\ ipc \in {"idle", "fetched", "listed", "ran", "commit"}
    /\ {copy, trees, made} \subseteq [Files -> Texts]
    /\ pending \subseteq [path : Files, from : Texts, to : Texts]
    /\ mpc \in {"idle", "remote", "cloned", "push"} /\ head \in 0 .. MaxCommits
    /\ base \in [Paths -> Texts] /\ baseTip \in Nat /\ ours \in [Paths -> Texts]
    /\ tries \in 0 .. MaxTries + 1
    /\ hand \subseteq Files /\ late \subseteq hand /\ events \in 0 .. MaxEvents

\* README.md, "repo-mirror": but for files people edited since, the folder is
\* one tree of the source, that of the commit it names or a later one: however
\* many pushes were refused and rebased, and whoever committed in between, no
\* mixture of two trees reaches main.
StampHonest ==
    mirrored[Stamp] # Absent =>
        /\ mirrored[Stamp] \in 1 .. Len(past)
        /\ \E i \in mirrored[Stamp] .. Len(past) : \A f \in Files \ hand : mirrored[f] = past[i][f]

Safe == TypeOK /\ StampHonest

(***************************************************************************)
(* Why it is, and what the commits rely on.                                *)
(***************************************************************************)
Cloned == mpc \in {"cloned", "push"}

\* An operation carries what fetch listed and the script made.
PendingFromListing ==
    ipc = "commit" => \A o \in pending : o.from = trees[o.path] /\ o.to = made[o.path]

\* A clone lacks only what people edited since; when main has not moved, nothing.
CloneCurrent ==
    /\ baseTip <= tip
    /\ Cloned => /\ tip = baseTip => mirrored = base
                 /\ \A p \in Paths : mirrored[p] # base[p] => p \in late

\* The local commit is the head and one tree of the source, that of the head or
\* a later one, rebased onto what people edited.
OursIsTree ==
    /\ mpc # "idle" => head \in 1 .. Len(past)
    /\ mpc = "push" =>
          /\ tries \in 1 .. MaxTries /\ ours[Stamp] = head
          /\ \E i \in head .. Len(past) : \A f \in Files \ late : ours[f] = past[i][f]

\* The inductive invariant.
IInv == TypeOK /\ StampHonest /\ PendingFromListing /\ CloneCurrent /\ OursIsTree

\* README.md, "brain-imports": if the folder changed in the repository while the
\* script ran, the import does not touch what changed; and repo-mirror replaces
\* nothing it has not seen when it cloned or pulled: see ConditionalCommits.
Blobs == Commits \cup {Made, Hand}

ASSUME NothingAssumption == Nothing \notin [Files -> Texts] \cup [Paths -> Texts]

ImportCommits == INSTANCE ConditionalCommits WITH
    Paths <- Files, folder <- imported,
    seen <- IF ipc \in {"listed", "ran", "commit"} THEN trees ELSE Nothing,
    clock <- events

MirrorCommits == INSTANCE ConditionalCommits WITH
    folder <- mirrored,
    seen <- IF mpc \in {"cloned", "push"} THEN base ELSE Nothing,
    clock <- events

Conditional == ImportCommits!Spec /\ MirrorCommits!Spec

\* Once the source and the people rest, the folder holds the tip of the source,
\* but for later edits, though every commit elsewhere on main makes a push fail.
MirrorCatchesUp ==
    <>[](mirrored[Stamp] = Len(past) /\ \A f \in Files \ hand : mirrored[f] = Tip[f])
================================================================================
