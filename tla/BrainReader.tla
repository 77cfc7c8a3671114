------------------------------ MODULE BrainReader ------------------------------
(***************************************************************************)
(* brain-mcp (apps/ai/brain/mcp): the sidecar git-sync.sh keeps a clone of *)
(* the brain repository and writes META_DIR/lastmod and META_DIR/HEAD      *)
(* after every change; the server brain_mcp.py loads every note into a     *)
(* snapshot when HEAD changes, without any lock against the sidecar, and   *)
(* answers tool calls from the snapshot.  Others commit at any time, and   *)
(* each of the two containers may restart.                                 *)
(*                                                                         *)
(* Abstractions: a file's text is the commit that last touched it (wrote   *)
(* or deleted it), so that a tree is known by its commit; Torn is a file   *)
(* git has not written yet, or has unlinked to write it again.  A transfer *)
(* is one step: what a killed one leaves of a clone has no commit, and is  *)
(* fetched and reset.  What the tools compute from the notes they find     *)
(* (search scores, snippets, headings) is left out.                        *)
(***************************************************************************)
EXTENDS Integers, Sequences, FiniteSetsExt

CONSTANTS
    Files,       \* the notes
    Torn,        \* no text, or half of one
    MaxCommits, MaxFaults   \* bounds

ASSUME FilesAssumption == Torn \notin Nat
ASSUME BoundsAssumption == MaxCommits \in Nat \ {0} /\ MaxFaults \in Nat

VARIABLES
    touched,     \* for each commit of main, the files it touched
    \* git-sync.sh
    git,         \* where its loop is
    target,      \* FETCH_HEAD
    work,        \* the files of the clone
    head,        \* HEAD of the clone; 0: there is no clone
    last,        \* last
    \* META_DIR
    lastmod,     \* the commit whose log lastmod is; 0: no file
    headFile,    \* HEAD; 0: no file
    \* brain_mcp.py
    srv,         \* where reload_loop is
    todo,        \* files load has not read yet
    new,         \* the snapshot load is building
    snap,        \* SNAP
    told,        \* the text of each note that was told last (history)
    half,        \* the commit published from a clone not checked out (history)
    faults       \* how much of MaxFaults is used

sidecar == <<git, target, work, head, last>>
meta == <<lastmod, headFile>>
server == <<srv, todo, new, snap>>
vars == <<touched, sidecar, meta, server, told, half, faults>>

--------------------------------------------------------------------------------
Commits == 0 .. MaxCommits
Texts == Commits \cup {Torn}

\* The commit that had last touched a file at commit c.
VersionIn(commits, f, c) == Max({i \in 1 .. c : f \in commits[i]} \cup {0})
Version(f, c) == VersionIn(touched, f, c)

NoSnapshot == [head |-> 0, dates |-> 0, notes |-> [f \in Files |-> 0]]

Init ==
    /\ touched = <<Files>>
    /\ git = "poll" /\ target = 0 /\ work = [f \in Files |-> Torn]
    /\ head = 0 /\ last = 0 /\ lastmod = 0 /\ headFile = 0 /\ half = 0
    /\ srv = "idle" /\ todo = {} /\ new = NoSnapshot /\ snap = NoSnapshot
    /\ told = [f \in Files |-> 0]
    /\ faults = 0

\* Somebody pushes to main.
Commit ==
    /\ Len(touched) < MaxCommits
    /\ \E t \in (SUBSET Files) \ {{}} : touched' = Append(touched, t)
    /\ UNCHANGED <<sidecar, meta, server, told, half, faults>>

--------------------------------------------------------------------------------
(***************************************************************************)
(* git-sync.sh.                                                            *)
(***************************************************************************)

\* What main has now: fetch, or else clone, which sets HEAD before it checks
\* anything out.
Fetch ==
    /\ git = "poll"
    /\ target' = Len(touched)
    /\ \/ head # 0 /\ git' = "reset" /\ UNCHANGED head
       \/ head = 0 /\ git' = "clone" /\ head' = target'
    /\ UNCHANGED <<touched, work, last, meta, server, told, half, faults>>

\* A failed clone starts over; a failed fetch keeps what is there.
FetchFails ==
    /\ git = "poll" /\ faults < MaxFaults
    /\ git' = IF head = 0 THEN "poll" ELSE "log"
    /\ faults' = faults + 1
    /\ UNCHANGED <<touched, target, work, head, last, meta, server, told, half>>

Behind == {f \in Files : work[f] # Version(f, target)}

\* checkout or reset --hard replaces one file: unlinks it, then writes it.
Replace ==
    /\ git \in {"clone", "reset"}
    /\ \E f \in Behind :
          work' = [work EXCEPT ![f] = IF @ = Torn THEN Version(f, target) ELSE Torn]
    /\ UNCHANGED <<touched, git, target, head, last, meta, server, told, half, faults>>

\* ... and reset moves HEAD last.
ResetDone ==
    /\ git \in {"clone", "reset"} /\ Behind = {}
    /\ git' = "log" /\ head' = target
    /\ UNCHANGED <<touched, target, work, last, meta, server, told, half, faults>>

\* The checkout fails half way, for instance on a full disk: git keeps the
\* clone, HEAD and all, and the loop starts over.
CheckoutFails ==
    /\ git = "clone" /\ Behind # {} /\ faults < MaxFaults
    /\ git' = "poll" /\ faults' = faults + 1
    /\ UNCHANGED <<touched, target, work, head, last, meta, server, told, half>>

\* reset fails half way: the loop keeps HEAD and goes on.
ResetFails ==
    /\ git = "reset" /\ Behind # {} /\ faults < MaxFaults
    /\ git' = "log" /\ faults' = faults + 1
    /\ UNCHANGED <<touched, target, work, head, last, meta, server, told, half>>

\* git log > lastmod, when HEAD of the clone is not the one published last.
Log ==
    /\ git = "log"
    /\ \/ head # last /\ git' = "head" /\ lastmod' = head
       \/ head = last /\ git' = "poll" /\ UNCHANGED lastmod
    /\ UNCHANGED <<touched, target, work, head, last, headFile, server, told, half, faults>>

\* Mutant: remembers the commit although its log was not written.
LogFailsForGood ==
    /\ git = "log" /\ head # last /\ faults < MaxFaults
    /\ git' = "poll" /\ faults' = faults + 1 /\ last' = head
    /\ UNCHANGED <<touched, target, work, head, meta, server, told, half>>

LogFails ==
    /\ git = "log" /\ head # last /\ faults < MaxFaults
    /\ git' = "poll" /\ faults' = faults + 1
    /\ UNCHANGED <<touched, target, work, head, last, meta, server, told, half>>

\* HEAD is published whatever the files are: after a clone whose checkout
\* failed and a fetch that failed too, with half of them.
Publish ==
    /\ git = "head"
    /\ git' = "poll" /\ headFile' = head /\ last' = head
    /\ half' = IF head = target /\ Behind # {} THEN head ELSE half
    /\ UNCHANGED <<touched, target, work, head, lastmod, server, told, faults>>

\* The container restarts; the volume stays.
SidecarRestarts ==
    /\ faults < MaxFaults /\ faults' = faults + 1
    /\ git' = "poll" /\ last' = 0
    /\ UNCHANGED <<touched, target, work, head, meta, server, told, half>>

GitSync == Fetch \/ Replace \/ ResetDone \/ Log \/ Publish

--------------------------------------------------------------------------------
(***************************************************************************)
(* brain_mcp.py: reload_loop and load.                                     *)
(***************************************************************************)

\* read_head, read_lastmod; then load walks the clone.
Load ==
    /\ srv = "idle" /\ headFile # 0 /\ headFile # snap.head
    /\ srv' = "lastmod" /\ new' = [NoSnapshot EXCEPT !.head = headFile]
    /\ UNCHANGED <<touched, sidecar, meta, todo, snap, told, half, faults>>

ReadLastmod ==
    /\ srv = "lastmod"
    /\ srv' = "walk" /\ todo' = Files
    /\ new' = [new EXCEPT !.dates = lastmod]
    /\ UNCHANGED <<touched, sidecar, meta, snap, told, half, faults>>

ReadNote ==
    /\ srv = "walk"
    /\ \E f \in todo :
        /\ todo' = todo \ {f}
        /\ new' = [new EXCEPT !.notes[f] = work[f]]
    /\ UNCHANGED <<touched, sidecar, meta, srv, snap, told, half, faults>>

\* Mutant: the snapshot is shown while it is built.
SwapEarly ==
    /\ srv = "walk"
    /\ snap' = new /\ srv' = IF todo = {} THEN "idle" ELSE srv
    /\ UNCHANGED <<touched, sidecar, meta, todo, new, told, half, faults>>

\* Mutant: the snapshot is named for what HEAD says when it is done.
SwapHeadLast ==
    /\ srv = "walk" /\ todo = {}
    /\ srv' = "idle" /\ snap' = [new EXCEPT !.head = headFile]
    /\ UNCHANGED <<touched, sidecar, meta, todo, new, told, half, faults>>

Swap ==
    /\ srv = "walk" /\ todo = {}
    /\ srv' = "idle" /\ snap' = new
    /\ UNCHANGED <<touched, sidecar, meta, todo, new, told, half, faults>>

ServerRestarts ==
    /\ faults < MaxFaults /\ faults' = faults + 1
    /\ srv' = "idle" /\ todo' = {} /\ new' = NoSnapshot /\ snap' = NoSnapshot
    /\ UNCHANGED <<touched, sidecar, meta, told, half>>

Reload == Load \/ ReadLastmod \/ ReadNote \/ Swap

--------------------------------------------------------------------------------
(***************************************************************************)
(* Tool calls.  Each binds SNAP once and tells of the notes in it, but     *)
(* get_entity calls read_note, which binds it again: it is two calls, and  *)
(* the text it tells may be of a later snapshot than type and aliases.     *)
(***************************************************************************)

\* Until the first snapshot every call is told to come back.
Ready == snap.head # 0

Tell ==
    /\ Ready
    /\ \E f \in Files :
        /\ snap.notes[f] # Torn
        /\ told' = [told EXCEPT ![f] = snap.notes[f]]
    /\ UNCHANGED <<touched, sidecar, meta, server, half, faults>>

Next ==
    \/ Commit \/ GitSync \/ Reload \/ Tell
    \/ FetchFails \/ CheckoutFails \/ ResetFails \/ LogFails
    \/ SidecarRestarts \/ ServerRestarts

Spec == Init /\ [][Next]_vars

\* Both loops run for ever.
FairSpec == Spec /\ WF_vars(GitSync) /\ WF_vars(Reload)

--------------------------------------------------------------------------------
(***************************************************************************)
(* Properties.                                                             *)
(***************************************************************************)
Snapshots == [head : Commits, dates : Commits, notes : [Files -> Texts]]

\* Every variable stays in its type.
TypeOK ==
    /\ touched \in Seq(SUBSET Files) /\ Len(touched) \in 1 .. MaxCommits
    /\ git \in {"poll", "clone", "reset", "log", "head"} /\ target \in Commits
    /\ work \in [Files -> Texts] /\ head \in Commits /\ last \in Commits
    /\ lastmod \in Commits /\ headFile \in Commits
    /\ srv \in {"idle", "lastmod", "walk"} /\ todo \subseteq Files
    /\ new \in Snapshots /\ snap \in Snapshots
    /\ told \in [Files -> Commits] /\ half \in Commits
    /\ faults \in 0 .. MaxFaults

\* A note is at least as new as the date told with it, which is at least as new
\* as the commit repo_status names, unless it is Torn.
DatedRight(s) ==
    \A f \in Files :
        /\ Version(f, s.head) <= Version(f, s.dates)
        /\ s.notes[f] = Torn \/ Version(f, s.dates) <= s.notes[f]

\* A snapshot taken while the sidecar was resetting the clone, with files of
\* two commits or without some files, is not the last word: the sidecar has
\* fetched a commit it has not published, or published one that load has not
\* seen.  The exception is the commit published from a clone that was never
\* checked out: when a later reset completes the files, HEAD is what it was,
\* nothing is published and nothing is loaded.
TornIsPassing(s) ==
    (\E f \in Files : s.notes[f] # Version(f, s.head)) =>
        s.head < target \/ s.head = half

\* A snapshot that mixes commits, as load and git reset run side by side with
\* no lock between them, dates its notes right and will be replaced, unless
\* it is of the commit a half clone was published as.
SnapshotSound == snap.head # 0 => DatedRight(snap) /\ TornIsPassing(snap)

Safe == TypeOK /\ SnapshotSound

(***************************************************************************)
(* Why it is sound.                                                        *)
(***************************************************************************)

\* Commits reach main, the clone, META_DIR and the server in this order.
InOrder ==
    /\ headFile <= lastmod /\ lastmod <= head /\ head <= target /\ target <= Len(touched)
    /\ git = "head" => lastmod = head
    /\ git \in {"clone", "reset"} => head # 0
    /\ half <= headFile
    /\ snap.head <= headFile /\ snap.dates <= lastmod /\ snap.head <= snap.dates
    /\ snap.head = 0 => snap = NoSnapshot
    /\ srv # "idle" => new.head # 0 /\ snap.head <= new.head /\ new.head <= headFile
    /\ srv = "walk" => new.head <= new.dates /\ new.dates <= lastmod

\* A file of the clone is between HEAD and FETCH_HEAD while git replaces it; of
\* a commit that is published and not half, every file is there.
CloneBetween ==
    \A f \in Files :
        /\ head = 0 => work[f] = Torn
        /\ work[f] = Torn \/ (Version(f, head) <= work[f] /\ work[f] <= Version(f, target))
        /\ headFile = target /\ target # 0 =>
              half = target \/ work[f] = Version(f, target)
        /\ told[f] <= Version(f, target)
        /\ work[f] = Torn \/ told[f] <= work[f]

\* The notes of a snapshot are of its dates or later, and of what the clone has
\* or earlier; if one is not of its commit, the clone is on its way to another.
ReadWell(s, fs) ==
    \A f \in fs :
        /\ s.notes[f] = Torn \/ (Version(f, s.dates) <= s.notes[f] /\ s.notes[f] <= Version(f, target))
        /\ s.notes[f] = Torn \/ work[f] = Torn \/ s.notes[f] <= work[f]
        /\ s.notes[f] = Torn \/ told[f] <= s.notes[f]
        /\ s.notes[f] = Version(f, s.head) \/ s.head < target \/ s.head = half

\* What is read next is not older than what is shown.
ReadsForward ==
    /\ snap.head # 0 => ReadWell(snap, Files)
    /\ srv = "walk" => ReadWell(new, Files \ todo)
    /\ srv = "walk" => \A f \in Files \ todo :
          snap.notes[f] = Torn \/ new.notes[f] = Torn \/ snap.notes[f] <= new.notes[f]

\* The inductive invariant.
IInv == TypeOK /\ InOrder /\ CloneBetween /\ ReadsForward

\* Callers never see a note go back to an older text, through reloads, torn
\* snapshots and restarts of either container.
NeverGoesBack == [][\A f \in Files : told[f] <= told'[f]]_vars

\* Once people stop committing, every note is served as main has it, with its
\* date, under the commit main is at, unless that is the commit a half clone
\* was published as.
CatchesUp ==
    <>[](/\ snap.head = Len(touched) /\ snap.dates = Len(touched)
         /\ \/ half = Len(touched)
            \/ \A f \in Files : snap.notes[f] = Version(f, Len(touched)))

\* The snapshot is a mirror of main: see FolderMirror.
Mirror == INSTANCE FolderMirror WITH
    source <- [f \in Files |-> Version(f, Len(touched))],
    tip <- Len(touched),
    copy <- snap.notes,
    label <- [f \in Files |-> Version(f, snap.head)]

IsMirror == Mirror!Spec
================================================================================
