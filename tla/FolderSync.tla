------------------------------- MODULE FolderSync ------------------------------
(***************************************************************************)
(* The two folder copies of brain-sync (apps/ai/brain/sync/brain_sync.py): *)
(* sync_mirrors replaces a folder of the brain repository by the tree of   *)
(* another Forgejo repository, and sync_pages deploys a folder             *)
(* Pages/<site>/ to the pages host.  Here the mirrored folder is such a    *)
(* site, so that the copies form a chain.  Both run in turn in the cycle,  *)
(* which restarts at any time and forgets what it knew; people push to the *)
(* source, edit the folder, and edit the site on its host.                 *)
(*                                                                         *)
(* Abstractions: a text is the source commit that wrote it, or Hand; the   *)
(* sha of a tree is the tree.  One mirror and one site: see README.md for  *)
(* what several share.                                                     *)
(***************************************************************************)
EXTENDS ChangeFiles, Naturals, Sequences

CONSTANTS
    Files,
    Stamp,       \* .source-commit
    Hand,        \* what a person wrote
    None,        \* nothing deployed yet
    Nothing,     \* see ConditionalCommits
    MaxCommits, MaxEvents   \* bounds: source commits; edits and failures

ASSUME BoundsAssumption == MaxCommits \in Nat \ {0} /\ MaxEvents \in Nat
ASSUME ConstantsAssumption ==
    /\ Stamp \notin Files
    /\ Hand # Absent /\ {Hand, Absent} \cap Nat = {}

VARIABLES
    past,        \* the trees of the source's default branch, one per commit
    folder,      \* the mirrored folder on main
    site,        \* what the pages host serves
    pc,
    deployed,    \* _pages_deployed: the tree deployed last
    redeploy,    \* PAGES_REDEPLOY_SECONDS have passed since
    tree,        \* the tree of the site as listed
    toRead, got, \* files of it not read yet; what was read
    due,         \* MIRROR_INTERVAL has passed
    done,        \* _mirrors_last: the commit mirrored; 0: none
    head,        \* the head of the source, as read
    existing,    \* the folder as sync_mirrors listed it
    pending,     \* operations not posted yet
    state,       \* of the folder: "mirrored" by a pass that came to its end,
                 \* "listed" by one that has not, "edited" since (history)
    events       \* how much of MaxEvents is used

outside == <<past, folder, site>>
pages == <<deployed, redeploy, tree, toRead, got>>
mirrors == <<due, done, head, existing, pending>>
vars == <<outside, pc, pages, mirrors, state, events>>

--------------------------------------------------------------------------------
Commits == 1 .. MaxCommits
Paths == Files \cup {Stamp}
Blobs == Commits \cup {Hand}
Texts == Blobs \cup {Absent}
Trees == [Paths -> Texts]

Empty(ps) == [p \in ps |-> Absent]
Present(t) == {p \in DOMAIN t : t[p] # Absent}
Tip == past[Len(past)]

Init ==
    /\ past = <<[f \in Files |-> 1]>>
    /\ folder = Empty(Paths) /\ site = Empty(Paths)
    /\ pc = "pages"
    /\ deployed = None /\ redeploy = TRUE /\ tree = Empty(Paths)
    /\ toRead = {} /\ got = Empty(Paths)
    /\ due = TRUE /\ done = 0 /\ head = 0 /\ existing = Empty(Paths) /\ pending = {}
    /\ state = "listed" /\ events = 0

--------------------------------------------------------------------------------
(***************************************************************************)
(* People and time.                                                        *)
(***************************************************************************)
Event == events < MaxEvents /\ events' = events + 1

Push ==
    /\ Len(past) < MaxCommits
    /\ \E f \in Files, t \in {Len(past) + 1, Absent} :
          past' = Append(past, [Tip EXCEPT ![f] = t])
    /\ UNCHANGED <<folder, site, pc, pages, mirrors, state, events>>

EditFolder ==
    /\ Event
    /\ \E f \in Files, t \in {Hand, Absent} : folder' = [folder EXCEPT ![f] = t]
    /\ state' = "edited"
    /\ UNCHANGED <<past, site, pc, pages, mirrors>>

EditSite ==
    /\ Event
    /\ \E f \in Files : site' = [site EXCEPT ![f] = Hand]
    /\ UNCHANGED <<past, folder, pc, pages, mirrors, state>>

Elapse ==
    /\ ~(due /\ redeploy)
    /\ due' = TRUE /\ redeploy' = TRUE
    /\ UNCHANGED <<outside, pc, deployed, tree, toRead, got, done, head, existing, pending,
                   state, events>>

--------------------------------------------------------------------------------
(***************************************************************************)
(* sync_pages.                                                             *)
(***************************************************************************)

\* Mutant: a tree once deployed counts as deployed for good.
ToDeployOnce == Present(folder) # {} /\ folder # deployed

\* The folder has a tree, and it is not the one deployed, or that was long ago.
ToDeploy == Present(folder) # {} /\ (folder # deployed \/ redeploy)

ListSite ==
    /\ pc = "pages"
    /\ \/ ~ToDeploy /\ pc' = "mirrors" /\ UNCHANGED <<tree, toRead, got>>
       \/ ToDeploy /\ pc' = "read" /\ tree' = folder /\ toRead' = Present(folder)
          /\ got' = Empty(Paths)
    /\ UNCHANGED <<outside, deployed, redeploy, mirrors, state, events>>

\* The names come from the tree, the bytes from main as it is by now.
ReadPage ==
    /\ pc = "read"
    /\ \E p \in toRead : toRead' = toRead \ {p} /\ got' = [got EXCEPT ![p] = folder[p]]
    /\ UNCHANGED <<outside, pc, deployed, redeploy, tree, mirrors, state, events>>

\* deploy_site replaces the whole site; without files it is not called.
Deploy ==
    /\ pc = "read" /\ toRead = {}
    /\ pc' = "mirrors"
    /\ IF Present(got) = {} THEN UNCHANGED <<site, deployed, redeploy>>
       ELSE site' = got /\ deployed' = tree /\ redeploy' = FALSE
    /\ UNCHANGED <<past, folder, tree, toRead, got, mirrors, state, events>>

\* Forgejo or the pages host fails, perhaps after the site was replaced.
PagesFail ==
    /\ pc \in {"pages", "read"} /\ Event
    /\ pc' = "mirrors"
    /\ site' \in IF pc = "read" /\ toRead = {} /\ Present(got) # {} THEN {site, got} ELSE {site}
    /\ UNCHANGED <<past, folder, pages, mirrors, state>>

--------------------------------------------------------------------------------
(***************************************************************************)
(* sync_mirrors.                                                           *)
(***************************************************************************)

\* The pass is over, with this commit remembered.
EndMirrors(commit) ==
    /\ pc' = "pages" /\ due' = FALSE /\ done' = commit
    /\ existing' = Empty(Paths) /\ pending' = {}

ReadHead ==
    /\ pc = "mirrors"
    /\ \/ ~due /\ pc' = "pages" /\ UNCHANGED mirrors
       \/ due /\ done = Len(past) /\ EndMirrors(done) /\ UNCHANGED head
       \/ due /\ done # Len(past) /\ pc' = "archive" /\ head' = Len(past)
          /\ UNCHANGED <<due, done, existing, pending>>
    /\ UNCHANGED <<outside, pages, state, events>>

\* Everything the folder is to hold.
Wanted(t, commit) == [p \in Paths |-> IF p = Stamp THEN commit ELSE t[p]]

\* source_archive of the branch as it is by now; then the folder is listed.
Archive ==
    /\ pc = "archive"
    /\ pc' = "commit" /\ state' = "listed"
    /\ existing' = folder /\ pending' = Diff(Wanted(Tip, head), folder, {})
    /\ UNCHANGED <<outside, pages, due, done, head, events>>

\* Mutant: files are committed over whatever is there by now.
PostBatchForced ==
    /\ pc = "commit"
    /\ \E b \in Batches(pending, {Stamp}) :
        /\ folder' = Committed(folder, b) /\ pending' = pending \ b
    /\ UNCHANGED <<past, site, pc, pages, due, done, head, existing, state, events>>

PostBatch ==
    /\ pc = "commit"
    /\ \E b \in Batches(pending, {Stamp}) :
        /\ IsCurrent(folder, b)
        /\ folder' = Committed(folder, b) /\ pending' = pending \ b
    /\ UNCHANGED <<past, site, pc, pages, due, done, head, existing, state, events>>

\* 422: http_json raises, the mirror failed, the next pass starts over.
PostRefused ==
    /\ pc = "commit"
    /\ \E b \in Batches(pending, {Stamp}) : IsStale(folder, b)
    /\ EndMirrors(done)
    /\ UNCHANGED <<outside, pages, head, state, events>>

\* 404: http_json returns None, and the mirror counts as done without them.
PostDropped ==
    /\ pc = "commit"
    /\ \E b \in Batches(pending, {Stamp}) : IsGone(folder, b) /\ pending' = pending \ b
    /\ UNCHANGED <<outside, pc, pages, due, done, head, existing, state, events>>

MirrorDone ==
    /\ pc = "commit" /\ pending = {}
    /\ EndMirrors(head)
    /\ state' = IF state = "listed" THEN "mirrored" ELSE state
    /\ UNCHANGED <<outside, pages, head, events>>

\* Mutant: the commit is remembered although its files are not there.
MirrorFailsDone ==
    /\ pc \in {"archive", "commit"} /\ Event
    /\ EndMirrors(head)
    /\ UNCHANGED <<outside, pages, head, state>>

MirrorFails ==
    /\ pc \in {"archive", "commit"} /\ Event
    /\ EndMirrors(done)
    /\ UNCHANGED <<outside, pages, head, state>>

Restart ==
    /\ Event
    /\ pc' = "pages" /\ deployed' = None /\ due' = TRUE /\ done' = 0
    /\ existing' = Empty(Paths) /\ pending' = {}
    /\ UNCHANGED <<outside, redeploy, tree, toRead, got, head, state>>

Cycle ==
    \/ ListSite \/ ReadPage \/ Deploy
    \/ ReadHead \/ Archive \/ PostBatch \/ PostRefused \/ PostDropped \/ MirrorDone

Next ==
    \/ Cycle \/ Elapse
    \/ Push \/ EditFolder \/ EditSite \/ PagesFail \/ MirrorFails \/ Restart

Spec == Init /\ [][Next]_vars

\* The loop of main runs for ever, and time passes.
FairSpec == Spec /\ WF_vars(Cycle) /\ WF_vars(Elapse)

--------------------------------------------------------------------------------
(***************************************************************************)
(* Properties.                                                             *)
(***************************************************************************)
Operations == [path : Paths, from : Texts, to : Texts]

\* Every variable stays in its type.
TypeOK ==
    /\ past \in Seq([Files -> Commits \cup {Absent}]) /\ Len(past) \in Commits
    /\ folder \in Trees /\ site \in Trees
    /\ pc \in {"pages", "read", "mirrors", "archive", "commit"}
    /\ deployed \in Trees \cup {None} /\ redeploy \in BOOLEAN
    /\ tree \in Trees /\ toRead \subseteq Paths /\ got \in Trees
    /\ due \in BOOLEAN /\ done \in 0 .. MaxCommits /\ head \in 0 .. MaxCommits
    /\ existing \in Trees /\ pending \subseteq Operations
    /\ state \in {"mirrored", "listed", "edited"} /\ events \in 0 .. MaxEvents

\* The folder's files, as a tree of the source.
Mirrored == [f \in Files |-> folder[f]]

\* README.md:24-34: a commit remembered as mirrored has been mirrored: unless
\* somebody edits the folder meanwhile, a pass that comes to its end leaves the
\* tree of that commit there or, as head and archive are read one after the
\* other, that of a later one, never a mixture, however earlier passes ended.
DoneIsMirrored ==
    done # 0 /\ state = "mirrored" => \E i \in done .. Len(past) : Mirrored = past[i]

Safe == TypeOK /\ DoneIsMirrored

(***************************************************************************)
(* Why it is.                                                              *)
(***************************************************************************)

\* The head is read before the archive.
HeadIsPast == pc \in {"archive", "commit"} => head \in 1 .. Len(past)

\* As long as nobody edits the folder, every operation left finds what it names,
\* and when the last has landed the folder is a tree not older than the head.
CommitMirrors ==
    pc = "commit" =>
        /\ state # "mirrored"
        /\ state = "listed" =>
              /\ \A c \in pending : folder[c.path] = c.from
              /\ \A c, d \in pending : c.path = d.path => c = d
              /\ \E i \in head .. Len(past) :
                    \A p \in Paths : Committed(folder, pending)[p] = Wanted(past[i], head)[p]

\* The inductive invariant.
IInv == TypeOK /\ DoneIsMirrored /\ HeadIsPast /\ CommitMirrors

\* Until the next listing, the operations start from what this one saw.
PendingFromListing == pc = "commit" => \A c \in pending : c.from = existing[c.path]

\* README.md:53-58: once people rest, the folder becomes what the tip of the
\* source holds and says so, unless an edit came after the last listing, and the
\* site becomes what the folder holds, whatever it was deployed from while they
\* did not, and edits made straight to the host do not stick.
CatchesUp ==
    <>[](/\ state = "edited" \/ (Mirrored = Tip /\ folder[Stamp] = Len(past))
         /\ site = folder \/ Present(folder) = {})

--------------------------------------------------------------------------------
\* apply_changes under sync_mirrors: whatever the source pushes and however a pass
\* breaks off, it replaces and removes only files that are as it listed them, so
\* an edit made after the listing is never overwritten unseen.
ASSUME NothingAssumption == Nothing \notin Trees

Promise == INSTANCE ConditionalCommits
    WITH seen <- IF pc = "commit" THEN existing ELSE Nothing, clock <- events

KeepsPromise == Promise!Spec
================================================================================
