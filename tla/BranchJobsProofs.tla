--------------------------- MODULE BranchJobsProofs ----------------------------
(***************************************************************************)
(* Theorems about the copies of whole folders, for every set of files and  *)
(* any number of commits, edits and failures: of BranchJobs, that the      *)
(* mirrored folder is one tree of the source and neither job replaces what *)
(* it has not seen; of FolderSync, that a commit remembered as mirrored    *)
(* has been mirrored, and that mirrors replace only what they listed.  Of  *)
(* what the two name alike, the commits of the source and the operations   *)
(* left, both specifications speak here, never in the same theorem.        *)
(***************************************************************************)
EXTENDS BranchJobs, TLAPS

CONSTANT None
VARIABLES folder, site, pc, deployed, redeploy, tree, toRead, got, due, done, existing, state

Folder == INSTANCE FolderSync

Operations == [path : Files, from : Texts, to : Texts]

--------------------------------------------------------------------------------
(***************************************************************************)
(* Types.                                                                  *)
(***************************************************************************)

\* The import is of its type after a step that changes nothing else.
LEMMA ImportTypes ==
    ASSUME TypeOK, UNCHANGED <<past, mirrored, mirror, history>>,
           tip' \in Nat, imported' \in [Files -> Texts],
           ipc' \in {"idle", "fetched", "listed", "ran", "commit"},
           copy' \in [Files -> Texts], trees' \in [Files -> Texts], made' \in [Files -> Texts],
           pending' \subseteq Operations, events' \in 0 .. MaxEvents
    PROVE  TypeOK'
<1>1. {copy', trees', made'} \subseteq [Files -> Texts]
  OBVIOUS
<1> QED
  BY <1>1 DEF TypeOK, mirror, history, Operations

\* So is the mirror.
LEMMA MirrorTypes ==
    ASSUME TypeOK, UNCHANGED <<past, imported, import>>,
           tip' \in Nat, mirrored' \in [Paths -> Texts],
           mpc' \in {"idle", "remote", "cloned", "push"}, head' \in 0 .. MaxCommits,
           base' \in [Paths -> Texts], baseTip' \in Nat, ours' \in [Paths -> Texts],
           tries' \in 0 .. MaxTries + 1, hand' \subseteq Files, late' \subseteq hand',
           events' \in 0 .. MaxEvents
    PROVE  TypeOK'
BY DEF TypeOK, import

\* What a job that says what it uses sees of the types.
LEMMA Types ==
    ASSUME TypeOK
    PROVE  /\ past \in Seq([Files -> Commits \cup {Absent}]) /\ Len(past) \in Nat /\ Len(past) \in Commits
           /\ tip \in Nat /\ baseTip \in Nat /\ imported \in [Files -> Texts]
           /\ mirrored \in [Paths -> Texts] /\ copy \in [Files -> Texts]
           /\ trees \in [Files -> Texts] /\ made \in [Files -> Texts]
           /\ pending \subseteq Operations /\ base \in [Paths -> Texts]
           /\ ours \in [Paths -> Texts] /\ head \in 0 .. MaxCommits
           /\ ipc \in {"idle", "fetched", "listed", "ran", "commit"}
           /\ mpc \in {"idle", "remote", "cloned", "push"}
           /\ tries \in 0 .. MaxTries + 1 /\ hand \subseteq Files /\ late \subseteq hand
           /\ events \in 0 .. MaxEvents /\ {} \subseteq Operations
BY BoundsAssumption DEF TypeOK, Commits, Operations

\* A failure or an edit is counted.
LEMMA EventTypes == TypeOK /\ Event => events' \in 0 .. MaxEvents
BY BoundsAssumption DEF TypeOK, Event

\* A committed batch leaves a folder.
LEMMA CommittedType ==
    ASSUME NEW f \in [Files -> Texts], NEW b \in SUBSET Operations
    PROVE  Committed(f, b) \in [Files -> Texts]
<1> SUFFICES ASSUME NEW p \in Files
             PROVE  (IF \E c \in b : c.path = p THEN (CHOOSE c \in b : c.path = p).to ELSE f[p])
                       \in Texts
  BY DEF Committed
<1>1. CASE \E c \in b : c.path = p
  <2> DEFINE d == CHOOSE c \in b : c.path = p
  <2>1. d \in b
    BY <1>1
  <2> QED
    BY <1>1, <2>1 DEF Operations
<1>2. CASE ~\E c \in b : c.path = p
  BY <1>2
<1> QED
  BY <1>1, <1>2

\* The difference of two folders is made of operations between them.
LEMMA DiffType ==
    ASSUME NEW f \in [Files -> Texts], NEW g \in [Files -> Texts]
    PROVE  /\ Diff(f, g, {}) \subseteq Operations
           /\ \A o \in Diff(f, g, {}) : o.from = g[o.path] /\ o.to = f[o.path]
BY DEF Diff, Change, Operations

\* A tree of the source, stamped, is a folder.
LEMMA StampedType ==
    ASSUME TypeOK, head \in 1 .. Len(past)
    PROVE  [p \in Paths |-> IF p = Stamp THEN head ELSE Tip[p]] \in [Paths -> Texts]
<1>1. past[Len(past)] \in [Files -> Commits \cup {Absent}] /\ head \in Commits
  BY Types DEF Commits
<1> QED
  BY <1>1 DEF Tip, Paths, Texts

--------------------------------------------------------------------------------
(***************************************************************************)
(* The invariant.                                                          *)
(***************************************************************************)

\* Nothing is imported or mirrored yet.
LEMMA InitInv ==
    ASSUME Init
    PROVE  IInv
<1> USE DEF Init
<1>1. TypeOK
  <2>1. Absent \in Texts /\ 1 \in Commits
    BY BoundsAssumption DEF Texts, Commits
  <2>2. past \in Seq([Files -> Commits \cup {Absent}]) /\ Len(past) = 1
    BY <2>1
  <2>3. NoFiles \in [Files -> Texts] /\ Empty \in [Paths -> Texts]
    BY <2>1 DEF NoFiles, Empty
  <2> QED
    BY <2>1, <2>2, <2>3, BoundsAssumption DEF TypeOK
<1>2. StampHonest
  BY DEF StampHonest, Empty, Paths
<1>3. PendingFromListing /\ CloneCurrent /\ OursIsTree
  BY DEF PendingFromListing, CloneCurrent, OursIsTree, Cloned
<1> QED
  BY <1>1, <1>2, <1>3 DEF IInv

\* The import does not touch what the mirror knows; a commit of it only moves
\* main on.
LEMMA ImportKeeps ==
    ASSUME IInv, UNCHANGED <<past, mirrored, mirror, history>>, tip' \in {tip, tip + 1}
    PROVE  StampHonest' /\ CloneCurrent' /\ OursIsTree'
<1> USE DEF mirror, history
<1>1. baseTip <= tip /\ tip \in Nat /\ baseTip \in Nat
  BY Types DEF IInv, CloneCurrent
<1>2. StampHonest' /\ OursIsTree'
  BY DEF IInv, StampHonest, OursIsTree
<1>3. CloneCurrent'
  BY <1>1 DEF IInv, CloneCurrent, Cloned
<1> QED
  BY <1>2, <1>3

\* fetch, run and commit up to its batches.
LEMMA ImportInv ==
    ASSUME IInv, FetchArchive \/ FetchTree \/ RunScript \/ ImportEnds \/ Commit \/ CommitDone
    PROVE  IInv'
<1> USE DEF main
<1>1. TypeOK /\ UNCHANGED <<past, mirrored, mirror, history>> /\ tip' = tip /\ imported' = imported
  BY DEF IInv, FetchArchive, FetchTree, RunScript, ImportEnds, Commit, CommitDone
<1>2. events' \in 0 .. MaxEvents
  BY <1>1, EventTypes, Types DEF FetchArchive, FetchTree, RunScript, ImportEnds, Commit, CommitDone
<1>3. made' \in [Files -> Texts]
  <2>1. CASE RunScript
    <3>1. made' \in [Files -> {Made, Hand, Absent}]
      BY <2>1 DEF RunScript
    <3> QED
      BY <3>1 DEF Texts
  <2>2. CASE FetchArchive \/ FetchTree \/ ImportEnds \/ Commit \/ CommitDone
    BY <1>1, <2>2, Types DEF FetchArchive, FetchTree, ImportEnds, Commit, CommitDone
  <2> QED
    BY <2>1, <2>2
<1>4. copy' \in [Files -> Texts] /\ trees' \in [Files -> Texts]
  BY <1>1, Types DEF FetchArchive, FetchTree, RunScript, ImportEnds, Commit, CommitDone
<1>5. /\ ipc' \in {"idle", "fetched", "listed", "ran", "commit"} /\ pending' \subseteq Operations
      /\ PendingFromListing'
  <2>1. CASE Commit /\ imported = trees
    <3>1. pending' = Diff(made, trees, {}) /\ trees' = trees /\ made' = made /\ ipc' = "commit"
      BY <2>1 DEF Commit
    <3> QED
      BY <1>1, <3>1, DiffType, Types DEF PendingFromListing
  <2>2. CASE \/ Commit /\ imported # trees
             \/ FetchArchive \/ FetchTree \/ RunScript \/ ImportEnds \/ CommitDone
    <3>1. ipc' \in {"idle", "fetched", "listed", "ran"} /\ pending' \in {{}, pending}
      BY <2>2 DEF Commit, FetchArchive, FetchTree, RunScript, ImportEnds, CommitDone
    <3> QED
      BY <1>1, <3>1, Types DEF PendingFromListing
  <2> QED
    BY <2>1, <2>2
<1>6. TypeOK'
  BY <1>1, <1>2, <1>3, <1>4, <1>5, ImportTypes, Types
<1> QED
  BY <1>1, <1>5, <1>6, ImportKeeps DEF IInv

\* A batch, whether Forgejo takes it, refuses it or misses a file of it.
LEMMA BatchInv ==
    ASSUME IInv, PostBatch \/ PostRefused
    PROVE  IInv'
<1> USE DEF main
<1>1. TypeOK /\ ipc = "commit" /\ UNCHANGED <<past, mirrored, mirror, history, copy, trees, made, events>>
  BY DEF IInv, PostBatch, PostRefused
<1>2. PICK b \in Batches(pending, {}) :
         \/ /\ imported' = Committed(imported, b) /\ tip' = tip + 1
            /\ pending' = pending \ b /\ ipc' = ipc
         \/ /\ imported' = imported /\ tip' = tip
            /\ ipc' = "idle" /\ pending' = {}
         \/ /\ imported' = imported /\ tip' = tip
            /\ ipc' = ipc /\ pending' = pending \ b
  BY DEF PostBatch, PostRefused
<1>3. b \subseteq pending /\ b \in SUBSET Operations
  BY <1>1, Types DEF Batches
<1>4. imported' \in [Files -> Texts] /\ tip' \in Nat /\ tip' \in {tip, tip + 1}
  BY <1>1, <1>2, <1>3, CommittedType, Types
<1>5. pending' \subseteq pending /\ ipc' \in {"idle", "commit"}
  BY <1>1, <1>2
<1>6. TypeOK'
  BY <1>1, <1>4, <1>5, ImportTypes, Types
<1>7. PendingFromListing'
  BY <1>1, <1>5 DEF IInv, PendingFromListing
<1> QED
  BY <1>1, <1>4, <1>6, <1>7, ImportKeeps DEF IInv

\* People edit the imported folder.
LEMMA EditImportedInv ==
    ASSUME IInv, EditImported
    PROVE  IInv'
<1> USE DEF EditImported, import
<1>1. TypeOK /\ events' \in 0 .. MaxEvents
  BY EventTypes DEF IInv
<1>2. imported' \in [Files -> Texts] /\ tip' \in Nat
  BY <1>1, Types DEF Texts
<1>3. TypeOK'
  BY <1>1, <1>2, ImportTypes, Types
<1>4. PendingFromListing'
  BY DEF IInv, PendingFromListing
<1> QED
  BY <1>3, <1>4, ImportKeeps DEF IInv

\* The source gains a commit; those it had stay.
LEMMA PushSourceInv ==
    ASSUME IInv, PushSource
    PROVE  IInv'
<1> USE DEF PushSource, main, import, mirror, history
<1>1. TypeOK
  BY DEF IInv
<1>2. PICK f \in Files, t \in {Len(past) + 1, Absent} : past' = Append(past, [Tip EXCEPT ![f] = t])
  OBVIOUS
<1>3. [Tip EXCEPT ![f] = t] \in [Files -> Commits \cup {Absent}] /\ Len(past) + 1 \in Commits
  <2>1. past[Len(past)] \in [Files -> Commits \cup {Absent}] /\ Len(past) + 1 \in Commits
    BY <1>1, Types, BoundsAssumption DEF Commits
  <2> QED
    BY <2>1 DEF Tip
<1>4. /\ past' \in Seq([Files -> Commits \cup {Absent}]) /\ Len(past') = Len(past) + 1
      /\ \A i \in 1 .. Len(past) : past'[i] = past[i]
  BY <1>1, <1>2, <1>3, Types
<1>5. TypeOK'
  BY <1>1, <1>3, <1>4 DEF TypeOK
<1>6. StampHonest'
  <2> SUFFICES ASSUME mirrored[Stamp] # Absent
               PROVE  /\ mirrored[Stamp] \in 1 .. Len(past')
                      /\ \E i \in mirrored[Stamp] .. Len(past') :
                            \A g \in Files \ hand : mirrored[g] = past'[i][g]
    BY DEF StampHonest
  <2>1. PICK i \in mirrored[Stamp] .. Len(past) : \A g \in Files \ hand : mirrored[g] = past[i][g]
    BY DEF IInv, StampHonest
  <2>2. mirrored[Stamp] \in 1 .. Len(past)
    BY DEF IInv, StampHonest
  <2>3. i \in mirrored[Stamp] .. Len(past') /\ i \in 1 .. Len(past)
    BY <1>1, <1>4, <2>1, <2>2, Types
  <2> QED
    BY <1>1, <1>4, <2>1, <2>2, <2>3, Types
<1>7. OursIsTree'
  <2>1. mpc # "idle" => head \in 1 .. Len(past')
    BY <1>1, <1>4, Types DEF IInv, OursIsTree
  <2>2. ASSUME mpc = "push"
        PROVE  \E i \in head .. Len(past') : \A g \in Files \ late : ours[g] = past'[i][g]
    <3>1. PICK i \in head .. Len(past) : \A g \in Files \ late : ours[g] = past[i][g]
      BY <2>2 DEF IInv, OursIsTree
    <3>2. head \in 1 .. Len(past)
      BY <2>2 DEF IInv, OursIsTree
    <3>3. i \in head .. Len(past') /\ i \in 1 .. Len(past)
      BY <1>1, <1>4, <3>1, <3>2, Types
    <3> QED
      BY <1>4, <3>1, <3>3
  <2>3. mpc = "push" => tries \in 1 .. MaxTries /\ ours[Stamp] = head
    BY DEF IInv, OursIsTree
  <2> QED
    BY <2>1, <2>2, <2>3 DEF OursIsTree
<1>8. PendingFromListing' /\ CloneCurrent'
  BY DEF IInv, PendingFromListing, CloneCurrent, Cloned
<1> QED
  BY <1>5, <1>6, <1>7, <1>8 DEF IInv

\* People edit the mirrored folder: what they touch is no longer asked about.
LEMMA EditMirroredInv ==
    ASSUME IInv, EditMirrored
    PROVE  IInv'
<1> USE DEF EditMirrored, import, mirror
<1>1. TypeOK /\ events' \in 0 .. MaxEvents
  BY EventTypes DEF IInv
<1>2. PICK f \in Files, t \in {Hand, Absent} :
         /\ mirrored' = [mirrored EXCEPT ![f] = t]
         /\ hand' = hand \cup {f} /\ late' = late \cup {f}
  OBVIOUS
<1>3. mirrored' \in [Paths -> Texts] /\ tip' \in Nat /\ tip' = tip + 1
  <2>1. t \in Texts /\ mirrored \in [Paths -> Texts]
    BY <1>1, Types DEF Texts
  <2>2. mirrored' \in [Paths -> Texts]
    BY <1>2, <2>1
  <2>3. tip' = tip + 1
    OBVIOUS
  <2>4. tip \in Nat
    BY <1>1, Types
  <2> QED
    BY <2>2, <2>3, <2>4
<1>4. TypeOK'
  BY <1>1, <1>2, <1>3, MirrorTypes, Types
<1>5. /\ mirrored'[Stamp] = mirrored[Stamp]
      /\ \A p \in Paths \ {f} : mirrored'[p] = mirrored[p]
  BY <1>1, <1>2, Types, ConstantsAssumption DEF Paths
<1>6. StampHonest'
  BY <1>2, <1>5 DEF IInv, StampHonest, Paths
<1>7. CloneCurrent'
  <2>1. baseTip <= tip'  /\ tip' # baseTip
    BY <1>1, <1>3, Types DEF IInv, CloneCurrent
  <2>2. Cloned => \A p \in Paths : mirrored'[p] # base[p] => p \in late'
    BY <1>2, <1>5 DEF IInv, CloneCurrent
  <2> QED
    BY <2>1, <2>2 DEF CloneCurrent, Cloned
<1>8. OursIsTree' /\ PendingFromListing'
  BY <1>2 DEF IInv, OursIsTree, PendingFromListing
<1> QED
  BY <1>4, <1>6, <1>7, <1>8 DEF IInv

--------------------------------------------------------------------------------
(***************************************************************************)
(* mirror.sh.                                                              *)
(***************************************************************************)

\* git ls-remote reads a commit of the source.
LEMMA LsRemoteInv ==
    ASSUME IInv, LsRemote
    PROVE  IInv'
<1> USE DEF LsRemote, main, import, history
<1>1. TypeOK
  BY DEF IInv
<1>2. head' \in 1 .. Len(past) /\ head' \in 0 .. MaxCommits
  BY <1>1, Types DEF Commits
<1>3. TypeOK'
  BY <1>1, <1>2, MirrorTypes, Types
<1>4. StampHonest' /\ PendingFromListing' /\ CloneCurrent'
  BY DEF IInv, StampHonest, PendingFromListing, CloneCurrent, Cloned
<1>5. OursIsTree'
  BY <1>2 DEF OursIsTree
<1> QED
  BY <1>3, <1>4, <1>5 DEF IInv

\* The clone is what main holds.
LEMMA CloneBrainInv ==
    ASSUME IInv, CloneBrain
    PROVE  IInv'
<1> USE DEF CloneBrain, main, import
<1>1. TypeOK /\ mpc = "remote"
  BY DEF IInv
<1>2. mpc' \in {"idle", "cloned"}
  OBVIOUS
<1>3. TypeOK'
  BY <1>1, <1>2, MirrorTypes, Types
<1>4. StampHonest' /\ PendingFromListing'
  BY DEF IInv, StampHonest, PendingFromListing
<1>5. CloneCurrent'
  BY <1>1, Types DEF CloneCurrent
<1>6. OursIsTree'
  BY <1>1, <1>2 DEF IInv, OursIsTree
<1> QED
  BY <1>3, <1>4, <1>5, <1>6 DEF IInv

\* The local commit is the tip of the source.
LEMMA CloneSourceInv ==
    ASSUME IInv, CloneSource
    PROVE  IInv'
<1> USE DEF CloneSource, main, import, history
<1>1. TypeOK /\ mpc = "cloned" /\ head \in 1 .. Len(past)
  BY DEF IInv, OursIsTree
<1>2. ours' \in [Paths -> Texts]
  BY <1>1, StampedType
<1>3. tries' \in 1 .. MaxTries /\ tries' \in 0 .. MaxTries + 1
  BY BoundsAssumption
<1>4. TypeOK'
  BY <1>1, <1>2, <1>3, MirrorTypes, Types
<1>5. StampHonest' /\ PendingFromListing' /\ CloneCurrent'
  BY <1>1 DEF IInv, StampHonest, PendingFromListing, CloneCurrent, Cloned
<1>6. OursIsTree'
  <2>1. Len(past) \in head .. Len(past)
    BY <1>1, Types
  <2>2. \A f \in Files : ours'[f] = past[Len(past)][f]
    BY ConstantsAssumption DEF Tip, Paths
  <2>3. ours'[Stamp] = head
    BY DEF Paths
  <2> QED
    BY <1>1, <1>3, <2>1, <2>2, <2>3 DEF OursIsTree
<1> QED
  BY <1>4, <1>5, <1>6 DEF IInv

\* A push that main takes puts the local commit there.
LEMMA PushInv ==
    ASSUME IInv, Push
    PROVE  IInv'
<1> USE DEF Push, import
<1>1. TypeOK /\ mpc = "push" /\ head \in 1 .. Len(past) /\ ours[Stamp] = head
  BY DEF IInv, OursIsTree
<1>2. TypeOK'
  BY <1>1, MirrorTypes, Types
<1>3. StampHonest'
  BY <1>1 DEF IInv, StampHonest, OursIsTree
<1>4. PendingFromListing' /\ OursIsTree'
  BY DEF IInv, PendingFromListing, OursIsTree
<1>5. CloneCurrent'
  BY <1>1, Types DEF IInv, CloneCurrent, Cloned
<1> QED
  BY <1>2, <1>3, <1>4, <1>5 DEF IInv

\* A rebase keeps what the local commit changed, and takes the edits for the rest.
LEMMA PullInv ==
    ASSUME IInv, Pull
    PROVE  IInv'
<1> USE DEF Pull, main, import, history
<1>1. TypeOK /\ mpc = "push" /\ head \in 1 .. Len(past) /\ ours[Stamp] = head
  BY DEF IInv, OursIsTree
<1>2. \A p \in Paths : mirrored[p] # base[p] => p \in late
  BY <1>1 DEF IInv, CloneCurrent, Cloned
<1>3. \A p \in Paths \ late : ours'[p] = ours[p]
  BY <1>2
<1>4. ours' \in [Paths -> Texts]
  BY <1>1, Types
<1>5. tries' \in 0 .. MaxTries + 1 /\ (mpc' = "push" => tries' \in 1 .. MaxTries)
  BY <1>1, Types, BoundsAssumption DEF IInv, OursIsTree
<1>6. mpc' \in {"idle", "push"}
  OBVIOUS
<1>7. TypeOK'
  BY <1>1, <1>4, <1>5, <1>6, MirrorTypes, Types
<1>8. StampHonest' /\ PendingFromListing'
  BY DEF IInv, StampHonest, PendingFromListing
<1>9. CloneCurrent'
  BY <1>1, Types DEF CloneCurrent
<1>10. OursIsTree'
  <2>1. Stamp \in Paths \ late
    BY <1>1, Types, ConstantsAssumption DEF Paths
  <2>2. ours'[Stamp] = head
    BY <1>1, <1>3, <2>1
  <2>3. PICK i \in head .. Len(past) : \A f \in Files \ late : ours[f] = past[i][f]
    BY <1>1 DEF IInv, OursIsTree
  <2>4. \A f \in Files \ late : ours'[f] = past[i][f]
    BY <1>3, <2>3 DEF Paths
  <2> QED
    BY <1>1, <1>5, <2>2, <2>3, <2>4 DEF OursIsTree
<1> QED
  BY <1>7, <1>8, <1>9, <1>10 DEF IInv

\* The script stops.
LEMMA MirrorEndsInv ==
    ASSUME IInv, MirrorEnds
    PROVE  IInv'
<1> USE DEF MirrorEnds, main, import, history
<1>1. TypeOK /\ events' \in 0 .. MaxEvents
  BY EventTypes DEF IInv
<1>2. TypeOK'
  BY <1>1, MirrorTypes, Types
<1>3. StampHonest' /\ PendingFromListing' /\ CloneCurrent' /\ OursIsTree'
  BY DEF IInv, StampHonest, PendingFromListing, CloneCurrent, OursIsTree, Cloned
<1> QED
  BY <1>2, <1>3 DEF IInv

\* Every step keeps the invariant.
LEMMA NextInv ==
    ASSUME IInv, [Next]_vars
    PROVE  IInv'
<1>1. CASE UNCHANGED vars
  BY <1>1 DEF IInv, TypeOK, StampHonest, PendingFromListing, CloneCurrent, OursIsTree, Cloned,
              vars, main, import, mirror, history
<1>2. CASE Imports \/ ImportEnds
  BY <1>2, ImportInv, BatchInv DEF Imports
<1>3. CASE Mirror \/ MirrorEnds
  BY <1>3, LsRemoteInv, CloneBrainInv, CloneSourceInv, PushInv, PullInv, MirrorEndsInv DEF Mirror
<1>4. CASE PushSource \/ EditImported \/ EditMirrored
  BY <1>4, PushSourceInv, EditImportedInv, EditMirroredInv
<1> QED
  BY <1>1, <1>2, <1>3, <1>4 DEF Next

\* The inductive invariant of the two jobs.
THEOREM JobsInvariant == Spec => []IInv
BY InitInv, NextInv, PTL DEF Spec

\* The folder of a mirrored repository is one tree of the source, that of the
\* commit its stamp names or a later one, but for what people edited since.
THEOREM StampsHonest == Spec => []Safe
<1>1. IInv => Safe
  BY DEF IInv, Safe
<1> QED
  BY <1>1, JobsInvariant, PTL

--------------------------------------------------------------------------------
(***************************************************************************)
(* The promise of ConditionalCommits, for each of the two.                 *)
(***************************************************************************)

\* What a job has seen is a folder, when it has seen any.
LEMMA SeenIsFolder ==
    ASSUME TypeOK
    PROVE  /\ trees # Nothing /\ base # Nothing
           /\ Texts = Blobs \cup {Absent}
           /\ \A f \in [Files -> Texts] : f \in ImportCommits!States
           /\ \A f \in [Paths -> Texts] : f \in MirrorCommits!States
<1>1. Texts = Blobs \cup {Absent}
  BY DEF Texts, Blobs
<1>2. trees # Nothing /\ base # Nothing
  BY Types, NothingAssumption
<1> QED
  BY <1>1, <1>2 DEF ImportCommits!States, MirrorCommits!States

\* A batch of the import changes only what is as fetch listed it.
LEMMA BatchKeepsPromise ==
    ASSUME IInv, PostBatch
    PROVE  ImportCommits!Commit
<1> USE DEF PostBatch
<1>1. TypeOK /\ IInv' /\ ipc' = ipc /\ ipc = "commit" /\ trees' = trees
  BY BatchInv DEF IInv
<1>2. imported' \in ImportCommits!States
  <2>1. imported' \in [Files -> Texts]
    BY <1>1 DEF IInv, TypeOK
  <2> QED
    BY <1>1, <2>1, SeenIsFolder
<1>3. PICK b \in Batches(pending, {}) : IsCurrent(imported, b) /\ imported' = Committed(imported, b)
  OBVIOUS
<1>4. ASSUME NEW p \in Files, imported'[p] # imported[p]
      PROVE  imported[p] = trees[p]
  <2>1. DOMAIN imported = Files
    BY <1>1, Types
  <2>2. PICK c \in b : c.path = p
    BY <1>3, <1>4, <2>1 DEF Committed
  <2>3. c.from = trees[p]
    BY <1>1, <2>2 DEF Batches, IInv, PendingFromListing
  <2> QED
    BY <1>3, <2>2, <2>3 DEF IsCurrent
<1> QED
  BY <1>1, <1>2, <1>4, SeenIsFolder DEF ImportCommits!Commit

LEMMA ImportStep ==
    ASSUME IInv, [Next]_vars
    PROVE  [ImportCommits!Next]_(ImportCommits!vars)
<1> USE DEF ImportCommits!vars, ImportCommits!Next, main
<1>1. CASE FetchTree
  BY <1>1 DEF FetchTree, ImportCommits!Look
<1>2. CASE FetchArchive \/ RunScript
  BY <1>2 DEF FetchArchive, RunScript, Event, ImportCommits!Elapse
<1>3. CASE PostBatch
  BY <1>3, BatchKeepsPromise
<1>4. CASE ImportEnds \/ CommitDone \/ Commit \/ PostRefused
  <2>1. /\ imported' = imported
        /\ \/ ipc' = "idle" /\ events' \in {events, events + 1}
           \/ /\ ipc' = "commit" /\ ipc \in {"ran", "commit"}
              /\ trees' = trees /\ events' = events
    BY <1>4 DEF ImportEnds, CommitDone, Commit, PostRefused, Event
  <2> QED
    BY <2>1 DEF ImportCommits!Forget
<1>5. CASE EditImported
  <2>1. PICK p \in Files, t \in {Hand, Absent} : imported' = [imported EXCEPT ![p] = t]
    BY <1>5 DEF EditImported
  <2>2. ipc' = ipc /\ trees' = trees /\ events' = events + 1 /\ t \in Blobs \cup {Absent}
    BY <1>5 DEF EditImported, import, Blobs, Event
  <2> QED
    BY <2>1, <2>2 DEF ImportCommits!Edit
<1>6. CASE Mirror \/ MirrorEnds \/ PushSource \/ EditMirrored \/ UNCHANGED vars
  <2>1. /\ imported' = imported /\ ipc' = ipc /\ trees' = trees
        /\ events' \in {events, events + 1}
    BY <1>6 DEF Mirror, LsRemote, CloneBrain, CloneSource, Push, Pull, MirrorEnds, PushSource,
                EditMirrored, vars, import, Event
  <2> QED
    BY <2>1 DEF ImportCommits!Elapse
<1> QED
  BY <1>1, <1>2, <1>3, <1>4, <1>5, <1>6 DEF Next, Imports

\* git takes a push only when main is what was cloned or pulled.
LEMMA PushKeepsPromise ==
    ASSUME IInv, Push
    PROVE  MirrorCommits!Commit
<1>1. /\ TypeOK /\ mirrored = base /\ mpc = "push" /\ mpc' = "idle" /\ mirrored' = ours
      /\ events' = events
  BY DEF IInv, Push, CloneCurrent, Cloned
<1>2. mirrored' \in MirrorCommits!States
  BY <1>1, SeenIsFolder, Types
<1> QED
  BY <1>1, <1>2, SeenIsFolder DEF MirrorCommits!Commit

LEMMA MirrorStep ==
    ASSUME IInv, [Next]_vars
    PROVE  [MirrorCommits!Next]_(MirrorCommits!vars)
<1> USE DEF MirrorCommits!vars, MirrorCommits!Next, main
<1>1. CASE CloneBrain \/ Pull
  <2>1. /\ mirrored' = mirrored /\ events' = events
        /\ mpc' = "idle" \/ (mpc' \in {"cloned", "push"} /\ base' = mirrored)
    BY <1>1 DEF CloneBrain, Pull
  <2> QED
    BY <2>1 DEF MirrorCommits!Look, MirrorCommits!Forget
<1>2. CASE LsRemote \/ CloneSource
  BY <1>2 DEF LsRemote, CloneSource
<1>3. CASE Push
  BY <1>3, PushKeepsPromise
<1>4. CASE MirrorEnds
  BY <1>4 DEF MirrorEnds, MirrorCommits!Forget, Event
<1>5. CASE EditMirrored
  <2>1. PICK p \in Files, t \in {Hand, Absent} : mirrored' = [mirrored EXCEPT ![p] = t]
    BY <1>5 DEF EditMirrored
  <2>2. /\ mpc' = mpc /\ base' = base /\ events' = events + 1
        /\ t \in Blobs \cup {Absent} /\ p \in Paths
    BY <1>5 DEF EditMirrored, mirror, Blobs, Paths, Event
  <2> QED
    BY <2>1, <2>2 DEF MirrorCommits!Edit
<1>6. CASE Imports \/ ImportEnds \/ PushSource \/ EditImported \/ UNCHANGED vars
  <2>1. mirrored' = mirrored /\ mpc' = mpc /\ base' = base /\ events' \in {events, events + 1}
    BY <1>6 DEF Imports, FetchArchive, FetchTree, RunScript, Commit, PostBatch, PostRefused,
                CommitDone, ImportEnds, PushSource, EditImported, vars, mirror, Event
  <2> QED
    BY <2>1 DEF MirrorCommits!Elapse
<1> QED
  BY <1>1, <1>2, <1>3, <1>4, <1>5, <1>6 DEF Next, Mirror

\* BranchJobs implements ConditionalCommits twice: neither job replaces or
\* removes a file that is not as it listed, cloned or pulled it, however often
\* others commit and whatever the scripts do.
THEOREM JobsConditional == Spec => Conditional
<1>1. Init => ImportCommits!Init /\ MirrorCommits!Init
  <2> SUFFICES ASSUME Init PROVE ImportCommits!Init /\ MirrorCommits!Init
    OBVIOUS
  <2>1. TypeOK
    BY InitInv DEF IInv
  <2>2. imported \in ImportCommits!States /\ mirrored \in MirrorCommits!States
    BY <2>1, SeenIsFolder, Types
  <2> QED
    BY <2>2 DEF Init, ImportCommits!Init, MirrorCommits!Init
<1>2. IInv /\ [Next]_vars => /\ [ImportCommits!Next]_(ImportCommits!vars)
                             /\ [MirrorCommits!Next]_(MirrorCommits!vars)
  BY ImportStep, MirrorStep
<1> QED
  BY <1>1, <1>2, JobsInvariant, PTL DEF Spec, Conditional, ImportCommits!Spec, MirrorCommits!Spec

--------------------------------------------------------------------------------
(***************************************************************************)
(* FolderSync: operators.                                                  *)
(***************************************************************************)

\* What BranchJobs assumes of the constants is what FolderSync does.
LEMMA FolderConstants ==
    /\ MaxCommits \in Nat \ {0} /\ MaxEvents \in Nat
    /\ Stamp \notin Files /\ Hand # Absent /\ Hand \notin Nat /\ Absent \notin Nat
BY BoundsAssumption, ConstantsAssumption

\* A path has one operation at most.
OnePerPath(ops) == \A c, d \in ops : c.path = d.path => c = d

\* What a commit makes of one path.
LEMMA FolderCommittedAt ==
    ASSUME NEW f, NEW p \in DOMAIN f, NEW b, OnePerPath(b)
    PROVE  /\ \A c \in b : c.path = p => Folder!Committed(f, b)[p] = c.to
           /\ (\A c \in b : c.path # p) => Folder!Committed(f, b)[p] = f[p]
<1>1. Folder!Committed(f, b)[p] =
         IF \E c \in b : c.path = p THEN (CHOOSE c \in b : c.path = p).to ELSE f[p]
  BY DEF Folder!Committed
<1>2. ASSUME NEW c \in b, c.path = p
      PROVE  Folder!Committed(f, b)[p] = c.to
  <2> DEFINE d == CHOOSE e \in b : e.path = p
  <2>1. d \in b /\ d.path = p
    BY <1>2
  <2>2. d = c
    BY <2>1, <1>2 DEF OnePerPath
  <2> QED
    BY <1>1, <1>2, <2>2
<1> QED
  BY <1>1, <1>2

\* A committed batch leaves a folder.
LEMMA FolderCommittedType ==
    ASSUME NEW f \in Folder!Trees, NEW b \in SUBSET Folder!Operations
    PROVE  Folder!Committed(f, b) \in Folder!Trees
<1> SUFFICES ASSUME NEW p \in Folder!Paths
             PROVE  (IF \E c \in b : c.path = p THEN (CHOOSE c \in b : c.path = p).to ELSE f[p])
                       \in Folder!Texts
  BY DEF Folder!Committed, Folder!Trees
<1>1. CASE \E c \in b : c.path = p
  <2> DEFINE d == CHOOSE c \in b : c.path = p
  <2>1. d \in b
    BY <1>1
  <2> QED
    BY <1>1, <2>1 DEF Folder!Operations
<1>2. CASE ~\E c \in b : c.path = p
  BY <1>2 DEF Folder!Trees
<1> QED
  BY <1>1, <1>2

\* A batch committed brings the folder nowhere the operations did not lead.
LEMMA FolderBatchTarget ==
    ASSUME NEW f \in Folder!Trees, NEW ops \in SUBSET Folder!Operations, OnePerPath(ops),
           NEW b \in SUBSET ops
    PROVE  /\ \A c \in ops \ b : Folder!Committed(f, b)[c.path] = f[c.path]
           /\ \A p \in Folder!Paths :
                 Folder!Committed(Folder!Committed(f, b), ops \ b)[p] = Folder!Committed(f, ops)[p]
<1> DEFINE g == Folder!Committed(f, b)
<1>1. OnePerPath(b) /\ OnePerPath(ops \ b)
  BY DEF OnePerPath
<1>2. DOMAIN f = Folder!Paths /\ DOMAIN g = Folder!Paths
  BY FolderCommittedType DEF Folder!Trees
<1>3. \A c \in ops : c.path \in Folder!Paths
  BY DEF Folder!Operations
<1>4. ASSUME NEW c \in ops \ b
      PROVE  g[c.path] = f[c.path]
  <2>1. \A d \in b : d.path # c.path
    BY DEF OnePerPath
  <2> QED
    BY <1>1, <1>2, <1>3, <2>1, FolderCommittedAt
<1> HIDE DEF g
<1>5. ASSUME NEW p \in Folder!Paths
      PROVE  Folder!Committed(g, ops \ b)[p] = Folder!Committed(f, ops)[p]
  <2>1. CASE \E c \in ops \ b : c.path = p
    <3>1. PICK c \in ops \ b : c.path = p
      BY <2>1
    <3>2. Folder!Committed(g, ops \ b)[p] = c.to
      BY <1>1, <1>2, <3>1, FolderCommittedAt
    <3>3. Folder!Committed(f, ops)[p] = c.to
      BY <1>2, <3>1, FolderCommittedAt
    <3> QED
      BY <3>2, <3>3
  <2>2. CASE \A c \in ops \ b : c.path # p
    <3>1. Folder!Committed(g, ops \ b)[p] = g[p]
      BY <1>1, <1>2, <2>2, FolderCommittedAt
    <3>2. CASE \E c \in b : c.path = p
      <4>1. PICK c \in b : c.path = p
        BY <3>2
      <4>2. g[p] = c.to
        BY <1>1, <1>2, <4>1, FolderCommittedAt DEF g
      <4>3. Folder!Committed(f, ops)[p] = c.to
        BY <1>2, <4>1, FolderCommittedAt
      <4> QED
        BY <3>1, <4>2, <4>3
    <3>3. CASE \A c \in b : c.path # p
      <4>1. g[p] = f[p]
        BY <1>1, <1>2, <3>3, FolderCommittedAt DEF g
      <4>2. Folder!Committed(f, ops)[p] = f[p]
        BY <1>2, <2>2, <3>3, FolderCommittedAt
      <4> QED
        BY <3>1, <4>1, <4>2
    <3> QED
      BY <3>2, <3>3
  <2> QED
    BY <2>1, <2>2
<1> QED
  BY <1>4, <1>5 DEF g

\* The operations that turn one folder into another find what they name, and
\* lead there.
LEMMA FolderDiff ==
    ASSUME NEW f \in Folder!Trees, NEW g \in Folder!Trees
    PROVE  LET ops == Folder!Diff(g, f, {})
           IN  /\ ops \subseteq Folder!Operations /\ OnePerPath(ops)
               /\ \A c \in ops : f[c.path] = c.from
               /\ \A p \in Folder!Paths : Folder!Committed(f, ops)[p] = g[p]
<1> DEFINE ops == Folder!Diff(g, f, {})
<1>1. DOMAIN f = Folder!Paths
  BY DEF Folder!Trees
<1>2. ops = {Folder!Change(p, f[p], g[p]) : p \in {q \in Folder!Paths : g[q] # f[q]}}
  BY <1>1 DEF Folder!Diff
<1> HIDE DEF ops
<1>3. \A c \in ops : c.path \in Folder!Paths /\ c.from = f[c.path] /\ c.to = g[c.path]
  BY <1>2 DEF Folder!Change
<1>4. ops \subseteq Folder!Operations
  BY <1>2 DEF Folder!Change, Folder!Operations, Folder!Trees
<1>5. OnePerPath(ops)
  BY <1>2 DEF OnePerPath, Folder!Change
<1>6. ASSUME NEW p \in Folder!Paths
      PROVE  Folder!Committed(f, ops)[p] = g[p]
  <2>1. CASE g[p] # f[p]
    <3>1. Folder!Change(p, f[p], g[p]) \in ops
      BY <1>2, <2>1
    <3>2. Folder!Change(p, f[p], g[p]).path = p /\ Folder!Change(p, f[p], g[p]).to = g[p]
      BY DEF Folder!Change
    <3> QED
      BY <1>1, <1>5, <3>1, <3>2, FolderCommittedAt
  <2>2. CASE g[p] = f[p]
    <3>1. \A c \in ops : c.path # p
      BY <1>2, <2>2 DEF Folder!Change
    <3> QED
      BY <1>1, <1>5, <2>2, <3>1, FolderCommittedAt
  <2> QED
    BY <2>1, <2>2
<1> QED
  BY <1>3, <1>4, <1>5, <1>6 DEF ops

\* A tree of the source, stamped, is a folder.
LEMMA FolderWanted ==
    ASSUME NEW t \in [Files -> Folder!Commits \cup {Absent}], NEW c \in Folder!Commits
    PROVE  Folder!Wanted(t, c) \in Folder!Trees
BY DEF Folder!Wanted, Folder!Trees, Folder!Paths, Folder!Texts, Folder!Blobs

--------------------------------------------------------------------------------
(***************************************************************************)
(* FolderSync: the invariant.                                              *)
(***************************************************************************)

\* So is the empty one.
LEMMA FolderEmpty == Folder!Empty(Folder!Paths) \in Folder!Trees
BY DEF Folder!Empty, Folder!Trees, Folder!Texts

\* What a step that says what it uses sees of the types.
LEMMA FolderTypes ==
    ASSUME Folder!TypeOK
    PROVE  /\ past \in Seq([Files -> Folder!Commits \cup {Absent}]) /\ Len(past) \in Nat
           /\ Len(past) \in 1 .. MaxCommits
           /\ folder \in Folder!Trees /\ site \in Folder!Trees
           /\ deployed \in Folder!Trees \cup {None} /\ redeploy \in BOOLEAN
           /\ tree \in Folder!Trees /\ toRead \subseteq Folder!Paths /\ got \in Folder!Trees
           /\ due \in BOOLEAN /\ done \in 0 .. MaxCommits /\ head \in 0 .. MaxCommits
           /\ existing \in Folder!Trees /\ Folder!Empty(Folder!Paths) \in Folder!Trees
           /\ pending \subseteq Folder!Operations /\ {} \subseteq Folder!Operations
           /\ state \in {"mirrored", "listed", "edited"} /\ events \in 0 .. MaxEvents
           /\ \A i \in 1 .. Len(past) : past[i] \in [Files -> Folder!Commits \cup {Absent}]
           /\ Folder!Tip \in [Files -> Folder!Commits \cup {Absent}]
<1>1. past \in Seq([Files -> Folder!Commits \cup {Absent}]) /\ Len(past) \in 1 .. MaxCommits
  BY DEF Folder!TypeOK, Folder!Commits
<1>2. \A i \in 1 .. Len(past) : past[i] \in [Files -> Folder!Commits \cup {Absent}]
  BY <1>1
<1>3. Folder!Tip \in [Files -> Folder!Commits \cup {Absent}]
  BY <1>1, <1>2, FolderConstants DEF Folder!Tip
<1>4. Folder!Empty(Folder!Paths) \in Folder!Trees
  BY FolderEmpty
<1> QED
  BY <1>1, <1>2, <1>3, <1>4 DEF Folder!TypeOK

\* A failure or an edit is counted.
LEMMA FolderEvent == Folder!TypeOK /\ Folder!Event => events' \in 0 .. MaxEvents
BY FolderConstants DEF Folder!TypeOK, Folder!Event

\* Nothing is mirrored yet.
LEMMA FolderInit ==
    ASSUME Folder!Init
    PROVE  Folder!IInv
<1> USE DEF Folder!Init
<1>1. 1 \in Folder!Commits /\ MaxCommits \in Nat /\ MaxEvents \in Nat
  BY FolderConstants DEF Folder!Commits
<1>2. past \in Seq([Files -> Folder!Commits \cup {Absent}]) /\ Len(past) = 1
  BY <1>1
<1>3. Folder!Empty(Folder!Paths) \in Folder!Trees
  BY FolderEmpty
<1>4. Folder!TypeOK
  BY <1>1, <1>2, <1>3 DEF Folder!TypeOK
<1> QED
  BY <1>4 DEF Folder!IInv, Folder!DoneIsMirrored, Folder!HeadIsPast, Folder!CommitMirrors

\* A step that leaves source, folder and the mirror's knowledge alone keeps what
\* is promised of them.
LEMMA FolderAside ==
    ASSUME Folder!IInv, Folder!TypeOK',
           UNCHANGED <<past, folder, done, head, pending, state>>,
           pc' = pc \/ {pc, pc'} \cap {"archive", "commit"} = {}
    PROVE  Folder!IInv'
<1>1. pc' \in {"archive", "commit"} => pc' = pc
  OBVIOUS
<1>2. Folder!DoneIsMirrored'
  BY DEF Folder!IInv, Folder!DoneIsMirrored, Folder!Mirrored
<1>3. Folder!HeadIsPast'
  BY <1>1 DEF Folder!IInv, Folder!HeadIsPast
<1>4. Folder!CommitMirrors'
  BY <1>1 DEF Folder!IInv, Folder!CommitMirrors
<1> QED
  BY <1>2, <1>3, <1>4 DEF Folder!IInv

\* sync_pages, edits of the site, and time.
LEMMA FolderPagesInv ==
    ASSUME Folder!IInv,
           \/ Folder!ListSite \/ Folder!ReadPage \/ Folder!Deploy \/ Folder!PagesFail
           \/ Folder!EditSite \/ Folder!Elapse
    PROVE  Folder!IInv'
<1> USE DEF Folder!outside, Folder!pages, Folder!mirrors
<1>1. Folder!TypeOK
  BY DEF Folder!IInv
<1>2. CASE Folder!ListSite
  <2>1. Folder!Present(folder) \subseteq Folder!Paths /\ Folder!Empty(Folder!Paths) \in Folder!Trees
    BY <1>1, FolderTypes DEF Folder!Present, Folder!Trees, Folder!Empty, Folder!Texts
  <2>2. tree' \in Folder!Trees /\ toRead' \subseteq Folder!Paths /\ got' \in Folder!Trees
    BY <1>1, <1>2, <2>1, FolderTypes DEF Folder!ListSite
  <2>3. Folder!TypeOK'
    BY <1>1, <1>2, <2>2 DEF Folder!ListSite, Folder!TypeOK
  <2> QED
    BY <1>2, <2>3, FolderAside DEF Folder!ListSite
<1>3. CASE Folder!ReadPage
  <2>1. PICK p \in toRead : got' = [got EXCEPT ![p] = folder[p]] /\ toRead' = toRead \ {p}
    BY <1>3 DEF Folder!ReadPage
  <2>2. got' \in Folder!Trees /\ toRead' \subseteq Folder!Paths
    BY <1>1, <2>1, FolderTypes DEF Folder!Trees
  <2>3. Folder!TypeOK'
    BY <1>1, <1>3, <2>2 DEF Folder!ReadPage, Folder!TypeOK
  <2> QED
    BY <1>3, <2>3, FolderAside DEF Folder!ReadPage
<1>4. CASE Folder!Deploy
  <2>1. site' \in Folder!Trees /\ deployed' \in Folder!Trees \cup {None} /\ redeploy' \in BOOLEAN
    BY <1>1, <1>4, FolderTypes DEF Folder!Deploy
  <2>2. Folder!TypeOK'
    BY <1>1, <1>4, <2>1 DEF Folder!Deploy, Folder!TypeOK
  <2> QED
    BY <1>4, <2>2, FolderAside DEF Folder!Deploy
<1>5. CASE Folder!PagesFail
  <2>1. site' \in Folder!Trees
    BY <1>1, <1>5, FolderTypes DEF Folder!PagesFail
  <2>2. Folder!TypeOK'
    BY <1>1, <1>5, <2>1, FolderEvent DEF Folder!PagesFail, Folder!TypeOK
  <2> QED
    BY <1>5, <2>2, FolderAside DEF Folder!PagesFail
<1>6. CASE Folder!EditSite
  <2>1. site' \in Folder!Trees
    BY <1>1, <1>6, FolderTypes DEF Folder!EditSite, Folder!Trees, Folder!Texts, Folder!Blobs
  <2>2. Folder!TypeOK'
    BY <1>1, <1>6, <2>1, FolderEvent DEF Folder!EditSite, Folder!TypeOK
  <2> QED
    BY <1>6, <2>2, FolderAside DEF Folder!EditSite
<1>7. CASE Folder!Elapse
  <2>1. Folder!TypeOK'
    BY <1>1, <1>7 DEF Folder!Elapse, Folder!TypeOK
  <2> QED
    BY <1>7, <2>1, FolderAside DEF Folder!Elapse
<1> QED
  BY <1>2, <1>3, <1>4, <1>5, <1>6, <1>7

\* A commit of the source adds a tree and keeps the earlier ones.
LEMMA FolderPushInv ==
    ASSUME Folder!IInv, Folder!Push
    PROVE  Folder!IInv'
<1> USE DEF Folder!pages, Folder!mirrors
<1>1. Folder!TypeOK
  BY DEF Folder!IInv
<1>2. PICK f \in Files, t \in {Len(past) + 1, Absent} :
         past' = Append(past, [Folder!Tip EXCEPT ![f] = t])
  BY DEF Folder!Push
<1>3. Len(past) + 1 \in Folder!Commits
  BY <1>1, FolderTypes, FolderConstants DEF Folder!Push, Folder!Commits
<1>4. [Folder!Tip EXCEPT ![f] = t] \in [Files -> Folder!Commits \cup {Absent}]
  BY <1>1, <1>3, FolderTypes
<1>5. /\ past' \in Seq([Files -> Folder!Commits \cup {Absent}]) /\ Len(past') = Len(past) + 1
      /\ \A i \in 1 .. Len(past) : past'[i] = past[i]
  BY <1>1, <1>2, <1>4, FolderTypes
<1>6. Folder!TypeOK'
  BY <1>1, <1>3, <1>5 DEF Folder!TypeOK, Folder!Push
<1>7. Len(past) \in Nat /\ done \in Nat
  BY <1>1, FolderTypes, FolderConstants
<1>8. Folder!DoneIsMirrored'
  <2> SUFFICES ASSUME done # 0, state = "mirrored"
               PROVE  \E i \in done .. Len(past') : Folder!Mirrored = past'[i]
    BY DEF Folder!DoneIsMirrored, Folder!Push, Folder!Mirrored
  <2>1. PICK i \in done .. Len(past) : Folder!Mirrored = past[i]
    BY DEF Folder!IInv, Folder!DoneIsMirrored
  <2>2. i \in 1 .. Len(past)
    BY <1>7
  <2> QED
    BY <1>5, <1>7, <2>1, <2>2
<1>9. Folder!HeadIsPast'
  BY <1>5, <1>7 DEF Folder!IInv, Folder!HeadIsPast, Folder!Push
<1>10. Folder!CommitMirrors'
  <2> SUFFICES ASSUME pc = "commit"
               PROVE  /\ state # "mirrored"
                      /\ state = "listed" =>
                           /\ \A c \in pending : folder[c.path] = c.from
                           /\ \A c, d \in pending : c.path = d.path => c = d
                           /\ \E i \in head .. Len(past') : \A p \in Folder!Paths :
                                 Folder!Committed(folder, pending)[p]
                                    = Folder!Wanted(past'[i], head)[p]
    BY DEF Folder!CommitMirrors, Folder!Push
  <2>1. state # "mirrored"
    BY DEF Folder!IInv, Folder!CommitMirrors
  <2>2. ASSUME state = "listed"
        PROVE  \E i \in head .. Len(past') : \A p \in Folder!Paths :
                  Folder!Committed(folder, pending)[p] = Folder!Wanted(past'[i], head)[p]
    <3>1. PICK i \in head .. Len(past) : \A p \in Folder!Paths :
             Folder!Committed(folder, pending)[p] = Folder!Wanted(past[i], head)[p]
      BY <2>2 DEF Folder!IInv, Folder!CommitMirrors
    <3>2. head \in 1 .. Len(past)
      BY DEF Folder!IInv, Folder!HeadIsPast
    <3>3. i \in 1 .. Len(past) /\ i \in head .. Len(past')
      BY <1>5, <1>7, <3>2
    <3> QED
      BY <1>5, <3>1, <3>3
  <2> QED
    BY <2>1, <2>2 DEF Folder!IInv, Folder!CommitMirrors
<1> QED
  BY <1>6, <1>8, <1>9, <1>10 DEF Folder!IInv

\* An edit of the folder ends what is known of it.
LEMMA FolderEditInv ==
    ASSUME Folder!IInv, Folder!EditFolder
    PROVE  Folder!IInv'
<1> USE DEF Folder!pages, Folder!mirrors
<1>1. Folder!TypeOK
  BY DEF Folder!IInv
<1>2. folder' \in Folder!Trees
  BY <1>1, FolderTypes DEF Folder!EditFolder, Folder!Trees, Folder!Texts, Folder!Blobs
<1>3. Folder!TypeOK'
  BY <1>1, <1>2, FolderEvent DEF Folder!EditFolder, Folder!TypeOK
<1>4. state' = "edited" /\ UNCHANGED <<past, pc, head>>
  BY DEF Folder!EditFolder
<1> QED
  BY <1>3, <1>4
     DEF Folder!IInv, Folder!DoneIsMirrored, Folder!HeadIsPast, Folder!CommitMirrors

\* The head is read, and the archive not yet.
LEMMA FolderReadHeadInv ==
    ASSUME Folder!IInv, Folder!ReadHead
    PROVE  Folder!IInv'
<1> USE DEF Folder!outside, Folder!pages, Folder!mirrors
<1>1. Folder!TypeOK
  BY DEF Folder!IInv
<1>2. /\ pc' \in {"pages", "archive"} /\ done' = done
      /\ pc' = "archive" => head' = Len(past)
      /\ head' \in {head, Len(past)} /\ due' \in {due, FALSE} /\ pending' \in {pending, {}}
      /\ existing' \in {existing, Folder!Empty(Folder!Paths)}
      /\ UNCHANGED <<past, folder, site, deployed, redeploy, tree, toRead, got, state, events>>
  BY DEF Folder!ReadHead, Folder!EndMirrors
<1>3. /\ head' \in 0 .. MaxCommits /\ due' \in BOOLEAN /\ pending' \subseteq Folder!Operations
      /\ existing' \in Folder!Trees
  <2>1. head' \in 0 .. MaxCommits
    BY <1>1, <1>2, FolderTypes, FolderConstants
  <2>2. pending' \subseteq Folder!Operations
    BY <1>1, <1>2, FolderTypes
  <2>3. due' \in BOOLEAN /\ existing' \in Folder!Trees
    BY <1>1, <1>2, FolderTypes
  <2> QED
    BY <2>1, <2>2, <2>3
<1>4. Folder!TypeOK'
  BY <1>1, <1>2, <1>3 DEF Folder!TypeOK
<1>5. Folder!HeadIsPast'
  BY <1>1, <1>2, FolderTypes DEF Folder!HeadIsPast
<1>6. Folder!DoneIsMirrored' /\ Folder!CommitMirrors'
  BY <1>2 DEF Folder!IInv, Folder!DoneIsMirrored, Folder!Mirrored, Folder!CommitMirrors
<1> QED
  BY <1>4, <1>5, <1>6 DEF Folder!IInv

\* The difference to the archive leads to the tree that was the tip by then.
LEMMA FolderArchiveInv ==
    ASSUME Folder!IInv, Folder!Archive
    PROVE  Folder!IInv'
<1> USE DEF Folder!outside, Folder!pages
<1> DEFINE w == Folder!Wanted(Folder!Tip, head)
<1>1. Folder!TypeOK
  BY DEF Folder!IInv
<1>2. head \in 1 .. Len(past)
  BY DEF Folder!IInv, Folder!HeadIsPast, Folder!Archive
<1>3. head \in Folder!Commits /\ Len(past) \in head .. Len(past) /\ Len(past) \in Nat
  BY <1>1, <1>2, FolderTypes, FolderConstants DEF Folder!Commits
<1>4. w \in Folder!Trees
  BY <1>1, <1>3, FolderTypes, FolderWanted
<1> HIDE DEF w
<1>5. /\ pending' \subseteq Folder!Operations /\ OnePerPath(pending')
      /\ \A c \in pending' : folder[c.path] = c.from
      /\ \A p \in Folder!Paths : Folder!Committed(folder, pending')[p] = w[p]
  <2>1. pending' = Folder!Diff(w, folder, {}) /\ folder \in Folder!Trees
    BY <1>1, FolderTypes DEF w, Folder!Archive
  <2> QED
    BY <1>4, <2>1, FolderDiff
<1>6. Folder!TypeOK'
  BY <1>1, <1>5 DEF Folder!TypeOK, Folder!Archive
<1>7. Folder!HeadIsPast' /\ Folder!DoneIsMirrored'
  BY <1>2 DEF Folder!HeadIsPast, Folder!DoneIsMirrored, Folder!Archive
<1>8. Folder!CommitMirrors'
  <2>1. \A p \in Folder!Paths :
           Folder!Committed(folder, pending')[p] = Folder!Wanted(past[Len(past)], head)[p]
    BY <1>5 DEF w, Folder!Tip
  <2>2. UNCHANGED <<past, folder, head>> /\ state' = "listed"
    BY DEF Folder!Archive
  <2> QED
    BY <1>3, <1>5, <2>1, <2>2 DEF Folder!CommitMirrors, OnePerPath
<1> QED
  BY <1>6, <1>7, <1>8 DEF Folder!IInv

\* A batch of them brings the folder closer.
LEMMA FolderBatchInv ==
    ASSUME Folder!IInv, Folder!PostBatch
    PROVE  Folder!IInv'
<1> USE DEF Folder!outside, Folder!pages
<1>1. Folder!TypeOK
  BY DEF Folder!IInv
<1>2. PICK b \in SUBSET pending :
         folder' = Folder!Committed(folder, b) /\ pending' = pending \ b
  BY DEF Folder!PostBatch, Folder!Batches
<1>3. folder' \in Folder!Trees /\ pending' \subseteq Folder!Operations
  BY <1>1, <1>2, FolderTypes, FolderCommittedType
<1>4. Folder!TypeOK'
  BY <1>1, <1>3 DEF Folder!TypeOK, Folder!PostBatch
<1>5. pc = "commit" /\ UNCHANGED <<past, pc, head, done, state>>
  BY DEF Folder!PostBatch
<1>6. state # "mirrored"
  BY <1>5 DEF Folder!IInv, Folder!CommitMirrors
<1>7. Folder!HeadIsPast' /\ Folder!DoneIsMirrored'
  BY <1>5, <1>6 DEF Folder!IInv, Folder!HeadIsPast, Folder!DoneIsMirrored
<1>8. ASSUME state = "listed"
      PROVE  /\ \A c \in pending' : folder'[c.path] = c.from
             /\ \A c, d \in pending' : c.path = d.path => c = d
             /\ \E i \in head .. Len(past) : \A p \in Folder!Paths :
                   Folder!Committed(folder', pending')[p] = Folder!Wanted(past[i], head)[p]
  <2>1. /\ \A c \in pending : folder[c.path] = c.from
        /\ OnePerPath(pending)
        /\ \E i \in head .. Len(past) : \A p \in Folder!Paths :
              Folder!Committed(folder, pending)[p] = Folder!Wanted(past[i], head)[p]
    BY <1>5, <1>8 DEF Folder!IInv, Folder!CommitMirrors, OnePerPath
  <2>2. /\ \A c \in pending \ b : folder'[c.path] = folder[c.path]
        /\ \A p \in Folder!Paths :
              Folder!Committed(folder', pending \ b)[p] = Folder!Committed(folder, pending)[p]
    <3>1. folder \in Folder!Trees /\ pending \in SUBSET Folder!Operations
      BY <1>1, FolderTypes
    <3>2. folder' = Folder!Committed(folder, b) /\ b \in SUBSET pending
      BY <1>2
    <3> QED
      BY <2>1, <3>1, <3>2, FolderBatchTarget
  <2> QED
    BY <1>2, <2>1, <2>2 DEF OnePerPath
<1>9. Folder!CommitMirrors'
  BY <1>5, <1>6, <1>8 DEF Folder!CommitMirrors
<1> QED
  BY <1>4, <1>7, <1>9 DEF Folder!IInv

\* A batch is answered 404 only after an edit.
LEMMA FolderDroppedInv ==
    ASSUME Folder!IInv, Folder!PostDropped
    PROVE  Folder!IInv'
<1> USE DEF Folder!outside, Folder!pages
<1>1. Folder!TypeOK
  BY DEF Folder!IInv
<1>2. PICK b \in SUBSET pending : Folder!IsGone(folder, b) /\ pending' = pending \ b
  BY DEF Folder!PostDropped, Folder!Batches
<1>3. pending' \subseteq Folder!Operations
  BY <1>1, <1>2, FolderTypes
<1>4. Folder!TypeOK'
  BY <1>1, <1>3 DEF Folder!TypeOK, Folder!PostDropped
<1>5. pc = "commit" /\ UNCHANGED <<past, folder, pc, head, done, state>>
  BY DEF Folder!PostDropped
<1>6. state # "mirrored" /\ state # "listed"
  BY <1>2, <1>5 DEF Folder!IInv, Folder!CommitMirrors, Folder!IsGone
<1> QED
  BY <1>4, <1>5, <1>6
     DEF Folder!IInv, Folder!HeadIsPast, Folder!DoneIsMirrored, Folder!CommitMirrors

\* A pass that breaks off remembers nothing new.
LEMMA FolderBreakInv ==
    ASSUME Folder!IInv, Folder!PostRefused \/ Folder!MirrorFails \/ Folder!Restart
    PROVE  Folder!IInv'
<1> USE DEF Folder!outside, Folder!pages
<1>1. Folder!TypeOK
  BY DEF Folder!IInv
<1>2. /\ pc' = "pages" /\ pending' = {} /\ due' \in BOOLEAN /\ done' \in {done, 0}
      /\ deployed' \in {deployed, None}
      /\ existing' \in {existing, Folder!Empty(Folder!Paths)}
      /\ UNCHANGED <<past, folder, site, redeploy, tree, toRead, got, head, state>>
  BY DEF Folder!PostRefused, Folder!MirrorFails, Folder!Restart, Folder!EndMirrors
<1>3. events' \in 0 .. MaxEvents
  BY <1>1, FolderEvent DEF Folder!PostRefused, Folder!MirrorFails, Folder!Restart, Folder!TypeOK
<1>4. /\ done' \in 0 .. MaxCommits /\ deployed' \in Folder!Trees \cup {None}
      /\ existing' \in Folder!Trees
  BY <1>1, <1>2, FolderTypes, FolderConstants
<1>5. Folder!TypeOK'
  BY <1>1, <1>2, <1>3, <1>4 DEF Folder!TypeOK
<1>6. Folder!DoneIsMirrored'
  BY <1>2 DEF Folder!IInv, Folder!DoneIsMirrored, Folder!Mirrored
<1> QED
  BY <1>2, <1>5, <1>6 DEF Folder!IInv, Folder!HeadIsPast, Folder!CommitMirrors

\* With the last batch the folder is the tree the operations led to.
LEMMA FolderDoneInv ==
    ASSUME Folder!IInv, Folder!MirrorDone
    PROVE  Folder!IInv'
<1> USE DEF Folder!outside, Folder!pages
<1>1. Folder!TypeOK
  BY DEF Folder!IInv
<1>2. /\ pc = "commit" /\ pending = {} /\ pending' = {} /\ pc' = "pages" /\ due' = FALSE
      /\ existing' = Folder!Empty(Folder!Paths)
      /\ done' = head /\ state' = (IF state = "listed" THEN "mirrored" ELSE state)
      /\ UNCHANGED <<past, folder, site, deployed, redeploy, tree, toRead, got, head, events>>
  BY DEF Folder!MirrorDone, Folder!EndMirrors
<1>3. Folder!TypeOK'
  BY <1>1, <1>2, FolderEmpty DEF Folder!TypeOK
<1>4. Folder!DoneIsMirrored'
  <2> SUFFICES ASSUME state = "listed"
               PROVE  \E i \in head .. Len(past) : Folder!Mirrored = past[i]
    BY <1>2 DEF Folder!IInv, Folder!CommitMirrors, Folder!DoneIsMirrored, Folder!Mirrored
  <2>1. PICK i \in head .. Len(past) : \A p \in Folder!Paths :
           Folder!Committed(folder, {})[p] = Folder!Wanted(past[i], head)[p]
    BY <1>2 DEF Folder!IInv, Folder!CommitMirrors
  <2>2. i \in 1 .. Len(past)
    BY <1>1, <1>2, FolderTypes DEF Folder!IInv, Folder!HeadIsPast
  <2>3. past[i] \in [Files -> Folder!Commits \cup {Absent}]
    BY <1>1, <2>2, FolderTypes
  <2>4. ASSUME NEW f \in Files
        PROVE  folder[f] = past[i][f]
    <3>1. f \in Folder!Paths /\ f # Stamp /\ DOMAIN folder = Folder!Paths
      BY <1>1, FolderTypes, FolderConstants DEF Folder!Paths, Folder!Trees
    <3>2. Folder!Committed(folder, {})[f] = folder[f]
      BY <3>1, FolderCommittedAt DEF OnePerPath
    <3>3. Folder!Wanted(past[i], head)[f] = past[i][f]
      BY <3>1 DEF Folder!Wanted
    <3> QED
      BY <2>1, <3>1, <3>2, <3>3
  <2>5. Folder!Mirrored = past[i]
    BY <2>3, <2>4 DEF Folder!Mirrored
  <2> QED
    BY <2>5
<1> QED
  BY <1>2, <1>3, <1>4 DEF Folder!IInv, Folder!HeadIsPast, Folder!CommitMirrors

\* Every step keeps the invariant.
LEMMA FolderNextInv == Folder!IInv /\ [Folder!Next]_(Folder!vars) => Folder!IInv'
<1> SUFFICES ASSUME Folder!IInv, [Folder!Next]_(Folder!vars)
             PROVE  Folder!IInv'
  OBVIOUS
<1>1. CASE Folder!Cycle
  BY <1>1, FolderPagesInv, FolderReadHeadInv, FolderArchiveInv, FolderBatchInv, FolderBreakInv,
     FolderDroppedInv, FolderDoneInv DEF Folder!Cycle
<1>2. CASE Folder!Elapse \/ Folder!Push \/ Folder!EditFolder \/ Folder!EditSite \/
           Folder!PagesFail \/ Folder!MirrorFails \/ Folder!Restart
  BY <1>2, FolderPagesInv, FolderPushInv, FolderEditInv, FolderBreakInv
<1>3. CASE UNCHANGED Folder!vars
  <2>1. UNCHANGED <<past, folder, site, pc, deployed, redeploy, tree, toRead, got, due, done,
                    head, existing, pending, state, events>>
    BY <1>3 DEF Folder!vars, Folder!outside, Folder!pages, Folder!mirrors
  <2>2. Folder!TypeOK'
    BY <2>1 DEF Folder!IInv, Folder!TypeOK
  <2> QED
    BY <2>1, <2>2, FolderAside
<1> QED
  BY <1>1, <1>2, <1>3 DEF Folder!Next

\* A commit that sync_mirrors remembers has been mirrored, as long as nobody edits
\* the folder: the folder is the tree of that commit or of a later one, never a
\* mixture, however passes before it broke off and whatever Forgejo answered.
THEOREM MirroredIsMirrored == Folder!Spec => []Folder!Safe
<1>1. Folder!IInv => Folder!Safe
  BY DEF Folder!IInv, Folder!Safe
<1> QED
  BY <1>1, FolderInit, FolderNextInv, PTL DEF Folder!Spec

--------------------------------------------------------------------------------
(***************************************************************************)
(* FolderSync: the promise.                                                *)
(***************************************************************************)

\* The mark for "no listing" is no folder.
LEMMA FolderNothing == Nothing \notin Folder!Trees
<1>1. Folder!Trees \subseteq [Paths -> Texts]
  BY DEF Folder!Trees, Folder!Paths, Folder!Texts, Folder!Blobs, Folder!Commits,
     Paths, Texts, Commits
<1> QED
  BY <1>1, NothingAssumption

\* The folders are what ConditionalCommits calls its states.
LEMMA FolderStates == Folder!Promise!States = Folder!Trees
BY DEF Folder!Promise!States, Folder!Trees, Folder!Texts

\* The operations left start from the listing they were made of.
LEMMA FolderListedInv ==
    Folder!TypeOK /\ Folder!PendingFromListing /\ [Folder!Next]_(Folder!vars)
        => Folder!PendingFromListing'
<1> SUFFICES ASSUME Folder!TypeOK, Folder!PendingFromListing, [Folder!Next]_(Folder!vars),
                    pc' = "commit"
             PROVE  \A c \in pending' : c.from = existing'[c.path]
  BY DEF Folder!PendingFromListing
<1> USE DEF Folder!outside, Folder!pages, Folder!mirrors
<1>1. CASE Folder!Archive
  <2>1. existing' = folder /\ pending' = Folder!Diff(Folder!Wanted(Folder!Tip, head), folder, {})
    BY <1>1 DEF Folder!Archive
  <2> QED
    BY <2>1 DEF Folder!Diff, Folder!Change
<1>2. CASE ~Folder!Archive
  <2>1. pc = "commit" /\ existing' = existing /\ pending' \subseteq pending
    <3>1. CASE Folder!Cycle
      BY <1>2, <3>1 DEF Folder!Cycle, Folder!ListSite, Folder!ReadPage, Folder!Deploy,
         Folder!ReadHead, Folder!PostBatch, Folder!PostRefused, Folder!PostDropped,
         Folder!MirrorDone, Folder!EndMirrors
    <3>2. CASE \/ Folder!Elapse \/ Folder!Push \/ Folder!EditFolder \/ Folder!EditSite
               \/ Folder!PagesFail \/ Folder!MirrorFails \/ Folder!Restart
      BY <3>2 DEF Folder!Elapse, Folder!Push, Folder!EditFolder, Folder!EditSite,
         Folder!PagesFail, Folder!MirrorFails, Folder!Restart, Folder!EndMirrors
    <3>3. CASE UNCHANGED Folder!vars
      BY <3>3 DEF Folder!vars
    <3> QED
      BY <3>1, <3>2, <3>3 DEF Folder!Next
  <2> QED
    BY <2>1 DEF Folder!PendingFromListing
<1> QED
  BY <1>1, <1>2

\* A batch that Forgejo takes changes only files that are as they were listed.
LEMMA FolderLanding ==
    ASSUME Folder!TypeOK, Folder!PendingFromListing, Folder!PostBatch
    PROVE  /\ folder' \in Folder!Trees
           /\ \A p \in Folder!Paths : folder'[p] # folder[p] => folder[p] = existing[p]
<1>1. PICK b \in SUBSET pending :
         Folder!IsCurrent(folder, b) /\ folder' = Folder!Committed(folder, b)
  BY DEF Folder!PostBatch, Folder!Batches
<1>2. folder \in Folder!Trees /\ b \in SUBSET Folder!Operations
  BY <1>1, FolderTypes
<1>3. ASSUME NEW p \in Folder!Paths, folder'[p] # folder[p]
      PROVE  folder[p] = existing[p]
  <2>1. PICK c \in b : c.path = p
    BY <1>1, <1>2, <1>3 DEF Folder!Committed, Folder!Trees
  <2>2. folder[p] = c.from
    BY <1>1, <2>1 DEF Folder!IsCurrent
  <2> QED
    BY <1>1, <2>1, <2>2 DEF Folder!PendingFromListing, Folder!PostBatch
<1> QED
  BY <1>1, <1>2, <1>3, FolderCommittedType
\* Every step of sync_mirrors, and of what goes on around it, is one that the
\* promise allows.
LEMMA FolderPromiseStep ==
    ASSUME Folder!IInv, Folder!PendingFromListing, [Folder!Next]_(Folder!vars)
    PROVE  [Folder!Promise!Next]_(Folder!Promise!vars)
<1> USE DEF Folder!Promise!Next, Folder!Promise!vars, Folder!outside, Folder!pages,
            Folder!mirrors, Folder!EndMirrors, Folder!Event
<1>1. Folder!TypeOK /\ Nothing \notin Folder!Trees /\ Folder!Promise!States = Folder!Trees
  BY FolderNothing, FolderStates DEF Folder!IInv
<1>2. CASE Folder!PostBatch
  <2>1. pc = "commit" /\ pc' = pc /\ existing' = existing /\ events' = events
    BY <1>2 DEF Folder!PostBatch
  <2>2. existing # Nothing
    BY <1>1, FolderTypes
  <2> QED
    BY <1>1, <1>2, <2>1, <2>2, FolderLanding DEF Folder!Promise!Commit
<1>3. CASE Folder!Archive
  BY <1>3 DEF Folder!Archive, Folder!Promise!Look
<1>4. CASE Folder!EditFolder
  <2>1. PICK f \in Files, t \in {Hand, Absent} : folder' = [folder EXCEPT ![f] = t]
    BY <1>4 DEF Folder!EditFolder
  <2>2. f \in Folder!Paths /\ t \in Folder!Blobs \cup {Absent}
    BY DEF Folder!Paths, Folder!Blobs
  <2>3. pc' = pc /\ existing' = existing /\ events' = events + 1
    BY <1>4 DEF Folder!EditFolder
  <2> QED
    BY <2>1, <2>2, <2>3 DEF Folder!Promise!Edit
<1>5. CASE \/ Folder!ListSite \/ Folder!ReadPage \/ Folder!Deploy \/ Folder!ReadHead
           \/ Folder!PostRefused \/ Folder!PostDropped \/ Folder!MirrorDone
  <2>1. /\ folder' = folder /\ events' = events
        /\ \/ pc' # "commit"
           \/ pc' = "commit" /\ pc = "commit" /\ existing' = existing
    BY <1>5 DEF Folder!ListSite, Folder!ReadPage, Folder!Deploy, Folder!ReadHead,
       Folder!PostRefused, Folder!PostDropped, Folder!MirrorDone
  <2> QED
    BY <2>1 DEF Folder!Promise!Forget
<1>6. CASE Folder!MirrorFails \/ Folder!Restart
  <2>1. folder' = folder /\ pc' = "pages" /\ events' = events + 1
    BY <1>6 DEF Folder!MirrorFails, Folder!Restart
  <2> QED
    BY <2>1 DEF Folder!Promise!Forget
<1>7. CASE \/ Folder!Elapse \/ Folder!Push \/ Folder!EditSite \/ Folder!PagesFail
           \/ UNCHANGED Folder!vars
  <2>1. /\ folder' = folder /\ events' \in {events, events + 1}
        /\ \/ pc' = pc /\ existing' = existing
           \/ pc \in {"pages", "read"} /\ pc' = "mirrors"
    BY <1>7 DEF Folder!Elapse, Folder!Push, Folder!EditSite, Folder!PagesFail, Folder!vars
  <2> QED
    BY <2>1 DEF Folder!Promise!Elapse
<1> QED
  BY <1>2, <1>3, <1>4, <1>5, <1>6, <1>7 DEF Folder!Next, Folder!Cycle

\* FolderSync implements ConditionalCommits: a mirror replaces and removes only
\* files that are as it listed them, however it breaks off and whoever edits the
\* folder, or pushes to the source, between the listing and the commits.
THEOREM MirrorConditional == Folder!Spec => Folder!KeepsPromise
<1>1. Folder!Init => Folder!Promise!Init /\ Folder!PendingFromListing
  <2> SUFFICES ASSUME Folder!Init PROVE Folder!Promise!Init /\ Folder!PendingFromListing
    OBVIOUS
  <2>1. folder \in Folder!Promise!States
    BY FolderEmpty, FolderStates DEF Folder!Init
  <2> QED
    BY <2>1 DEF Folder!Init, Folder!Promise!Init, Folder!PendingFromListing
<1>2. Folder!IInv => Folder!TypeOK
  BY DEF Folder!IInv
<1> QED
  BY <1>1, <1>2, FolderInit, FolderNextInv, FolderListedInv, FolderPromiseStep, PTL
     DEF Folder!Spec, Folder!KeepsPromise, Folder!Promise!Spec
================================================================================
