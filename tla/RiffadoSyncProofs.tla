--------------------------- MODULE RiffadoSyncProofs ---------------------------
(***************************************************************************)
(* Theorems about RiffadoSync for every set of recordings and titles and   *)
(* any number of changes, edits and failures: its types, the injectivity   *)
(* and the honesty of the index, that a full pass commits nothing needless *)
(* and that it keeps the promise of ConditionalCommits.                    *)
(***************************************************************************)
EXTENDS RiffadoSync, TLAPS

\* A pass that ends leaves the local variables in their initial state.
LEMMA EndPassTypes ==
    ASSUME NEW fate, fate \subseteq {"landed", "dropped"}, NEW left,
           TypeOK, EndPass(fate, left)
    PROVE  /\ pc' = "idle" /\ full' = FALSE /\ index' = NoIndex /\ listed' = NoIndex
           /\ existing' = NoFiles /\ cfg' = 0 /\ pending' = {} /\ fates' = {}
           /\ torn' \in BOOLEAN
BY DEF EndPass, TypeOK

\* The empty values have their types.
LEMMA EmptyTypes ==
    /\ IsFolder(NoFiles)
    /\ NoIndex \in Index
    /\ NoIndex \in Catalog
    /\ 0 \in Revisions
BY BoundsAssumption DEF IsFolder, NoFiles, NoIndex, Index, Catalog, Revisions

\* The files a batch leaves behind are again those of a folder.
LEMMA CommittedFolder ==
    ASSUME NEW f, IsFolder(f), NEW b,
           \A c \in b :
              /\ c \in [path : Paths, from : Blobs \cup {Absent}, to : Blobs \cup {Absent}]
              /\ c.to \in Rendered(c.path) \cup {Absent}
    PROVE  IsFolder(Committed(f, b))
<1> DEFINE g == Committed(f, b)
<1>1. ASSUME NEW p \in Paths
      PROVE  g[p] \in Blobs \cup {Absent} /\ g[p] \in Rendered(p) \cup {Hand, Absent}
  <2>1. CASE \E c \in b : c.path = p
    <3> DEFINE d == CHOOSE c \in b : c.path = p
    <3>1. d \in b /\ d.path = p
      BY <2>1
    <3>2. g[p] = d.to
      BY <2>1, <1>1 DEF Committed, IsFolder
    <3> QED
      BY <3>1, <3>2
  <2>2. CASE ~\E c \in b : c.path = p
    <3>1. g[p] = f[p]
      BY <2>2, <1>1 DEF Committed, IsFolder
    <3> QED
      BY <3>1, <1>1 DEF IsFolder
  <2> QED
    BY <2>1, <2>2
<1>2. g \in [Paths -> Blobs \cup {Absent}]
  BY <1>1 DEF Committed, IsFolder
<1> QED
  BY <1>1, <1>2 DEF IsFolder

\* A folder stays one when somebody writes or removes a file.
LEMMA EditedFolder ==
    ASSUME NEW f, IsFolder(f), NEW p \in Paths, NEW b \in {Hand, Absent}
    PROVE  IsFolder([f EXCEPT ![p] = b])
BY DEF IsFolder, Blobs

--------------------------------------------------------------------------------
(***************************************************************************)
(* Paths: what assign_paths promises, "stable, collision-free paths".      *)
(***************************************************************************)

LEMMA PathValue ==
    ASSUME NEW cat \in Catalog, NEW r \in Present(cat)
    PROVE  PathOf(cat)[r] =
             <<cat[r].title,
               IF \A s \in Present(cat) : cat[s].title = cat[r].title => r <= s
               THEN NoSuffix ELSE Short[r]>>
BY DEF PathOf, AssignPaths, NotePath, IsOldest

LEMMA PathType ==
    ASSUME NEW cat \in Catalog, NEW r \in Present(cat)
    PROVE  PathOf(cat)[r] \in NoteSlots
<1>1. r \in Recordings /\ cat[r] \in Recording
  BY DEF Present, Catalog
<1>2. cat[r].title \in Titles
  BY <1>1 DEF Recording
<1>3. Short[r] \in {Short[s] : s \in Recordings}
  BY <1>1
<1>4. PICK x \in {NoSuffix} \cup {Short[s] : s \in Recordings} :
         PathOf(cat)[r] = <<cat[r].title, x>>
  BY <1>3, PathValue
<1> QED
  BY <1>2, <1>4 DEF NoteSlots

\* Two recordings of one listing never get the same path.
THEOREM PathsDistinct ==
    ASSUME NEW cat \in Catalog, NEW r \in Present(cat), NEW s \in Present(cat),
           PathOf(cat)[r] = PathOf(cat)[s]
    PROVE  r = s
<1> DEFINE Oldest(x) == \A y \in Present(cat) : cat[y].title = cat[x].title => x <= y
<1>1. r \in Recordings /\ s \in Recordings /\ r \in Nat /\ s \in Nat
  BY RecordingsAssumption DEF Present
<1>2. /\ cat[r].title = cat[s].title
      /\ (IF Oldest(r) THEN NoSuffix ELSE Short[r]) = (IF Oldest(s) THEN NoSuffix ELSE Short[s])
  BY PathValue
<1>3. CASE Oldest(r) /\ Oldest(s)
  <2>1. r <= s /\ s <= r
    BY <1>2, <1>3
  <2> QED
    BY <2>1, <1>1
<1>4. CASE ~Oldest(r) /\ ~Oldest(s)
  BY <1>1, <1>2, <1>4, ShortAssumption
<1>5. CASE Oldest(r) # Oldest(s)
  <2>1. Short[r] = NoSuffix \/ Short[s] = NoSuffix
    BY <1>2, <1>5
  <2> QED
    BY <2>1, <1>1, ShortAssumption
<1> QED
  BY <1>3, <1>4, <1>5

LEMMA EntryType ==
    ASSUME NEW cat \in Catalog, NEW r \in Present(cat), NEW c \in Revisions
    PROVE  EntryOf(r, cat, c) \in Entry
<1>1. cat[r] \in Recording
  BY DEF Present, Catalog
<1>2. cat[r].sig \in Revisions
  BY <1>1 DEF Recording
<1> QED
  BY <1>2, PathType DEF EntryOf, Entry

LEMMA NoteType ==
    ASSUME NEW cat \in Catalog, NEW r \in Present(cat), NEW c \in Revisions
    PROVE  NoteOf(r, cat, c) \in Note
<1>1. r \in Recordings /\ cat[r] \in Recording
  BY DEF Present, Catalog
<1>2. cat[r].rev \in Revisions
  BY <1>1 DEF Recording
<1> QED
  BY <1>1, <1>2 DEF NoteOf, Note

--------------------------------------------------------------------------------
(***************************************************************************)
(* Types.                                                                  *)
(***************************************************************************)

LEMMA NewIndexType == TypeOK => NewIndex \in Index
<1> SUFFICES ASSUME TypeOK PROVE NewIndex \in Index
  OBVIOUS
<1>1. Kept \cup Fetched \subseteq Present(listed)
  BY DEF Kept, Fetched
<1>2. listed \in Catalog /\ cfg \in Revisions
  BY DEF TypeOK
<1>3. \A r \in Kept \cup Fetched : EntryOf(r, listed, cfg) \in Entry
  BY <1>1, <1>2, EntryType
<1> QED
  BY <1>3 DEF NewIndex, Index

LEMMA FilesType ==
    TypeOK => \A p \in Paths : Files[p] \in Rendered(p) \cup {Absent}
<1> SUFFICES ASSUME TypeOK, NEW p \in Paths
             PROVE  Files[p] \in Rendered(p) \cup {Absent}
  OBVIOUS
<1>1. CASE p = IndexPath
  <2>1. Files[p] = [entries |-> NewIndex]
    BY <1>1 DEF Files, Encoded
  <2> QED
    BY <1>1, <2>1, NewIndexType DEF Rendered, IndexFile
<1>2. CASE p # IndexPath /\ \E r \in Fetched : PathOf(listed)[r] = p
  <2> DEFINE q == CHOOSE r \in Fetched : PathOf(listed)[r] = p
  <2>1. q \in Fetched
    BY <1>2
  <2>2. Files[p] = NoteOf(q, source, cfg)
    BY <1>2 DEF Files
  <2>3. q \in Present(source) /\ source \in Catalog /\ cfg \in Revisions
    BY <2>1 DEF Fetched, TypeOK
  <2> HIDE DEF q
  <2> QED
    BY <1>2, <2>2, <2>3, NoteType DEF Rendered
<1>3. CASE p # IndexPath /\ ~\E r \in Fetched : PathOf(listed)[r] = p
  BY <1>3 DEF Files
<1> QED
  BY <1>1, <1>2, <1>3

LEMMA RenderedBlobs == \A p \in Paths : Rendered(p) \subseteq Blobs
BY DEF Rendered, Blobs

LEMMA PendingType ==
    ASSUME TypeOK, Render
    PROVE  \A c \in pending' :
              /\ c \in [path : Paths, from : Blobs \cup {Absent}, to : Blobs \cup {Absent}]
              /\ c.to \in Rendered(c.path) \cup {Absent}
<1> SUFFICES ASSUME NEW c \in pending'
             PROVE  /\ c \in [path : Paths, from : Blobs \cup {Absent}, to : Blobs \cup {Absent}]
                    /\ c.to \in Rendered(c.path) \cup {Absent}
  OBVIOUS
<1>1. DOMAIN existing = Paths /\ existing \in [Paths -> Blobs \cup {Absent}]
  BY DEF TypeOK, IsFolder
<1>2. PICK p \in Paths : c = [path |-> p, from |-> existing[p], to |-> Files[p]]
  BY <1>1 DEF Render, Diff, Change
<1>3. Files[p] \in Rendered(p) \cup {Absent}
  BY FilesType
<1> QED
  BY <1>1, <1>2, <1>3, RenderedBlobs

\* The operations a batch takes, and those that are left, are typed.
LEMMA BatchSubset ==
    \A b \in Batches(pending, {IndexPath}) : b \subseteq pending
BY DEF Batches

LEMMA PassTypes == TypeOK /\ Pass => TypeOK'
<1> SUFFICES ASSUME TypeOK, Pass PROVE TypeOK'
  OBVIOUS
<1> USE DEF TypeOK, outside, local
<1>1. CASE ListFolder
  BY <1>1 DEF ListFolder
<1>2. CASE ReadIndex
  <2>1. IndexPath \in Paths
    BY DEF Paths
  <2>2. folder[IndexPath] \in IndexFile \cup {Hand, Absent}
    BY <2>1 DEF IsFolder, Rendered
  <2>3. Parsed(folder[IndexPath]) \in Index
    BY <2>2, EmptyTypes DEF Parsed, IndexFile
  <2> QED
    BY <1>2, <2>3, EmptyTypes DEF ReadIndex
<1>3. CASE ListRecordings
  BY <1>3 DEF ListRecordings
<1>4. CASE Render
  <2>1. \A c \in pending' :
              /\ c \in [path : Paths, from : Blobs \cup {Absent}, to : Blobs \cup {Absent}]
              /\ c.to \in Rendered(c.path) \cup {Absent}
    BY <1>4, PendingType
  <2> QED
    BY <1>4, <2>1 DEF Render
<1>5. CASE PostBatch
  <2>1. PICK b \in Batches(pending, {IndexPath}) :
           folder' = Committed(folder, b) /\ pending' = pending \ b
    BY <1>5 DEF PostBatch
  <2>2. IsFolder(folder')
    BY <2>1, BatchSubset, CommittedFolder
  <2>3. fates' \subseteq {"landed", "dropped"}
    BY <1>5 DEF PostBatch
  <2>4. UNCHANGED <<source, conf, pc, full, fullDue, existing, index, listed, cfg, events, torn>>
    BY <1>5 DEF PostBatch
  <2> QED
    BY <2>1, <2>2, <2>3, <2>4
<1>6. CASE PostRefused
  <2>1. EndPass(fates, pending) /\ UNCHANGED <<outside, fullDue, events>>
    BY <1>6 DEF PostRefused
  <2> QED
    BY <2>1, EmptyTypes, EndPassTypes
<1>7. CASE PostDropped
  <2>1. pending' \subseteq pending
    BY <1>7 DEF PostDropped
  <2>2. fates' \subseteq {"landed", "dropped"}
    BY <1>7 DEF PostDropped
  <2> QED
    BY <1>7, <2>1, <2>2 DEF PostDropped
<1>8. CASE Finish
  <2>1. EndPass(fates, {}) /\ fullDue' \in BOOLEAN /\ UNCHANGED <<outside, events>>
    BY <1>8 DEF Finish
  <2> QED
    BY <2>1, EmptyTypes, EndPassTypes
<1> QED
  BY <1>1, <1>2, <1>3, <1>4, <1>5, <1>6, <1>7, <1>8 DEF Pass

LEMMA EventType == ASSUME TypeOK, Event PROVE events' \in Revisions /\ events' \in 0 .. MaxEvents
BY BoundsAssumption DEF TypeOK, Event, Revisions

LEMMA FaultTypes == TypeOK /\ Fault => TypeOK'
<1> SUFFICES ASSUME TypeOK, Fault PROVE TypeOK'
  OBVIOUS
<1> USE DEF TypeOK, outside, local
<1>1. CASE RequestFails
  <2>1. EndPass(fates, pending) /\ Event /\ UNCHANGED <<outside, fullDue>>
    BY <1>1 DEF RequestFails
  <2> QED
    BY <2>1, EmptyTypes, EndPassTypes, EventType
<1>2. CASE AnswerLost
  <2>1. PICK b \in Batches(pending, {IndexPath}) :
           folder' = Committed(folder, b) /\ EndPass(fates \cup {"landed"}, pending \ b)
    BY <1>2 DEF AnswerLost
  <2>2. IsFolder(folder')
    BY <2>1, BatchSubset, CommittedFolder
  <2>3. Event /\ UNCHANGED <<source, conf, fullDue>>
    BY <1>2 DEF AnswerLost
  <2>4. fates \cup {"landed"} \subseteq {"landed", "dropped"}
    OBVIOUS
  <2> QED
    BY <2>1, <2>2, <2>3, <2>4, EmptyTypes, EndPassTypes, EventType
<1>3. CASE ListingCutShort
  <2>1. listed' \in Catalog
    BY <1>3 DEF ListingCutShort, Catalog
  <2> QED
    BY <1>3, <2>1, EventType DEF ListingCutShort
<1>4. CASE Restart
  <2>1. EndPass(fates, pending) /\ Event /\ fullDue' = TRUE /\ UNCHANGED outside
    BY <1>4 DEF Restart
  <2> QED
    BY <2>1, EmptyTypes, EndPassTypes, EventType
<1> QED
  BY <1>1, <1>2, <1>3, <1>4 DEF Fault

LEMMA WorldTypes == TypeOK /\ World => TypeOK'
<1> SUFFICES ASSUME TypeOK, World PROVE TypeOK'
  OBVIOUS
<1> USE DEF TypeOK, outside, local
<1>1. CASE FullTimer
  BY <1>1 DEF FullTimer
<1>2. CASE ChangeRecording
  <2>1. PICK r \in Recordings, t \in Titles :
           source' = [source EXCEPT ![r] = [title |-> t, rev |-> events', sig |-> events']]
    BY <1>2 DEF ChangeRecording
  <2>2. events' \in Revisions /\ events' \in 0 .. MaxEvents
    BY <1>2, EventType DEF ChangeRecording
  <2>3. [title |-> t, rev |-> events', sig |-> events'] \in Recording
    BY <2>2 DEF Recording
  <2>4. source' \in Catalog
    BY <2>1, <2>3 DEF Catalog
  <2> QED
    BY <1>2, <2>2, <2>4 DEF ChangeRecording
<1>3. CASE LateSummary
  <2>1. PICK r \in Present(source) : source' = [source EXCEPT ![r].rev = events']
    BY <1>3 DEF LateSummary
  <2>2. events' \in Revisions /\ events' \in 0 .. MaxEvents
    BY <1>3, EventType DEF LateSummary
  <2>3. r \in Recordings /\ source[r] \in Recording
    BY DEF Present, Catalog
  <2>4. [source[r] EXCEPT !.rev = events'] \in Recording
    BY <2>2, <2>3 DEF Recording
  <2>5. source' \in Catalog
    BY <2>1, <2>3, <2>4 DEF Catalog
  <2> QED
    BY <1>3, <2>2, <2>5 DEF LateSummary
<1>4. CASE DeleteRecording
  <2>1. source' \in Catalog
    BY <1>4 DEF DeleteRecording, Catalog
  <2> QED
    BY <1>4, <2>1, EventType DEF DeleteRecording
<1>5. CASE EditConfig
  BY <1>5, EventType DEF EditConfig
<1>6. CASE EditByHand
  <2>1. PICK p \in Paths, b \in {Hand, Absent} : folder' = [folder EXCEPT ![p] = b]
    BY <1>6 DEF EditByHand
  <2>2. IsFolder(folder')
    BY <2>1, EditedFolder
  <2> QED
    BY <1>6, <2>2, EventType DEF EditByHand
<1> QED
  BY <1>1, <1>2, <1>3, <1>4, <1>5, <1>6 DEF World

LEMMA InitTypes == Init => TypeOK
<1> SUFFICES ASSUME Init PROVE TypeOK
  OBVIOUS
<1>1. source \in Catalog
  <2>1. [title : Titles, rev : {0}, sig : {0}] \subseteq Recording
    BY EmptyTypes DEF Recording
  <2> QED
    BY <2>1 DEF Init, Catalog
<1> QED
  BY <1>1, EmptyTypes, BoundsAssumption DEF Init, TypeOK, Revisions

\* RiffadoSync never leaves its types: notes appear only at note paths, the
\* index only at its own, and what a pass is about to post fits as well.
THEOREM TypeCorrect == Spec => []TypeOK
<1>1. TypeOK /\ [Next]_vars => TypeOK'
  <2>1. TypeOK /\ UNCHANGED vars => TypeOK'
    BY DEF TypeOK, vars, outside, local
  <2> QED
    BY <2>1, PassTypes, FaultTypes, WorldTypes DEF Next
<1> QED
  BY <1>1, InitTypes, PTL DEF Spec

--------------------------------------------------------------------------------
(***************************************************************************)
(* The listing behind every operation.                                     *)
(***************************************************************************)

LEMMA RenderFromListing ==
    ASSUME TypeOK, Render
    PROVE  \A c \in pending' : c.from = existing[c.path] /\ c.to = Files[c.path]
<1>1. DOMAIN existing = Paths
  BY DEF TypeOK, IsFolder
<1> QED
  BY <1>1 DEF Render, Diff, Change

LEMMA FromListingStep ==
    TypeOK /\ PendingFromListing /\ [Next]_vars => PendingFromListing'
<1> SUFFICES ASSUME TypeOK, PendingFromListing, [Next]_vars
             PROVE  PendingFromListing'
  OBVIOUS
<1> USE DEF PendingFromListing
<1>1. CASE pending' = {}
  BY <1>1
<1>2. CASE pending' \subseteq pending /\ existing' = existing /\ pc' = pc
  BY <1>2
<1>3. CASE pending = {} /\ pending' = pending
  BY <1>3
<1>4. CASE Render
  <2>1. pc' = "commit" /\ existing' = existing
    BY <1>4 DEF Render
  <2> QED
    BY <1>4, <2>1, RenderFromListing
<1>5. CASE Pass /\ ~Render
  <2>1. CASE ListFolder \/ ReadIndex \/ ListRecordings
    <3>1. pc # "commit" /\ pending' = pending
      BY <2>1 DEF ListFolder, ReadIndex, ListRecordings
    <3> QED
      BY <3>1, <1>3
  <2>2. CASE PostBatch \/ PostDropped
    BY <2>2, <1>2 DEF PostBatch, PostDropped
  <2>3. CASE PostRefused \/ Finish
    BY <2>3, <1>1 DEF PostRefused, Finish, EndPass
  <2> QED
    BY <1>5, <2>1, <2>2, <2>3 DEF Pass
<1>6. CASE Fault
  <2>1. CASE ListingCutShort
    <3>1. pc # "commit" /\ pending' = pending
      BY <2>1 DEF ListingCutShort
    <3> QED
      BY <3>1, <1>3
  <2>2. CASE RequestFails \/ AnswerLost \/ Restart
    BY <2>2, <1>1 DEF RequestFails, AnswerLost, Restart, EndPass
  <2> QED
    BY <1>6, <2>1, <2>2 DEF Fault
<1>7. CASE World
  BY <1>7, <1>2 DEF World, FullTimer, ChangeRecording, LateSummary, DeleteRecording,
                    EditConfig, EditByHand, local
<1>8. CASE UNCHANGED vars
  BY <1>8, <1>2 DEF vars, local
<1> QED
  BY <1>4, <1>5, <1>6, <1>7, <1>8 DEF Next

THEOREM FromListing == Spec => []PendingFromListing
<1>1. Init => PendingFromListing
  BY DEF Init, PendingFromListing
<1> QED
  BY <1>1, FromListingStep, TypeCorrect, PTL DEF Spec

--------------------------------------------------------------------------------
(***************************************************************************)
(* Injectivity of the index.                                               *)
(***************************************************************************)

LEMMA NewIndexInjective == TypeOK => Injective(NewIndex)
<1> SUFFICES ASSUME TypeOK, NEW r \in Recordings, NEW s \in Recordings,
                    NewIndex[r] # Absent, NewIndex[s] # Absent,
                    NewIndex[r].path = NewIndex[s].path
             PROVE  r = s
  BY DEF Injective
<1>1. r \in Kept \cup Fetched /\ s \in Kept \cup Fetched
  BY DEF NewIndex
<1>2. r \in Present(listed) /\ s \in Present(listed)
  BY <1>1 DEF Kept, Fetched
<1>3. NewIndex[r] = EntryOf(r, listed, cfg) /\ NewIndex[s] = EntryOf(s, listed, cfg)
  BY <1>1 DEF NewIndex
<1>4. PathOf(listed)[r] = PathOf(listed)[s]
  BY <1>3 DEF EntryOf
<1> QED
  BY <1>2, <1>4, PathsDistinct DEF TypeOK

LEMMA CommittedInjective ==
    ASSUME TypeOK, IndexesInjective, NEW b \in Batches(pending, {IndexPath}),
           folder' = Committed(folder, b)
    PROVE  IndexInjective'
<1> SUFFICES ASSUME HasIndex'
             PROVE  Injective(folder'[IndexPath].entries)
  BY DEF IndexInjective, Injective
<1>1. IndexPath \in DOMAIN folder
  BY DEF TypeOK, IsFolder, Paths
<1>2. CASE \E c \in b : c.path = IndexPath
  <2> DEFINE d == CHOOSE c \in b : c.path = IndexPath
  <2>1. d \in b /\ d.path = IndexPath
    BY <1>2
  <2>2. d \in pending
    BY <2>1, BatchSubset
  <2>3. folder'[IndexPath] = d.to
    BY <1>1, <1>2 DEF Committed
  <2> HIDE DEF d
  <2> QED
    BY <2>1, <2>2, <2>3 DEF IndexesInjective
<1>3. CASE ~\E c \in b : c.path = IndexPath
  <2>1. folder'[IndexPath] = folder[IndexPath]
    BY <1>1, <1>3 DEF Committed
  <2> QED
    BY <2>1 DEF IndexesInjective, IndexInjective, HasIndex
<1> QED
  BY <1>2, <1>3

LEMMA InjectiveStep ==
    TypeOK /\ IndexesInjective /\ [Next]_vars => IndexesInjective'
<1> SUFFICES ASSUME TypeOK, IndexesInjective, [Next]_vars
             PROVE  IndexesInjective'
  OBVIOUS
<1> DEFINE Toward == \A c \in pending : c.path = IndexPath => Injective(c.to.entries)
<1>1. ASSUME folder' = folder PROVE IndexInjective'
  BY <1>1 DEF IndexesInjective, IndexInjective, HasIndex, Injective
<1>2. ASSUME pending' \subseteq pending PROVE Toward'
  BY <1>2 DEF IndexesInjective, Injective
<1>3. CASE Render
  <2>1. Toward'
    <3> SUFFICES ASSUME NEW c \in pending', c.path = IndexPath
                 PROVE  Injective(c.to.entries)
      BY DEF Injective
    <3>1. c.to = Files[IndexPath]
      BY <1>3, RenderFromListing
    <3>2. IndexPath \in Paths
      BY DEF Paths
    <3>3. c.to.entries = NewIndex
      BY <3>1, <3>2 DEF Files, Encoded
    <3> QED
      BY <3>3, NewIndexInjective
  <2>2. folder' = folder
    BY <1>3 DEF Render, outside
  <2> QED
    BY <2>1, <2>2, <1>1 DEF IndexesInjective
<1>4. CASE PostBatch
  <2>1. IndexInjective'
    BY <1>4, CommittedInjective DEF PostBatch
  <2>2. pending' \subseteq pending
    BY <1>4 DEF PostBatch
  <2> QED
    BY <2>1, <2>2, <1>2 DEF IndexesInjective
<1>5. CASE AnswerLost
  <2>1. IndexInjective'
    BY <1>5, CommittedInjective DEF AnswerLost
  <2>2. pending' = {}
    BY <1>5 DEF AnswerLost, EndPass
  <2> QED
    BY <2>1, <2>2, <1>2 DEF IndexesInjective
<1>6. CASE EditByHand
  <2>1. PICK p \in Paths, b \in {Hand, Absent} : folder' = [folder EXCEPT ![p] = b]
    BY <1>6 DEF EditByHand
  <2>2. folder'[IndexPath] \in {Hand, Absent, folder[IndexPath]}
    BY <2>1 DEF TypeOK, IsFolder, Paths
  <2>3. IndexInjective'
    BY <2>2 DEF IndexesInjective, IndexInjective, HasIndex, Injective
  <2>4. pending' = pending
    BY <1>6 DEF EditByHand, local
  <2> QED
    BY <2>3, <2>4, <1>2 DEF IndexesInjective
<1>7. CASE \/ ListFolder \/ ReadIndex \/ ListRecordings \/ PostRefused \/ PostDropped \/ Finish
           \/ RequestFails \/ ListingCutShort \/ Restart
  <2>1. folder' = folder /\ pending' \subseteq pending
    BY <1>7 DEF ListFolder, ReadIndex, ListRecordings, PostRefused, PostDropped, Finish,
                RequestFails, ListingCutShort, Restart, EndPass, outside
  <2> QED
    BY <2>1, <1>1, <1>2 DEF IndexesInjective
<1>8. CASE \/ FullTimer \/ ChangeRecording \/ LateSummary \/ DeleteRecording \/ EditConfig
           \/ UNCHANGED vars
  <2>1. folder' = folder /\ pending' = pending
    BY <1>8 DEF FullTimer, ChangeRecording, LateSummary, DeleteRecording, EditConfig, vars,
                outside, local
  <2> QED
    BY <2>1, <1>1, <1>2 DEF IndexesInjective
<1> QED
  BY <1>3, <1>4, <1>5, <1>6, <1>7, <1>8 DEF Next, Pass, Fault, World

\* At no moment do two recordings share a note in the stored index, whatever
\* titles they have, in whatever pieces the folder is committed and whoever
\* edits it.
THEOREM InjectiveAlways == Spec => []IndexInjective
<1>1. Init => IndexesInjective
  BY DEF Init, IndexesInjective, IndexInjective, HasIndex, NoFiles, Paths
<1>2. IndexesInjective => IndexInjective
  BY DEF IndexesInjective
<1> QED
  BY <1>1, <1>2, InjectiveStep, TypeCorrect, PTL DEF Spec

\* Types and injectivity at once, what the run checks: the index of Riffado never
\* gives one note to two recordings.
THEOREM SyncSafe == Spec => []Safe
<1>1. TypeOK /\ IndexInjective => Safe
  BY DEF Safe
<1> QED
  BY <1>1, TypeCorrect, InjectiveAlways, PTL

--------------------------------------------------------------------------------
(***************************************************************************)
(* The promise of ConditionalCommits: seen is the listing of a running     *)
(* pass.                                                                   *)
(***************************************************************************)

\* A batch that Forgejo accepts changes only what is as the listing saw it.
LEMMA CommitKeepsPromise ==
    ASSUME TypeOK, PendingFromListing, pc = "commit", NEW b \in Batches(pending, {IndexPath}),
           IsCurrent(folder, b), folder' = Committed(folder, b),
           \/ pc' = "commit" /\ existing' = existing /\ events' = events
           \/ pc' = "idle" /\ events' = events + 1
    PROVE  Promise!Commit
<1>1. IsFolder(folder')
  BY BatchSubset, CommittedFolder DEF TypeOK
<1>2. ASSUME NEW p \in Paths, folder'[p] # folder[p] PROVE folder[p] = existing[p]
  <2>1. DOMAIN folder = Paths
    BY DEF TypeOK, IsFolder
  <2>2. PICK c \in b : c.path = p
    BY <1>2, <2>1 DEF Committed
  <2>3. c.from = existing[p]
    BY <2>2, BatchSubset DEF PendingFromListing
  <2> QED
    BY <2>2, <2>3 DEF IsCurrent
<1>3. existing # Nothing
  BY NothingAssumption DEF TypeOK, IsFolder
<1> QED
  BY <1>1, <1>2, <1>3 DEF Promise!Commit, Promise!States, IsFolder

LEMMA PromiseStep ==
    ASSUME TypeOK, PendingFromListing, [Next]_vars
    PROVE  [Promise!Next]_(Promise!vars)
<1> USE DEF Promise!vars, Promise!Next
<1>1. CASE ListFolder
  BY <1>1 DEF ListFolder, outside, Promise!Look
<1>2. CASE ReadIndex \/ ListRecordings \/ Render \/ PostDropped
  BY <1>2 DEF ReadIndex, ListRecordings, Render, PostDropped, outside
<1>3. CASE PostBatch
  <2>1. Promise!Commit
    BY <1>3, CommitKeepsPromise DEF PostBatch
  <2> QED
    BY <2>1
<1>4. CASE AnswerLost
  <2>1. Promise!Commit
    BY <1>4, CommitKeepsPromise DEF AnswerLost, EndPass, Event
  <2> QED
    BY <2>1
<1>5. CASE PostRefused \/ Finish \/ RequestFails \/ Restart
  <2>1. pc' = "idle" /\ folder' = folder /\ events' \in {events, events + 1}
    BY <1>5 DEF PostRefused, Finish, RequestFails, Restart, EndPass, outside, Event
  <2> QED
    BY <2>1 DEF Promise!Forget
<1>6. CASE ListingCutShort
  BY <1>6 DEF ListingCutShort, outside, Event, Promise!Elapse
<1>7. CASE EditByHand
  <2>1. PICK p \in Paths, b \in {Hand, Absent} : folder' = [folder EXCEPT ![p] = b]
    BY <1>7 DEF EditByHand
  <2>2. b \in Blobs \cup {Absent}
    BY DEF Blobs
  <2>3. pc' = pc /\ existing' = existing /\ events' = events + 1
    BY <1>7 DEF EditByHand, local, Event
  <2> QED
    BY <2>1, <2>2, <2>3 DEF Promise!Edit
<1>8. CASE \/ FullTimer \/ ChangeRecording \/ LateSummary \/ DeleteRecording \/ EditConfig
           \/ UNCHANGED vars
  <2>1. /\ folder' = folder /\ pc' = pc /\ existing' = existing
        /\ events' \in {events, events + 1}
    BY <1>8 DEF FullTimer, ChangeRecording, LateSummary, DeleteRecording, EditConfig, vars,
                outside, local, Event
  <2> QED
    BY <2>1 DEF Promise!Elapse
<1> QED
  BY <1>1, <1>2, <1>3, <1>4, <1>5, <1>6, <1>7, <1>8 DEF Next, Pass, Fault, World

\* RiffadoSync implements ConditionalCommits: however its requests fail and in
\* however many batches it commits, it replaces or removes only files that are
\* still as its listing saw them.
THEOREM PromiseKept == Spec => KeepsPromise
<1>1. Init => Promise!Init
  BY InitTypes DEF Init, TypeOK, IsFolder, Promise!Init, Promise!States
<1>2. TypeOK /\ PendingFromListing /\ [Next]_vars => [Promise!Next]_(Promise!vars)
  BY PromiseStep
<1> QED
  BY <1>1, <1>2, TypeCorrect, FromListing, PTL DEF Spec, KeepsPromise, Promise!Spec

--------------------------------------------------------------------------------
(***************************************************************************)
(* The clock of the revisions.                                             *)
(***************************************************************************)

\* The revisions of a catalog are numbers.
LEMMA CatalogNumbers ==
    ASSUME NEW cat \in Catalog, NEW r \in Present(cat)
    PROVE  r \in Recordings /\ cat[r] \in Recording /\ cat[r].rev \in Nat /\ cat[r].sig \in Nat
BY BoundsAssumption DEF Present, Catalog, Recording, Revisions

\* Time does not go back.
LEMMA EventsGrow ==
    ASSUME TypeOK, [Next]_vars
    PROVE  events \in Nat /\ events' \in Nat /\ events <= events'
<1>1. events \in Nat
  BY BoundsAssumption DEF TypeOK
<1>2. events' \in {events, events + 1}
  BY DEF Next, Pass, Fault, World, ListFolder, ReadIndex, ListRecordings, Render, PostBatch,
         PostRefused, PostDropped, Finish, RequestFails, AnswerLost, ListingCutShort, Restart,
         FullTimer, ChangeRecording, LateSummary, DeleteRecording, EditConfig, EditByHand,
         Event, vars
<1> QED
  BY <1>1, <1>2

\* What a step of the world does to one recording: nothing, or it is gone, or it
\* has a new revision.
LEMMA SourceSteps ==
    ASSUME TypeOK, [Next]_vars, NEW r \in Recordings
    PROVE  \/ source'[r] = source[r]
           \/ source'[r] = Absent
           \/ /\ events' = events + 1 /\ source'[r].rev = events'
              /\ \/ source'[r].sig = events'
                 \/ source[r] # Absent /\ source'[r].sig = source[r].sig
<1>1. source \in [Recordings -> Recording \cup {Absent}]
  BY DEF TypeOK, Catalog
<1>2. CASE source' = source
  BY <1>2
<1>3. CASE ChangeRecording
  <2>1. PICK q \in Recordings, t \in Titles :
           source' = [source EXCEPT ![q] = [title |-> t, rev |-> events', sig |-> events']]
    BY <1>3 DEF ChangeRecording
  <2>2. events' = events + 1
    BY <1>3 DEF ChangeRecording, Event
  <2> QED
    BY <1>1, <2>1, <2>2
<1>4. CASE LateSummary
  <2>1. PICK q \in Present(source) : source' = [source EXCEPT ![q].rev = events']
    BY <1>4 DEF LateSummary
  <2>2. events' = events + 1
    BY <1>4 DEF LateSummary, Event
  <2>3. q \in Recordings /\ source[q] # Absent /\ source[q] \in Recording
    BY <1>1 DEF Present
  <2>4. [source[q] EXCEPT !.rev = events'].rev = events' /\ [source[q] EXCEPT !.rev = events'].sig = source[q].sig
    BY <2>3 DEF Recording
  <2> QED
    BY <1>1, <2>1, <2>2, <2>3, <2>4
<1>5. CASE DeleteRecording
  BY <1>1, <1>5 DEF DeleteRecording, Present
<1> QED
  BY <1>2, <1>3, <1>4, <1>5
  DEF Next, Pass, Fault, World, ListFolder, ReadIndex, ListRecordings, Render, PostBatch,
      PostRefused, PostDropped, Finish, RequestFails, AnswerLost, ListingCutShort, Restart,
      FullTimer, EditConfig, EditByHand, vars, outside

\* What a step does to the listing of the recordings.
LEMMA ListedSteps ==
    ASSUME TypeOK, [Next]_vars
    PROVE  \/ listed' = listed
           \/ listed' = NoIndex
           \/ source' = source /\ \A r \in Recordings : listed'[r] \in {source[r], Absent}
<1>1. CASE ListRecordings \/ ListingCutShort
  BY <1>1 DEF ListRecordings, ListingCutShort, outside
<1>2. CASE \/ PostRefused \/ Finish \/ RequestFails \/ AnswerLost \/ Restart
  BY <1>2 DEF PostRefused, Finish, RequestFails, AnswerLost, Restart, EndPass
<1>3. CASE \/ ListFolder \/ ReadIndex \/ Render \/ PostBatch \/ PostDropped \/ World \/ UNCHANGED vars
  BY <1>3 DEF ListFolder, ReadIndex, Render, PostBatch, PostDropped, World, FullTimer,
              ChangeRecording, LateSummary, DeleteRecording, EditConfig, EditByHand, vars, local
<1> QED
  BY <1>1, <1>2, <1>3 DEF Next, Pass, Fault

LEMMA ClockStep ==
    ASSUME TypeOK, TypeOK', Clock, [Next]_vars
    PROVE  Clock'
<1>1. source \in Catalog /\ source' \in Catalog /\ listed \in Catalog /\ listed' \in Catalog
  BY DEF TypeOK
<1>2. events \in Nat /\ events' \in Nat /\ events <= events'
  BY EventsGrow
<1>3. ASSUME NEW r \in Present(source')
      PROVE  /\ source'[r].sig <= source'[r].rev /\ source'[r].rev <= events'
             /\ r \in Present(source) /\ source'[r] # source[r] => source[r].rev < source'[r].rev
             /\ r \in Present(source) => source[r].rev <= source'[r].rev
  <2>1. r \in Recordings /\ source'[r] # Absent /\ source'[r].rev \in Nat /\ source'[r].sig \in Nat
    BY <1>1, <1>3, CatalogNumbers DEF Present
  <2>2. r \in Present(source) => /\ source[r].rev \in Nat /\ source[r].sig \in Nat
                                 /\ source[r].sig <= source[r].rev /\ source[r].rev <= events
    BY <1>1, CatalogNumbers DEF Clock
  <2>3. r \in Present(source) <=> source[r] # Absent
    BY <2>1 DEF Present
  <2>4. CASE source'[r] = source[r]
    BY <1>2, <2>1, <2>2, <2>3, <2>4
  <2>5. CASE source'[r] # source[r]
    BY <1>2, <2>1, <2>2, <2>3, <2>5, SourceSteps
  <2> QED
    BY <2>4, <2>5
<1>4. ASSUME NEW r \in Present(listed')
      PROVE  /\ listed'[r].sig <= listed'[r].rev /\ listed'[r].rev <= events'
             /\ r \in Present(source') => listed'[r].sig <= source'[r].rev
  <2>1. r \in Recordings /\ listed'[r] # Absent /\ listed'[r].rev \in Nat /\ listed'[r].sig \in Nat
    BY <1>1, <1>4, CatalogNumbers DEF Present
  <2>2. CASE source' = source /\ listed'[r] = source[r]
    <3>1. r \in Present(source')
      BY <2>1, <2>2 DEF Present
    <3> QED
      BY <1>3, <2>2, <3>1
  <2>3. CASE listed' = listed
    <3>1. listed'[r].sig <= listed'[r].rev /\ listed'[r].rev <= events'
      BY <1>2, <1>4, <2>1, <2>3 DEF Clock
    <3>2. ASSUME r \in Present(source')
          PROVE  listed'[r].sig <= source'[r].rev
      <4>1. source'[r].rev \in Nat
        BY <1>1, <3>2, CatalogNumbers
      <4>2. CASE r \in Present(source)
        <5>1. source[r].rev \in Nat /\ source[r].rev <= source'[r].rev /\ listed'[r].sig <= source[r].rev
          BY <1>1, <1>3, <1>4, <2>3, <3>2, <4>2, CatalogNumbers DEF Clock
        <5> QED
          BY <2>1, <4>1, <5>1
      <4>3. CASE r \notin Present(source)
        <5>1. source[r] = Absent /\ source'[r] # Absent
          BY <2>1, <3>2, <4>3 DEF Present
        <5>2. source'[r].rev = events'
          BY <2>1, <5>1, SourceSteps
        <5> QED
          BY <1>2, <2>1, <3>1, <5>2
      <4> QED
        BY <4>2, <4>3
    <3> QED
      BY <3>1, <3>2
  <2>4. listed' # NoIndex
    BY <2>1 DEF NoIndex
  <2> QED
    BY <2>1, <2>2, <2>3, <2>4, ListedSteps
<1> QED
  BY <1>3, <1>4 DEF Clock

--------------------------------------------------------------------------------
(***************************************************************************)
(* The folder during a pass.                                               *)
(***************************************************************************)

KeptPaths == {PathOf(listed)[r] : r \in Kept}

\* One operation for every path that is not as it should be and not kept.
LEMMA RenderPending ==
    ASSUME TypeOK, Render
    PROVE  /\ \A c \in pending' : /\ c = Change(c.path, existing[c.path], Files[c.path])
                                  /\ c.path \in Paths /\ c.from # c.to
                                  /\ c.to = Files[c.path]
                                  /\ Files[c.path] = Absent => c.path \notin KeptPaths
           /\ \A p \in Paths :
                 Files[p] # existing[p] /\ (Files[p] = Absent => p \notin KeptPaths) =>
                    \E c \in pending' : c.path = p
<1>1. DOMAIN existing = Paths
  BY DEF TypeOK, IsFolder
<1>2. pending' = Diff(Files, existing, KeptPaths)
  BY DEF Render, KeptPaths
<1>3. pending' = {Change(p, existing[p], Files[p]) :
                     p \in {q \in Paths : /\ Files[q] # existing[q]
                                          /\ Files[q] = Absent => q \notin KeptPaths}}
  BY <1>1, <1>2 DEF Diff
<1>4. ASSUME NEW c \in pending'
      PROVE  /\ c = Change(c.path, existing[c.path], Files[c.path])
             /\ c.path \in Paths /\ c.from # c.to /\ c.to = Files[c.path]
             /\ Files[c.path] = Absent => c.path \notin KeptPaths
  <2>1. PICK p \in Paths : /\ c = Change(p, existing[p], Files[p]) /\ Files[p] # existing[p]
                           /\ Files[p] = Absent => p \notin KeptPaths
    BY <1>3
  <2>2. c.path = p /\ c.from = existing[p] /\ c.to = Files[p]
    BY <2>1 DEF Change
  <2> QED
    BY <2>1, <2>2
<1>5. ASSUME NEW p \in Paths, Files[p] # existing[p], Files[p] = Absent => p \notin KeptPaths
      PROVE  \E c \in pending' : c.path = p
  <2>1. Change(p, existing[p], Files[p]) \in pending'
    BY <1>3, <1>5
  <2> QED
    BY <2>1 DEF Change
<1> QED
  BY <1>4, <1>5

\* What a step does to the pass: it takes operations away, or begins or ends.
LEMMA PassSteps ==
    ASSUME TypeOK, PendingFromListing, [Next]_vars
    PROVE  \/ pc' = pc /\ UNCHANGED <<existing, index, listed, cfg, full>> /\ pending' \subseteq pending
           \/ pc' = "idle" /\ pending' = {}
           \/ ListFolder
           \/ ReadIndex /\ pending' = {}
           \/ (ListRecordings \/ ListingCutShort) /\ pending' = {}
           \/ Render
<1>1. CASE \/ PostRefused \/ Finish \/ RequestFails \/ AnswerLost \/ Restart
  BY <1>1 DEF PostRefused, Finish, RequestFails, AnswerLost, Restart, EndPass
<1>2. CASE \/ PostBatch \/ PostDropped \/ World \/ UNCHANGED vars
  BY <1>2 DEF PostBatch, PostDropped, World, FullTimer,
              ChangeRecording, LateSummary, DeleteRecording, EditConfig, EditByHand, vars, local
<1>3. CASE ReadIndex \/ ListRecordings \/ ListingCutShort
  BY <1>3 DEF PendingFromListing, ReadIndex, ListRecordings, ListingCutShort
<1> QED
  BY <1>1, <1>2, <1>3 DEF Next, Pass, Fault

\* What a step does to the folder.
LEMMA FolderSteps ==
    ASSUME TypeOK, [Next]_vars
    PROVE  \/ folder' = folder
           \/ /\ EditByHand
              /\ \A p \in Paths : folder'[p] \in {folder[p], Hand, Absent}
           \/ PostBatch
           \/ AnswerLost
<1>1. CASE EditByHand
  <2>1. PICK p \in Paths, b \in {Hand, Absent} : folder' = [folder EXCEPT ![p] = b]
    BY <1>1 DEF EditByHand
  <2> QED
    BY <1>1, <2>1 DEF TypeOK, IsFolder
<1> QED
  BY <1>1
  DEF Next, Pass, Fault, World, ListFolder, ReadIndex, ListRecordings, Render,
      PostRefused, PostDropped, Finish, RequestFails, ListingCutShort, Restart, FullTimer,
      ChangeRecording, LateSummary, DeleteRecording, EditConfig, vars, outside

LEMMA KnowsStep ==
    ASSUME TypeOK, PendingFromListing, PassKnows, [Next]_vars
    PROVE  PassKnows'
<1>1. pc' # "commit" => fates' = {}
  BY DEF PassKnows, Next, Pass, Fault, World, ListFolder, ReadIndex, ListRecordings, Render,
         PostBatch, PostRefused, PostDropped, Finish, RequestFails, AnswerLost,
         ListingCutShort, Restart, FullTimer, ChangeRecording, LateSummary, DeleteRecording,
         EditConfig, EditByHand, EndPass, vars, local
<1>2. ASSUME pc' # "idle", "landed" \notin fates', NEW p \in Paths
      PROVE  folder'[p] \in {existing'[p], Hand, Absent}
  <2>1. CASE ListFolder
    BY <2>1 DEF ListFolder, outside
  <2>2. CASE PostBatch \/ AnswerLost
    BY <1>2, <2>2 DEF PostBatch, AnswerLost, EndPass
  <2>3. CASE ~ListFolder /\ ~PostBatch /\ ~AnswerLost
    <3>1. existing' = existing /\ pc # "idle" /\ "landed" \notin fates
      BY <1>2, <2>3
      DEF Next, Pass, Fault, World, ReadIndex, ListRecordings, Render, PostRefused,
          PostDropped, Finish, RequestFails, ListingCutShort, Restart, FullTimer,
          ChangeRecording, LateSummary, DeleteRecording, EditConfig, EditByHand, EndPass,
          vars, local
    <3>2. folder'[p] \in {folder[p], Hand, Absent}
      BY <2>3, FolderSteps
    <3>3. folder[p] \in {existing[p], Hand, Absent}
      BY <3>1 DEF PassKnows
    <3> QED
      BY <3>1, <3>2, <3>3
  <2> QED
    BY <2>1, <2>2, <2>3
<1>3. ASSUME pc' \in {"indexed", "fetch", "commit"}
      PROVE  index' \in {NoIndex, Parsed(existing'[IndexPath])}
  <2>1. CASE ReadIndex
    <3>1. pc = "listed" /\ existing' = existing /\ index' \in {NoIndex, Parsed(folder[IndexPath])}
      BY <2>1 DEF ReadIndex
    <3>2. folder[IndexPath] \in {existing[IndexPath], Hand, Absent}
      BY <3>1 DEF PassKnows, Paths
    <3> QED
      BY <3>1, <3>2 DEF Parsed
  <2>2. CASE ListRecordings \/ ListingCutShort \/ Render
    BY <2>2 DEF PassKnows, ListRecordings, ListingCutShort, Render
  <2>3. CASE pc' = pc /\ UNCHANGED <<existing, index>>
    BY <1>3, <2>3 DEF PassKnows
  <2>4. CASE ListFolder
    BY <1>3, <2>4 DEF ListFolder
  <2> QED
    BY <1>3, <2>1, <2>2, <2>3, <2>4, PassSteps
<1>4. ASSUME NEW c \in pending', NEW d \in pending', c.path = d.path
      PROVE  c = d
  <2>1. CASE Render
    BY <1>4, <2>1, RenderPending
  <2>2. CASE pending' \subseteq pending
    BY <1>4, <2>2 DEF PassKnows
  <2>3. CASE ListFolder
    BY <1>4, <2>3 DEF ListFolder, PassKnows
  <2> QED
    BY <1>4, <2>1, <2>2, <2>3, PassSteps
<1> QED
  BY <1>1, <1>2, <1>3, <1>4 DEF PassKnows

--------------------------------------------------------------------------------
(***************************************************************************)
(* The honesty of the index.                                               *)
(***************************************************************************)

\* An honest folder stays so when files are written over or removed.
LEMMA EditedHonest ==
    ASSUME NEW f, IsFolder(f), Honest(f), NEW g,
           \A p \in Paths : g[p] \in {f[p], Hand, Absent}
    PROVE  Honest(g)
<1> SUFFICES ASSUME g[IndexPath] \notin {Absent, Hand}, NEW r \in Recordings,
                    g[IndexPath].entries[r] # Absent,
                    g[g[IndexPath].entries[r].path] \notin {Absent, Hand}
             PROVE  LET e == g[IndexPath].entries[r]
                    IN  g[e.path].rec = r /\ g[e.path].conf = e.conf /\ g[e.path].rev >= e.sig
  BY DEF Honest
<1>1. g[IndexPath] = f[IndexPath] /\ f[IndexPath] \in IndexFile
  BY DEF Paths, IsFolder, Rendered
<1>2. f[IndexPath].entries[r] \in Entry
  BY <1>1 DEF IndexFile, Index
<1>3. f[IndexPath].entries[r].path \in Paths
  BY <1>2 DEF Entry, Paths
<1> DEFINE p == f[IndexPath].entries[r].path
<1>4. g[p] = f[p]
  BY <1>1, <1>3
<1> QED
  BY <1>1, <1>4 DEF Honest

\* What a batch leaves at one path.
LEMMA CommittedAt ==
    ASSUME NEW f, NEW b, \A c, d \in b : c.path = d.path => c = d, NEW p \in DOMAIN f
    PROVE  /\ \A c \in b : c.path = p => Committed(f, b)[p] = c.to
           /\ (\A c \in b : c.path # p) => Committed(f, b)[p] = f[p]
BY DEF Committed

\* The listing, the operations and the folder while the pass commits.
LEMMA FolderDomains == TypeOK => DOMAIN folder = Paths /\ DOMAIN existing = Paths
BY DEF TypeOK, IsFolder

\* Once everything has landed the index will be honest: about a recording
\* fetched now because its note is newer than the listing, about one that was
\* kept because the folder was honest about it when it was listed.
LEMMA RenderHonest ==
    ASSUME TypeOK, PendingFromListing, Clock, PassKnows, HonestAfter, Render, full \/ ~torn
    PROVE  Honest(Committed(folder, pending'))
<1> DEFINE G == Committed(folder, pending')
<1>1. /\ listed \in Catalog /\ source \in Catalog /\ cfg \in Revisions /\ DOMAIN folder = Paths
      /\ pc = "fetch"
  BY FolderDomains DEF TypeOK, Render
<1>2. ASSUME NEW p \in Paths PROVE folder[p] \in {existing[p], Hand, Absent}
  BY <1>1 DEF PassKnows
<1>3. /\ \A c, d \in pending' : c.path = d.path => c = d
      /\ \A c \in pending' : c.path \in Paths /\ c.to = Files[c.path]
                             /\ (c.to = Absent => c.path \notin KeptPaths)
  BY RenderPending
<1>4. ASSUME NEW p \in Paths, p \notin KeptPaths PROVE G[p] \in {Files[p], Hand, Absent}
  <2>1. CASE \E c \in pending' : c.path = p
    BY <1>1, <1>3, <2>1, CommittedAt
  <2>2. CASE ~\E c \in pending' : c.path = p
    <3>1. Files[p] = existing[p]
      BY <1>4, <2>2, RenderPending
    <3>2. G[p] = folder[p]
      BY <1>1, <1>3, <2>2, CommittedAt
    <3> QED
      BY <1>2, <3>1, <3>2
  <2> QED
    BY <2>1, <2>2
<1>5. ASSUME NEW p \in Paths, p \in KeptPaths, Files[p] = Absent
      PROVE  G[p] \in {existing[p], Hand, Absent}
  <2>1. ~\E c \in pending' : c.path = p
    BY <1>3, <1>5
  <2>2. G[p] = folder[p]
    BY <1>1, <1>3, <2>1, CommittedAt
  <2> QED
    BY <1>2, <1>5, <2>2
<1>6. \A r \in Present(listed) : PathOf(listed)[r] \in Paths \ {IndexPath}
  BY <1>1, PathType, IndexPathAssumption DEF Paths
<1>7. Kept \subseteq Present(listed) /\ Fetched \subseteq Present(listed) /\ Kept \cap Fetched = {}
  BY DEF Kept, Fetched
<1>8. IndexPath \in Paths /\ IndexPath \notin KeptPaths
  BY <1>6, <1>7 DEF Paths, KeptPaths
<1> HIDE DEF G
<1> SUFFICES ASSUME G[IndexPath] \notin {Absent, Hand}, NEW r \in Recordings,
                    G[IndexPath].entries[r] # Absent,
                    G[G[IndexPath].entries[r].path] \notin {Absent, Hand}
             PROVE  LET e == G[IndexPath].entries[r]
                    IN  G[e.path].rec = r /\ G[e.path].conf = e.conf /\ G[e.path].rev >= e.sig
  BY DEF Honest, G
<1> DEFINE p == PathOf(listed)[r]
<1>9. G[IndexPath].entries = NewIndex
  <2>1. G[IndexPath] = Files[IndexPath]
    BY <1>4, <1>8
  <2> QED
    BY <1>8, <2>1 DEF Files, Encoded
<1>10. r \in Kept \cup Fetched /\ NewIndex[r] = EntryOf(r, listed, cfg)
  BY <1>9 DEF NewIndex
<1>11. r \in Present(listed) /\ p \in Paths /\ p # IndexPath
  BY <1>6, <1>7, <1>10
<1>12. G[IndexPath].entries[r] = [path |-> p, sig |-> listed[r].sig, conf |-> cfg]
  BY <1>9, <1>10 DEF EntryOf
<1>13. G[p] \notin {Absent, Hand}
  BY <1>12
<1>14. CASE r \in Fetched
  <2>1. p \notin KeptPaths
    BY <1>1, <1>7, <1>14, PathsDistinct DEF KeptPaths
  <2>2. (CHOOSE q \in Fetched : PathOf(listed)[q] = p) = r
    BY <1>1, <1>7, <1>14, PathsDistinct
  <2>3. Files[p] = NoteOf(r, source, cfg)
    BY <1>11, <1>14, <2>2 DEF Files
  <2>4. G[p] = [rec |-> r, rev |-> source[r].rev, conf |-> cfg]
    BY <1>4, <1>11, <1>13, <2>1, <2>3 DEF NoteOf
  <2>5. source[r].rev >= listed[r].sig
    <3>1. r \in Present(source)
      BY <1>14 DEF Fetched
    <3>2. listed[r].sig <= source[r].rev /\ listed[r].sig \in Nat /\ source[r].rev \in Nat
      BY <1>1, <1>11, <3>1, CatalogNumbers DEF Clock
    <3> QED
      BY <3>2
  <2> QED
    BY <1>12, <2>4, <2>5
<1>15. CASE r \in Kept
  <2>1. Honest(existing) /\ index[r] = EntryOf(r, listed, cfg)
    BY <1>1, <1>15 DEF Kept, HonestAfter
  <2>2. EntryOf(r, listed, cfg) # Absent
    BY <1>1, <1>11, EntryType, AbsentAssumption
  <2>3. existing[IndexPath] \notin {Absent, Hand} /\ index = existing[IndexPath].entries
    <3>1. index \in {NoIndex, Parsed(existing[IndexPath])}
      BY <1>1 DEF PassKnows
    <3>2. index # NoIndex
      BY <2>1, <2>2 DEF NoIndex
    <3> QED
      BY <3>1, <3>2 DEF Parsed
  <2>4. G[p] = existing[p]
    <3>1. p \in KeptPaths
      BY <1>15 DEF KeptPaths
    <3>2. ~\E q \in Fetched : PathOf(listed)[q] = p
      BY <1>1, <1>7, <1>15, PathsDistinct
    <3>3. Files[p] = Absent
      BY <1>11, <3>2 DEF Files
    <3>4. p \in Paths
      BY <1>11
    <3> HIDE DEF p
    <3>5. G[p] \in {existing[p], Hand, Absent}
      BY <1>5, <3>1, <3>3, <3>4
    <3> QED
      BY <1>13, <3>5
  <2>5. existing[IndexPath].entries[r] = [path |-> p, sig |-> listed[r].sig, conf |-> cfg]
    BY <2>1, <2>3 DEF EntryOf
  <2> DEFINE e == existing[IndexPath].entries[r]
  <2>6. e # Absent
    BY <2>1, <2>2, <2>3
  <2>7. e.path = p /\ e.conf = cfg /\ e.sig = listed[r].sig
    BY <2>5
  <2>8. existing[e.path] \notin {Absent, Hand}
    BY <1>13, <2>4, <2>7
  <2>9. existing[p].rec = r /\ existing[p].conf = cfg /\ existing[p].rev >= listed[r].sig
    BY <2>1, <2>3, <2>6, <2>7, <2>8 DEF Honest
  <2> QED
    BY <1>12, <2>4, <2>9
<1> QED
  BY <1>10, <1>14, <1>15

\* A step within a pass leaves what it began with.
LEMMA WithinPass ==
    ASSUME TypeOK, [Next]_vars, pc' # "idle"
    PROVE  \/ ListFolder
           \/ /\ pc # "idle" /\ UNCHANGED <<existing, full, torn>>
              /\ pc = "commit" \/ pc' # "commit" \/ Render
           \/ UNCHANGED <<pc, existing, full, torn>>
BY DEF Next, Pass, Fault, World, ListFolder, ReadIndex, ListRecordings, Render, PostBatch,
       PostRefused, PostDropped, Finish, RequestFails, AnswerLost, ListingCutShort, Restart,
       FullTimer, ChangeRecording, LateSummary, DeleteRecording, EditConfig, EditByHand,
       EndPass, vars, local

\* A pass that ends without a trace of what it left undone left nothing, or
\* nothing of it landed.
LEMMA EndHonest ==
    ASSUME TypeOK, PassKnows, HonestAfter, pc # "idle", pending # {} => pc = "commit",
           EndPass(fates, pending), ~torn', folder' = folder
    PROVE  Honest(folder')
<1>1. IsFolder(existing) /\ IsFolder(folder) /\ DOMAIN folder = Paths
  BY FolderDomains DEF TypeOK
<1>2. CASE "landed" \notin fates /\ ~torn
  <2>1. Honest(existing) /\ \A p \in Paths : folder[p] \in {existing[p], Hand, Absent}
    BY <1>2 DEF HonestAfter, PassKnows
  <2> QED
    BY <1>1, <2>1, EditedHonest
<1>3. CASE pc = "commit" /\ pending = {} /\ "dropped" \notin fates /\ (full \/ ~torn)
  <2>1. Honest(Committed(folder, {}))
    BY <1>3 DEF HonestAfter
  <2>2. \A p \in Paths : Committed(folder, {})[p] = folder[p]
    BY <1>1 DEF Committed
  <2>3. IsFolder(Committed(folder, {}))
    BY <1>1, CommittedFolder
  <2> QED
    BY <2>1, <2>2, <2>3, EditedHonest
<1>4. "landed" \in fates => pc = "commit"
  BY DEF PassKnows
<1> QED
  BY <1>2, <1>3, <1>4 DEF EndPass

\* The last batch lands, but the answer does not.
LEMMA LostAnswerHonest ==
    ASSUME TypeOK, PassKnows, HonestAfter, AnswerLost, ~torn'
    PROVE  Honest(folder')
<1>1. PICK b \in Batches(pending, {IndexPath}) :
         folder' = Committed(folder, b) /\ EndPass(fates \cup {"landed"}, pending \ b)
  BY DEF AnswerLost
<1>2. pc = "commit"
  BY DEF AnswerLost
<1>3. "dropped" \notin fates /\ pending \ b = {} /\ (full \/ ~torn)
  BY <1>1, <1>2 DEF EndPass
<1>4. b = pending
  BY <1>3, BatchSubset
<1> QED
  BY <1>1, <1>2, <1>3, <1>4 DEF HonestAfter

LEMMA HonestIdle ==
    ASSUME TypeOK, PendingFromListing, PassKnows, HonestAfter, [Next]_vars
    PROVE  IndexHonest'
<1> SUFFICES ASSUME pc' = "idle", ~torn' PROVE Honest(folder')
  BY DEF IndexHonest, Honest
<1>1. CASE pc # "idle"
  <2>1. CASE PostRefused \/ Finish \/ RequestFails \/ Restart
    <3>1. EndPass(fates, pending) /\ folder' = folder
      BY <2>1 DEF PostRefused, Finish, RequestFails, Restart, outside
    <3> QED
      BY <1>1, <3>1, EndHonest DEF PendingFromListing
  <2>2. CASE AnswerLost
    BY <2>2, LostAnswerHonest
  <2> QED
    BY <1>1, <2>1, <2>2
    DEF Next, Pass, Fault, World, ListFolder, ReadIndex, ListRecordings, Render, PostBatch,
        PostDropped, ListingCutShort, FullTimer, ChangeRecording, LateSummary,
        DeleteRecording, EditConfig, EditByHand, vars
<1>2. CASE pc = "idle"
  <2>1. ~torn
    <3>1. CASE Restart
      BY <1>2, <3>1 DEF Restart, EndPass
    <3> QED
      BY <1>2, <3>1
      DEF Next, Pass, Fault, World, ListFolder, ReadIndex, ListRecordings, Render, PostBatch,
          PostRefused, PostDropped, Finish, RequestFails, AnswerLost, ListingCutShort,
          FullTimer, ChangeRecording, LateSummary, DeleteRecording, EditConfig, EditByHand,
          vars
  <2>2. \A p \in Paths : folder'[p] \in {folder[p], Hand, Absent}
    <3>1. ~PostBatch /\ ~AnswerLost
      BY <1>2 DEF PostBatch, AnswerLost
    <3> QED
      BY <3>1, FolderSteps
  <2> QED
    BY <1>2, <2>1, <2>2, EditedHonest DEF HonestAfter, IndexHonest, TypeOK
<1> QED
  BY <1>1, <1>2

\* What will be there when the pass is done, after a batch, a loss or an edit.
LEMMA HonestCommit ==
    ASSUME TypeOK, TypeOK', PendingFromListing, PassKnows, PassKnows', HonestAfter, [Next]_vars,
           pc = "commit", pc' = "commit", "dropped" \notin fates', full' \/ ~torn'
    PROVE  Honest(Committed(folder', pending'))
<1> DEFINE G == Committed(folder, pending)
           H == Committed(folder', pending')
<1>1. /\ DOMAIN folder = Paths /\ DOMAIN folder' = Paths
      /\ \A c, d \in pending : c.path = d.path => c = d
      /\ \A c, d \in pending' : c.path = d.path => c = d
  BY FolderDomains DEF PassKnows, TypeOK, IsFolder
<1>2. /\ "dropped" \notin fates /\ full' = full /\ torn' = torn
      /\ ~ListFolder /\ ~AnswerLost /\ ~Render
  BY DEF Next, Pass, Fault, World, ListFolder, ReadIndex, ListRecordings, Render, PostBatch,
         PostRefused, PostDropped, Finish, RequestFails, AnswerLost, ListingCutShort, Restart,
         FullTimer, ChangeRecording, LateSummary, DeleteRecording, EditConfig, EditByHand,
         EndPass, vars, local
<1>3. Honest(G) /\ IsFolder(G)
  BY <1>2, CommittedFolder DEF HonestAfter, TypeOK
<1>4. ASSUME NEW p \in Paths PROVE H[p] \in {G[p], Hand, Absent}
  <2>1. CASE PostBatch
    <3>1. PICK b \in Batches(pending, {IndexPath}) :
             folder' = Committed(folder, b) /\ pending' = pending \ b
      BY <2>1 DEF PostBatch
    <3>2. b \subseteq pending
      BY BatchSubset
    <3>3. CASE \E c \in b : c.path = p
      BY <1>1, <3>1, <3>2, <3>3, CommittedAt
    <3>4. CASE ~\E c \in b : c.path = p
      <4>1. folder'[p] = folder[p]
        BY <1>1, <3>1, <3>2, <3>4, CommittedAt
      <4> QED
        BY <1>1, <3>1, <3>2, <3>4, <4>1, CommittedAt
    <3> QED
      BY <3>3, <3>4
  <2>2. CASE pending' = pending /\ folder'[p] \in {folder[p], Hand, Absent}
    BY <1>1, <2>2, CommittedAt
  <2>3. pending' = pending \/ PostBatch
    BY <1>2 DEF Next, Pass, Fault, World, ListFolder, ReadIndex, ListRecordings, Render,
         PostRefused, PostDropped, Finish, RequestFails, AnswerLost, ListingCutShort, Restart,
         FullTimer, ChangeRecording, LateSummary, DeleteRecording, EditConfig, EditByHand,
         EndPass, vars, local
  <2> QED
    BY <1>2, <2>1, <2>2, <2>3, FolderSteps
<1> HIDE DEF G, H
<1>5. Honest(H)
  BY <1>3, <1>4, EditedHonest
<1> QED
  BY <1>5 DEF H

LEMMA HonestStep ==
    ASSUME TypeOK, TypeOK', PendingFromListing, Clock, PassKnows, PassKnows', HonestAfter,
           [Next]_vars
    PROVE  HonestAfter'
<1>1. IndexHonest'
  BY HonestIdle
<1>2. ASSUME pc' # "idle", ~torn' PROVE Honest(existing')
  BY <1>2, WithinPass DEF HonestAfter, IndexHonest, ListFolder
<1>3. ASSUME pc' = "commit", "dropped" \notin fates', full' \/ ~torn'
      PROVE  Honest(Committed(folder', pending'))
  <2>1. CASE pc = "commit"
    BY <1>3, <2>1, HonestCommit
  <2>2. CASE Render
    <3>1. folder' = folder /\ full' = full /\ torn' = torn
      BY <2>2 DEF Render, outside
    <3> QED
      BY <1>3, <2>2, <3>1, RenderHonest
  <2> QED
    BY <1>3, <2>1, <2>2, WithinPass DEF ListFolder
<1> QED
  BY <1>1, <1>2, <1>3 DEF HonestAfter, Honest

--------------------------------------------------------------------------------
(***************************************************************************)
(* Nothing is committed without need.                                      *)
(***************************************************************************)

\* If the recordings are still as listed, the files a pass wants and the notes
\* it keeps are what the listing demands.
LEMMA WantedIsMirror ==
    ASSUME TypeOK, \A r \in Present(listed) : source[r] = listed[r],
           NEW p \in Paths, Files[p] = Absent => p \notin KeptPaths
    PROVE  Files[p] = MirrorOf(listed, cfg)[p]
<1>1. listed \in Catalog /\ source \in Catalog
  BY DEF TypeOK
<1>2. Present(listed) \subseteq Present(source)
  BY DEF Present
<1>3. Kept \cup Fetched = Present(listed)
  BY <1>2 DEF Kept, Fetched
<1>4. CASE p = IndexPath
  <2>1. Files[p] = Encoded([r \in Recordings |->
                      IF r \in Present(listed) THEN EntryOf(r, listed, cfg) ELSE Absent])
    BY <1>3, <1>4 DEF Files, NewIndex
  <2> QED
    BY <1>4, <2>1 DEF MirrorOf
<1>5. CASE p # IndexPath /\ \E r \in Fetched : PathOf(listed)[r] = p
  <2>1. PICK r \in Fetched : PathOf(listed)[r] = p
    BY <1>5
  <2>2. r \in Present(listed)
    BY <1>3, <2>1
  <2>3. /\ (CHOOSE q \in Fetched : PathOf(listed)[q] = p) = r
        /\ (CHOOSE q \in Present(listed) : PathOf(listed)[q] = p) = r
    BY <1>1, <1>3, <2>1, <2>2, PathsDistinct
  <2>4. Files[p] = NoteOf(r, source, cfg)
    BY <1>5, <2>3 DEF Files
  <2>5. MirrorOf(listed, cfg)[p] = NoteOf(r, listed, cfg)
    BY <1>5, <2>1, <2>2, <2>3 DEF MirrorOf
  <2> QED
    BY <2>2, <2>4, <2>5 DEF NoteOf
<1>6. CASE p # IndexPath /\ ~\E r \in Fetched : PathOf(listed)[r] = p
  <2>1. Files[p] = Absent
    BY <1>6 DEF Files
  <2>2. ~\E r \in Present(listed) : PathOf(listed)[r] = p
    BY <1>3, <1>6, <2>1 DEF KeptPaths
  <2> QED
    BY <1>6, <2>1, <2>2 DEF MirrorOf
<1> QED
  BY <1>4, <1>5, <1>6

LEMMA NeededStep ==
    ASSUME TypeOK, TypeOK', PendingFromListing, Clock, Needed, [Next]_vars
    PROVE  Needed'
<1> SUFFICES ASSUME pc' = "commit", \A r \in Present(listed') : source'[r] = listed'[r],
                    NEW c \in pending'
             PROVE  c.to = MirrorOf(listed', cfg')[c.path] /\ c.from # c.to
  BY DEF Needed, MirrorOf, NoteOf, EntryOf, PathOf, Present
<1>1. CASE Render
  <2>1. UNCHANGED <<source, listed, cfg>>
    BY <1>1 DEF Render, outside
  <2>2. /\ c.path \in Paths /\ c.from # c.to /\ c.to = Files[c.path]
        /\ Files[c.path] = Absent => c.path \notin KeptPaths
    BY <1>1, RenderPending
  <2> QED
    BY <2>1, <2>2, WantedIsMirror
<1>2. CASE pc = "commit" /\ UNCHANGED <<listed, cfg>> /\ pending' \subseteq pending
  <2>1. ASSUME NEW r \in Present(listed) PROVE source[r] = listed[r]
    <3>1. listed \in Catalog /\ source' \in Catalog /\ r \in Recordings /\ listed[r] # Absent
      BY DEF TypeOK, Present
    <3>2. listed[r].rev \in Nat /\ listed[r].rev <= events /\ events \in Nat
      BY <3>1, CatalogNumbers, EventsGrow DEF Clock
    <3>3. source'[r] = listed[r]
      BY <1>2
    <3> QED
      BY <3>1, <3>2, <3>3, SourceSteps
  <2> QED
    BY <1>2, <2>1 DEF Needed
<1> QED
  BY <1>1, <1>2, PassSteps DEF ListFolder, ReadIndex, ListRecordings, ListingCutShort

--------------------------------------------------------------------------------
(***************************************************************************)
(* The inductive invariant, and what it gives.                             *)
(***************************************************************************)

LEMMA InitInv == Init => IInv
<1> SUFFICES ASSUME Init PROVE IInv
  OBVIOUS
<1>1. Present(listed) = {} /\ pending = {} /\ pc = "idle" /\ fates = {}
  BY DEF Init, Present, NoIndex
<1>2. folder[IndexPath] = Absent
  BY DEF Init, NoFiles, Paths
<1>3. IndexesInjective /\ PendingFromListing /\ PassKnows /\ Needed
  BY <1>1, <1>2 DEF IndexesInjective, IndexInjective, HasIndex, PendingFromListing, PassKnows, Needed
<1>4. HonestAfter
  BY <1>1, <1>2 DEF HonestAfter, IndexHonest, Honest
<1>5. Clock
  <2>1. \A r \in Present(source) : source[r].sig = 0 /\ source[r].rev = 0
    BY DEF Init, Present
  <2> QED
    BY <1>1, <2>1 DEF Clock, Init
<1> QED
  BY <1>3, <1>4, <1>5, InitTypes DEF IInv

\* The inductive invariant of RiffadoSync.
THEOREM SyncInvariant == Spec => []IInv
<1>1. ASSUME IInv, TypeOK', [Next]_vars PROVE IInv'
  <2>1. PassKnows'
    BY <1>1, KnowsStep DEF IInv
  <2> QED
    BY <1>1, <2>1, FromListingStep, InjectiveStep, ClockStep, HonestStep, NeededStep DEF IInv
<1> QED
  BY <1>1, InitInv, TypeCorrect, PTL DEF Spec

\* Between passes, and unless one landed only in part, a note the index names is
\* that recording's note as the index says: a later pass may keep it unread, in
\* whatever batches the folder was committed, whatever requests failed and
\* whoever edited it meanwhile.
THEOREM HonestAlways == Spec => []IndexHonest
<1>1. IInv => IndexHonest
  BY DEF IInv, HonestAfter
<1> QED
  BY <1>1, SyncInvariant, PTL

\* A pass over a folder that was in sync when it was listed commits nothing, a
\* full pass included, as long as the recordings and the configuration stay.
THEOREM NothingNeedless == Spec => NoNeedlessCommit
<1>1. IInv => (pc = "commit" /\ pending # {} =>
                  existing # Mirror \/ listed # source \/ cfg # conf)
  <2> SUFFICES ASSUME IInv, pc = "commit", NEW c \in pending,
                      existing = Mirror, listed = source, cfg = conf
               PROVE  FALSE
    OBVIOUS
  <2>1. c.to = Mirror[c.path] /\ c.from # c.to
    BY DEF IInv, Needed, Mirror
  <2>2. c.from = existing[c.path]
    BY DEF IInv, PendingFromListing
  <2> QED
    BY <2>1, <2>2
<1> QED
  BY <1>1, SyncInvariant, PTL DEF NoNeedlessCommit
================================================================================
