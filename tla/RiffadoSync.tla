------------------------------ MODULE RiffadoSync ------------------------------
(***************************************************************************)
(* brain-sync's Riffado source (apps/ai/brain/sync/brain_sync.py):         *)
(* sync_riffado, render_riffado and apply_changes for the folder Riffado/  *)
(* of the brain repository.  A pass lists the folder, reads its index,     *)
(* lists the recordings, fetches the ones the index does not know in their *)
(* present form, and commits the difference in one or more batches.        *)
(* Meanwhile recordings change in Riffado, people edit the folder and the  *)
(* routes, requests fail and the pod is restarted.                         *)
(*                                                                         *)
(* Abstractions: the text of a note is the recording, the revision and the *)
(* configuration it was rendered from; the routes and corrections files    *)
(* are one configuration; Riffado/README.md, which never changes, is left  *)
(* out.                                                                    *)
(***************************************************************************)
EXTENDS ChangeFiles, NotePaths

CONSTANTS
    Recordings,   \* recording ids, in the order of their keys
    Short,        \* an id as assign_paths cuts it
    Titles,       \* folded titles
    IndexPath,    \* Riffado/.index.json
    Hand,         \* a file a person wrote: no rendering, and as an index not JSON
    MaxEvents     \* bound: changes, edits by hand and failures, all together

ASSUME RecordingsAssumption == Recordings \subseteq Nat \ {0}

(***************************************************************************)
(* Two ids that agree in their first 8 characters would share a suffix:    *)
(* Riffado's ids are random.                                               *)
(***************************************************************************)
ASSUME ShortAssumption ==
    /\ DOMAIN Short = Recordings
    /\ \A r, s \in Recordings : Short[r] = Short[s] => r = s
    /\ \A r \in Recordings : Short[r] # NoSuffix

ASSUME BoundsAssumption == MaxEvents \in Nat

VARIABLES
    source,     \* the recordings in Riffado
    conf,       \* revision of the routes and corrections files
    events,     \* how much of MaxEvents is used; also the clock of the revisions
    folder,     \* Riffado/ on the branch
    pc,         \* where the pass is
    full,       \* this pass re-renders everything
    fullDue,    \* FULL_RESYNC_SECONDS have passed since the last full pass
    existing,   \* the listing of the folder
    index,      \* the index as parsed
    listed,     \* the recordings as listed
    cfg,        \* the revision of the configuration the pass works with
    pending,    \* the operations not posted yet
    fates,      \* what has become of this pass's batches (history)
    torn        \* a pass landed only in part, and no full pass has since (history)

local == <<full, existing, index, listed, cfg, pending, fates>>
outside == <<source, conf, folder>>
vars == <<outside, local, pc, fullDue, events, torn>>

--------------------------------------------------------------------------------
(***************************************************************************)
(* Recordings, notes and the index.  The revision of a recording says what *)
(* its note would hold; its sig says when Riffado last bumped updated_at   *)
(* or one of the two flags, which a late summary may fail to do.           *)
(***************************************************************************)
Revisions == 0 .. MaxEvents

NoteSlots == Titles \X ({NoSuffix} \cup {Short[r] : r \in Recordings})
Paths == NoteSlots \cup {IndexPath}

Recording == [title : Titles, rev : Revisions, sig : Revisions]
Note == [rec : Recordings, rev : Revisions, conf : Revisions]
Entry == [path : NoteSlots, sig : Revisions, conf : Revisions]
Index == [Recordings -> Entry \cup {Absent}]

\* The index as a file: the JSON text that encodes it.
IndexFile == [entries : Index]
Encoded(i) == [entries |-> i]

Blobs == Note \cup IndexFile \cup {Hand}
Catalog == [Recordings -> Recording \cup {Absent}]

ASSUME IndexPathAssumption == IndexPath \notin NoteSlots
ASSUME HandAssumption == Hand # Absent /\ Hand \notin Note \cup IndexFile
ASSUME AbsentAssumption == Absent \notin Note \cup IndexFile \cup Recording \cup Entry

\* What brain-sync writes at a path.
Rendered(p) == IF p = IndexPath THEN IndexFile ELSE Note

IsFolder(f) ==
    /\ f \in [Paths -> Blobs \cup {Absent}]
    /\ \A p \in Paths : f[p] \in Rendered(p) \cup {Hand, Absent}

NoFiles == [p \in Paths |-> Absent]
NoIndex == [r \in Recordings |-> Absent]
Present(catalog) == {r \in Recordings : catalog[r] # Absent}

\* json.loads of the index: unreadable or missing is empty.
Parsed(blob) == IF blob \in {Absent, Hand} THEN NoIndex ELSE blob.entries

\* assign_paths over the recordings of a listing.
PathOf(catalog) ==
    AssignPaths(Present(catalog), [r \in Present(catalog) |-> catalog[r].title], Short)

EntryOf(r, catalog, c) ==
    [path |-> PathOf(catalog)[r], sig |-> catalog[r].sig, conf |-> c]
NoteOf(r, catalog, c) ==
    [rec |-> r, rev |-> catalog[r].rev, conf |-> c]

--------------------------------------------------------------------------------
Init ==
    /\ source \in [Recordings -> [title : Titles, rev : {0}, sig : {0}] \cup {Absent}]
    /\ conf = 0
    /\ folder = NoFiles
    /\ pc = "idle"
    /\ full = FALSE
    /\ fullDue = TRUE
    /\ existing = NoFiles
    /\ index = NoIndex
    /\ listed = NoIndex
    /\ cfg = 0
    /\ pending = {}
    /\ events = 0
    /\ fates = {}
    /\ torn = FALSE

(***************************************************************************)
(* A pass ends with the operations in left not posted, and its local state *)
(* is gone.  The folder is torn when some of its operations landed and     *)
(* others did not; a full pass that landed whole repairs it.               *)
(***************************************************************************)
EndPass(fate, left) ==
    LET partial == "dropped" \in fate \/ left # {}
        healed  == full /\ pc = "commit" /\ ~partial
    IN  /\ pc' = "idle"
        /\ full' = FALSE
        /\ existing' = NoFiles
        /\ index' = NoIndex
        /\ listed' = NoIndex
        /\ cfg' = 0
        /\ pending' = {}
        /\ fates' = {}
        /\ torn' = ((torn /\ ~healed) \/ ("landed" \in fate /\ partial))

--------------------------------------------------------------------------------
(***************************************************************************)
(* The pass.                                                               *)
(***************************************************************************)

\* list_tree, and whether a full re-render is due.
ListFolder ==
    /\ pc = "idle"
    /\ pc' = "listed"
    /\ existing' = folder
    /\ full' = fullDue
    /\ UNCHANGED <<outside, fullDue, index, listed, cfg, pending, events, fates, torn>>

\* read_raw of the index if the listing has it; the branch may have moved on.
\* Then load_routes and load_corrections.
ReadIndex ==
    /\ pc = "listed"
    /\ pc' = "indexed"
    /\ index' = IF existing[IndexPath] = Absent
                THEN NoIndex
                ELSE Parsed(folder[IndexPath])
    /\ cfg' = conf
    /\ UNCHANGED <<outside, full, fullDue, existing, listed, pending, events, fates, torn>>

\* list_recordings.
ListRecordings ==
    /\ pc = "indexed"
    /\ pc' = "fetch"
    /\ listed' = source
    /\ UNCHANGED <<outside, full, fullDue, existing, index, cfg, pending, events, fates, torn>>

\* Variant: the index entry's path decides, its sig is not compared.
KeptByPath ==
    { r \in Present(listed) :
        /\ ~full
        /\ index[r] # Absent
        /\ index[r].path = PathOf(listed)[r]
        /\ existing[PathOf(listed)[r]] # Absent }

\* The recordings of the listing whose note stays as it is.
Kept ==
    { r \in Present(listed) :
        /\ ~full
        /\ index[r] = EntryOf(r, listed, cfg)
        /\ existing[PathOf(listed)[r]] # Absent }

\* The recordings whose details were fetched: by now some may be deleted.
Fetched == (Present(listed) \ Kept) \cap Present(source)

NewIndex ==
    [r \in Recordings |->
        IF r \in Kept \cup Fetched THEN EntryOf(r, listed, cfg) ELSE Absent]

\* The details are the recording as it is now, the path is that of the listing.
Files ==
    [p \in Paths |->
        IF p = IndexPath THEN Encoded(NewIndex)
        ELSE IF \E r \in Fetched : PathOf(listed)[r] = p
             THEN NoteOf(CHOOSE r \in Fetched : PathOf(listed)[r] = p, source, cfg)
             ELSE Absent]

\* The rest of render_riffado, and the diff of apply_changes.
Render ==
    /\ pc = "fetch"
    /\ pc' = "commit"
    /\ pending' = Diff(Files, existing, {PathOf(listed)[r] : r \in Kept})
    /\ UNCHANGED <<outside, full, fullDue, existing, index, listed, cfg, events, fates, torn>>

\* Variant: the shas are looked up again right before the batch is posted.
PostBatchForced ==
    /\ pc = "commit"
    /\ \E b \in Batches(pending, {IndexPath}) :
        /\ folder' = Committed(folder, b)
        /\ pending' = pending \ b
    /\ fates' = fates \cup {"landed"}
    /\ UNCHANGED <<source, conf, pc, full, fullDue, existing, index, listed, cfg,
                   events, torn>>

\* A batch is committed.
PostBatch ==
    /\ pc = "commit"
    /\ \E b \in Batches(pending, {IndexPath}) :
        /\ IsCurrent(folder, b)
        /\ folder' = Committed(folder, b)
        /\ pending' = pending \ b
    /\ fates' = fates \cup {"landed"}
    /\ UNCHANGED <<source, conf, pc, full, fullDue, existing, index, listed, cfg,
                   events, torn>>

\* Forgejo answers 422 and http_json raises: the other batches are not posted.
PostRefused ==
    /\ pc = "commit"
    /\ \E b \in Batches(pending, {IndexPath}) : IsStale(folder, b)
    /\ EndPass(fates, pending)
    /\ UNCHANGED <<outside, fullDue, events>>

\* Forgejo answers 404, which http_json returns like an empty answer: the
\* batch is lost and the pass goes on.
PostDropped ==
    /\ pc = "commit"
    /\ \E b \in Batches(pending, {IndexPath}) :
        /\ IsGone(folder, b)
        /\ pending' = pending \ b
    /\ fates' = fates \cup {"dropped"}
    /\ UNCHANGED <<outside, pc, full, fullDue, existing, index, listed, cfg, events, torn>>

\* Everything is posted; a full pass restarts the clock of the next one.
Finish ==
    /\ pc = "commit"
    /\ pending = {}
    /\ EndPass(fates, {})
    /\ fullDue' = (fullDue /\ ~full)
    /\ UNCHANGED <<outside, events>>

Pass ==
    \/ ListFolder \/ ReadIndex \/ ListRecordings \/ Render
    \/ PostBatch \/ PostRefused \/ PostDropped \/ Finish

--------------------------------------------------------------------------------
(***************************************************************************)
(* Failures.                                                               *)
(***************************************************************************)

\* One more of the MaxEvents.
Event == events < MaxEvents /\ events' = events + 1

\* A request fails for good: cycle() logs the exception and moves on.
RequestFails ==
    /\ pc # "idle"
    /\ Event
    /\ EndPass(fates, pending)
    /\ UNCHANGED <<outside, fullDue>>

\* The commit is made but its answer is lost.  Posted again by http_json it is
\* refused, because nothing is as the batch says any more; or the wait for the
\* answer times out, which http_json does not catch.
AnswerLost ==
    /\ pc = "commit"
    /\ Event
    /\ \E b \in Batches(pending, {IndexPath}) :
        /\ IsCurrent(folder, b)
        /\ folder' = Committed(folder, b)
        /\ EndPass(fates \cup {"landed"}, pending \ b)
    /\ UNCHANGED <<source, conf, fullDue>>

\* One page of the listing answers 404: list_recordings takes it for the end.
ListingCutShort ==
    /\ pc = "indexed"
    /\ Event
    /\ pc' = "fetch"
    /\ \E got \in SUBSET Present(source) :
        listed' = [r \in Recordings |-> IF r \in got THEN source[r] ELSE Absent]
    /\ UNCHANGED <<outside, full, fullDue, existing, index, cfg, pending, fates, torn>>

\* The pod is replaced (strategy Recreate: never two of them).  _last_full
\* starts at 0.
Restart ==
    /\ Event
    /\ EndPass(fates, pending)
    /\ fullDue' = TRUE
    /\ UNCHANGED outside

Fault == RequestFails \/ AnswerLost \/ ListingCutShort \/ Restart

--------------------------------------------------------------------------------
(***************************************************************************)
(* The world around the pass.                                              *)
(***************************************************************************)

\* Variant: only a restart makes a full pass.
FullTimerNever == FALSE /\ UNCHANGED vars

\* FULL_RESYNC_SECONDS have passed since the last full pass.
FullTimer ==
    /\ ~fullDue
    /\ fullDue' = TRUE
    /\ UNCHANGED <<outside, local, pc, events, torn>>

\* A recording is added or edited in Riffado, its title perhaps too.
ChangeRecording ==
    /\ Event
    /\ \E r \in Recordings, t \in Titles :
        source' = [source EXCEPT ![r] = [title |-> t, rev |-> events', sig |-> events']]
    /\ UNCHANGED <<conf, folder, local, pc, fullDue, torn>>

\* A summary lands without updated_at moving.
LateSummary ==
    /\ Event
    /\ \E r \in Present(source) :
        source' = [source EXCEPT ![r].rev = events']
    /\ UNCHANGED <<conf, folder, local, pc, fullDue, torn>>

DeleteRecording ==
    /\ Event
    /\ \E r \in Present(source) : source' = [source EXCEPT ![r] = Absent]
    /\ UNCHANGED <<conf, folder, local, pc, fullDue, torn>>

\* Somebody edits the routes or the corrections.
EditConfig ==
    /\ Event
    /\ conf' = events'
    /\ UNCHANGED <<source, folder, local, pc, fullDue, torn>>

\* Somebody writes or removes a file of the folder.
EditByHand ==
    /\ Event
    /\ \E p \in Paths, b \in {Hand, Absent} : folder' = [folder EXCEPT ![p] = b]
    /\ UNCHANGED <<source, conf, local, pc, fullDue, torn>>

World ==
    \/ FullTimer \/ ChangeRecording \/ LateSummary \/ DeleteRecording
    \/ EditConfig \/ EditByHand

Next == Pass \/ Fault \/ World

Spec == Init /\ [][Next]_vars

(***************************************************************************)
(* main() runs one cycle after the other, and time passes.                 *)
(***************************************************************************)
FairSpec == Spec /\ WF_vars(Pass) /\ WF_vars(FullTimer)

--------------------------------------------------------------------------------
(***************************************************************************)
(* Properties.                                                             *)
(***************************************************************************)

\* Every variable stays in its type; in particular only the index path ever
\* holds an index and only note paths hold notes, whatever is committed.
TypeOK ==
    /\ source \in Catalog
    /\ conf \in Revisions
    /\ IsFolder(folder)
    /\ pc \in {"idle", "listed", "indexed", "fetch", "commit"}
    /\ full \in BOOLEAN
    /\ fullDue \in BOOLEAN
    /\ IsFolder(existing)
    /\ index \in Index
    /\ listed \in Catalog
    /\ cfg \in Revisions
    /\ \A c \in pending :
        /\ c \in [path : Paths, from : Blobs \cup {Absent}, to : Blobs \cup {Absent}]
        /\ c.to \in Rendered(c.path) \cup {Absent}
    /\ events \in 0 .. MaxEvents
    /\ fates \subseteq {"landed", "dropped"}
    /\ torn \in BOOLEAN

HasIndex == folder[IndexPath] \notin {Absent, Hand}

\* No two recordings share a note: the paths of the stored index are distinct,
\* at every moment of every commit.
Injective(i) ==
    \A r, s \in Recordings :
        i[r] # Absent /\ i[s] # Absent /\ i[r].path = i[s].path => r = s

IndexInjective == HasIndex => Injective(folder[IndexPath].entries)

\* Types, and the distinct paths of the index through all renames and edits.
Safe == TypeOK /\ IndexInjective

\* What the index of a folder claims is what the folder holds: a note the index
\* names is that recording's note, rendered with the configuration the index
\* says and from a revision at least as new as the sig the index says.
Honest(f) ==
    f[IndexPath] \notin {Absent, Hand} =>
        \A r \in Recordings :
            LET e == f[IndexPath].entries[r]
            IN  e # Absent /\ f[e.path] \notin {Absent, Hand} =>
                    /\ f[e.path].rec = r
                    /\ f[e.path].conf = e.conf
                    /\ f[e.path].rev >= e.sig

\* Between passes, and unless a pass landed only in part, the index is honest.
\* This is what allows a later pass to keep a note without looking at it.
IndexHonest == pc = "idle" /\ ~torn => Honest(folder)

\* The folder as a catalog and a configuration would have it.
MirrorOf(catalog, c) ==
    [p \in Paths |->
        IF p = IndexPath
        THEN Encoded([r \in Recordings |->
                 IF r \in Present(catalog) THEN EntryOf(r, catalog, c) ELSE Absent])
        ELSE IF \E r \in Present(catalog) : PathOf(catalog)[r] = p
             THEN NoteOf(CHOOSE r \in Present(catalog) : PathOf(catalog)[r] = p, catalog, c)
             ELSE Absent]

Mirror == MirrorOf(source, conf)

InSync == folder = Mirror

\* Once the recordings, the configuration and the hand edits come to rest, the
\* folder ends up as the recordings have it and stays so, whatever was torn,
\* dropped, refused or edited before.
Converges == <>[]InSync

\* A pass over a folder that was in sync when it was listed, and from a Riffado
\* that has not changed, commits nothing, be it a full pass or not.
NoNeedlessCommit ==
    [][pc = "commit" /\ pending # {} =>
          \/ existing # Mirror
          \/ listed # source
          \/ cfg # conf]_vars

(***************************************************************************)
(* Why they hold.                                                          *)
(***************************************************************************)

\* An operation of the pass names the blob the listing saw.
PendingFromListing ==
    /\ pending # {} => pc = "commit"
    /\ \A c \in pending : c.from = existing[c.path]

\* Every index about to be written is as injective as the stored one.
IndexesInjective ==
    /\ IndexInjective
    /\ \A c \in pending : c.path = IndexPath => Injective(c.to.entries)

\* Revisions come from a clock, so what changed never looks again as it was.
Clock ==
    /\ \A r \in Present(source) : source[r].sig <= source[r].rev /\ source[r].rev <= events
    /\ \A r \in Present(listed) :
          /\ listed[r].sig <= listed[r].rev /\ listed[r].rev <= events
          /\ r \in Present(source) => listed[r].sig <= source[r].rev

\* Until a batch lands only people change the folder; what the pass knows of the
\* index is what it listed, or nothing.
PassKnows ==
    /\ pc # "commit" => fates = {}
    /\ pc # "idle" /\ "landed" \notin fates =>
          \A p \in Paths : folder[p] \in {existing[p], Hand, Absent}
    /\ pc \in {"indexed", "fetch", "commit"} => index \in {NoIndex, Parsed(existing[IndexPath])}
    /\ \A c, d \in pending : c.path = d.path => c = d

\* The folder was honest when it was listed, and will be when the rest of the
\* operations has landed, whatever of it is there by now.
HonestAfter ==
    /\ IndexHonest
    /\ pc # "idle" /\ ~torn => Honest(existing)
    /\ pc = "commit" /\ "dropped" \notin fates /\ (full \/ ~torn) =>
          Honest(Committed(folder, pending))

\* As long as no recording of the listing has changed, an operation brings its
\* path from something else to what the listing demands.
Needed ==
    pc = "commit" /\ (\A r \in Present(listed) : source[r] = listed[r]) =>
        \A c \in pending : c.to = MirrorOf(listed, cfg)[c.path] /\ c.from # c.to

\* The inductive invariant.
IInv ==
    /\ TypeOK /\ PendingFromListing /\ IndexesInjective
    /\ Clock /\ PassKnows /\ HonestAfter /\ Needed

(***************************************************************************)
(* The promise of ConditionalCommits: what a person wrote after the pass   *)
(* listed the folder is never overwritten or removed by that pass.         *)
(***************************************************************************)
CONSTANT Nothing

ASSUME NothingAssumption == Nothing \notin [Paths -> Blobs \cup {Absent}]

Promise == INSTANCE ConditionalCommits
    WITH seen <- IF pc = "idle" THEN Nothing ELSE existing, clock <- events

KeepsPromise == Promise!Spec
================================================================================
