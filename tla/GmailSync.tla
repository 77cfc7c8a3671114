------------------------------- MODULE GmailSync -------------------------------
(***************************************************************************)
(* brain-sync's Gmail source (apps/ai/brain/sync/brain_sync.py):           *)
(* sync_google's mail part, render_gmail and apply_changes for the folder  *)
(* Email/.  A pass lists the recent threads, looks at those whose history  *)
(* moved as far as the budget goes, fetches and renders the matching ones  *)
(* as far as the rest of it goes, and commits index and notes.  There is   *)
(* no full pass: what the index claims is what the next pass believes.     *)
(*                                                                         *)
(* Abstractions: the participants of a thread are one group of people, and *)
(* the rules, the entity pages and the links to them are one directory     *)
(* from groups to the page they link to, None when they do not match.  The *)
(* subject and first date of a thread never change; Email/README.md is     *)
(* left out.                                                               *)
(***************************************************************************)
EXTENDS ChangeFiles, NotePaths

CONSTANTS
    Threads,      \* thread ids, in their order
    Short,        \* an id as assign_paths cuts it
    Base,         \* thread_base: first date and subject of a thread
    People,       \* groups of participants
    Links,        \* entity pages
    None,         \* a group that does not match
    IndexPath,    \* Email/.index.json
    Hand,         \* a file a person wrote: no rendering, and as an index not JSON
    Edits,        \* bound: what people do to files: a file, and Hand or Absent
    Nothing,      \* see ConditionalCommits
    MaxFetch,     \* GMAIL_MAX_FETCH
    MaxEvents     \* bound: changes and failures, all together

ASSUME ThreadsAssumption == Threads \subseteq Nat \ {0} /\ IsFiniteSet(Threads)
ASSUME ShortAssumption ==
    /\ DOMAIN Short = Threads /\ DOMAIN Base = Threads
    /\ \A t, u \in Threads : Short[t] = Short[u] => t = u
    /\ \A t \in Threads : Short[t] # NoSuffix
ASSUME BoundsAssumption == MaxEvents \in Nat /\ MaxFetch \in Nat /\ MaxFetch >= 2

VARIABLES
    box,        \* the threads in the mailbox
    old,        \* threads whose first message is older than lookback_days
    dir,        \* the directory: rules and entity pages
    folder,     \* Email/ on the branch
    meta,       \* _gmail_meta
    pc,
    existing,   \* the listing of the folder
    index,      \* the index as parsed
    view,       \* the directory the pass works with
    listed,     \* historyId of the recent threads, as listed
    matched,    \* the matching threads
    checked,    \* how many metadata fetches the pass has used
    pending,    \* operations not posted yet
    events,     \* how much of MaxEvents is used; also the clock of the historyIds
    edited,     \* somebody edited or removed files (history)
    torn        \* a pass landed only in part, or a note was overwritten (history)

outside == <<box, old, dir>>
local == <<existing, index, view, listed, matched, checked, pending>>
history == <<edited, torn>>
vars == <<outside, folder, meta, pc, local, events, history>>

--------------------------------------------------------------------------------
Revisions == 0 .. MaxEvents
NoteSlots == {Base[t] : t \in Threads} \X ({NoSuffix} \cup {Short[t] : t \in Threads})
Paths == NoteSlots \cup {IndexPath}

\* recent: some message is younger than lookback_days, so the query finds it.
Thread == [hid : Revisions, who : People, recent : BOOLEAN]
Meta == [hid : Revisions, who : People]
Match == [hid : Revisions, who : People, stale : BOOLEAN]
Entry == [path : NoteSlots, hid : Revisions, who : People, link : Links \cup {None}]
Note == [thread : Threads, hid : Revisions, link : Links \cup {None}]
Index == [Threads -> Entry \cup {Absent}]
IndexFile == [entries : Index]
Blobs == Note \cup IndexFile \cup {Hand}

ASSUME DistinctAssumption ==
    /\ IndexPath \notin NoteSlots /\ Edits \subseteq Paths \X {Hand, Absent}
    /\ None \notin Links
    /\ Absent \notin Thread \cup Meta \cup Match \cup Entry \cup Note \cup IndexFile
    /\ Hand # Absent /\ Hand \notin Note \cup IndexFile

NoFiles == [p \in Paths |-> Absent]
NoView == [w \in People |-> None]
NoThreads == [t \in Threads |-> Absent]
Known(f) == {t \in DOMAIN f : f[t] # Absent}
Parsed(blob) == IF blob \in {Absent, Hand} THEN NoThreads ELSE blob.entries

MatchOf(m, stale) == [hid |-> m.hid, who |-> m.who, stale |-> stale]

MetaOf(m) == [hid |-> m.hid, who |-> m.who]

Init ==
    /\ box \in [Threads -> [hid : {0}, who : People, recent : {TRUE}] \cup {Absent}]
    /\ old = {}
    /\ dir \in [People -> Links \cup {None}]
    /\ folder = NoFiles
    /\ meta = NoThreads
    /\ pc = "idle"
    /\ existing = NoFiles /\ index = NoThreads /\ view = NoView
    /\ listed = NoThreads /\ matched = NoThreads /\ checked = 0 /\ pending = {}
    /\ events = 0
    /\ edited = FALSE /\ torn = FALSE

\* The pass is over.
EndPass ==
    /\ pc' = "idle"
    /\ existing' = NoFiles /\ index' = NoThreads /\ view' = NoView
    /\ listed' = NoThreads /\ matched' = NoThreads /\ checked' = 0 /\ pending' = {}

--------------------------------------------------------------------------------
(***************************************************************************)
(* The pass.                                                               *)
(***************************************************************************)

\* entity_directory and the rules; list_tree.
Begin ==
    /\ pc = "idle"
    /\ pc' = "index"
    /\ view' = dir
    /\ existing' = folder
    /\ UNCHANGED <<outside, folder, meta, index, listed, matched, checked, pending,
                   events, history>>

\* read_raw of the index, as it is by now, if the listing has one.
ReadIndex ==
    /\ pc = "index"
    /\ pc' = "list"
    /\ index' = IF existing[IndexPath] = Absent THEN NoThreads ELSE Parsed(folder[IndexPath])
    /\ UNCHANGED <<outside, folder, meta, existing, view, listed, matched, checked, pending,
                   events, history>>

ListThreads ==
    /\ pc = "list"
    /\ pc' = "check"
    /\ listed' = [t \in Threads |->
                     IF box[t] # Absent /\ box[t].recent THEN box[t].hid ELSE Absent]
    /\ UNCHANGED <<outside, folder, meta, existing, index, view, matched, checked,
                   pending, events, history>>

\* The index knows this very state of the thread.
IsIndexed(t) == index[t] # Absent /\ index[t].hid = listed[t]

\* _gmail_meta does.
IsCached(t) == meta[t] # Absent /\ meta[t].hid = listed[t]

CheckBudget == (MaxFetch * 2) \div 3

\* MailRules.match: another participant has a page, or a rule lets it in.
Matches(m) == view[m.who] # None

\* t in the second loop: out of the window, kept while it matches.
IsAged(t) ==
    /\ listed[t] = Absent /\ index[t] # Absent
    /\ t \in old
    /\ Matches(index[t])

\* Which threads match: the ones looked up are in looked; the order of the
\* listing, newest message first, is not modelled, so any part of those that
\* need a look fits the budget.
CheckThreads ==
    /\ pc = "check"
    /\ LET needy == {t \in Known(listed) : ~IsIndexed(t) /\ ~IsCached(t)}
       IN \E looked \in SUBSET needy :
            LET found == looked \cap Known(box)
                new   == [t \in Threads |-> IF t \in found THEN MetaOf(box[t]) ELSE meta[t]]
                about == [t \in Threads |->
                             IF t \in Known(listed) /\ IsIndexed(t) /\ ~IsCached(t)
                             THEN MetaOf(index[t]) ELSE new[t]]
            IN  /\ looked = needy \/ Cardinality(looked) = CheckBudget
                /\ Cardinality(looked) <= CheckBudget
                /\ meta' = new
                /\ checked' = Cardinality(looked)
                /\ matched' =
                     [t \in Threads |->
                        CASE t \in needy \ looked /\ index[t] # Absent ->
                                MatchOf(index[t], TRUE)
                          [] t \in Known(listed) \ (needy \ found)
                             /\ Matches(about[t]) ->
                                MatchOf(about[t], FALSE)
                          [] IsAged(t) -> MatchOf(index[t], TRUE)
                          [] OTHER -> Absent]
    /\ pc' = "render"
    /\ UNCHANGED <<outside, folder, existing, index, view, listed, pending, events, history>>

PathOf == AssignPaths(Known(matched), Base, Short)

EntryOf(t, m) ==
    [path |-> PathOf[t], hid |-> m.hid, who |-> m.who, link |-> view[m.who]]

\* Variant: the index is believed to have its notes.
HasNoteIndexed(t, path) == index[t] # Absent /\ index[t].path = path

HasNote(t, path) ==
    index[t] # Absent /\ index[t].path = path /\ existing[path] # Absent

Same(t) == HasNote(t, PathOf[t]) /\ index[t] = EntryOf(t, matched[t])

\* The matching threads whose note stays where it is, as it is.
Kept == {t \in Known(matched) :
            Same(t) \/ (matched[t].stale /\ HasNote(t, PathOf[t]))}

\* Out of budget: the old note stays, wherever it is.
Postponed(fetched) ==
    {t \in Known(matched) \ (Kept \cup fetched) :
        index[t] # Absent /\ existing[index[t].path] # Absent}

\* Variant: the note of a postponed thread is not protected.
KeptPathsOnly(put) == {index[t].path : t \in Kept}

KeptPaths(put) == {index[t].path : t \in Kept \cup put}

\* The last loop: a postponed thread gives up a path that was just rendered.
Evict(entries, rendered) ==
    [t \in Threads |->
        IF /\ entries[t] # Absent
           /\ entries[t].path \in {PathOf[u] : u \in rendered}
           /\ (t \in Known(matched) => PathOf[t] # entries[t].path)
        THEN Absent ELSE entries[t]]

\* The threads fetched that are still there.
Rendered(fetched) == fetched \cap Known(box)

NewEntries(fetched) ==
    LET put == Postponed(fetched)
        entries ==
            [t \in Threads |->
                CASE t \in Kept \/ t \in put -> index[t]
                  [] t \in Rendered(fetched) -> EntryOf(t, box[t])
                  [] OTHER -> Absent]
    IN  Evict(entries, Rendered(fetched))

NoteOf(t) == [thread |-> t, hid |-> box[t].hid, link |-> view[box[t].who]]

NewFiles(fetched) ==
    [p \in Paths |->
        IF p = IndexPath THEN [entries |-> NewEntries(fetched)]
        ELSE IF \E t \in Rendered(fetched) : PathOf[t] = p
        THEN NoteOf(CHOOSE t \in Rendered(fetched) : PathOf[t] = p)
        ELSE Absent]

\* The second part of render_gmail, with what is left of the budget, and the
\* diff of apply_changes.
Render ==
    /\ pc = "render"
    /\ LET due == Known(matched) \ Kept
       IN \E fetched \in SUBSET due :
            /\ fetched = due \/ Cardinality(fetched) = MaxFetch - checked
            /\ Cardinality(fetched) <= MaxFetch - checked
            /\ meta' = [t \in Threads |->
                           IF t \in Rendered(fetched) THEN MetaOf(box[t]) ELSE meta[t]]
            /\ pending' = Diff(NewFiles(fetched), existing, KeptPaths(Postponed(fetched)))
    /\ pc' = "commit"
    /\ UNCHANGED <<outside, folder, existing, index, view, listed, matched, checked,
                   events, history>>

\* Variant: a batch lands whatever is there by now.
PostBatchForced ==
    /\ pc = "commit"
    /\ \E b \in Batches(pending, {IndexPath}) :
        /\ folder' = Committed(folder, b)
        /\ pending' = pending \ b
    /\ UNCHANGED <<outside, meta, pc, existing, index, view, listed, matched, checked,
                   events, history>>

PostBatch ==
    /\ pc = "commit"
    /\ \E b \in Batches(pending, {IndexPath}) :
        /\ IsCurrent(folder, b)
        /\ folder' = Committed(folder, b)
        /\ pending' = pending \ b
    /\ UNCHANGED <<outside, meta, pc, existing, index, view, listed, matched, checked,
                   events, history>>

\* The index goes first: while it waits, no batch of the pass has landed.
IndexWaits == \E c \in pending : c.path = IndexPath

\* 422: http_json raises, the next pass starts over.
PostRefused ==
    /\ pc = "commit"
    /\ \E b \in Batches(pending, {IndexPath}) : IsStale(folder, b)
    /\ EndPass
    /\ torn' = (torn \/ ~IndexWaits)
    /\ UNCHANGED <<outside, folder, meta, events, edited>>

\* 404: http_json returns None, and the batch counts as posted.
PostDropped ==
    /\ pc = "commit"
    /\ \E b \in Batches(pending, {IndexPath}) : IsGone(folder, b) /\ pending' = pending \ b
    /\ torn' = (torn \/ ~IndexWaits \/ pending' # {})
    /\ UNCHANGED <<outside, folder, meta, pc, existing, index, view, listed, matched, checked,
                   events, edited>>

Finish ==
    /\ pc = "commit"
    /\ pending = {}
    /\ EndPass
    /\ UNCHANGED <<outside, folder, meta, events, history>>

Pass ==
    \/ Begin \/ ReadIndex \/ ListThreads \/ CheckThreads \/ Render
    \/ PostBatch \/ PostRefused \/ PostDropped \/ Finish

--------------------------------------------------------------------------------
(***************************************************************************)
(* Failures.                                                               *)
(***************************************************************************)
Event == events < MaxEvents /\ events' = events + 1

\* A request fails for good; between two batches it leaves the folder in part as
\* before.  When the commit of a batch is made but its answer is lost, the batch
\* counts as posted.
RequestFails ==
    /\ pc # "idle"
    /\ Event
    /\ EndPass
    /\ torn' = (torn \/ (pc = "commit" /\ pending # {} /\ folder # existing))
    /\ UNCHANGED <<outside, folder, meta, edited>>

\* The pod is replaced: _gmail_meta is empty.
Restart ==
    /\ Event
    /\ EndPass
    /\ meta' = NoThreads
    /\ torn' = (torn \/ (pc = "commit" /\ pending # {} /\ folder # existing))
    /\ UNCHANGED <<outside, folder, edited>>

--------------------------------------------------------------------------------
(***************************************************************************)
(* The world.                                                              *)
(***************************************************************************)

\* A thread appears, or a message joins it, perhaps with other people.
MessageArrives ==
    /\ Event
    /\ \E t \in Threads, w \in People :
        box' = [box EXCEPT ![t] = [hid |-> events', who |-> w, recent |-> TRUE]]
    /\ UNCHANGED <<old, dir, folder, meta, pc, local, history>>

DeleteThread ==
    /\ Event
    /\ \E t \in Known(box) :
        box' = [box EXCEPT ![t] = Absent]
    /\ UNCHANGED <<old, dir, folder, meta, pc, local, history>>

\* lookback_days have passed since the first message of a thread, or since all.
TimePasses ==
    /\ Event
    /\ \E t \in Known(box) :
        /\ old' = old \cup {t}
        /\ \E recent \in {box[t].recent, FALSE} :
              box' = [box EXCEPT ![t].recent = recent]
    /\ UNCHANGED <<dir, folder, meta, pc, local, history>>

\* The rules or the entity pages change.
DirectoryChanges ==
    /\ Event
    /\ \E w \in People, l \in Links \cup {None} : dir' = [dir EXCEPT ![w] = l]
    /\ UNCHANGED <<box, old, folder, meta, pc, local, history>>

\* A note that a person has overwritten stays until the thread moves.
EditByHand ==
    /\ Event
    /\ \E p \in Paths, b \in {Hand, Absent} :
        /\ <<p, b>> \in Edits
        /\ folder' = [folder EXCEPT ![p] = b]
        /\ torn' = (torn \/ (p # IndexPath /\ b = Hand))
    /\ edited' = TRUE
    /\ UNCHANGED <<outside, meta, pc, local>>

World == MessageArrives \/ DeleteThread \/ TimePasses \/ DirectoryChanges \/ EditByHand

Next == Pass \/ RequestFails \/ Restart \/ World

Spec == Init /\ [][Next]_vars

\* main() runs one cycle after the other, and the budget always allows a look
\* and a rendering.
FairSpec == Spec /\ WF_vars(Pass)

--------------------------------------------------------------------------------
(***************************************************************************)
(* Properties.                                                             *)
(***************************************************************************)

TypeOK ==
    /\ box \in [Threads -> Thread \cup {Absent}]
    /\ old \subseteq Threads
    /\ dir \in [People -> Links \cup {None}] /\ view \in [People -> Links \cup {None}]
    /\ folder \in [Paths -> Blobs \cup {Absent}]
    /\ existing \in [Paths -> Blobs \cup {Absent}]
    /\ folder[IndexPath] \in IndexFile \cup {Hand, Absent}
    /\ \A p \in NoteSlots : folder[p] \in Note \cup {Hand, Absent}
    /\ meta \in [Threads -> Meta \cup {Absent}]
    /\ pc \in {"idle", "index", "list", "check", "render", "commit"}
    /\ index \in [Threads -> Entry \cup {Absent}]
    /\ listed \in [Threads -> Revisions \cup {Absent}]
    /\ matched \in [Threads -> Match \cup {Absent}]
    /\ checked \in 0 .. MaxFetch
    /\ \A c \in pending : c.path \in Paths
    /\ events \in 0 .. MaxEvents
    /\ edited \in BOOLEAN /\ torn \in BOOLEAN

Entries == Parsed(folder[IndexPath])

Distinct(entries) ==
    \A t, u \in Known(entries) : entries[t].path = entries[u].path => t = u

\* Whatever was postponed, evicted or moved by another thread of the same date
\* and subject, no two threads of the index share a note.
PathsInjective == Distinct(Entries)

\* Every entry of the index has the note it describes, and every note has an entry.
Described(f) ==
    LET entries == Parsed(f[IndexPath])
    IN  /\ \A t \in Known(entries) :
             f[entries[t].path] =
                 [thread |-> t, hid |-> entries[t].hid, link |-> entries[t].link]
        /\ \A p \in NoteSlots :
             f[p] # Absent => \E t \in Known(entries) : entries[t].path = p

\* Between passes, unless one landed only in part or somebody edited the folder,
\* the index says what the notes are: a note that lost its entry would never be
\* deleted, an entry that lost its note never rendered.
IndexMatchesNotes == pc = "idle" /\ ~edited /\ ~torn => Described(folder)

\* What a pass relies on when it looks only at the index: the three together.
Safe == TypeOK /\ PathsInjective /\ IndexMatchesNotes

(***************************************************************************)
(* Why they hold.                                                          *)
(***************************************************************************)

\* A pass works with the folder it listed, which only its own commits change until
\* somebody edits it.
PassListing ==
    /\ pc \in {"idle", "index"} => index = NoThreads
    /\ pc # "commit" => pending = {}
    /\ Distinct(index)
    /\ ~edited => /\ pc \in {"index", "list", "check", "render"} => existing = folder
                  /\ pc \notin {"idle", "index"} => index = Parsed(existing[IndexPath])
                  /\ IsCurrent(folder, pending)

\* The operations left start from the listing and write distinct paths, and an
\* index of distinct notes.
PendingSound ==
    /\ \A c, d \in pending : c.path = d.path => c = d
    /\ \A c \in pending :
          /\ c.from = existing[c.path]
          /\ \/ c.path = IndexPath /\ c.to \in IndexFile /\ Distinct(c.to.entries)
             \/ c.path \in NoteSlots /\ c.to \in Note \cup {Absent}

\* Unless it was edited or a pass was torn, the folder is described before the first
\* batch and after the last.
DescribedAround ==
    ~edited /\ ~torn =>
        IF pc = "commit" THEN Described(existing) /\ Described(Committed(folder, pending))
                         ELSE Described(folder)

\* The inductive invariant.
IInv == TypeOK /\ PathsInjective /\ PassListing /\ PendingSound /\ DescribedAround

\* The note of a thread is up to date: its last history, its people's page.
HasCurrentNote(t) ==
    \E p \in NoteSlots :
        folder[p] = [thread |-> t, hid |-> box[t].hid, link |-> dir[box[t].who]]

Recent == {t \in Known(box) : box[t].recent}

NotesCurrent ==
    \A t \in Recent : dir[box[t].who] # None => HasCurrentNote(t)

\* No thread that does not match, or is gone from the window, has a note; the
\* threads whose first message is old are the exception: the code tells those
\* that age out of the window from deleted ones by that date.
NoStrangers ==
    \A t \in Threads \ old :
        (t \in Recent => dir[box[t].who] = None) =>
            \A p \in NoteSlots : folder[p] # Absent => folder[p].thread # t

\* When the mailbox and the directory come to rest, however small the budget,
\* every matching thread ends up with its current note and no other has one,
\* whatever notes were removed by hand and whatever became of the index, unless a
\* pass landed only in part or a note was overwritten.
Converges == <>[](torn \/ (NotesCurrent /\ NoStrangers))

--------------------------------------------------------------------------------
\* apply_changes under sync_google: whatever is rendered, kept or postponed, index
\* and notes replace and remove only files that are as the pass listed them, so an
\* edit made after the listing is never overwritten unseen.
ASSUME NothingAssumption == Nothing \notin [Paths -> Blobs \cup {Absent}]

Promise == INSTANCE ConditionalCommits
    WITH seen <- IF pc = "idle" THEN Nothing ELSE existing, clock <- events

KeepsPromise == Promise!Spec
================================================================================
