----------------------------- MODULE MessagesSync ------------------------------
(***************************************************************************)
(* brain-messages (apps/ai/brain/messages/messages_sync.py): run,          *)
(* sync_thread, fetch_chat_messages and apply_changes.  A cron job copies  *)
(* the messages of selected threads from BlueBubbles into one note per     *)
(* thread and month.  The index keeps a cursor per thread, always the      *)
(* start of a month; a run fetches each thread that is due from its cursor *)
(* on until its budget is used up, commits the notes, and then the index.  *)
(*                                                                         *)
(* Abstractions: a message is rendered as itself (tapbacks and unsent      *)
(* messages, which are not rendered, are left out); the links and chats    *)
(* that make up the sig of a thread are one revision, and its folder keeps *)
(* its name; `since' is null; the months and names kept in the index for   *)
(* people to read, the README and the Meerkat contacts are left out.       *)
(***************************************************************************)
EXTENDS Naturals, ChangeFiles

CONSTANTS
    Messages,     \* every message that is ever sent
    Backlog,      \* those sent before the first run
    ChatOf,       \* the chat of a message
    Date,         \* dateCreated of a message
    MonthLength,  \* how many dates a month has
    Threads,      \* keys of the threads, in their order
    ChatsOf,      \* the chats of a thread
    PageSize,     \* PAGE_SIZE
    Budget,       \* MAX_MESSAGES_PER_RUN
    IndexPath,    \* Messages/.index.json
    Hand,         \* a file a person wrote
    Editable,     \* bound: the files people edit or remove
    None,         \* no thread at work; no cutoff
    MaxEvents     \* bound: changes, late messages, hand edits and failures

Chats == UNION {ChatsOf[t] : t \in Threads}

ASSUME MessagesAssumption ==
    /\ IsFiniteSet(Messages) /\ Backlog \subseteq Messages
    /\ ChatOf \in [Messages -> Chats]
    /\ Date \in [Messages -> Nat \ {0}]
    /\ \A m, n \in Messages : Date[m] = Date[n] => m = n
ASSUME ThreadsAssumption ==
    /\ Threads \subseteq Nat
    /\ \A t, u \in Threads : ChatsOf[t] \cap ChatsOf[u] # {} => t = u
    /\ \A t \in Threads : ChatsOf[t] # {}
ASSUME BoundsAssumption ==
    /\ MaxEvents \in Nat
    /\ {MonthLength, PageSize, Budget} \subseteq Nat \ {0}

VARIABLES
    server,     \* the messages BlueBubbles has
    chosen,     \* the threads .brain/messages.json selects
    sig,        \* what the sig of each thread comes to
    folder,     \* Messages/ on the branch
    pc,
    selected,   \* the threads of this run
    states,     \* their states
    newest,     \* date of the last message of each chat, as listed
    existing,   \* the listing of the folder
    left,       \* threads not gone through yet
    current,    \* the thread being fetched
    waiting,    \* its chats not fetched yet
    got,        \* its messages fetched so far
    cuts,       \* where the fetches of its chats stopped short
    spent,      \* messages fetched in this run
    pending,    \* operations not posted yet
    events,     \* how much of MaxEvents is used
    late,       \* messages a cursor or a fetch may have passed (history)
    damaged     \* notes others changed or a batch lost (history)

outside == <<server, chosen, sig>>
thread == <<current, waiting, got, cuts>>
local == <<selected, states, newest, existing, left, thread, spent, pending>>
history == <<late, damaged>>
vars == <<outside, folder, pc, local, events, history>>

--------------------------------------------------------------------------------
Month(date) == date \div MonthLength
MonthStart(date) == MonthLength * Month(date)
Sigs == 0 .. MaxEvents
Dates == {0} \cup {Date[m] : m \in Messages}
MonthStarts == {0} \cup {MonthStart(d) : d \in Dates}

OfThread(S, t) == {m \in S : ChatOf[m] \in ChatsOf[t]}

PathOf(t, m) == <<t, Month(Date[m])>>
NotePaths == UNION {{PathOf(t, m) : m \in OfThread(Messages, t)} : t \in Threads}
Paths == NotePaths \cup {IndexPath}

State == [sig : Sigs, cursor : MonthStarts, pending : BOOLEAN, last : Dates]
Note == [messages : SUBSET Messages, sig : Sigs]
IndexFile == [threads : [Threads -> State \cup {Absent}]]
Blobs == Note \cup IndexFile \cup {Hand}

ASSUME DistinctAssumption ==
    /\ IndexPath \notin NotePaths
    /\ Editable \subseteq Paths
    /\ None \notin Threads \cup Nat
    /\ Hand # Absent
    /\ {Hand, Absent} \cap (Note \cup IndexFile \cup State) = {}

NoFiles == [p \in Paths |-> Absent]
NoStates == [t \in Threads |-> Absent]
NoDates == [c \in Chats |-> 0]

\* load_index: unreadable or missing, it starts over.
Loaded(blob) == IF blob \in {Absent, Hand} THEN NoStates ELSE blob.threads

Least(S) == CHOOSE x \in S : \A y \in S : x <= y
Greatest(S) == CHOOSE x \in S : \A y \in S : x >= y
DatesOf(S) == {Date[m] : m \in S}

Init ==
    /\ server = Backlog
    /\ chosen \in SUBSET Threads
    /\ sig = [t \in Threads |-> 0]
    /\ folder = NoFiles
    /\ pc = "idle"
    /\ selected = {} /\ states = NoStates /\ newest = NoDates
    /\ existing = NoFiles /\ left = {}
    /\ current = None /\ waiting = {} /\ got = {} /\ cuts = {}
    /\ spent = 0 /\ pending = {}
    /\ events = 0
    /\ late = {} /\ damaged = {}

Event == events < MaxEvents /\ events' = events + 1

\* The run is over, however it ended.
EndRun ==
    /\ pc' = "idle"
    /\ selected' = {} /\ states' = NoStates /\ newest' = NoDates
    /\ existing' = NoFiles /\ left' = {}
    /\ current' = None /\ waiting' = {} /\ got' = {} /\ cuts' = {}
    /\ spent' = 0 /\ pending' = {}

--------------------------------------------------------------------------------
(***************************************************************************)
(* The run, request by request.                                            *)
(***************************************************************************)

\* The allowlist and the index.
Begin ==
    /\ pc = "idle"
    /\ pc' = "chats"
    /\ selected' = chosen
    /\ states' = Loaded(folder[IndexPath])
    /\ UNCHANGED <<outside, folder, newest, existing, left, thread, spent, pending, events, history>>

\* fetch_chats: the last message of every chat; none at all ends the run.
ListChats ==
    /\ pc = "chats"
    /\ server # {}
    /\ pc' = "list"
    /\ newest' = [c \in Chats |->
                     Greatest({0} \cup {Date[m] : m \in {n \in server : ChatOf[n] = c}})]
    /\ UNCHANGED <<outside, folder, selected, states, existing, left, thread, spent,
                   pending, events, history>>

\* No chats, whether there are none or the answer lacks them: SourceDown.
NoChats ==
    /\ pc = "chats"
    /\ IF server = {} THEN UNCHANGED events ELSE Event
    /\ EndRun
    /\ UNCHANGED <<outside, folder, history>>

\* A new thread, or one whose sig changed, starts from scratch.
Reset(t) == [sig |-> sig[t], cursor |-> 0, pending |-> TRUE, last |-> 0]

\* list_tree, and the state each selected thread goes in with.
ListNotes ==
    /\ pc = "list"
    /\ pc' = "threads"
    /\ existing' = folder
    /\ left' = selected
    /\ states' = [t \in Threads |->
                     IF t \notin selected THEN Absent
                     ELSE IF states[t] = Absent \/ states[t].sig # sig[t]
                     THEN Reset(t) ELSE states[t]]
    /\ UNCHANGED <<outside, folder, selected, newest, thread, spent, pending, events, history>>

Due(t) ==
    \/ states[t].pending
    \/ \E c \in ChatsOf[t] : newest[c] > states[t].last

\* Threads that are pending come after the others, else in order of their keys.
IsNext(t) ==
    /\ t \in left
    /\ \A u \in left :
        \/ ~states[t].pending /\ states[u].pending
        \/ states[t].pending = states[u].pending /\ t <= u

SkipThread ==
    /\ pc = "threads" /\ current = None
    /\ \E t \in left :
        /\ IsNext(t)
        /\ ~Due(t) \/ spent >= Budget
        /\ left' = left \ {t}
    /\ UNCHANGED <<outside, folder, pc, selected, states, newest, existing, thread,
                   spent, pending, events, history>>

StartThread ==
    /\ pc = "threads" /\ current = None
    /\ \E t \in left :
        /\ IsNext(t)
        /\ Due(t) /\ spent < Budget
        /\ current' = t
        /\ waiting' = ChatsOf[t]
    /\ UNCHANGED <<outside, folder, pc, selected, states, newest, existing, left, got,
                   cuts, spent, pending, events, history>>

--------------------------------------------------------------------------------
(***************************************************************************)
(* fetch_chat_messages: whole pages, oldest first, until a short page or   *)
(* until the budget is used up and a second month begun.                   *)
(***************************************************************************)
FromCursor(c, cursor) == {m \in server : ChatOf[m] = c /\ Date[m] >= cursor}

Oldest(S, k) == {m \in S : Cardinality({n \in S : Date[n] < Date[m]}) < k}

IsShort(S, pages) == Cardinality(S) < pages * PageSize

LastMonth(S) == Month(Greatest(DatesOf(S)))
FirstMonth(S) == Month(Least(DatesOf(S)))

StopsAt(S, pages, budget) ==
    \/ IsShort(S, pages)
    \/ LET part == Oldest(S, pages * PageSize)
       IN Cardinality(part) >= budget /\ LastMonth(part) > FirstMonth(part)

Pages(S, budget) == Least({k \in 1 .. Cardinality(S) + 1 : StopsAt(S, k, budget)})

CutOf(part) == MonthStart(Greatest(DatesOf(part)))

\* The chats of a thread come in the order BlueBubbles lists them.
FetchChat ==
    /\ pc = "threads" /\ current # None
    /\ \E c \in waiting :
        LET all    == FromCursor(c, states[current].cursor)
            budget == Greatest({1, IF spent + Cardinality(got) < Budget
                                   THEN Budget - spent - Cardinality(got) ELSE 1})
            pages  == Pages(all, budget)
            part   == Oldest(all, pages * PageSize)
        IN  /\ waiting' = waiting \ {c}
            /\ got' = got \cup part
            /\ cuts' = IF IsShort(all, pages) THEN cuts ELSE cuts \cup {CutOf(part)}
    /\ UNCHANGED <<outside, folder, pc, selected, states, newest, existing, left,
                   current, spent, pending, events, history>>

\* Variant: the thread is cut where the chat that got furthest stopped.
CutoffLast == Greatest(cuts)

Cutoff == Least(cuts)

Kept == {m \in got : cuts = {} \/ Date[m] < Cutoff}

\* Variant: every month from the cursor on counts as rendered.
InRangeOpen(month) == Month(states[current].cursor) <= month

\* The months this fetch is complete for.
InRange(month) ==
    /\ Month(states[current].cursor) <= month
    /\ cuts = {} \/ month < Month(Cutoff)

\* Variant: a fetch that was cut short counts as complete.
StateAfterAny(st) ==
    [st EXCEPT !.last = Greatest({@} \cup DatesOf(got)),
               !.cursor = IF cuts = {} THEN @ ELSE Cutoff,
               !.pending = FALSE]

\* A thread that was cut goes on from there; a complete one waits for a message
\* newer than those fetched, and will start again with their last month.
StateAfter(st) ==
    IF cuts # {} THEN [st EXCEPT !.cursor = Cutoff, !.pending = TRUE]
    ELSE [st EXCEPT !.last = Greatest({@} \cup DatesOf(got)),
                    !.cursor = IF got = {} THEN @ ELSE MonthStart(Greatest(DatesOf(got))),
                    !.pending = FALSE]

\* The rest of sync_thread, and what apply_changes will make of it: the notes of
\* different threads do not meet.
RenderThread ==
    /\ pc = "threads" /\ current # None /\ waiting = {}
    /\ LET shown(p) == {m \in Kept : PathOf(current, m) = p}
           notes == [p \in Paths |->
                        IF p \in NotePaths /\ p[1] = current /\ shown(p) # {}
                        THEN [messages |-> shown(p), sig |-> states[current].sig]
                        ELSE Absent]
           inRange == {p \in NotePaths : p[1] = current /\ InRange(p[2])}
       IN pending' = pending \cup Diff(notes, existing, Paths \ inRange)
    /\ states' = [states EXCEPT ![current] = StateAfter(@)]
    /\ left' = left \ {current}
    /\ spent' = spent + Cardinality(got)
    /\ current' = None /\ waiting' = {} /\ got' = {} /\ cuts' = {}
    /\ UNCHANGED <<outside, folder, pc, selected, newest, existing, events, history>>

--------------------------------------------------------------------------------
(***************************************************************************)
(* The commits: the notes, and then the index.                             *)
(***************************************************************************)

\* The notes of threads that are not selected go.
DiffNotes ==
    /\ pc = "threads" /\ current = None /\ left = {}
    /\ pc' = "notes"
    /\ LET strangers == {p \in NotePaths : p[1] \notin selected}
       IN pending' = pending \cup Diff(NoFiles, existing, Paths \ strangers)
    /\ UNCHANGED <<outside, folder, selected, states, newest, existing, left, thread,
                   spent, events, history>>

DiffIndex ==
    /\ pc = "notes" /\ pending = {}
    /\ pc' = "index"
    /\ pending' = Diff([NoFiles EXCEPT ![IndexPath] = [threads |-> states]],
                       existing, NotePaths)
    /\ UNCHANGED <<outside, folder, selected, states, newest, existing, left, thread,
                   spent, events, history>>

Written(batch) == {c.path : c \in batch}
Unselected(batch) == {p \in Written(batch) \ {IndexPath} : p[1] \notin selected}

\* A batch lands.  A note it writes is whole again; one it deletes because the
\* thread is not selected is missing if the thread ever comes back, until the
\* index has forgotten the thread.
Landed(batch) ==
    /\ folder' = Committed(folder, batch)
    /\ damaged' =
         IF IndexPath \in Written(batch)
         THEN {p \in damaged : p[1] \in selected}
         ELSE (damaged \ Written(batch)) \cup Unselected(batch)

\* Variant: the index is committed as it is, whoever changed it since the listing.
PostBatchForced ==
    /\ pc \in {"notes", "index"}
    /\ \E b \in Batches(pending, {}) :
        /\ pc = "index" \/ IsCurrent(folder, b)
        /\ Landed(b)
        /\ pending' = pending \ b
    /\ UNCHANGED <<outside, pc, selected, states, newest, existing, left, thread, spent,
                   events, late>>

PostBatch ==
    /\ pc \in {"notes", "index"}
    /\ \E b \in Batches(pending, {}) :
        /\ IsCurrent(folder, b)
        /\ Landed(b)
        /\ pending' = pending \ b
    /\ UNCHANGED <<outside, pc, selected, states, newest, existing, left, thread, spent,
                   events, late>>

\* 422: http_json raises, the job fails.
PostRefused ==
    /\ pc \in {"notes", "index"}
    /\ \E b \in Batches(pending, {}) : IsStale(folder, b)
    /\ EndRun
    /\ UNCHANGED <<outside, folder, events, history>>

\* 404: http_json returns None, and the run goes on without the batch.
PostDropped ==
    /\ pc \in {"notes", "index"}
    /\ \E b \in Batches(pending, {}) :
        /\ IsGone(folder, b)
        /\ pending' = pending \ b
        /\ damaged' = damaged \cup (Written(b) \ {IndexPath})
    /\ UNCHANGED <<outside, folder, pc, selected, states, newest, existing, left, thread,
                   spent, events, late>>

Finish ==
    /\ pc = "index" /\ pending = {}
    /\ EndRun
    /\ UNCHANGED <<outside, folder, events, history>>

Run ==
    \/ Begin \/ ListChats \/ NoChats \/ ListNotes
    \/ SkipThread \/ StartThread \/ FetchChat \/ RenderThread
    \/ DiffNotes \/ DiffIndex \/ PostBatch \/ PostRefused \/ PostDropped \/ Finish

--------------------------------------------------------------------------------
(***************************************************************************)
(* Failures and the world.                                                 *)
(***************************************************************************)
\* BlueBubbles is down, a request fails for good, or the job is killed.
RunFails ==
    /\ pc # "idle"
    /\ Event
    /\ EndRun
    /\ UNCHANGED <<outside, folder, history>>

\* A commit is made but its answer is lost; posted again it is refused.
AnswerLost ==
    /\ pc \in {"notes", "index"}
    /\ Event
    /\ \E b \in Batches(pending, {}) : IsCurrent(folder, b) /\ Landed(b)
    /\ EndRun
    /\ UNCHANGED <<outside, late>>

\* The only chat of a thread is missing in the answer, or the contacts are: it
\* counts as not selected.
ListingPartial ==
    /\ pc = "list"
    /\ Event
    /\ \E S \in SUBSET selected : selected' = S
    /\ UNCHANGED <<outside, folder, pc, states, newest, existing, left, thread, spent,
                   pending, history>>

ThreadOf(m) == CHOOSE t \in Threads : ChatOf[m] \in ChatsOf[t]

\* A message is sent.
MessageArrives ==
    /\ \E m \in Messages \ server :
        /\ \A n \in OfThread(server, ThreadOf(m)) : Date[n] < Date[m]
        /\ server' = server \cup {m}
        /\ late' = IF current = ThreadOf(m) /\ ChatOf[m] \notin waiting
                   THEN late \cup {m} ELSE late
    /\ UNCHANGED <<chosen, sig, folder, pc, local, events, damaged>>

\* The Mac learns of a message after a later one of the same thread.
LateMessage ==
    /\ Event
    /\ \E m \in Messages \ server :
        /\ \E n \in OfThread(server, ThreadOf(m)) : Date[n] > Date[m]
        /\ server' = server \cup {m}
        /\ late' = late \cup {m}
    /\ UNCHANGED <<chosen, sig, folder, pc, local, damaged>>

\* .brain/messages.json selects other threads.
ChooseThreads ==
    /\ Event
    /\ \E S \in SUBSET Threads : chosen' = S
    /\ UNCHANGED <<server, sig, folder, pc, local, history>>

\* The links of a thread change, or it gains a chat without messages.
SigChanges ==
    /\ Event
    /\ \E t \in Threads : sig' = [sig EXCEPT ![t] = events']
    /\ UNCHANGED <<server, chosen, folder, pc, local, history>>

\* Somebody writes or removes a file of the folder.
EditByHand ==
    /\ Event
    /\ \E p \in Editable, b \in {Hand, Absent} :
        /\ folder' = [folder EXCEPT ![p] = b]
        /\ damaged' = damaged \cup ({p} \ {IndexPath})
    /\ UNCHANGED <<outside, pc, local, late>>

World ==
    \/ RunFails \/ AnswerLost \/ ListingPartial \/ MessageArrives \/ LateMessage
    \/ ChooseThreads \/ SigChanges \/ EditByHand

Next == Run \/ World

Spec == Init /\ [][Next]_vars

\* The cron job starts a run every ten minutes, and every request of it has a
\* timeout.
FairSpec == Spec /\ WF_vars(Run)

--------------------------------------------------------------------------------
(***************************************************************************)
(* Properties.                                                             *)
(***************************************************************************)

IsFolder(f) ==
    /\ DOMAIN f = Paths
    /\ \A p \in NotePaths : f[p] \in Note \cup {Hand, Absent}
    /\ f[IndexPath] \in IndexFile \cup {Hand, Absent}

\* Every variable stays in its type; in particular a cursor is always the start
\* of a month, so that a month is never rendered from its middle on.
TypeOK ==
    /\ server \subseteq Messages /\ chosen \subseteq Threads
    /\ sig \in [Threads -> Sigs]
    /\ IsFolder(folder) /\ IsFolder(existing)
    /\ pc \in {"idle", "chats", "list", "threads", "notes", "index"}
    /\ selected \subseteq Threads /\ left \subseteq selected
    /\ states \in [Threads -> State \cup {Absent}]
    /\ newest \in [Chats -> Dates]
    /\ current \in Threads \cup {None} /\ waiting \subseteq Chats
    /\ got \subseteq Messages /\ cuts \subseteq MonthStarts
    /\ spent \in Nat
    /\ \A c \in pending : c.path \in Paths
    /\ events \in 0 .. MaxEvents
    /\ late \subseteq Messages /\ damaged \subseteq NotePaths

MessagesIn(blob) == IF blob \in {Hand, Absent} THEN {} ELSE blob.messages
Shown(f, p) == MessagesIn(f[p])

Entries == Loaded(folder[IndexPath])

\* What the cursor has passed is in the notes: a message before the stored
\* cursor of its thread, unless it came late or its note was damaged, is shown,
\* however the runs were cut at months, shared the budget between chats or broke
\* off between the notes and the index.
NothingSkipped ==
    \A t \in Threads : \A m \in OfThread(server \ late, t) :
        /\ Entries[t] # Absent
        /\ Date[m] < Entries[t].cursor
        /\ PathOf(t, m) \notin damaged
        => m \in Shown(folder, PathOf(t, m))

\* The cursors can be trusted.
Safe == TypeOK /\ NothingSkipped

\* No step ever takes a message out of a note, but an edit by hand and the
\* deletion of a thread that is not selected, or not found by the run.
NeverForgets ==
    [][\A p \in NotePaths :
          p \notin damaged' => Shown(folder, p) \subseteq Shown(folder', p)]_vars

(***************************************************************************)
(* Why they hold.                                                          *)
(***************************************************************************)

\* The messages that belong into a note.
Of(S, p) == {m \in OfThread(S, p[1]) : PathOf(p[1], m) = p}

\* No note shows what is not sent, or what belongs elsewhere.
NotesTrue ==
    \A p \in NotePaths : Shown(folder, p) \cup Shown(existing, p) \subseteq Of(server, p)

\* A cursor does not run ahead of the messages of its thread.
IsReached(st, t) ==
    st # Absent => st.cursor = 0 \/ \E n \in OfThread(server, t) : st.cursor <= Date[n]

CursorsReached == \A t \in Threads : IsReached(Entries[t], t) /\ IsReached(states[t], t)

\* An operation that will write a note writes all that it showed when listed, and
\* all that a cursor has passed or will pass with this run.
IsWhole(c) ==
    c.path[1] \in selected =>
        /\ Shown(existing, c.path) \subseteq MessagesIn(c.to)
        /\ \A m \in Of(server \ late, c.path) \ MessagesIn(c.to) :
              \A st \in {Entries[c.path[1]], states[c.path[1]]} \ {Absent} : st.cursor <= Date[m]

\* What is left to post: notes first, each once, and then the index.
PendingSound ==
    /\ \A c, d \in pending : c.path = d.path => c = d
    /\ \A c \in pending :
          /\ pc \in {"threads", "notes", "index"} /\ c.from = existing[c.path]
          /\ IF pc = "index" THEN c.path = IndexPath /\ c.to = [threads |-> states]
             ELSE /\ c.path \in NotePaths /\ c.to \in Note \cup {Absent}
                  /\ MessagesIn(c.to) \subseteq Of(server, c.path)
                  /\ IsWhole(c)
          /\ pc = "threads" => c.path[1] \in selected \ left

\* What the cursors of this run have passed is in the notes, or about to be written.
CursorsSound ==
    /\ pc \in {"threads", "notes", "index"} => selected = {t \in Threads : states[t] # Absent}
    /\ \A t \in Threads : states[t] # Absent =>
          \A m \in OfThread(server \ late, t) : Date[m] < states[t].cursor =>
              \/ PathOf(t, m) \in damaged \/ m \in Shown(folder, PathOf(t, m))
              \/ \E c \in pending : c.path = PathOf(t, m)

\* Until the first commit only people change the folder.
FolderListed ==
    pc = "threads" => \A p \in NotePaths : p \in damaged \/ folder[p] = existing[p]

\* What has been fetched of a thread is all from its cursor on, up to the cuts: every
\* message that was there, those that came in late and were shown before included.
FetchComplete ==
    /\ left # {} => pc = "threads"
    /\ IF current = None THEN waiting = {} /\ got = {} /\ cuts = {}
       ELSE /\ current \in left /\ waiting \subseteq ChatsOf[current]
            /\ got \subseteq {m \in OfThread(server, current) : states[current].cursor <= Date[m]}
            /\ cuts \subseteq {MonthStart(Date[n]) : n \in got}
            /\ \A m \in OfThread(server, current) \ got :
                  \/ Date[m] < states[current].cursor \/ ChatOf[m] \in waiting
                  \/ m \in late /\ m \notin Shown(existing, PathOf(current, m))
                  \/ \E x \in cuts : x <= Date[m]

\* The inductive invariant.
IInv ==
    /\ TypeOK /\ NothingSkipped /\ NotesTrue /\ CursorsReached
    /\ PendingSound /\ CursorsSound /\ FolderListed /\ FetchComplete

IsComplete(t, p) ==
    /\ {m \in OfThread(server \ late, t) : PathOf(t, m) = p} \subseteq Shown(folder, p)
    /\ Shown(folder, p) # {} => folder[p].sig = sig[t]

\* When messages, configuration and people come to rest, every selected thread
\* has all its messages in its notes, rendered with the names of today, and no
\* other thread has any note; damaged notes and late messages aside.
Converges ==
    <>[](\A p \in NotePaths :
            IF p[1] \in chosen THEN p \in damaged \/ IsComplete(p[1], p)
                               ELSE server = {} \/ folder[p] = Absent)

(***************************************************************************)
(* The promise of ConditionalCommits, for both commits of a run: the notes *)
(* and, later, the index are written with the shas of one listing.         *)
(***************************************************************************)
CONSTANT Nothing

ASSUME NothingAssumption == Nothing \notin [Paths -> Blobs \cup {Absent}]

Promise == INSTANCE ConditionalCommits
    WITH seen <- IF pc \in {"idle", "chats", "list"} THEN Nothing ELSE existing,
         clock <- events

KeepsPromise == Promise!Spec
================================================================================
