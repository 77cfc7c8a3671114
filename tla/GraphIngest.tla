------------------------------ MODULE GraphIngest ------------------------------
(***************************************************************************)
(* graph-ingest (apps/ai/graph/ingest/brain_ingest.py): Ingester.remove,   *)
(* Ingester.add, cycle and main.  A worker keeps the notes of the branch   *)
(* as episodes in a graph database, one episode for each part of a note.   *)
(* A state file says which episodes hold which text of a note; it is saved *)
(* after every note.                                                       *)
(*                                                                         *)
(* Abstractions: the hash of a note is its text, and of a text only the    *)
(* number of its parts matters; which of the pending notes a batch takes   *)
(* (the code: the newest) is left open; dates, names and metrics are left  *)
(* out; writing the state file does not fail.                              *)
(***************************************************************************)
EXTENDS Naturals, Sequences, FiniteSets

CONSTANTS
    Notes,        \* paths of notes
    Texts,        \* what a note may say, as render returns it
    Parts,        \* how many chunks a text has; none if it is empty
    Ids,          \* uuids of episodes
    Absent,       \* no note, no entry, no episode
    BatchSize,    \* BATCH_SIZE
    MaxAttempts,  \* MAX_ATTEMPTS
    MaxEvents     \* bound: commits and failures

ASSUME TextsAssumption ==
    /\ Parts \in [Texts -> Nat]
    /\ Absent \notin Texts
ASSUME BoundsAssumption ==
    /\ IsFiniteSet(Notes)
    /\ MaxEvents \in Nat
    /\ {BatchSize, MaxAttempts} \subseteq Nat \ {0}

VARIABLES
    repo,     \* the notes on the branch
    head,     \* its head commit
    graph,    \* the episodes in the database
    disk,     \* STATE_PATH
    state,    \* the worker's copy of it
    pc,
    commit,   \* the head this cycle goes by
    notes,    \* the archive it read
    batch,    \* notes of the batch not begun yet
    waiting,  \* the pending notes that are not done yet
    current,  \* the note at work
    todo,     \* its episodes still to be removed
    added,    \* its new episodes
    events,   \* how much of MaxEvents is used
    strays,   \* episodes a failure may have left behind (history)
    torn      \* notes whose removal a restart interrupted (history)

world == <<repo, head>>
locals == <<commit, notes, batch, waiting, current, todo, added>>
history == <<strays, torn>>
vars == <<world, graph, disk, state, pc, locals, events, history>>

--------------------------------------------------------------------------------
Commits == 0 .. MaxEvents
Archive == [Notes -> Texts \cup {Absent}]
Entry == [text : Texts, episodes : Seq(Ids)]
Failure == [text : Texts, count : 1 .. MaxAttempts]
State == [notes : [Notes -> Entry \cup {Absent}],
          failures : [Notes -> Failure \cup {Absent}],
          commit : Commits \cup {Absent}, backlog : BOOLEAN]
Episode == [note : Notes, text : Texts, part : Nat \ {0}]

ASSUME AbsentAssumption ==
    Absent \notin Notes \cup Entry \cup Failure \cup Episode \cup Commits \cup Archive

Nothing == [n \in Notes |-> Absent]

\* load_state without a file.
NoState == [notes |-> Nothing, failures |-> Nothing, commit |-> Absent, backlog |-> TRUE]

UuidsOf(seq) == {seq[i] : i \in DOMAIN seq}
UuidsIn(st) == {id \in Ids : \E n \in Notes : /\ st.notes[n] # Absent
                                            /\ id \in UuidsOf(st.notes[n].episodes)}
InGraph == {id \in Ids : graph[id] # Absent}

\* A uuid nobody has seen.
Used == InGraph \cup UuidsIn(state) \cup UuidsIn(disk) \cup todo \cup UuidsOf(added) \cup strays
NewUuid == CHOOSE id \in Ids : id \notin Used

\* The cycle is over, or the process is a new one.
Rest ==
    /\ commit' = Absent /\ notes' = Nothing
    /\ batch' = {} /\ waiting' = {}
    /\ current' = Absent /\ todo' = {} /\ added' = <<>>

Init ==
    /\ repo \in Archive
    /\ head = 0
    /\ graph = [id \in Ids |-> Absent]
    /\ disk = NoState /\ state = NoState
    /\ pc = "wait"
    /\ commit = Absent /\ notes = Nothing /\ batch = {} /\ waiting = {}
    /\ current = Absent /\ todo = {} /\ added = <<>>
    /\ events = 0
    /\ strays = {} /\ torn = {}

\* One of the bounded number of commits and failures.
Event == events < MaxEvents /\ events' = events + 1

\* save_state.
Save(st) == state' = st /\ disk' = st

--------------------------------------------------------------------------------
(***************************************************************************)
(* A cycle, await by await.                                                *)
(***************************************************************************)

\* head_commit; without a backlog nothing is due until the head moves.
ReadHead ==
    /\ pc = "wait"
    /\ IF head = state.commit /\ ~state.backlog
       THEN UNCHANGED <<pc, commit>>
       ELSE pc' = "load" /\ commit' = head
    /\ UNCHANGED <<world, graph, disk, state, notes, batch, waiting, current, todo,
                   added, events, history>>

\* load_notes: the archive may be newer than the head read before.
LoadNotes ==
    /\ pc = "load"
    /\ notes' = repo
    /\ pc' = "gone"
    /\ UNCHANGED <<world, graph, disk, state, commit, batch, waiting, current, todo,
                   added, events, history>>

Gone == {n \in Notes : state.notes[n] # Absent /\ notes[n] = Absent}

\* A note that was deleted.
DropNote ==
    /\ pc = "gone"
    /\ \E n \in Gone :
        /\ current' = n
        /\ todo' = UuidsOf(state.notes[n].episodes)
    /\ pc' = "drop"
    /\ UNCHANGED <<world, graph, disk, state, commit, notes, batch, waiting, added,
                   events, history>>

GivenUp(st, n, text) ==
    /\ st.failures[n] # Absent
    /\ st.failures[n].text = text
    /\ st.failures[n].count >= MaxAttempts

\* The failures of deleted notes are forgotten, not yet saved.
Pruned ==
    [state EXCEPT !.failures = [n \in Notes |-> IF notes[n] = Absent THEN Absent
                                            ELSE state.failures[n]]]

\* Variant: the texts are not compared.
PendingAll ==
    {n \in Notes :
        /\ notes[n] # Absent
        /\ Parts[notes[n]] > 0
        /\ ~GivenUp(Pruned, n, notes[n])}

\* New and changed notes; an empty one is passed over, whatever it said before.
Pending ==
    {n \in Notes :
        /\ notes[n] # Absent
        /\ Parts[notes[n]] > 0
        /\ state.notes[n] = Absent \/ state.notes[n].text # notes[n]
        /\ ~GivenUp(Pruned, n, notes[n])}

SelectNotes ==
    /\ pc = "gone"
    /\ Gone = {}
    /\ \E S \in SUBSET Pending :
        /\ Cardinality(S) = IF Cardinality(Pending) < BatchSize
                            THEN Cardinality(Pending) ELSE BatchSize
        /\ batch' = S
    /\ waiting' = Pending
    /\ state' = Pruned
    /\ pc' = "batch"
    /\ UNCHANGED <<world, graph, disk, commit, notes, current, todo, added, events, history>>

\* Variant: the old episodes go when the note has its new ones.
NextNoteAdding ==
    /\ pc = "batch"
    /\ \E n \in batch :
        /\ current' = n
        /\ batch' = batch \ {n}
    /\ pc' = "add" /\ todo' = {}
    /\ UNCHANGED <<world, graph, disk, state, commit, notes, waiting, added, events, history>>

\* A changed note loses its episodes first.
NextNote ==
    /\ pc = "batch"
    /\ \E n \in batch :
        /\ current' = n
        /\ batch' = batch \ {n}
        /\ IF state.notes[n] = Absent
           THEN pc' = "add" /\ todo' = {}
           ELSE pc' = "remove" /\ todo' = UuidsOf(state.notes[n].episodes)
    /\ UNCHANGED <<world, graph, disk, state, commit, notes, waiting, added, events, history>>

\* Ingester.remove, one episode; one that is gone already will do.
RemoveEpisode ==
    /\ pc \in {"drop", "remove", "cleanup"}
    /\ \E id \in todo :
        /\ graph' = [graph EXCEPT ![id] = Absent]
        /\ todo' = todo \ {id}
    /\ UNCHANGED <<world, disk, state, pc, commit, notes, batch, waiting, current, added,
                   events, history>>

\* Variant: it is saved with the next note only.
ForgetUnsaved ==
    /\ pc \in {"drop", "remove"}
    /\ todo = {}
    /\ state' = [state EXCEPT !.notes[current] = Absent]
    /\ torn' = torn \ {current}
    /\ pc' = IF pc = "drop" THEN "gone" ELSE "add"
    /\ current' = IF pc = "drop" THEN Absent ELSE current
    /\ UNCHANGED <<world, graph, disk, commit, notes, batch, waiting, todo, added, events,
                   strays>>

\* Every episode was tried: the entry goes, and that is saved.
Forget ==
    /\ pc \in {"drop", "remove"}
    /\ todo = {}
    /\ Save([state EXCEPT !.notes[current] = Absent])
    /\ torn' = torn \ {current}
    /\ pc' = IF pc = "drop" THEN "gone" ELSE "add"
    /\ current' = IF pc = "drop" THEN Absent ELSE current
    /\ UNCHANGED <<world, graph, commit, notes, batch, waiting, todo, added, events, strays>>

\* add_episode of the next part.
AddPart ==
    /\ pc = "add"
    /\ Len(added) < Parts[notes[current]]
    /\ Ids \ Used # {}
    /\ graph' = [graph EXCEPT ![NewUuid] = [note |-> current, text |-> notes[current],
                                            part |-> Len(added) + 1]]
    /\ added' = Append(added, NewUuid)
    /\ UNCHANGED <<world, disk, state, pc, commit, notes, batch, waiting, current, todo,
                   events, history>>

StoreNote ==
    /\ pc = "add"
    /\ Len(added) = Parts[notes[current]]
    /\ Save([state EXCEPT !.notes[current] = [text |-> notes[current], episodes |-> added],
                          !.failures[current] = Absent])
    /\ waiting' = waiting \ {current}
    /\ pc' = "batch"
    /\ current' = Absent /\ added' = <<>>
    /\ UNCHANGED <<world, graph, commit, notes, batch, todo, events, history>>

\* Variant: what was added is left there.
AddFailsKeeping ==
    /\ pc = "add"
    /\ Len(added) < Parts[notes[current]]
    /\ Event
    /\ pc' = "cleanup"
    /\ added' = <<>>
    /\ UNCHANGED <<world, graph, disk, state, commit, notes, batch, waiting, current,
                   todo, history>>

\* add_episode raises, with or without having stored the episode; what add has
\* added so far is taken back.
AddFails ==
    /\ pc = "add"
    /\ Len(added) < Parts[notes[current]]
    /\ Event
    /\ \/ UNCHANGED <<graph, strays>>
       \/ /\ Ids \ Used # {}
          /\ graph' = [graph EXCEPT ![NewUuid] = [note |-> current, text |-> notes[current],
                                                  part |-> Len(added) + 1]]
          /\ strays' = strays \cup {NewUuid}
    /\ pc' = "cleanup"
    /\ todo' = UuidsOf(added)
    /\ added' = <<>>
    /\ UNCHANGED <<world, disk, state, commit, notes, batch, waiting, current, torn>>

Attempts == IF state.failures[current] # Absent /\ state.failures[current].text = notes[current]
            THEN state.failures[current].count + 1 ELSE 1

\* Variant: a note that failed is not pending any more.
CountFailureDone ==
    /\ pc = "cleanup"
    /\ todo = {}
    /\ Save([state EXCEPT !.failures[current] = [text |-> notes[current], count |-> Attempts]])
    /\ waiting' = waiting \ {current}
    /\ pc' = "batch"
    /\ current' = Absent
    /\ UNCHANGED <<world, graph, commit, notes, batch, todo, added, events, history>>

\* The attempt is counted; a connection error ends the batch.
CountFailure ==
    /\ pc = "cleanup"
    /\ todo = {}
    /\ Save([state EXCEPT !.failures[current] = [text |-> notes[current], count |-> Attempts]])
    /\ \/ UNCHANGED batch
       \/ batch' = {}
    /\ pc' = "batch"
    /\ current' = Absent
    /\ UNCHANGED <<world, graph, commit, notes, waiting, todo, added, events, history>>

FinishCycle ==
    /\ pc = "batch"
    /\ batch = {}
    /\ Save([state EXCEPT !.commit = commit, !.backlog = waiting # {}])
    /\ pc' = "wait"
    /\ Rest
    /\ UNCHANGED <<world, graph, events, history>>

Cycle ==
    \/ ReadHead \/ LoadNotes \/ DropNote \/ SelectNotes \/ NextNote
    \/ RemoveEpisode \/ Forget \/ AddPart \/ StoreNote \/ CountFailure \/ FinishCycle

--------------------------------------------------------------------------------
(***************************************************************************)
(* Failures and the world.                                                 *)
(***************************************************************************)
\* The exception is logged, and the episode counts as removed.
RemoveFails ==
    /\ pc \in {"drop", "remove", "cleanup"}
    /\ Event
    /\ \E id \in todo :
        /\ todo' = todo \ {id}
        /\ strays' = strays \cup {id}
    /\ UNCHANGED <<world, graph, disk, state, pc, commit, notes, batch, waiting, current,
                   added, torn>>

\* The archive cannot be read: the cycle ends, the state is as before.
LoadFails ==
    /\ pc = "load"
    /\ Event
    /\ pc' = "wait"
    /\ Rest
    /\ UNCHANGED <<world, graph, disk, state, history>>

\* STOP, before the next note; the cycle ends as it always does, and the next
\* process finds what it saved.
Stop ==
    /\ pc = "batch" /\ batch # {}
    /\ Event
    /\ batch' = {}
    /\ UNCHANGED <<world, graph, disk, state, pc, commit, notes, waiting, current, todo,
                   added, history>>

\* The process is killed; what an add had in the graph is known to nobody.
Restart ==
    /\ Event
    /\ state' = disk
    /\ pc' = "wait"
    /\ Rest
    /\ strays' = strays \cup UuidsOf(added) \cup (IF pc = "cleanup" THEN todo ELSE {})
    /\ torn' = IF pc \in {"drop", "remove"} THEN torn \cup {current} ELSE torn
    /\ UNCHANGED <<world, graph, disk>>

\* A commit changes, adds or deletes a note.
CommitNote ==
    /\ Event
    /\ \E n \in Notes, t \in Texts \cup {Absent} :
        /\ t # repo[n]
        /\ repo' = [repo EXCEPT ![n] = t]
    /\ head' = events'
    /\ UNCHANGED <<graph, disk, state, pc, locals, history>>

World == RemoveFails \/ AddFails \/ LoadFails \/ Stop \/ Restart \/ CommitNote

Next == Cycle \/ World

Spec == Init /\ [][Next]_vars

\* main repeats the cycle at every INTERVAL_SECONDS and after every exception; the
\* clients of the database and the model have timeouts.
FairSpec == Spec /\ WF_vars(Cycle)

--------------------------------------------------------------------------------
(***************************************************************************)
(* Properties.                                                             *)
(***************************************************************************)

\* Every variable stays in its type; in particular no note fails more than
\* MAX_ATTEMPTS times with one text.
TypeOK ==
    /\ repo \in Archive /\ head \in Commits
    /\ graph \in [Ids -> Episode \cup {Absent}]
    /\ disk \in State /\ state \in State
    /\ pc \in {"wait", "load", "gone", "drop", "batch", "remove", "add", "cleanup"}
    /\ commit \in Commits \cup {Absent}
    /\ notes \in Archive
    /\ batch \subseteq Notes /\ waiting \subseteq Notes
    /\ current \in Notes \cup {Absent}
    /\ todo \subseteq Ids /\ added \in Seq(Ids)
    /\ events \in 0 .. MaxEvents
    /\ strays \subseteq Ids /\ torn \subseteq Notes

\* An episode can always be found again: it is in the state file, or the worker
\* has it at hand, or a failure has left it behind.
EpisodesKnown ==
    InGraph \subseteq UuidsIn(disk) \cup UuidsOf(added) \cup todo \cup strays

\* Types, which bound the attempts at a note, and no episode out of sight.
Safe == TypeOK /\ EpisodesKnown

\* The graph never holds two texts of one note, but for what failures left behind:
\* the old episodes are gone before the first new one comes, also when the process
\* was killed or the note changed back in between.
NeverMixed ==
    \A id, other \in InGraph \ strays :
        graph[id].note = graph[other].note => graph[id].text = graph[other].text

IsWhole(n, entry) ==
    /\ Len(entry.episodes) = Parts[entry.text]
    /\ \A i \in DOMAIN entry.episodes :
          graph[entry.episodes[i]] = [note |-> n, text |-> entry.text, part |-> i]

Removing(n) == pc \in {"drop", "remove"} /\ current = n

\* What the state file says a note has in the graph is there, every part of it,
\* unless it is being removed or a restart interrupted that: the file alone
\* decides that a note needs no work.
EntriesWhole ==
    \A n \in Notes :
        disk.notes[n] # Absent /\ ~Removing(n) /\ n \notin torn => IsWhole(n, disk.notes[n])

\* What the graph is known to show: the text of an entry that is whole.
Shown == [n \in Notes |->
             IF disk.notes[n] # Absent /\ ~Removing(n) /\ n \notin torn
             THEN disk.notes[n].text ELSE Absent]

\* The archive it works by.
Seen == IF pc \in {"wait", "load"} THEN Absent ELSE notes

Replica == INSTANCE NoteReplica WITH branch <- repo, seen <- Seen, shown <- Shown

\* The worker is a replica of the branch: it takes a text out of the graph only
\* when the archive it read has another one, and puts texts of that archive in,
\* whole, for notes that show none.
IsReplica == Replica!Spec

EpisodesOf(n) == {graph[id] : id \in {i \in InGraph \ strays : graph[i].note = n}}

IsShown(n, text) ==
    EpisodesOf(n) = {[note |-> n, text |-> text, part |-> i] : i \in 1 .. Parts[text]}

\* When commits and failures come to rest, the graph has every note in its
\* current text, and nothing of deleted or failing notes.  Not so for notes that
\* became empty, for episodes left behind, and for a note whose removal was
\* interrupted and which then changed back.
Converges ==
    <>[](\A n \in Notes :
            IF repo[n] = Absent \/ GivenUp(state, n, repo[n]) THEN EpisodesOf(n) = {}
            ELSE \/ Parts[repo[n]] = 0
                 \/ n \in torn /\ state.notes[n] # Absent /\ state.notes[n].text = repo[n]
                 \/ IsShown(n, repo[n]))

--------------------------------------------------------------------------------
(***************************************************************************)
(* The inductive invariant behind the safety properties.                   *)
(***************************************************************************)

\* Where the cycle is says what it has at hand; the two copies of the state list
\* the same episodes.
Control ==
    /\ disk.notes = state.notes
    /\ pc \in {"drop", "remove", "add", "cleanup"} => current \in Notes
    /\ pc \in {"drop", "remove"} =>
          /\ state.notes[current] # Absent
          /\ todo \subseteq UuidsOf(state.notes[current].episodes)
          /\ notes[current] # state.notes[current].text
          /\ \A id \in UuidsOf(state.notes[current].episodes) :
                id \in todo \cup strays \/ graph[id] = Absent
    /\ pc \in {"add", "cleanup"} => state.notes[current] = Absent
    /\ pc \in {"remove", "add", "cleanup"} => current \notin batch
    /\ pc # "add" => added = <<>>
    /\ pc \notin {"drop", "remove", "cleanup"} => todo = {}
    /\ pc \in {"wait", "load", "gone", "drop"} => batch = {}

\* A note that is taken up has a text that may still be tried, and not the one the
\* state file has.
Takeable(n) ==
    /\ notes[n] # Absent
    /\ ~GivenUp(state, n, notes[n])
    /\ state.notes[n] = Absent \/ state.notes[n].text # notes[n]

BatchInv ==
    /\ \A n \in batch : Takeable(n)
    /\ pc \in {"remove", "add", "cleanup"} => Takeable(current)

\* What an entry lists and the graph still has belongs to that entry.
EntriesPoint ==
    \A n \in Notes : state.notes[n] # Absent =>
        \A id \in UuidsOf(state.notes[n].episodes) :
            graph[id] # Absent =>
                graph[id].note = n /\ graph[id].text = state.notes[n].text

\* The parts added so far, or still to be taken back.
AddedInv ==
    /\ pc = "add" =>
          /\ Len(added) <= Parts[notes[current]]
          /\ \A i \in DOMAIN added :
                graph[added[i]] = [note |-> current, text |-> notes[current], part |-> i]
    /\ pc = "cleanup" =>
          \A id \in todo : graph[id] # Absent =>
              graph[id].note = current /\ graph[id].text = notes[current]

IInv ==
    /\ TypeOK
    /\ Control
    /\ BatchInv
    /\ EntriesPoint
    /\ AddedInv
    /\ EpisodesKnown
    /\ EntriesWhole
================================================================================
