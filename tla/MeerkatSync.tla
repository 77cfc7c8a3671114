------------------------------ MODULE MeerkatSync ------------------------------
(***************************************************************************)
(* brain-sync and Meerkat, the contact manager                             *)
(* (apps/ai/brain/sync/brain_sync.py): sync_meerkat mirrors each contact   *)
(* to a note of the repository; after each entity pass writeback_meerkat   *)
(* writes what the brain says of a contact into one marked note of the     *)
(* contact, and a meeting into one marked activity shared by the contacts  *)
(* it mentions.  What the write-back knows of Meerkat is what the last     *)
(* fetch saw, and child records are fetched again only when the contact's  *)
(* UpdatedAt moved or MEERKAT_FULL_SECONDS have passed.  People edit       *)
(* Meerkat meanwhile.                                                      *)
(*                                                                         *)
(* Abstractions: the summary texts are the version of the brain they tell  *)
(* of; there is one meeting; the commit of the contact notes is one step   *)
(* (RiffadoSync has it in full), ENTITY_INTERVAL is in BrainCycle.         *)
(***************************************************************************)
EXTENDS FiniteSetsExt, SequencesExt, Integers

CONSTANTS
    N,           \* contacts 1 .. N, in the order of their IDs
    Budget,      \* MEERKAT_WRITEBACK_MAX
    Hand,        \* what a person wrote into a marked note
    Gone,        \* a marked note somebody deleted
    None,        \* nothing cached, no note
    MaxVersions, MaxEdits, MaxFaults   \* bounds

ASSUME BoundsAssumption ==
    /\ N \in Nat \ {0} /\ Budget \in Nat \ {0}
    /\ MaxVersions \in Nat \ {0} /\ MaxEdits \in Nat /\ MaxFaults \in Nat

VARIABLES
    \* Meerkat
    people,      \* what people keep of each contact, as the edits made
    own,         \* the marked notes of each contact, by ID
    acts,        \* the marked activities: their contacts
    bumped,      \* contacts whose UpdatedAt is not the one cached
    late,        \* those bumped since the contacts were listed
    \* the brain
    page,        \* what the note of a contact on main shows; None: no note
    brain,       \* the version of what the brain says of people
    met,         \* the contacts the meeting mentions
    moved,       \* main is not at the head that sync_entities remembers
    \* brain-sync
    pc,
    full,        \* MEERKAT_FULL_SECONDS have passed
    todo,        \* contacts whose children fetch_meerkat has still to read
    cache,       \* _meerkat_details
    known,       \* _meerkat_contacts; its lists are those of the cache,
    reread,      \* except for contacts read since, by a fetch that failed
    plan,        \* writeback_plan
    at,          \* the contact the write-back is at
    budget,
    edits, faults  \* how much of MaxEdits and of MaxFaults is used

meerkat == <<people, own, acts>>
stamps == <<bumped, late>>
main == <<page, brain, met, moved>>
fetch == <<full, todo, cache, known, reread>>
write == <<plan, at, budget>>
bounds == <<edits, faults>>
vars == <<meerkat, stamps, main, pc, fetch, write, bounds>>

--------------------------------------------------------------------------------
Contacts == 1 .. N
Versions == 0 .. MaxVersions

\* The children of a contact as the API lists them, notes in any order.
Children(c) ==
    LET kept == {i \in DOMAIN own[c] : own[c][i] # Gone}
        \* at most MaxFaults + 1 of them
    IN  {[people |-> people[c],
          own |-> [k \in DOMAIN order |-> [id |-> order[k], text |-> own[c][order[k]]]],
          acts |-> {i \in DOMAIN acts : c \in acts[i]}] : order \in SetToSeqs(kept)}

NoPlan == [text |-> 0, notes |-> {}, met |-> {}]

Init ==
    /\ people = [c \in Contacts |-> 0] /\ own = [c \in Contacts |-> <<>>] /\ acts = <<>>
    /\ bumped = {} /\ late = {}
    /\ page = [c \in Contacts |-> None] /\ brain = 0 /\ met = {1} /\ moved = TRUE
    /\ pc = "idle" /\ full = TRUE /\ todo = {}
    /\ cache = [c \in Contacts |-> None] /\ known = [c \in Contacts |-> None] /\ reread = {}
    /\ plan = NoPlan /\ at = 1 /\ budget = 0
    /\ edits = 0 /\ faults = 0

--------------------------------------------------------------------------------
(***************************************************************************)
(* People, other writers of the repository, and time.                      *)
(***************************************************************************)

\* A change to a child record may leave the UpdatedAt of its contact alone.
Bump(cs) ==
    \E b \in {{}, cs} :
        /\ bumped' = bumped \cup b
        /\ late' = IF pc = "fetch" THEN late \cup b ELSE late

Edit ==
    /\ edits < MaxEdits /\ edits' = edits + 1
    /\ \E c \in Contacts :
        /\ Bump({c})
        /\ \/ people' = [people EXCEPT ![c] = @ + 1] /\ UNCHANGED own
           \/ /\ \E i \in DOMAIN own[c], t \in {Hand, Gone} :
                    own[c][i] # Gone /\ own' = [own EXCEPT ![c][i] = t]
              /\ UNCHANGED people
    /\ UNCHANGED <<acts, main, pc, fetch, write, faults>>

\* Notes change, and with them what the brain says of people.
BrainChanges ==
    /\ brain < MaxVersions /\ brain' = brain + 1
    /\ met' \in (SUBSET Contacts) \ {{}}
    /\ moved' = TRUE
    /\ UNCHANGED <<meerkat, stamps, page, pc, fetch, write, bounds>>

\* A commit about something else.
Touch ==
    /\ ~moved /\ moved' = TRUE
    /\ UNCHANGED <<meerkat, stamps, page, brain, met, pc, fetch, write, bounds>>

\* Time is looked at only when a fetch begins.
Elapse ==
    /\ pc = "idle" /\ ~full /\ full' = TRUE
    /\ UNCHANGED <<meerkat, stamps, main, pc, todo, cache, known, reread, write, bounds>>

Fault == faults < MaxFaults /\ faults' = faults + 1

--------------------------------------------------------------------------------
(***************************************************************************)
(* sync_meerkat.                                                           *)
(***************************************************************************)

\* The contacts are listed, with UpdatedAt.
List ==
    /\ pc = "idle"
    /\ pc' = "fetch" /\ late' = {}
    /\ todo' = {c \in Contacts : full \/ cache[c] = None \/ c \in bumped}
    /\ UNCHANGED <<meerkat, bumped, main, full, cache, known, reread, write, bounds>>

ReadContact ==
    /\ pc = "fetch"
    /\ \E c \in todo :
        /\ todo' = todo \ {c} /\ reread' = reread \cup {c}
        /\ \E children \in Children(c) : cache' = [cache EXCEPT ![c] = children]
        /\ bumped' = (bumped \ {c}) \cup (late \cap {c})
    /\ UNCHANGED <<meerkat, late, main, pc, full, known, write, bounds>>

\* What is on main when the contacts known are committed.
Rendered == [c \in Contacts |-> cache[c].people]

\* _meerkat_contacts is what was fetched, whether the commit succeeds or not.
FetchDone ==
    /\ pc = "fetch" /\ todo = {}
    /\ pc' = "entities" /\ full' = FALSE /\ known' = cache /\ reread' = {}
    /\ \/ page' = Rendered /\ moved' = (moved \/ page # Rendered) /\ UNCHANGED faults
       \/ Fault /\ UNCHANGED <<page, moved>>
    /\ UNCHANGED <<meerkat, stamps, brain, met, todo, cache, write, edits>>

\* A request fails; the contacts read before stay cached.
FetchFails ==
    /\ pc = "fetch" /\ Fault
    /\ pc' = "entities" /\ todo' = {}
    /\ UNCHANGED <<meerkat, stamps, main, full, cache, known, reread, write, edits>>

--------------------------------------------------------------------------------
(***************************************************************************)
(* sync_entities: writeback_plan and writeback_meerkat.                    *)
(***************************************************************************)

\* The plan is made of the contact notes on main.
Plan ==
    /\ pc = "entities"
    /\ IF ~moved \/ known[1] = None
       THEN pc' = "idle" /\ moved' = FALSE /\ UNCHANGED write
       ELSE LET on == {c \in Contacts : page[c] # None}
            IN  /\ pc' = "notes" /\ at' = 1 /\ budget' = Budget
                /\ plan' = [text |-> brain, notes |-> on, met |-> met \cap on]
                /\ UNCHANGED moved
    /\ UNCHANGED <<meerkat, stamps, page, brain, met, fetch, bounds>>

\* The lists of a contact are changed in place, so that the cache shows it too.
Remember(new) ==
    /\ known' = new
    /\ cache' = [c \in Contacts |-> IF c \in reread THEN cache[c] ELSE new[c]]

\* after: the head by now is the one remembered.
EndPass == pc' = "idle" /\ moved' = FALSE

Mine(c) == known[c].own

\* Mutant: only a note that was never written counts as missing.
NoteIsCurrentOnce(c) == c \notin plan.notes \/ Mine(c) # <<>>

NoteIsCurrent(c) == c \notin plan.notes \/ (Mine(c) # <<>> /\ Mine(c)[1].text = plan.text)

SkipNote ==
    /\ pc = "notes"
    /\ \/ at \in Contacts /\ NoteIsCurrent(at) /\ at' = at + 1 /\ UNCHANGED pc
       \/ (at \in Contacts => ~NoteIsCurrent(at) /\ budget = 0) /\ pc' = "acts" /\ UNCHANGED at
    /\ UNCHANGED <<meerkat, stamps, main, fetch, plan, budget, bounds>>

\* What Meerkat's notes become by a PUT or a POST; a PUT of a deleted note is
\* a 404.
NotePut(c, id) == [own EXCEPT ![c][id] = IF @ = Gone THEN Gone ELSE plan.text]
NotePosted(c, times) == [own EXCEPT ![c] = @ \o [i \in 1 .. times |-> plan.text]]

NoteDue == pc = "notes" /\ at \in Contacts /\ ~NoteIsCurrent(at) /\ budget > 0

\* Mutant: what was posted is not put into the list.
WriteNoteForgets ==
    /\ NoteDue /\ Bump({at})
    /\ at' = at + 1 /\ budget' = budget - 1
    /\ IF Mine(at) # <<>>
       THEN /\ own' = NotePut(at, Mine(at)[1].id)
            /\ Remember([known EXCEPT ![at].own[1].text = plan.text])
       ELSE own' = NotePosted(at, 1) /\ UNCHANGED <<known, cache>>
    /\ UNCHANGED <<people, acts, main, pc, full, todo, reread, plan, bounds>>

\* PUT or POST, and the answer put into the list.
WriteNote ==
    /\ NoteDue /\ Bump({at})
    /\ at' = at + 1 /\ budget' = budget - 1
    /\ IF Mine(at) # <<>>
       THEN /\ own' = NotePut(at, Mine(at)[1].id)
            /\ Remember([known EXCEPT ![at].own[1].text = plan.text])
            /\ UNCHANGED faults
       ELSE /\ \/ own' = NotePosted(at, 1) /\ UNCHANGED faults
               \* http_json repeats a POST whose answer was lost
               \/ Fault /\ own' = NotePosted(at, 2)
            /\ Remember([known EXCEPT ![at].own =
                            <<[id |-> Len(own'[at]), text |-> plan.text]>>])
    /\ UNCHANGED <<people, acts, main, pc, full, todo, reread, plan, edits>>

\* The contacts shown to have the activity, and the activity of the first.
Holders == {c \in Contacts : known[c].acts # {}}
TheAct == Min(known[Min(Holders)].acts)

ActDue == plan.met # {} /\ ~(plan.met \subseteq Holders) /\ budget > 0

SkipAct ==
    /\ pc = "acts" /\ ~ActDue
    /\ EndPass
    /\ UNCHANGED <<meerkat, stamps, page, brain, met, fetch, write, bounds>>

ActPut == [acts EXCEPT ![TheAct] = plan.met \cup Holders]
ActPosted(times) == acts \o [i \in 1 .. times |-> plan.met]

\* PUT with the contacts it has and the new ones, or POST.
WriteAct ==
    /\ pc = "acts" /\ ActDue /\ Bump(plan.met)
    /\ EndPass /\ budget' = budget - 1
    /\ IF Holders # {} THEN acts' = ActPut /\ UNCHANGED faults
       ELSE \/ acts' = ActPosted(1) /\ UNCHANGED faults
            \/ Fault /\ acts' = ActPosted(2)
    /\ LET id == IF Holders # {} THEN TheAct ELSE Len(acts')
       IN  Remember([c \in Contacts |-> IF c \in plan.met \ Holders
                                        THEN [known[c] EXCEPT !.acts = @ \cup {id}]
                                        ELSE known[c]])
    /\ UNCHANGED <<people, own, page, brain, met, full, todo, reread, plan, at, edits>>

\* A write fails for good, done by Meerkat or not: nothing is put into the
\* lists, and the write-back ends.
WriteFails ==
    /\ \/ NoteDue
          /\ own' \in {own, IF Mine(at) # <<>> THEN NotePut(at, Mine(at)[1].id)
                            ELSE NotePosted(at, 1)}
          /\ UNCHANGED acts
       \/ pc = "acts" /\ ActDue
          /\ acts' \in {acts, IF Holders # {} THEN ActPut ELSE ActPosted(1)}
          /\ UNCHANGED own
    /\ Fault /\ EndPass
    /\ UNCHANGED <<people, stamps, page, brain, met, fetch, write, edits>>

\* The pod restarts: what was cached is gone, and no head is remembered.
Restart ==
    /\ Fault
    /\ pc' = "idle" /\ full' = TRUE /\ moved' = TRUE /\ todo' = {} /\ reread' = {}
    /\ cache' = [c \in Contacts |-> None] /\ known' = [c \in Contacts |-> None]
    /\ UNCHANGED <<meerkat, stamps, page, brain, met, write, edits>>

--------------------------------------------------------------------------------
Sync == List \/ ReadContact \/ FetchDone
Writeback == Plan \/ SkipNote \/ WriteNote \/ SkipAct \/ WriteAct

Next ==
    \/ Sync \/ Writeback
    \/ Edit \/ BrainChanges \/ Touch \/ Elapse
    \/ FetchFails \/ WriteFails \/ Restart

Spec == Init /\ [][Next]_vars

\* The cycle repeats for ever, time passes, and the other sources keep
\* committing (the messages and mail notes do all day).
FairSpec ==
    /\ Spec /\ WF_vars(Sync) /\ WF_vars(Writeback)
    /\ WF_vars(Touch) /\ SF_vars(Elapse)

--------------------------------------------------------------------------------
(***************************************************************************)
(* Properties.                                                             *)
(***************************************************************************)
Texts == Versions \cup {Hand, Gone}
Details == [people : 0 .. MaxEdits, own : Seq([id : Nat, text : Texts]), acts : SUBSET Nat]

ASSUME NoneAssumption == None \notin Details

\* Every variable stays in its type.
TypeOK ==
    /\ people \in [Contacts -> 0 .. MaxEdits] /\ own \in [Contacts -> Seq(Texts)]
    /\ acts \in Seq(SUBSET Contacts)
    /\ bumped \subseteq Contacts /\ late \subseteq Contacts
    /\ page \in [Contacts -> (0 .. MaxEdits) \cup {None}]
    /\ brain \in Versions /\ met \subseteq Contacts /\ moved \in BOOLEAN
    /\ pc \in {"idle", "fetch", "entities", "notes", "acts"}
    /\ full \in BOOLEAN /\ todo \subseteq Contacts /\ reread \subseteq Contacts
    /\ {cache, known} \subseteq [Contacts -> Details \cup {None}]
    /\ plan \in [text : Versions, notes : SUBSET Contacts, met : SUBSET Contacts]
    /\ at \in 1 .. N + 1 /\ budget \in 0 .. Budget
    /\ edits \in 0 .. MaxEdits /\ faults \in 0 .. MaxFaults

Kept(c) == {i \in DOMAIN own[c] : own[c][i] # Gone}

\* README.md:133-135 says that the summary note is never duplicated: a second
\* one, or a second activity of the meeting, takes a failure each, whatever
\* people do, although what the write-back knows may be half an hour old.
OnlyFaultsDuplicate ==
    /\ \A c \in Contacts : Cardinality(Kept(c)) <= 1 + faults
    /\ Len(acts) <= 1 + faults

Safe == TypeOK /\ OnlyFaultsDuplicate

(***************************************************************************)
(* Why only they do.                                                       *)
(***************************************************************************)

\* What is known is what is cached, but for contacts read since; the write-back
\* begins when every contact is known, and a fetch ends when every one is cached.
KnownIsCached ==
    /\ \A c \in Contacts \ reread : cache[c] = known[c]
    /\ (\A c \in Contacts : known[c] = None) \/ (\A c \in Contacts : known[c] # None)
    /\ pc \in {"notes", "acts"} => known[1] # None
    /\ pc = "fetch" => \A c \in Contacts : cache[c] = None => c \in todo
    /\ \A c \in Contacts : people[c] <= edits

\* A contact that is believed to have no marked note.
HasNone(of, c) == of[c] # None /\ of[c].own = <<>>

\* A note not known of, or cached as missing, has taken a failure; that the cache
\* missed what was written for the contact since, another one.
NotesBounded ==
    \A c \in Contacts :
        /\ Cardinality(Kept(c)) <= 1 + faults
        /\ HasNone(known, c) => Cardinality(Kept(c)) <= faults
        /\ c \in reread /\ HasNone(cache, c) =>
              /\ Cardinality(Kept(c)) <= faults
              /\ HasNone(known, c) /\ pc # "fetch" => Cardinality(Kept(c)) < faults

\* A contact is shown with an activity that it does have.
Shows(of, c) == of[c] # None /\ \E i \in of[c].acts : i \in DOMAIN acts /\ c \in acts[i]

\* The same of the activities.
ActsBounded ==
    /\ Len(acts) <= 1 + faults
    /\ \/ Len(acts) <= faults
       \/ \E c \in Contacts : Shows(known, c) /\ (c \in reread => Shows(cache, c))
    /\ reread # {} /\ pc # "fetch" /\ (\A c \in Contacts : known[c] # None => known[c].acts = {})
          => Len(acts) < faults

\* The inductive invariant.
IInv == TypeOK /\ KnownIsCached /\ NotesBounded /\ ActsBounded

\* README.md:126-147: once people rest, each contact is on main as it is, has a
\* summary that tells what the brain says by now, and the meeting has all the
\* contacts it mentions: budget, failures, what was deleted or edited in
\* Meerkat and a stale cache only delay it.
CatchesUp ==
    <>[](/\ page = people
         /\ \A c \in Contacts : \E i \in DOMAIN own[c] : own[c][i] = brain
         /\ met \subseteq UNION {acts[i] : i \in DOMAIN acts})
================================================================================
