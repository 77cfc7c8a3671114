--------------------------- MODULE GraphIngestProofs ---------------------------
(***************************************************************************)
(* Theorems about graph-ingest for any notes, texts and uuids and any      *)
(* number of commits and failures: no episode is lost sight of, no two     *)
(* texts of a note are mixed, what the state file lists is in the graph,   *)
(* and the worker is a replica of the branch.                              *)
(***************************************************************************)
EXTENDS GraphIngest, TLAPS

(***************************************************************************)
(* Values.                                                                 *)
(***************************************************************************)

\* The values a new process starts from.
LEMMA EmptyTypes ==
    /\ Nothing \in Archive
    /\ NoState \in State
    /\ <<>> \in Seq(Ids)
BY AbsentAssumption DEF Nothing, Archive, NoState, State

\* A fresh uuid is one nobody uses.
LEMMA FreshUuid ==
    ASSUME Ids \ Used # {}
    PROVE  NewUuid \in Ids /\ NewUuid \notin Used
BY DEF NewUuid

\* No process has added anything.
LEMMA NoUuids == UuidsOf(<<>>) = {}
BY DEF UuidsOf

\* The uuids of a sequence of uuids.
LEMMA UuidsType ==
    ASSUME NEW seq \in Seq(Ids)
    PROVE  UuidsOf(seq) \subseteq Ids
BY DEF UuidsOf

\* One more uuid.
LEMMA UuidsAppend ==
    ASSUME NEW seq \in Seq(Ids), NEW id \in Ids
    PROVE  /\ Append(seq, id) \in Seq(Ids)
           /\ UuidsOf(Append(seq, id)) = UuidsOf(seq) \cup {id}
<1>1. Append(seq, id) \in Seq(Ids) /\ Len(Append(seq, id)) = Len(seq) + 1
  OBVIOUS
<1>2. DOMAIN Append(seq, id) = 1 .. Len(seq) + 1 /\ DOMAIN seq = 1 .. Len(seq)
      /\ Len(seq) \in Nat
  OBVIOUS
<1>3. \A i \in 1 .. Len(seq) : Append(seq, id)[i] = seq[i]
  OBVIOUS
<1>4. Append(seq, id)[Len(seq) + 1] = id
  OBVIOUS
<1>5. UuidsOf(Append(seq, id)) \subseteq UuidsOf(seq) \cup {id}
  BY <1>2, <1>3, <1>4 DEF UuidsOf
<1>6. UuidsOf(seq) \cup {id} \subseteq UuidsOf(Append(seq, id))
  BY <1>2, <1>3, <1>4 DEF UuidsOf
<1>7. QED
  BY <1>1, <1>5, <1>6

\* What an entry is.
LEMMA EntryType ==
    ASSUME TypeOK, NEW n \in Notes, state.notes[n] # Absent
    PROVE  /\ state.notes[n] \in Entry
           /\ state.notes[n].text \in Texts
           /\ state.notes[n].episodes \in Seq(Ids)
           /\ UuidsOf(state.notes[n].episodes) \subseteq Ids
<1>1. state.notes[n] \in Entry
  BY DEF TypeOK, State
<1>2. QED
  BY <1>1, UuidsType DEF Entry

\* The note at work has a text, which was not tried too often.
LEMMA CurrentText ==
    ASSUME TypeOK, Control, BatchInv, pc \in {"remove", "add", "cleanup"}
    PROVE  /\ current \in Notes
           /\ notes[current] \in Texts
           /\ Attempts \in 1 .. MaxAttempts
<1>1. current \in Notes /\ notes[current] \in Texts
  BY DEF Control, BatchInv, Takeable, TypeOK, Archive
<1>2. CASE state.failures[current] # Absent /\ state.failures[current].text = notes[current]
  <2>1. state.failures[current] \in Failure
    BY <1>1, <1>2 DEF TypeOK, State
  <2>2. ~(state.failures[current].count >= MaxAttempts)
    BY <1>2 DEF BatchInv, Takeable, GivenUp
  <2>3. state.failures[current].count \in 1 .. MaxAttempts
    BY <2>1 DEF Failure
  <2>4. QED
    BY <1>1, <1>2, <2>2, <2>3, BoundsAssumption DEF Attempts
<1>3. CASE ~(state.failures[current] # Absent /\ state.failures[current].text = notes[current])
  BY <1>1, <1>3, BoundsAssumption DEF Attempts
<1>4. QED
  BY <1>2, <1>3

(***************************************************************************)
(* Types.                                                                  *)
(***************************************************************************)

\* An entry changes, or a count of failures.
LEMMA ChangedState ==
    ASSUME NEW st \in State, NEW n \in Notes, NEW e \in Entry \cup {Absent},
           NEW f \in Failure \cup {Absent}
    PROVE  /\ [st EXCEPT !.notes[n] = e] \in State
           /\ [st EXCEPT !.failures[n] = f] \in State
           /\ [st EXCEPT !.notes[n] = e, !.failures[n] = f] \in State
BY DEF State

\* The graph changes at one uuid.
LEMMA ChangedGraph ==
    ASSUME NEW g \in [Ids -> Episode \cup {Absent}], NEW id \in Ids,
           NEW e \in Episode \cup {Absent}
    PROVE  [g EXCEPT ![id] = e] \in [Ids -> Episode \cup {Absent}]
OBVIOUS

\* The next part of the note at work.
LEMMA NextPart ==
    ASSUME TypeOK, Control, BatchInv, pc = "add"
    PROVE  [note |-> current, text |-> notes[current], part |-> Len(added) + 1] \in Episode
<1>1. Len(added) \in Nat
  BY DEF TypeOK
<1>2. QED
  BY <1>1, CurrentText DEF Episode

\* A bounded event happens.
LEMMA EventType == TypeOK /\ Event => events' \in 0 .. MaxEvents
BY BoundsAssumption DEF TypeOK, Event

\* Nothing is at hand between cycles.
LEMMA RestTypes ==
    Rest => /\ commit' \in Commits \cup {Absent} /\ notes' \in Archive
            /\ batch' \subseteq Notes /\ waiting' \subseteq Notes
            /\ current' \in Notes \cup {Absent} /\ todo' \subseteq Ids /\ added' \in Seq(Ids)
BY EmptyTypes DEF Rest

LEMMA TypeStep == IInv /\ [Next]_vars => TypeOK'
<1> SUFFICES ASSUME IInv, [Next]_vars PROVE TypeOK'
  OBVIOUS
<1> USE DEF IInv, world, locals, history
<1>0. TypeOK /\ Control /\ BatchInv
  OBVIOUS
<1>1. CASE ReadHead
  BY <1>0, <1>1 DEF ReadHead, TypeOK
<1>2. CASE LoadNotes
  BY <1>0, <1>2 DEF LoadNotes, TypeOK
<1>3. CASE DropNote
  <2>1. PICK n \in Gone : current' = n /\ todo' = UuidsOf(state.notes[n].episodes)
    BY <1>3 DEF DropNote
  <2>2. n \in Notes /\ todo' \subseteq Ids
    BY <1>0, <2>1, EntryType DEF Gone
  <2>3. QED
    BY <1>0, <1>3, <2>1, <2>2 DEF DropNote, TypeOK
<1>4. CASE SelectNotes
  <2>1. state' \in State
    BY <1>0, <1>4 DEF SelectNotes, Pruned, TypeOK, State
  <2>2. batch' \subseteq Notes /\ waiting' \subseteq Notes
    BY <1>4 DEF SelectNotes, Pending
  <2>3. QED
    BY <1>0, <1>4, <2>1, <2>2 DEF SelectNotes, TypeOK
<1>5. CASE NextNote
  <2>1. PICK n \in batch : current' = n /\ batch' = batch \ {n} /\
                           (IF state.notes[n] = Absent
                            THEN pc' = "add" /\ todo' = {}
                            ELSE pc' = "remove" /\ todo' = UuidsOf(state.notes[n].episodes))
    BY <1>5 DEF NextNote
  <2>2. n \in Notes /\ todo' \subseteq Ids /\ pc' \in {"add", "remove"}
    BY <1>0, <2>1, EntryType DEF TypeOK
  <2>3. QED
    BY <1>0, <1>5, <2>1, <2>2 DEF NextNote, TypeOK
<1>6. CASE RemoveEpisode
  <2>1. PICK id \in todo : graph' = [graph EXCEPT ![id] = Absent] /\ todo' = todo \ {id}
    BY <1>6 DEF RemoveEpisode
  <2>2. graph' \in [Ids -> Episode \cup {Absent}]
    BY <1>0, <2>1, ChangedGraph DEF TypeOK
  <2>3. QED
    BY <1>0, <1>6, <2>1, <2>2 DEF RemoveEpisode, TypeOK
<1>7. CASE Forget
  <2>1. current \in Notes
    BY <1>0, <1>7 DEF Forget, Control
  <2>2. state' \in State /\ disk' \in State
    BY <1>0, <1>7, <2>1, ChangedState DEF Forget, Save, TypeOK
  <2>3. QED
    BY <1>0, <1>7, <2>1, <2>2 DEF Forget, TypeOK
<1>8. CASE AddPart
  <2>1. graph' \in [Ids -> Episode \cup {Absent}]
    BY <1>0, <1>8, NextPart, FreshUuid, ChangedGraph DEF AddPart, TypeOK
  <2>2. added' \in Seq(Ids)
    BY <1>0, <1>8, FreshUuid, UuidsAppend DEF AddPart, TypeOK
  <2>3. QED
    BY <1>0, <1>8, <2>1, <2>2 DEF AddPart, TypeOK
<1>9. CASE StoreNote
  <2>1. [text |-> notes[current], episodes |-> added] \in Entry
    BY <1>0, <1>9, CurrentText DEF StoreNote, Entry, TypeOK
  <2>2. state' \in State /\ disk' \in State
    BY <1>0, <1>9, <2>1, CurrentText, ChangedState DEF StoreNote, Save, TypeOK
  <2>3. QED
    BY <1>0, <1>9, <2>2, EmptyTypes DEF StoreNote, TypeOK
<1>10. CASE CountFailure
  <2>1. [text |-> notes[current], count |-> Attempts] \in Failure
    BY <1>0, <1>10, CurrentText DEF CountFailure, Failure
  <2>2. state' \in State /\ disk' \in State
    BY <1>0, <1>10, <2>1, CurrentText, ChangedState DEF CountFailure, Save, TypeOK
  <2>3. batch' \subseteq Notes
    BY <1>0, <1>10 DEF CountFailure, TypeOK
  <2>4. QED
    BY <1>0, <1>10, <2>2, <2>3 DEF CountFailure, TypeOK
<1>11. CASE FinishCycle
  <2>1. state' \in State /\ disk' \in State
    BY <1>0, <1>11 DEF FinishCycle, Save, TypeOK, State
  <2>2. QED
    BY <1>0, <1>11, <2>1, RestTypes DEF FinishCycle, TypeOK
<1>12. CASE RemoveFails
  BY <1>0, <1>12, EventType DEF RemoveFails, TypeOK
<1>13. CASE AddFails
  <2>1. graph' \in [Ids -> Episode \cup {Absent}] /\ strays' \subseteq Ids
    BY <1>0, <1>13, NextPart, FreshUuid, ChangedGraph DEF AddFails, TypeOK
  <2>2. todo' \subseteq Ids /\ added' \in Seq(Ids)
    BY <1>0, <1>13, UuidsType, EmptyTypes DEF AddFails, TypeOK
  <2>3. QED
    BY <1>0, <1>13, <2>1, <2>2, EventType DEF AddFails, TypeOK
<1>14. CASE LoadFails
  BY <1>0, <1>14, RestTypes, EventType DEF LoadFails, TypeOK
<1>15. CASE Stop
  BY <1>0, <1>15, EventType DEF Stop, TypeOK
<1>16. CASE Restart
  <2>1. strays' \subseteq Ids
    BY <1>0, <1>16, UuidsType DEF Restart, TypeOK
  <2>2. torn' \subseteq Notes
    BY <1>0, <1>16 DEF Restart, Control, TypeOK
  <2>3. QED
    BY <1>0, <1>16, <2>1, <2>2, RestTypes, EventType DEF Restart, TypeOK
<1>17. CASE CommitNote
  <2>1. repo' \in Archive
    BY <1>0, <1>17 DEF CommitNote, TypeOK, Archive
  <2>2. head' \in Commits
    BY <1>0, <1>17, EventType DEF CommitNote, Commits
  <2>3. QED
    BY <1>0, <1>17, <2>1, <2>2, EventType DEF CommitNote, TypeOK
<1>18. CASE UNCHANGED vars
  BY <1>0, <1>18 DEF vars, TypeOK
<1>19. QED
  BY <1>1, <1>2, <1>3, <1>4, <1>5, <1>6, <1>7, <1>8, <1>9, <1>10, <1>11, <1>12, <1>13,
     <1>14, <1>15, <1>16, <1>17, <1>18 DEF Next, Cycle, World

(***************************************************************************)
(* Control: what the cycle has at hand at each of its steps.               *)
(***************************************************************************)

\* Another entry, or another count, leaves the other notes alone.
LEMMA StateAfter ==
    ASSUME NEW st \in State, NEW n \in Notes, NEW e, NEW f
    PROVE  /\ [st EXCEPT !.notes[n] = e].notes = [st.notes EXCEPT ![n] = e]
           /\ [st EXCEPT !.notes[n] = e].failures = st.failures
           /\ [st EXCEPT !.failures[n] = f].notes = st.notes
           /\ [st EXCEPT !.failures[n] = f].failures = [st.failures EXCEPT ![n] = f]
           /\ [st EXCEPT !.notes[n] = e, !.failures[n] = f].notes = [st.notes EXCEPT ![n] = e]
           /\ [st EXCEPT !.notes[n] = e, !.failures[n] = f].failures
                = [st.failures EXCEPT ![n] = f]
BY DEF State

\* The entries are functions on the notes.
LEMMA NotesType ==
    TypeOK => /\ state \in State /\ disk \in State
              /\ state.notes \in [Notes -> Entry \cup {Absent}]
              /\ state.failures \in [Notes -> Failure \cup {Absent}]
BY DEF TypeOK, State

LEMMA ControlStep == IInv /\ [Next]_vars => Control'
<1> SUFFICES ASSUME IInv, [Next]_vars PROVE Control'
  OBVIOUS
<1> USE DEF world, locals, history
<1>0. TypeOK /\ Control /\ BatchInv
  BY DEF IInv
<1>1. CASE ReadHead
  BY <1>0, <1>1 DEF ReadHead, Control
<1>2. CASE LoadNotes
  BY <1>0, <1>2 DEF LoadNotes, Control
<1>3. CASE DropNote
  <2>1. PICK n \in Gone : current' = n /\ todo' = UuidsOf(state.notes[n].episodes)
    BY <1>3 DEF DropNote
  <2>2. n \in Notes /\ state.notes[n] # Absent /\ notes[n] = Absent
    BY <2>1 DEF Gone
  <2>3. notes[n] # state.notes[n].text
    BY <1>0, <2>2, EntryType, TextsAssumption
  <2>4. QED
    BY <1>0, <1>3, <2>1, <2>2, <2>3 DEF DropNote, Control
<1>4. CASE SelectNotes
  <2>1. state'.notes = state.notes
    BY <1>0, <1>4 DEF SelectNotes, Pruned, TypeOK, State
  <2>2. QED
    BY <1>0, <1>4, <2>1 DEF SelectNotes, Control
<1>5. CASE NextNote
  <2>1. PICK n \in batch : current' = n /\ batch' = batch \ {n} /\
                           (IF state.notes[n] = Absent
                            THEN pc' = "add" /\ todo' = {}
                            ELSE pc' = "remove" /\ todo' = UuidsOf(state.notes[n].episodes))
    BY <1>5 DEF NextNote
  <2>2. n \in Notes /\ Takeable(n)
    BY <1>0, <2>1 DEF TypeOK, BatchInv
  <2>3. UNCHANGED <<disk, state, notes, graph, strays, added>> /\ pc = "batch"
    BY <1>5 DEF NextNote
  <2>4. CASE state.notes[n] = Absent
    BY <1>0, <2>1, <2>2, <2>3, <2>4 DEF Control
  <2>5. CASE state.notes[n] # Absent
    BY <1>0, <2>1, <2>2, <2>3, <2>5 DEF Control, Takeable
  <2>6. QED
    BY <2>4, <2>5
<1>6. CASE RemoveEpisode
  <2>1. PICK id \in todo : graph' = [graph EXCEPT ![id] = Absent] /\ todo' = todo \ {id}
    BY <1>6 DEF RemoveEpisode
  <2>2. id \in Ids /\ graph'[id] = Absent /\ \A i \in Ids \ {id} : graph'[i] = graph[i]
    BY <1>0, <2>1 DEF TypeOK
  <2>3. UNCHANGED <<disk, state, notes, strays, added, pc, current, batch>>
    BY <1>6 DEF RemoveEpisode
  <2>4. pc \in {"drop", "remove", "cleanup"}
    BY <1>6 DEF RemoveEpisode
  <2>5. pc \in {"drop", "remove"} =>
           \A i \in UuidsOf(state.notes[current].episodes) :
              i \in todo' \cup strays \/ graph'[i] = Absent
    BY <1>0, <2>1, <2>2, EntryType DEF Control
  <2>6. pc \in {"drop", "remove"} => todo' \subseteq UuidsOf(state.notes[current].episodes)
    BY <1>0, <2>1 DEF Control
  <2>7. QED
    BY <1>0, <2>3, <2>4, <2>5, <2>6 DEF Control
<1>7. CASE Forget
  <2>1. current \in Notes
    BY <1>0, <1>7 DEF Forget, Control
  <2>2. state'.notes = [state.notes EXCEPT ![current] = Absent] /\ disk' = state'
    BY <1>0, <1>7, <2>1, StateAfter, NotesType DEF Forget, Save
  <2>3. state'.notes[current] = Absent
    BY <1>0, <2>1, <2>2, NotesType
  <2>4. QED
    BY <1>0, <1>7, <2>1, <2>2, <2>3 DEF Forget, Control
<1>8. CASE AddPart
  BY <1>0, <1>8 DEF AddPart, Control
<1>9. CASE StoreNote
  BY <1>0, <1>9 DEF StoreNote, Save, Control
<1>10. CASE CountFailure
  BY <1>0, <1>10 DEF CountFailure, Save, Control
<1>11. CASE FinishCycle
  BY <1>0, <1>11 DEF FinishCycle, Rest, Save, Control
<1>12. CASE RemoveFails
  <2>1. PICK id \in todo : todo' = todo \ {id} /\ strays' = strays \cup {id}
    BY <1>12 DEF RemoveFails
  <2>2. UNCHANGED <<disk, state, notes, graph, added, pc, current, batch>>
        /\ pc \in {"drop", "remove", "cleanup"}
    BY <1>12 DEF RemoveFails
  <2>3. QED
    BY <1>0, <2>1, <2>2 DEF Control
<1>13. CASE AddFails
  BY <1>0, <1>13 DEF AddFails, Control
<1>14. CASE LoadFails
  BY <1>0, <1>14 DEF LoadFails, Rest, Control
<1>15. CASE Stop
  BY <1>0, <1>15 DEF Stop, Control
<1>16. CASE Restart
  BY <1>0, <1>16 DEF Restart, Rest, Control
<1>17. CASE CommitNote
  BY <1>0, <1>17 DEF CommitNote, Control
<1>18. CASE UNCHANGED vars
  BY <1>0, <1>18 DEF vars, Control
<1>19. QED
  BY <1>1, <1>2, <1>3, <1>4, <1>5, <1>6, <1>7, <1>8, <1>9, <1>10, <1>11, <1>12, <1>13,
     <1>14, <1>15, <1>16, <1>17, <1>18 DEF Next, Cycle, World

(***************************************************************************)
(* The batch: every note in it may be tried.                               *)
(***************************************************************************)

\* A note is as takeable as before if nothing about it changed.
LEMMA StillTakeable ==
    ASSUME NEW n, Takeable(n), notes'[n] = notes[n], state'.notes[n] = state.notes[n],
           state'.failures[n] = state.failures[n]
    PROVE  Takeable(n)'
BY DEF Takeable, GivenUp

LEMMA BatchStep == IInv /\ [Next]_vars => BatchInv'
<1> SUFFICES ASSUME IInv, [Next]_vars PROVE BatchInv'
  OBVIOUS
<1> USE DEF world, locals, history
<1>0. TypeOK /\ Control /\ BatchInv
  BY DEF IInv
<1>1. CASE UNCHANGED <<state, notes, batch, pc, current>>
  <2>1. \A n : Takeable(n) => Takeable(n)'
    BY <1>1 DEF Takeable, GivenUp
  <2>2. QED
    BY <1>0, <1>1, <2>1 DEF BatchInv
<1>2. CASE batch' = {} /\ pc' \in {"wait", "load"}
  BY <1>2 DEF BatchInv
<1>3. CASE batch' \subseteq batch /\ pc' \notin {"remove", "add", "cleanup"}
           /\ UNCHANGED <<state, notes>>
  <2>1. \A n : Takeable(n) => Takeable(n)'
    BY <1>3 DEF Takeable, GivenUp
  <2>2. QED
    BY <1>0, <1>3, <2>1 DEF BatchInv
<1>4. CASE LoadNotes \/ DropNote
  <2>1. batch = {} /\ batch' = {} /\ pc' \in {"gone", "drop"}
    BY <1>0, <1>4 DEF LoadNotes, DropNote, Control, BatchInv
  <2>2. QED
    BY <2>1 DEF BatchInv
<1>5. CASE SelectNotes
  <2>1. state' = Pruned /\ notes' = notes /\ batch' \subseteq Pending /\ pc' = "batch"
    BY <1>5 DEF SelectNotes
  <2>2. state'.notes = state.notes
    BY <1>0, <2>1 DEF Pruned, TypeOK, State
  <2>3. ASSUME NEW n \in Pending PROVE Takeable(n)'
    <3>1. ~GivenUp(state', n, notes'[n])
      BY <2>1, <2>3 DEF Pending
    <3>2. notes'[n] # Absent /\ (state'.notes[n] = Absent \/ state'.notes[n].text # notes'[n])
      BY <2>1, <2>2, <2>3 DEF Pending
    <3>3. QED
      BY <3>1, <3>2 DEF Takeable, GivenUp
  <2>4. QED
    BY <2>1, <2>3 DEF BatchInv
<1>6. CASE NextNote
  <2>1. current' \in batch /\ batch' \subseteq batch /\ UNCHANGED <<state, notes>>
    BY <1>6 DEF NextNote
  <2>2. \A n : Takeable(n) => Takeable(n)'
    BY <2>1 DEF Takeable, GivenUp
  <2>3. QED
    BY <1>0, <2>1, <2>2 DEF BatchInv
<1>7. CASE Forget
  <2>1. current \in Notes /\ notes' = notes /\ batch' = batch
    BY <1>0, <1>7 DEF Forget, Control
  <2>2. state'.notes = [state.notes EXCEPT ![current] = Absent]
        /\ state'.failures = state.failures
    BY <1>0, <1>7, <2>1, StateAfter, NotesType DEF Forget, Save
  <2>3. ASSUME NEW n \in Notes, Takeable(n) PROVE Takeable(n)'
    <3>1. state'.notes[n] \in {state.notes[n], Absent}
      BY <1>0, <2>1, <2>2, NotesType
    <3>2. QED
      BY <2>1, <2>2, <2>3, <3>1 DEF Takeable, GivenUp
  <2>4. pc' \in {"remove", "add", "cleanup"} => pc = "remove" /\ current' = current
    BY <1>7 DEF Forget
  <2>5. batch \subseteq Notes
    BY <1>0 DEF TypeOK
  <2>6. QED
    BY <1>0, <2>1, <2>3, <2>4, <2>5 DEF BatchInv
<1>8. CASE StoreNote
  <2>1. pc = "add" /\ current \in Notes /\ current \notin batch /\ batch \subseteq Notes
    BY <1>0, <1>8 DEF StoreNote, Control, TypeOK
  <2>2. /\ \A n \in Notes \ {current} : state'.notes[n] = state.notes[n]
                                        /\ state'.failures[n] = state.failures[n]
        /\ notes' = notes /\ batch' = batch /\ pc' = "batch"
    BY <1>0, <1>8, <2>1, StateAfter, NotesType DEF StoreNote, Save
  <2>3. \A n \in batch : Takeable(n)'
    BY <1>0, <2>1, <2>2, StillTakeable DEF BatchInv
  <2>4. QED
    BY <2>2, <2>3 DEF BatchInv
<1>9. CASE CountFailure
  <2>1. pc = "cleanup" /\ current \in Notes /\ current \notin batch /\ batch \subseteq Notes
    BY <1>0, <1>9 DEF CountFailure, Control, TypeOK
  <2>2. /\ \A n \in Notes \ {current} : state'.notes[n] = state.notes[n]
                                        /\ state'.failures[n] = state.failures[n]
        /\ notes' = notes /\ batch' \subseteq batch /\ pc' = "batch"
    BY <1>0, <1>9, <2>1, StateAfter, NotesType DEF CountFailure, Save
  <2>3. \A n \in batch : Takeable(n)'
    BY <1>0, <2>1, <2>2, StillTakeable DEF BatchInv
  <2>4. QED
    BY <2>2, <2>3 DEF BatchInv
<1>10. CASE AddFails
  <2>1. UNCHANGED <<state, notes, batch, current>> /\ pc = "add"
    BY <1>10 DEF AddFails
  <2>2. \A n : Takeable(n) => Takeable(n)'
    BY <2>1 DEF Takeable, GivenUp
  <2>3. QED
    BY <1>0, <2>1, <2>2 DEF BatchInv
<1>11. CASE ReadHead
  <2>1. batch = {}
    BY <1>0, <1>11 DEF ReadHead, Control, BatchInv
  <2>2. QED
    BY <1>11, <2>1 DEF ReadHead, BatchInv
<1>12. QED
  BY <1>1, <1>2, <1>3, <1>4, <1>5, <1>6, <1>7, <1>8, <1>9, <1>10, <1>11
  DEF Next, Cycle, World, RemoveEpisode, AddPart, FinishCycle, RemoveFails, LoadFails, Stop,
      Restart, CommitNote, Rest, vars

(***************************************************************************)
(* Episodes.  Most steps leave graph and entries alone.                    *)
(***************************************************************************)
Quiet ==
    /\ UNCHANGED <<graph, strays, torn, added>>
    /\ state'.notes = state.notes /\ disk'.notes = disk.notes
    /\ todo \subseteq todo'
    /\ pc' \in {"add", "cleanup"} =>
          \/ UNCHANGED <<pc, current, notes, todo>>
          \/ pc' = "add" /\ added = <<>> /\ notes' = notes
    /\ pc \in {"drop", "remove"} => UNCHANGED <<pc, current>>

LEMMA QuietSteps ==
    IInv /\ [Next]_vars =>
        \/ Quiet
        \/ RemoveEpisode \/ Forget \/ AddPart \/ StoreNote
        \/ RemoveFails \/ AddFails \/ Restart
<1> SUFFICES ASSUME IInv, [Next]_vars,
                    ~(RemoveEpisode \/ Forget \/ AddPart \/ StoreNote \/ RemoveFails
                      \/ AddFails \/ Restart)
             PROVE  Quiet
  OBVIOUS
<1> USE DEF world, locals, history
<1>0. TypeOK /\ Control
  BY DEF IInv
<1>1. CASE ReadHead
  BY <1>0, <1>1 DEF ReadHead, Quiet, Control
<1>2. CASE LoadNotes
  BY <1>0, <1>2 DEF LoadNotes, Quiet, Control
<1>3. CASE DropNote
  BY <1>0, <1>3 DEF DropNote, Quiet, Control
<1>4. CASE SelectNotes
  <2>1. state'.notes = state.notes
    BY <1>0, <1>4 DEF SelectNotes, Pruned, TypeOK, State
  <2>2. QED
    BY <1>0, <1>4, <2>1 DEF SelectNotes, Quiet
<1>5. CASE NextNote
  BY <1>0, <1>5 DEF NextNote, Quiet, Control
<1>6. CASE CountFailure
  <2>1. current \in Notes
    BY <1>0, <1>6 DEF CountFailure, Control
  <2>2. state'.notes = state.notes /\ disk'.notes = disk.notes
    BY <1>0, <1>6, <2>1, StateAfter, NotesType DEF CountFailure, Save, Control
  <2>3. QED
    BY <1>0, <1>6, <2>2 DEF CountFailure, Quiet
<1>7. CASE FinishCycle
  <2>1. state'.notes = state.notes /\ disk'.notes = disk.notes
    BY <1>0, <1>7 DEF FinishCycle, Save, Control, TypeOK, State
  <2>2. QED
    BY <1>0, <1>7, <2>1 DEF FinishCycle, Rest, Quiet, Control
<1>8. CASE LoadFails
  BY <1>0, <1>8 DEF LoadFails, Rest, Quiet, Control
<1>9. CASE Stop
  BY <1>0, <1>9 DEF Stop, Quiet
<1>10. CASE CommitNote
  BY <1>0, <1>10 DEF CommitNote, Quiet
<1>11. CASE UNCHANGED vars
  BY <1>0, <1>11 DEF vars, Quiet
<1>12. QED
  BY <1>1, <1>2, <1>3, <1>4, <1>5, <1>6, <1>7, <1>8, <1>9, <1>10, <1>11
  DEF Next, Cycle, World

\* What a removal does to the graph.
LEMMA RemoveStep ==
    ASSUME TypeOK, RemoveEpisode
    PROVE  \E id \in todo :
              /\ id \in Ids /\ graph'[id] = Absent
              /\ \A i \in Ids \ {id} : graph'[i] = graph[i]
              /\ todo' = todo \ {id}
              /\ UNCHANGED <<disk, state, pc, current, notes, added, strays, torn>>
BY DEF RemoveEpisode, TypeOK, locals, history

\* A new episode appears under a fresh uuid.
NewEpisode ==
    /\ NewUuid \in Ids /\ NewUuid \notin Used
    /\ graph'[NewUuid] = [note |-> current, text |-> notes[current], part |-> Len(added) + 1]
    /\ \A i \in Ids \ {NewUuid} : graph'[i] = graph[i]

\* What the steps of an add do.
LEMMA AddStep ==
    ASSUME TypeOK, AddPart
    PROVE  /\ NewEpisode
           /\ added' = Append(added, NewUuid)
           /\ pc = "add" /\ Len(added) < Parts[notes[current]]
           /\ UNCHANGED <<disk, state, pc, current, notes, todo, strays, torn>>
<1>1. NewEpisode
  BY FreshUuid DEF NewEpisode, AddPart, TypeOK
<1>2. QED
  BY <1>1 DEF AddPart, locals, history

LEMMA FailStep ==
    ASSUME TypeOK, AddFails
    PROVE  /\ \/ UNCHANGED <<graph, strays>>
              \/ NewEpisode /\ strays' = strays \cup {NewUuid}
           /\ pc = "add" /\ pc' = "cleanup"
           /\ todo' = UuidsOf(added) /\ added' = <<>>
           /\ UNCHANGED <<disk, state, current, notes, torn>>
<1>1. \/ UNCHANGED <<graph, strays>>
      \/ NewEpisode /\ strays' = strays \cup {NewUuid}
  BY FreshUuid DEF NewEpisode, AddFails, TypeOK
<1>2. QED
  BY <1>1 DEF AddFails

\* What the steps of the state file do.
LEMMA ForgetStep ==
    ASSUME TypeOK, Control, Forget
    PROVE  /\ pc \in {"drop", "remove"} /\ todo = {} /\ current \in Notes
           /\ state'.notes = [state.notes EXCEPT ![current] = Absent]
           /\ disk'.notes = state'.notes
           /\ torn' = torn \ {current}
           /\ pc' \in {"gone", "add"}
           /\ pc' = "add" => current' = current
           /\ UNCHANGED <<graph, notes, todo, added, strays>>
<1>1. current \in Notes
  BY DEF Forget, Control
<1>2. state'.notes = [state.notes EXCEPT ![current] = Absent] /\ disk'.notes = state'.notes
  BY <1>1, StateAfter, NotesType DEF Forget, Save
<1>3. QED
  BY <1>1, <1>2 DEF Forget

LEMMA StoreStep ==
    ASSUME TypeOK, Control, BatchInv, StoreNote
    PROVE  /\ pc = "add" /\ current \in Notes /\ notes[current] \in Texts
           /\ Len(added) = Parts[notes[current]]
           /\ state'.notes = [state.notes EXCEPT ![current] =
                                 [text |-> notes[current], episodes |-> added]]
           /\ disk'.notes = state'.notes
           /\ pc' = "batch" /\ added' = <<>>
           /\ UNCHANGED <<graph, todo, strays, torn>>
<1>1. current \in Notes /\ notes[current] \in Texts
  BY CurrentText DEF StoreNote
<1>2. /\ state'.notes = [state.notes EXCEPT ![current] =
                            [text |-> notes[current], episodes |-> added]]
      /\ disk'.notes = state'.notes
  BY <1>1, StateAfter, NotesType DEF StoreNote, Save
<1>3. QED
  BY <1>1, <1>2 DEF StoreNote, history

(***************************************************************************)
(* What entries list is theirs.                                            *)
(***************************************************************************)

\* A listed episode is in use: a new one has another uuid.
LEMMA ListedUsed ==
    ASSUME TypeOK, NEW n \in Notes, state.notes[n] # Absent,
           NEW id \in UuidsOf(state.notes[n].episodes)
    PROVE  id \in UuidsIn(state) /\ id \in Used /\ id \in Ids
BY EntryType DEF UuidsIn, Used

LEMMA PointStep == IInv /\ [Next]_vars => EntriesPoint'
<1> SUFFICES ASSUME IInv, [Next]_vars,
                    NEW n \in Notes, state'.notes[n] # Absent,
                    NEW id \in UuidsOf(state'.notes[n].episodes), graph'[id] # Absent
             PROVE  graph'[id].note = n /\ graph'[id].text = state'.notes[n].text
  BY DEF EntriesPoint
<1>0. TypeOK /\ Control /\ BatchInv /\ EntriesPoint /\ AddedInv
  BY DEF IInv
<1>1. ASSUME state'.notes[n] = state.notes[n], graph'[id] = graph[id]
      PROVE  graph'[id].note = n /\ graph'[id].text = state'.notes[n].text
  BY <1>0, <1>1 DEF EntriesPoint
<1>2. CASE Quiet
  BY <1>1, <1>2 DEF Quiet
<1>3. CASE RemoveEpisode
  <2>1. state' = state
    BY <1>3 DEF RemoveEpisode
  <2>2. id \in Ids
    BY <1>0, <2>1, ListedUsed
  <2>3. graph'[id] = graph[id]
    BY <1>0, <1>3, <2>2, RemoveStep
  <2>4. QED
    BY <1>1, <2>1, <2>3
<1>4. CASE Forget
  <2>1. state'.notes[n] = state.notes[n] /\ graph' = graph
    BY <1>0, <1>4, ForgetStep, NotesType
  <2>2. QED
    BY <1>1, <2>1
<1>5. CASE AddPart
  <2>1. state' = state /\ NewEpisode
    BY <1>0, <1>5, AddStep
  <2>2. id \in Ids /\ id # NewUuid
    BY <1>0, <2>1, ListedUsed DEF NewEpisode
  <2>3. QED
    BY <1>1, <2>1, <2>2 DEF NewEpisode
<1>6. CASE StoreNote
  <2>1. CASE n = current
    <3>1. state'.notes[n] = [text |-> notes[n], episodes |-> added]
      BY <1>0, <1>6, <2>1, StoreStep, NotesType
    <3>2. PICK i \in DOMAIN added : id = added[i]
      BY <3>1 DEF UuidsOf
    <3>3. graph'[id] = [note |-> n, text |-> notes[n], part |-> i]
      BY <1>0, <1>6, <2>1, <3>2, StoreStep DEF AddedInv
    <3>4. QED
      BY <3>1, <3>3
  <2>2. CASE n # current
    <3>1. state'.notes[n] = state.notes[n] /\ graph' = graph
      BY <1>0, <1>6, <2>2, StoreStep, NotesType
    <3>2. QED
      BY <1>1, <3>1
  <2>3. QED
    BY <2>1, <2>2
<1>7. CASE RemoveFails
  BY <1>1, <1>7 DEF RemoveFails
<1>8. CASE AddFails
  <2>1. state' = state /\ (graph' = graph \/ NewEpisode)
    BY <1>0, <1>8, FailStep
  <2>2. id \in Ids /\ id \in Used
    BY <1>0, <2>1, ListedUsed
  <2>3. graph'[id] = graph[id]
    BY <2>1, <2>2 DEF NewEpisode
  <2>4. QED
    BY <1>1, <2>1, <2>3
<1>9. CASE Restart
  BY <1>0, <1>1, <1>9 DEF Restart, Control
<1>10. QED
  BY <1>2, <1>3, <1>4, <1>5, <1>6, <1>7, <1>8, <1>9, QuietSteps

(***************************************************************************)
(* What was added is there.                                                *)
(***************************************************************************)

\* The uuids of an add are in use too.
LEMMA AddedUsed ==
    ASSUME TypeOK, NEW i \in DOMAIN added
    PROVE  added[i] \in Used /\ added[i] \in Ids
BY DEF TypeOK, Used, UuidsOf

LEMMA AddedStep == IInv /\ [Next]_vars => AddedInv'
<1> SUFFICES ASSUME IInv, [Next]_vars PROVE AddedInv'
  OBVIOUS
<1>0. TypeOK /\ Control /\ BatchInv /\ EntriesPoint /\ AddedInv
  BY DEF IInv
<1>00. TypeOK' /\ Control' /\ BatchInv'
  BY TypeStep, ControlStep, BatchStep
<1>1. ASSUME pc' = "add", added' = <<>> PROVE AddedInv'
  <2>1. notes'[current'] \in Texts
    BY <1>00, <1>1 DEF Control, BatchInv, Takeable, TypeOK, Archive
  <2>2. 0 <= Parts[notes'[current']]
    BY <2>1, TextsAssumption
  <2>3. QED
    BY <1>1, <2>2 DEF AddedInv
<1>2. CASE Quiet
  <2>1. CASE pc' \notin {"add", "cleanup"}
    BY <2>1 DEF AddedInv
  <2>2. CASE UNCHANGED <<pc, current, notes, todo, graph, added>>
    BY <1>0, <2>2 DEF AddedInv
  <2>3. QED
    BY <1>1, <1>2, <2>1, <2>2 DEF Quiet
<1>3. CASE RemoveEpisode
  <2>1. PICK id \in todo :
           /\ id \in Ids /\ graph'[id] = Absent
           /\ \A i \in Ids \ {id} : graph'[i] = graph[i]
           /\ todo' = todo \ {id}
           /\ UNCHANGED <<disk, state, pc, current, notes, added, strays, torn>>
    BY <1>0, <1>3, RemoveStep
  <2>2. pc # "add" /\ todo \subseteq Ids
    BY <1>0, <1>3 DEF RemoveEpisode, TypeOK
  <2>3. \A i \in todo' : graph'[i] = graph[i] /\ i \in todo
    BY <2>1, <2>2
  <2>4. QED
    BY <1>0, <2>1, <2>2, <2>3 DEF AddedInv
<1>4. CASE Forget
  <2>1. pc' \in {"gone", "add"} /\ added' = added /\ pc # "add"
    BY <1>0, <1>4, ForgetStep
  <2>2. CASE pc' = "add"
    BY <1>0, <1>1, <2>1, <2>2 DEF Control
  <2>3. CASE pc' = "gone"
    BY <2>3 DEF AddedInv
  <2>4. QED
    BY <2>1, <2>2, <2>3
<1>5. CASE AddPart
  <2> DEFINE len == Len(added)
  <2>1. /\ NewEpisode /\ added' = Append(added, NewUuid)
        /\ pc = "add" /\ pc' = "add" /\ len < Parts[notes[current]]
        /\ UNCHANGED <<current, notes>>
    BY <1>0, <1>5, AddStep
  <2>2. added \in Seq(Ids) /\ NewUuid \in Ids
    BY <1>0, <2>1 DEF TypeOK, NewEpisode
  <2>3. /\ len \in Nat /\ DOMAIN added = 1 .. len
        /\ DOMAIN added' = 1 .. len + 1 /\ Len(added') = len + 1
        /\ \A i \in 1 .. len : added'[i] = added[i]
        /\ added'[len + 1] = NewUuid
    BY <2>1, <2>2
  <2>4. Len(added') <= Parts[notes'[current']]
    <3>1. notes[current] \in Texts
      BY <1>0, <2>1, CurrentText
    <3>2. Parts[notes[current]] \in Nat
      BY <3>1, TextsAssumption
    <3>3. QED
      BY <2>1, <2>3, <3>2
  <2>5. ASSUME NEW i \in DOMAIN added'
        PROVE  graph'[added'[i]] = [note |-> current', text |-> notes'[current'], part |-> i]
    <3>1. CASE i = len + 1
      BY <2>1, <2>3, <3>1 DEF NewEpisode
    <3>2. CASE i \in 1 .. len
      <4>1. added[i] \in Used /\ added[i] \in Ids /\ i \in DOMAIN added
        BY <1>0, <2>3, <3>2, AddedUsed
      <4>2. graph'[added[i]] = graph[added[i]]
        BY <2>1, <4>1 DEF NewEpisode
      <4>3. graph[added[i]] = [note |-> current, text |-> notes[current], part |-> i]
        BY <1>0, <2>1, <4>1 DEF AddedInv
      <4>4. QED
        BY <2>1, <2>3, <3>2, <4>2, <4>3
    <3>3. QED
      BY <2>3, <2>5, <3>1, <3>2
  <2>6. QED
    BY <2>1, <2>4, <2>5 DEF AddedInv
<1>6. CASE StoreNote
  BY <1>0, <1>6, StoreStep DEF AddedInv
<1>7. CASE RemoveFails
  <2>1. pc # "add" /\ todo' \subseteq todo /\ UNCHANGED <<pc, current, notes, graph>>
    BY <1>7 DEF RemoveFails
  <2>2. QED
    BY <1>0, <2>1 DEF AddedInv
<1>8. CASE AddFails
  <2>1. /\ UNCHANGED graph \/ NewEpisode
        /\ pc = "add" /\ pc' = "cleanup" /\ todo' = UuidsOf(added)
        /\ UNCHANGED <<current, notes>>
    BY <1>0, <1>8, FailStep
  <2>2. ASSUME NEW id \in todo'
        PROVE  graph'[id].note = current /\ graph'[id].text = notes[current]
    <3>1. PICK i \in DOMAIN added : id = added[i]
      BY <2>1, <2>2 DEF UuidsOf
    <3>2. id \in Used /\ id \in Ids
      BY <1>0, <3>1, AddedUsed
    <3>3. graph'[id] = graph[id]
      BY <2>1, <3>2 DEF NewEpisode
    <3>4. graph[added[i]] = [note |-> current, text |-> notes[current], part |-> i]
      BY <1>0, <2>1, <3>1 DEF AddedInv
    <3>5. QED
      BY <3>1, <3>3, <3>4
  <2>3. QED
    BY <2>1, <2>2 DEF AddedInv
<1>9. CASE Restart
  BY <1>9 DEF Restart, AddedInv
<1>10. QED
  BY <1>2, <1>3, <1>4, <1>5, <1>6, <1>7, <1>8, <1>9, QuietSteps

(***************************************************************************)
(* No episode is lost sight of.                                            *)
(***************************************************************************)

\* What is listed depends on the entries alone.
LEMMA SameListed ==
    /\ disk'.notes = disk.notes => UuidsIn(disk') = UuidsIn(disk)
    /\ disk.notes = state.notes => UuidsIn(disk) = UuidsIn(state)
BY DEF UuidsIn

LEMMA KnownStep == IInv /\ [Next]_vars => EpisodesKnown'
<1> SUFFICES ASSUME IInv, [Next]_vars, NEW id \in Ids, graph'[id] # Absent
             PROVE  id \in UuidsIn(disk') \cup UuidsOf(added') \cup todo' \cup strays'
  BY DEF EpisodesKnown, InGraph
<1>0. TypeOK /\ Control /\ BatchInv /\ EpisodesKnown
  BY DEF IInv
<1>1. ASSUME graph[id] # Absent
      PROVE  id \in UuidsIn(disk) \cup UuidsOf(added) \cup todo \cup strays
  BY <1>0, <1>1 DEF EpisodesKnown, InGraph
<1>2. CASE Quiet
  BY <1>1, <1>2, SameListed DEF Quiet
<1>3. CASE RemoveEpisode
  <2>1. PICK gone \in todo :
           /\ gone \in Ids /\ graph'[gone] = Absent
           /\ \A i \in Ids \ {gone} : graph'[i] = graph[i]
           /\ todo' = todo \ {gone}
           /\ UNCHANGED <<disk, state, pc, current, notes, added, strays, torn>>
    BY <1>0, <1>3, RemoveStep
  <2>2. id # gone /\ graph[id] # Absent
    BY <2>1
  <2>3. QED
    BY <1>1, <2>1, <2>2
<1>4. CASE Forget
  <2>1. /\ pc \in {"drop", "remove"} /\ todo = {} /\ current \in Notes
        /\ state'.notes = [state.notes EXCEPT ![current] = Absent]
        /\ disk'.notes = state'.notes
        /\ UNCHANGED <<graph, todo, added, strays>>
    BY <1>0, <1>4, ForgetStep
  <2>2. CASE id \in UuidsIn(disk)
    <3>1. PICK n \in Notes : disk.notes[n] # Absent /\ id \in UuidsOf(disk.notes[n].episodes)
      BY <2>2 DEF UuidsIn
    <3>2. CASE n = current
      <4>1. id \in todo \cup strays \/ graph[id] = Absent
        BY <1>0, <2>1, <3>1, <3>2 DEF Control
      <4>2. QED
        BY <2>1, <4>1
    <3>3. CASE n # current
      <4>1. disk'.notes[n] = disk.notes[n]
        BY <1>0, <2>1, <3>3, NotesType DEF Control
      <4>2. QED
        BY <3>1, <4>1 DEF UuidsIn
    <3>4. QED
      BY <3>2, <3>3
  <2>3. CASE id \notin UuidsIn(disk)
    BY <1>1, <2>1, <2>3
  <2>4. QED
    BY <2>2, <2>3
<1>5. CASE AddPart
  <2>1. /\ NewEpisode /\ added' = Append(added, NewUuid)
        /\ UNCHANGED <<disk, todo, strays>>
    BY <1>0, <1>5, AddStep
  <2>2. UuidsOf(added') = UuidsOf(added) \cup {NewUuid}
    BY <1>0, <2>1, UuidsAppend DEF TypeOK, NewEpisode
  <2>3. id # NewUuid => graph'[id] = graph[id]
    BY <2>1 DEF NewEpisode
  <2>4. QED
    BY <1>1, <2>1, <2>2, <2>3
<1>6. CASE StoreNote
  <2>1. /\ current \in Notes /\ pc = "add"
        /\ state'.notes = [state.notes EXCEPT ![current] =
                              [text |-> notes[current], episodes |-> added]]
        /\ disk'.notes = state'.notes
        /\ UNCHANGED <<graph, todo, strays>>
    BY <1>0, <1>6, StoreStep
  <2>2. CASE id \in UuidsIn(disk)
    <3>1. PICK n \in Notes : disk.notes[n] # Absent /\ id \in UuidsOf(disk.notes[n].episodes)
      BY <2>2 DEF UuidsIn
    <3>2. n # current
      BY <1>0, <2>1, <3>1 DEF Control
    <3>3. disk'.notes[n] = disk.notes[n]
      BY <1>0, <2>1, <3>2, NotesType DEF Control
    <3>4. QED
      BY <3>1, <3>3 DEF UuidsIn
  <2>3. CASE id \in UuidsOf(added)
    <3>1. disk'.notes[current] = [text |-> notes[current], episodes |-> added]
      BY <1>0, <2>1, NotesType
    <3>2. disk'.notes[current] \in Entry
      BY <1>0, <2>1, <3>1, CurrentText DEF TypeOK, Entry
    <3>3. disk'.notes[current] # Absent
      BY <3>2, AbsentAssumption
    <3>4. QED
      BY <2>1, <2>3, <3>1, <3>3 DEF UuidsIn
  <2>4. QED
    BY <1>1, <2>1, <2>2, <2>3
<1>7. CASE RemoveFails
  <2>1. todo \cup strays \subseteq todo' \cup strays' /\ UNCHANGED <<graph, disk, added>>
    BY <1>7 DEF RemoveFails
  <2>2. QED
    BY <1>1, <2>1
<1>8. CASE AddFails
  <2>1. /\ \/ UNCHANGED <<graph, strays>>
           \/ NewEpisode /\ strays' = strays \cup {NewUuid}
        /\ todo' = UuidsOf(added) /\ disk' = disk /\ pc = "add"
    BY <1>0, <1>8, FailStep
  <2>2. todo = {}
    BY <1>0, <2>1 DEF Control
  <2>3. id \in strays' \/ (graph[id] # Absent /\ strays \subseteq strays')
    BY <2>1 DEF NewEpisode
  <2>4. QED
    BY <1>1, <2>1, <2>2, <2>3
<1>9. CASE Restart
  <2>1. /\ disk' = disk /\ graph' = graph
        /\ strays \cup UuidsOf(added) \subseteq strays'
        /\ pc = "cleanup" => todo \subseteq strays'
    BY <1>9 DEF Restart
  <2>2. CASE pc \in {"drop", "remove"}
    <3>1. todo \subseteq UuidsOf(state.notes[current].episodes)
          /\ current \in Notes /\ state.notes[current] # Absent
      BY <1>0, <2>2 DEF Control
    <3>2. todo \subseteq UuidsIn(state)
      BY <1>0, <3>1, ListedUsed
    <3>3. UuidsIn(state) = UuidsIn(disk)
      BY <1>0, SameListed DEF Control
    <3>4. QED
      BY <1>1, <2>1, <3>2, <3>3
  <2>3. CASE pc \notin {"drop", "remove", "cleanup"}
    BY <1>0, <1>1, <2>1, <2>3 DEF Control
  <2>4. QED
    BY <1>1, <2>1, <2>2, <2>3
<1>10. QED
  BY <1>2, <1>3, <1>4, <1>5, <1>6, <1>7, <1>8, <1>9, QuietSteps

(***************************************************************************)
(* Entries stay whole.                                                     *)
(***************************************************************************)

\* A part of a whole entry is an episode of its note.
LEMMA WholePart ==
    ASSUME TypeOK, NEW n \in Notes, state.notes[n] # Absent, IsWhole(n, state.notes[n]),
           NEW i \in DOMAIN state.notes[n].episodes
    PROVE  LET id == state.notes[n].episodes[i]
           IN  /\ id \in Ids /\ id \in Used
               /\ graph[id] # Absent /\ graph[id].note = n
<1> DEFINE id == state.notes[n].episodes[i]
<1>1. state.notes[n].episodes \in Seq(Ids) /\ state.notes[n].text \in Texts
  BY EntryType
<1>2. id \in UuidsOf(state.notes[n].episodes)
  BY DEF UuidsOf
<1>3. id \in Ids /\ id \in Used
  BY <1>2, ListedUsed
<1>4. graph[id] = [note |-> n, text |-> state.notes[n].text, part |-> i]
  BY DEF IsWhole
<1>5. i \in Nat \ {0}
  BY <1>1
<1>6. graph[id] \in Episode
  BY <1>1, <1>4, <1>5 DEF Episode
<1>7. QED
  BY <1>3, <1>4, <1>6, AbsentAssumption

LEMMA WholeStep == IInv /\ [Next]_vars => EntriesWhole'
<1> SUFFICES ASSUME IInv, [Next]_vars,
                    NEW n \in Notes, disk'.notes[n] # Absent, ~Removing(n)', n \notin torn'
             PROVE  IsWhole(n, disk.notes[n])'
  BY DEF EntriesWhole
<1> DEFINE entry == disk.notes[n]
<1>0. TypeOK /\ Control /\ BatchInv /\ EntriesPoint /\ AddedInv /\ EntriesWhole
      /\ disk.notes = state.notes
  BY DEF IInv, Control
<1>1. ASSUME disk'.notes[n] = entry, ~Removing(n), n \notin torn,
             \A i \in DOMAIN entry.episodes :
                 graph'[entry.episodes[i]] = graph[entry.episodes[i]]
      PROVE  IsWhole(n, disk.notes[n])'
  <2>1. IsWhole(n, entry)
    BY <1>0, <1>1 DEF EntriesWhole
  <2>2. QED
    BY <1>1, <2>1 DEF IsWhole
<1>2. CASE Quiet
  <2>1. ~Removing(n)
    BY <1>2 DEF Quiet, Removing
  <2>2. QED
    BY <1>1, <1>2, <2>1 DEF Quiet
<1>3. CASE RemoveEpisode
  <2>1. PICK gone \in todo :
           /\ gone \in Ids /\ graph'[gone] = Absent
           /\ \A i \in Ids \ {gone} : graph'[i] = graph[i]
           /\ todo' = todo \ {gone}
           /\ UNCHANGED <<disk, state, pc, current, notes, added, strays, torn>>
    BY <1>0, <1>3, RemoveStep
  <2>2. pc \in {"drop", "remove", "cleanup"}
    BY <1>3 DEF RemoveEpisode
  <2>3. ~Removing(n) /\ n \notin torn /\ entry # Absent /\ disk'.notes[n] = entry
    BY <2>1 DEF Removing
  <2>4. IsWhole(n, entry)
    BY <1>0, <2>3 DEF EntriesWhole
  <2>5. n # current
    BY <1>0, <2>2, <2>3 DEF Removing, Control
  <2>6. graph[gone] # Absent => graph[gone].note = current
    BY <1>0, <2>1, <2>2 DEF EntriesPoint, Control, AddedInv
  <2>7. ASSUME NEW i \in DOMAIN entry.episodes
        PROVE  graph'[entry.episodes[i]] = graph[entry.episodes[i]]
    <3>1. /\ entry.episodes[i] \in Ids
          /\ graph[entry.episodes[i]] # Absent /\ graph[entry.episodes[i]].note = n
      BY <1>0, <2>3, <2>4, <2>7, WholePart
    <3>2. entry.episodes[i] # gone
      BY <2>5, <2>6, <3>1
    <3>3. QED
      BY <2>1, <3>1, <3>2
  <2>8. QED
    BY <1>1, <2>3, <2>7
<1>4. CASE Forget
  <2>1. /\ current \in Notes
        /\ disk'.notes = [disk.notes EXCEPT ![current] = Absent]
        /\ torn' = torn \ {current} /\ graph' = graph
    BY <1>0, <1>4, ForgetStep
  <2>2. disk'.notes[current] = Absent
    BY <1>0, <2>1, NotesType
  <2>3. n # current
    BY <2>2
  <2>4. disk'.notes[n] = entry
    BY <1>0, <2>1, <2>3, NotesType
  <2>5. QED
    BY <1>1, <2>1, <2>3, <2>4 DEF Removing
<1>5. ASSUME disk'.notes[n] = entry, ~Removing(n), n \notin torn, NewEpisode
      PROVE  IsWhole(n, disk.notes[n])'
  <2>1. IsWhole(n, entry)
    BY <1>0, <1>5 DEF EntriesWhole
  <2>2. ASSUME NEW i \in DOMAIN entry.episodes
        PROVE  graph'[entry.episodes[i]] = graph[entry.episodes[i]]
    <3>1. entry.episodes[i] \in Ids /\ entry.episodes[i] \in Used
      BY <1>0, <1>5, <2>1, <2>2, WholePart
    <3>2. QED
      BY <1>5, <3>1 DEF NewEpisode
  <2>3. QED
    BY <1>1, <1>5, <2>2
<1>6. CASE AddPart
  <2>1. NewEpisode /\ pc = "add" /\ UNCHANGED <<disk, torn>>
    BY <1>0, <1>6, AddStep
  <2>2. QED
    BY <1>5, <2>1 DEF Removing
<1>7. CASE StoreNote
  <2>1. /\ pc = "add" /\ current \in Notes
        /\ Len(added) = Parts[notes[current]]
        /\ disk'.notes = [disk.notes EXCEPT ![current] =
                             [text |-> notes[current], episodes |-> added]]
        /\ graph' = graph /\ torn' = torn
    BY <1>0, <1>7, StoreStep
  <2>2. CASE n = current
    <3>1. disk'.notes[n] = [text |-> notes[n], episodes |-> added]
      BY <1>0, <2>1, <2>2, NotesType
    <3>2. QED
      BY <1>0, <2>1, <2>2, <3>1 DEF IsWhole, AddedInv
  <2>3. CASE n # current
    <3>1. disk'.notes[n] = entry
      BY <1>0, <2>1, <2>3, NotesType
    <3>2. QED
      BY <1>1, <2>1, <3>1 DEF Removing
  <2>4. QED
    BY <2>2, <2>3
<1>8. CASE RemoveFails
  BY <1>1, <1>8 DEF RemoveFails, Removing
<1>9. CASE AddFails
  <2>1. /\ UNCHANGED graph \/ NewEpisode
        /\ pc = "add" /\ UNCHANGED <<disk, torn>>
    BY <1>0, <1>9, FailStep
  <2>2. QED
    BY <1>1, <1>5, <2>1 DEF Removing
<1>10. CASE Restart
  BY <1>1, <1>10 DEF Restart, Removing
<1>11. QED
  BY <1>2, <1>3, <1>4, <1>6, <1>7, <1>8, <1>9, <1>10, QuietSteps

(***************************************************************************)
(* The invariant and what follows from it.                                 *)
(***************************************************************************)
LEMMA InitInv == Init => IInv
<1> SUFFICES ASSUME Init PROVE IInv
  OBVIOUS
<1>1. \A n \in Notes : state.notes[n] = Absent /\ disk.notes[n] = Absent
  BY DEF Init, NoState, Nothing
<1>2. TypeOK
  BY EmptyTypes, BoundsAssumption DEF Init, TypeOK, Commits
<1>3. Control
  BY DEF Init, Control
<1>4. BatchInv /\ EntriesPoint /\ AddedInv /\ EntriesWhole
  BY <1>1 DEF Init, BatchInv, EntriesPoint, AddedInv, EntriesWhole
<1>5. EpisodesKnown
  BY DEF Init, EpisodesKnown, InGraph
<1>6. QED
  BY <1>2, <1>3, <1>4, <1>5 DEF IInv

\* Every step keeps the invariant.
LEMMA NextInv == IInv /\ [Next]_vars => IInv'
BY TypeStep, ControlStep, BatchStep, PointStep, AddedStep, KnownStep, WholeStep DEF IInv

LEMMA InvariantHolds == Spec => []IInv
BY InitInv, NextInv, PTL DEF Spec

\* What a known episode says: the text of the entry, or of the note at work.
LEMMA OneText ==
    ASSUME IInv, NEW id \in InGraph \ strays
    PROVE  LET n == graph[id].note
           IN  graph[id].text = IF state.notes[n] # Absent THEN state.notes[n].text
                                ELSE notes[n]
<1> DEFINE n == graph[id].note
<1>0. TypeOK /\ Control /\ EntriesPoint /\ AddedInv /\ EpisodesKnown
  BY DEF IInv
<1>1. id \in UuidsIn(disk) \cup UuidsOf(added) \cup todo
  BY <1>0 DEF EpisodesKnown
<1>2. graph[id] # Absent
  BY DEF InGraph
<1>3. CASE id \in UuidsIn(state)
  <2>1. PICK m \in Notes : state.notes[m] # Absent /\ id \in UuidsOf(state.notes[m].episodes)
    BY <1>3 DEF UuidsIn
  <2>2. n = m /\ graph[id].text = state.notes[m].text
    BY <1>0, <1>2, <2>1 DEF EntriesPoint
  <2>3. QED
    BY <2>1, <2>2
<1>4. CASE id \in UuidsOf(added)
  <2>1. PICK i \in DOMAIN added : id = added[i]
    BY <1>4 DEF UuidsOf
  <2>2. pc = "add"
    BY <1>0, <1>4, NoUuids DEF Control
  <2>3. graph[id] = [note |-> current, text |-> notes[current], part |-> i]
    BY <1>0, <2>1, <2>2 DEF AddedInv
  <2>4. QED
    BY <1>0, <2>2, <2>3 DEF Control
<1>5. CASE id \in todo
  <2>1. CASE pc = "cleanup"
    BY <1>0, <1>2, <1>5, <2>1 DEF AddedInv, Control
  <2>2. CASE pc \in {"drop", "remove"}
    <3>1. current \in Notes /\ state.notes[current] # Absent
          /\ id \in UuidsOf(state.notes[current].episodes)
      BY <1>0, <1>5, <2>2 DEF Control
    <3>2. QED
      BY <1>0, <1>3, <3>1, ListedUsed
  <2>3. QED
    BY <1>0, <1>5, <2>1, <2>2 DEF Control
<1>6. QED
  BY <1>0, <1>1, <1>3, <1>4, <1>5, SameListed DEF Control

\* Every variable stays in its type; no note fails more than MAX_ATTEMPTS times with
\* one text.
THEOREM TypeCorrect == Spec => []TypeOK
<1>1. IInv => TypeOK
  BY DEF IInv
<1>2. QED
  BY <1>1, InvariantHolds, PTL

\* An episode of the graph is in the state file, or the worker has it at hand, or a
\* failure has left it behind.
THEOREM EpisodesKnownAlways == Spec => []Safe
<1>1. IInv => Safe
  BY DEF IInv, Safe
<1>2. QED
  BY <1>1, InvariantHolds, PTL

\* The graph never holds two texts of one note, but for what failures left behind.
THEOREM NeverMixedAlways == Spec => []NeverMixed
<1>1. IInv => NeverMixed
  BY OneText DEF NeverMixed
<1>2. QED
  BY <1>1, InvariantHolds, PTL

\* What the state file lists of a note is in the graph, every part of it, unless a
\* removal is under way or was interrupted.
THEOREM EntriesWholeAlways == Spec => []EntriesWhole
<1>1. IInv => EntriesWhole
  BY DEF IInv
<1>2. QED
  BY <1>1, InvariantHolds, PTL

(***************************************************************************)
(* The worker is a replica.                                                *)
(***************************************************************************)

\* The same is shown while entries and removals are the same.
LEMMA ShownSame ==
    ASSUME disk'.notes = disk.notes,
           \A n \in Notes : (Removing(n) \/ n \in torn) <=> (Removing(n) \/ n \in torn)'
    PROVE  Shown' = Shown
BY DEF Shown

\* A removal begins: nothing else changes.
LEMMA ShownWithdraw ==
    ASSUME disk'.notes = disk.notes, torn' = torn,
           pc \notin {"drop", "remove"}, pc' \in {"drop", "remove"}, current' \in Notes
    PROVE  Shown' = [Shown EXCEPT ![current'] = Absent]
BY DEF Shown, Removing

\* What a step may do to the replica.
LEMMA ReplicaStep == IInv /\ IInv' /\ [Next]_vars => [Replica!Next]_Replica!vars
<1> SUFFICES ASSUME IInv, IInv', [Next]_vars PROVE [Replica!Next]_Replica!vars
  OBVIOUS
<1> USE DEF world, locals, history
<1>0. TypeOK /\ Control /\ BatchInv /\ disk.notes = state.notes
  BY DEF IInv, Control
<1>00. TypeOK' /\ Control' /\ disk'.notes = state'.notes
  BY DEF IInv, Control
<1>1. notes \in Archive /\ notes # Absent
  BY <1>0, AbsentAssumption DEF TypeOK
<1>2. ASSUME repo' = repo, Seen' = Seen, Shown' = Shown PROVE [Replica!Next]_Replica!vars
  BY <1>2 DEF Replica!vars
<1>3. ASSUME repo' = repo, Seen' = Absent, Shown' = Shown PROVE [Replica!Next]_Replica!vars
  BY <1>3 DEF Replica!Next, Replica!Close
<1>4. ASSUME disk'.notes = disk.notes, torn' = torn, repo' = repo, notes' = notes,
             pc \notin {"wait", "load", "drop", "remove"}, pc' \in {"drop", "remove"},
             current' \in Notes, state.notes[current'] # Absent,
             notes[current'] # state.notes[current'].text
      PROVE  [Replica!Next]_Replica!vars
  <2>1. Shown' = [Shown EXCEPT ![current'] = Absent]
    BY <1>4, ShownWithdraw
  <2>2. Seen = notes /\ Seen' = Seen
    BY <1>4 DEF Seen
  <2>3. CASE Shown[current'] = Absent
    <3>1. Shown' = Shown
      BY <2>1, <2>3 DEF Shown
    <3>2. QED
      BY <1>2, <1>4, <2>2, <3>1
  <2>4. CASE Shown[current'] # Absent
    <3>1. Shown[current'] = state.notes[current'].text
      BY <1>0, <1>4, <2>4 DEF Shown
    <3>2. QED
      BY <1>1, <1>4, <2>1, <2>2, <2>4, <3>1 DEF Replica!Next, Replica!Withdraw
  <2>5. QED
    BY <2>3, <2>4
<1>5. CASE ReadHead
  BY <1>2, <1>5, ShownSame DEF ReadHead, Seen, Removing
<1>6. CASE LoadNotes
  <2>1. Shown' = Shown /\ Seen = Absent /\ Seen' = repo /\ repo' = repo
    BY <1>6, ShownSame DEF LoadNotes, Seen, Removing
  <2>2. QED
    BY <2>1 DEF Replica!Next, Replica!Look
<1>7. CASE DropNote
  <2>1. current' \in Gone
    BY <1>7 DEF DropNote
  <2>2. current' \in Notes /\ state.notes[current'] # Absent /\ notes[current'] = Absent
    BY <2>1 DEF Gone
  <2>3. notes[current'] # state.notes[current'].text
    BY <1>0, <2>2, EntryType, TextsAssumption
  <2>4. QED
    BY <1>4, <1>7, <2>2, <2>3 DEF DropNote
<1>8. CASE SelectNotes
  <2>1. disk'.notes = disk.notes /\ Seen' = Seen /\ repo' = repo
    BY <1>8 DEF SelectNotes, Seen
  <2>2. QED
    BY <1>2, <1>8, <2>1, ShownSame DEF SelectNotes, Removing
<1>9. CASE NextNote
  <2>1. CASE pc' = "add"
    BY <1>2, <1>9, <2>1, ShownSame DEF NextNote, Seen, Removing
  <2>2. CASE pc' = "remove"
    <3>1. current' \in Notes /\ Takeable(current') /\ state.notes[current'] # Absent
      BY <1>0, <1>9, <2>2 DEF NextNote, BatchInv, TypeOK
    <3>2. QED
      BY <1>4, <1>9, <2>2, <3>1 DEF NextNote, Takeable
  <2>3. QED
    BY <1>9, <2>1, <2>2 DEF NextNote
<1>10. CASE RemoveEpisode \/ AddPart \/ RemoveFails
  <2>1. UNCHANGED <<repo, disk, pc, notes, current, torn>>
    BY <1>10 DEF RemoveEpisode, AddPart, RemoveFails
  <2>2. QED
    BY <1>2, <2>1, ShownSame DEF Seen, Removing
<1>11. CASE Forget
  <2>1. /\ pc \in {"drop", "remove"} /\ current \in Notes
        /\ disk'.notes = [disk.notes EXCEPT ![current] = Absent]
        /\ torn' = torn \ {current}
        /\ pc' \in {"gone", "add"} /\ notes' = notes /\ repo' = repo
    BY <1>0, <1>11, ForgetStep DEF Forget
  <2>2. /\ disk'.notes[current] = Absent
        /\ \A n \in Notes \ {current} : disk'.notes[n] = disk.notes[n]
    BY <1>0, <2>1, NotesType
  <2>3. Shown' = Shown
    BY <2>1, <2>2 DEF Shown, Removing
  <2>4. QED
    BY <1>2, <2>1, <2>3 DEF Seen
<1>12. CASE StoreNote
  <2>1. /\ pc = "add" /\ current \in Notes
        /\ disk'.notes = [disk.notes EXCEPT ![current] =
                             [text |-> notes[current], episodes |-> added]]
        /\ pc' = "batch" /\ torn' = torn /\ notes' = notes /\ repo' = repo
    BY <1>0, <1>12, StoreStep DEF StoreNote
  <2>2. /\ disk'.notes[current] = [text |-> notes[current], episodes |-> added]
        /\ \A n \in Notes \ {current} : disk'.notes[n] = disk.notes[n]
    BY <1>0, <2>1, NotesType
  <2>3. disk'.notes[current] \in Entry
    BY <1>0, <2>1, <2>2, CurrentText DEF TypeOK, Entry
  <2>4. disk'.notes[current] # Absent
    BY <2>3, AbsentAssumption
  <2>5. Seen = notes /\ Seen' = Seen /\ Shown[current] = Absent
    BY <1>0, <2>1 DEF Seen, Shown, Control
  <2>6. CASE current \in torn
    <3>1. Shown' = Shown
      BY <2>1, <2>2, <2>5, <2>6 DEF Shown, Removing
    <3>2. QED
      BY <1>2, <2>1, <2>5, <3>1
  <2>7. CASE current \notin torn
    <3>1. \A n \in Notes \ {current} : Shown'[n] = Shown[n]
      BY <2>1, <2>2 DEF Shown, Removing
    <3>2. Shown'[current] = disk'.notes[current].text
      BY <2>1, <2>4, <2>7 DEF Shown, Removing
    <3>3. Shown'[current] = notes[current]
      BY <2>2, <3>2
    <3>4. Shown' = [n \in Notes |-> Shown'[n]] /\ Shown = [n \in Notes |-> Shown[n]]
      BY DEF Shown
    <3>5. Shown' = [Shown EXCEPT ![current] = notes[current]]
      BY <2>1, <3>1, <3>3, <3>4
    <3>6. notes[current] # Absent
      BY <1>0, <2>1, CurrentText, TextsAssumption
    <3>7. QED
      BY <1>1, <2>1, <2>5, <3>5, <3>6 DEF Replica!Next, Replica!Show
  <2>8. QED
    BY <2>6, <2>7
<1>13. CASE CountFailure
  <2>1. current \in Notes
    BY <1>0, <1>13 DEF CountFailure, Control
  <2>2. disk'.notes = disk.notes
    BY <1>0, <1>13, <2>1, StateAfter, NotesType DEF CountFailure, Save
  <2>3. QED
    BY <1>2, <1>13, <2>2, ShownSame DEF CountFailure, Seen, Removing
<1>14. CASE FinishCycle
  <2>1. disk'.notes = disk.notes
    BY <1>0, <1>14 DEF FinishCycle, Save, TypeOK, State
  <2>2. QED
    BY <1>3, <1>14, <2>1, ShownSame DEF FinishCycle, Seen, Removing
<1>15. CASE AddFails
  BY <1>2, <1>15, ShownSame DEF AddFails, Seen, Removing
<1>16. CASE LoadFails
  BY <1>3, <1>16, ShownSame DEF LoadFails, Seen, Removing
<1>17. CASE Stop
  BY <1>2, <1>17, ShownSame DEF Stop, Seen, Removing
<1>18. CASE Restart
  <2>1. Shown' = Shown
    BY <1>18, ShownSame DEF Restart, Removing
  <2>2. QED
    BY <1>3, <1>18, <2>1 DEF Restart, Seen
<1>19. CASE CommitNote
  <2>1. Shown' = Shown /\ Seen' = Seen
    BY <1>19, ShownSame DEF CommitNote, Seen, Removing
  <2>2. \E n \in Notes, t \in Texts \cup {Absent} : repo' = [repo EXCEPT ![n] = t]
    BY <1>19 DEF CommitNote
  <2>3. QED
    BY <2>1, <2>2 DEF Replica!Next, Replica!Commit
<1>20. CASE UNCHANGED vars
  BY <1>2, <1>20, ShownSame DEF vars, Seen, Removing
<1>21. QED
  BY <1>5, <1>6, <1>7, <1>8, <1>9, <1>10, <1>11, <1>12, <1>13, <1>14, <1>15, <1>16, <1>17,
     <1>18, <1>19, <1>20 DEF Next, Cycle, World

\* The worker takes a text out of the graph only when the archive it read has
\* another one, and puts texts of that archive in, whole, for notes that show none.
THEOREM ReplicaOfBranch == Spec => IsReplica
<1>1. Init => Replica!Init
  BY DEF Init, Replica!Init, Seen, Shown, Archive, Replica!Archive, NoState, Nothing
<1>2. QED
  BY <1>1, ReplicaStep, InvariantHolds, PTL DEF Spec, IsReplica, Replica!Spec
================================================================================
