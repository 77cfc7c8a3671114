--------------------------- MODULE BrainCycleProofs ---------------------------
(***************************************************************************)
(* Theorems about the loop of brain-sync, for any number of changes,       *)
(* commits of others, failures and restarts; and, in the second half,      *)
(* about the write-back to Meerkat that the loop calls (MeerkatSync), for  *)
(* any number of contacts, edits and failures.                             *)
(***************************************************************************)
EXTENDS BrainCycle, TLAPS, Integers, Sequences, FiniteSets, FiniteSetTheorems,
        WellFoundedInduction

(***************************************************************************)
(* Renderings are what TypeOK says they are.                               *)
(***************************************************************************)

\* The front matter of pages, deleted or edited ones included.
LEMMA DirType == ASSUME NEW p \in Pages PROVE Dir(p) \in Views
<1>1. CASE p \in {None, Hand}
  BY <1>1 DEF Dir, Views
<1>2. CASE p \in Page
  <2>1. p \notin {None, Hand}
    BY <1>2, ConstantsAssumption
  <2>2. p.src \in Nat /\ p.kept \in Nat /\ p.other \in Nat
    BY <1>2 DEF Page
  <2>3. QED
    BY <2>1, <2>2 DEF Dir, Views, View
<1>3. QED
  BY <1>1, <1>2 DEF Pages

\* What a rebuild commits is a rendering.
LEMMA NewPagesType == TypeOK => NewPages \in Page /\ NewPages \in Pages
BY DEF TypeOK, NewPages, Rendering, Page, Pages, Snap

\* The directory is known when the mail is rendered.
LEMMA NewMailType == TypeOK /\ known # Unloaded => NewMail \in Mail
<1>1. SUFFICES ASSUME TypeOK, known # Unloaded PROVE NewMail \in Mail
  OBVIOUS
<1>2. known \in Pages
  BY <1>1 DEF TypeOK
<1>3. Dir(known) \in Views
  BY <1>2, DirType
<1>4. QED
  BY <1>1, <1>3 DEF TypeOK, NewMail, Mail

\* A commit or none.
LEMMA HeadAfterType ==
    ASSUME head \in Nat, NEW old, NEW new
    PROVE  HeadAfter(old, new) \in Nat
BY DEF HeadAfter

(***************************************************************************)
(* The initial states.                                                     *)
(***************************************************************************)

\* The values a new process starts from.
LEMMA RestartTypes == NoSnap \in Snap /\ NoMail \in Mail /\ None \in Pages
BY DEF NoSnap, NoMail, Snap, Mail, Views, Pages

\* A new process on an empty repository.
LEMMA InitInv == Init => IInv
<1>1. SUFFICES ASSUME Init PROVE IInv
  OBVIOUS
<1>2. TypeOK
  <2>1. mail \in Mail /\ snap \in Snap /\ pages \in Pages /\ base \in Pages
    BY <1>1, RestartTypes DEF Init
  <2>2. events \in 0 .. MaxEvents
    BY <1>1, BoundsAssumption DEF Init
  <2>3. QED
    BY <1>1, <2>1, <2>2 DEF Init, TypeOK
<1>3. TriggerInv
  BY <1>1 DEF Init, TriggerInv
<1>4. RebuildInv
  BY <1>1, ConstantsAssumption DEF Init, RebuildInv, Rebuilding, CurrentUnlessOvertaken
<1>5. QED
  BY <1>2, <1>3, <1>4 DEF IInv

(***************************************************************************)
(* The steps, one action at a time.  First: types are preserved.           *)
(***************************************************************************)
LEMMA TypeStep == TypeOK /\ [Next]_vars => TypeOK'
<1> SUFFICES ASSUME TypeOK, [Next]_vars PROVE TypeOK'
  OBVIOUS
<1> USE DEF TypeOK, outside, branch, locals, memory, history
<1>1. CASE Wait
  BY <1>1 DEF Wait
<1>2. CASE Clear
  BY <1>2 DEF Clear
<1>3. CASE FetchSources
  BY <1>3 DEF FetchSources
<1>4. CASE StoreSources
  <2>1. moved' \in BOOLEAN
    BY <1>4, Zenon DEF StoreSources
  <2>2. src' \in Nat /\ head' \in Nat /\ failed' = FALSE
    BY <1>4, HeadAfterType, Zenon DEF StoreSources
  <2>3. pc' = "slow" /\ UNCHANGED <<outside, kept, mail, other, pages, wake, locals,
                                    entLast, entDue, slowDue, googleDue, known, selfs,
                                    events, owed, overtaken>>
    BY <1>4 DEF StoreSources
  <2>4. QED
    BY <1>4, <2>1, <2>2, <2>3 DEF outside
<1>5. CASE SkipEntities
  BY <1>5 DEF SkipEntities
<1>6. CASE ReadHead
  BY <1>6 DEF ReadHead
<1>7. CASE Archive
  <2>1. [src |-> src, kept |-> kept, mail |-> mail, other |-> other] \in Snap
    BY DEF Snap
  <2>2. QED
    BY <1>7, <2>1 DEF Archive
<1>8. CASE ListPages
  BY <1>8 DEF ListPages
<1>9. CASE CommitPages
  BY <1>9, NewPagesType DEF CommitPages, HeadAfter, NewPages
<1>10. CASE CommitDropped
  BY <1>10, NewPagesType DEF CommitDropped, NewPages
<1>11. CASE CommitRefused
  BY <1>11 DEF CommitRefused, NewPages
<1>12. CASE RememberHead
  BY <1>12 DEF RememberHead
<1>13. CASE SkipGoogle
  BY <1>13 DEF SkipGoogle, EndCycle
<1>14. CASE LoadDirectory
  BY <1>14, ConstantsAssumption DEF LoadDirectory
<1>15. CASE LearnSelf
  BY <1>15 DEF LearnSelf
<1>16. CASE ReadMail
  BY <1>16 DEF ReadMail
<1>17. CASE StoreMail
  <2>1. moved' \in BOOLEAN
    BY <1>17, Zenon DEF StoreMail
  <2>2. mail' \in Mail
    BY <1>17, NewMailType DEF StoreMail
  <2>3. head' \in Nat /\ googleDue' = FALSE
    BY <1>17, HeadAfterType, Zenon DEF StoreMail
  <2>4. pc' = "wait" /\ UNCHANGED <<outside, src, kept, other, pages, wake, locals,
                                    entLast, entDue, slowDue, known, selfs, failed, events, owed,
                                    overtaken>>
    BY <1>17 DEF StoreMail, EndCycle
  <2>5. QED
    BY <1>17, <2>1, <2>2, <2>3, <2>4 DEF outside
<1>18. CASE SourcesFail
  BY <1>18, BoundsAssumption DEF SourcesFail, Event
<1>19. CASE EntitiesFail
  BY <1>19, BoundsAssumption DEF EntitiesFail, Event
<1>20. CASE GoogleFails
  BY <1>20, BoundsAssumption DEF GoogleFails, EndCycle, Event
<1>21. CASE MailFails
  <2>1. events' \in 0 .. MaxEvents
    BY <1>21, BoundsAssumption DEF MailFails, Event
  <2>2. googleDue' \in BOOLEAN
    BY <1>21 DEF MailFails
  <2>3. UNCHANGED <<outside, branch, wake, locals, entLast, entDue, slowDue, known,
                    selfs, failed, history>> /\ pc' = "wait"
    BY <1>21 DEF MailFails, EndCycle
  <2>4. QED
    BY <1>21, <2>1, <2>2, <2>3 DEF outside
<1>22. CASE SourcesAnswerLost
  BY <1>22, BoundsAssumption DEF SourcesAnswerLost, Event
<1>23. CASE PagesAnswerLost
  BY <1>23, NewPagesType, BoundsAssumption DEF PagesAnswerLost, NewPages, Event
<1>24. CASE HeadUnknown
  <2>1. events' \in 0 .. MaxEvents
    BY <1>24, BoundsAssumption DEF HeadUnknown, Event
  <2>2. entLast' \in Nat /\ entDue' \in BOOLEAN /\ moved' \in BOOLEAN
    BY <1>24 DEF HeadUnknown
  <2>3. pc' = "directory" /\ UNCHANGED <<outside, branch, wake, locals, slowDue,
                                         googleDue, known, selfs, failed, owed, overtaken>>
    BY <1>24 DEF HeadUnknown
  <2>4. QED
    BY <1>24, <2>1, <2>2, <2>3 DEF outside
<1>25. CASE Restart
  <2>1. events' \in 0 .. MaxEvents
    BY <1>25, BoundsAssumption DEF Restart, Event
  <2>2. pc' = "fetch" /\ wake' \in BOOLEAN /\ entLast' \in Nat \cup {None}
    BY <1>25 DEF Restart
  <2>3. /\ entDue' \in BOOLEAN
        /\ slowDue' \in BOOLEAN
        /\ googleDue' \in BOOLEAN
        /\ selfs' \in BOOLEAN
        /\ failed' \in BOOLEAN
        /\ moved' \in BOOLEAN
    BY <1>25 DEF Restart
  <2>4. /\ known' \in Pages \cup {Unloaded}
        /\ got' \in Nat
        /\ headRead' \in Nat
        /\ snap' \in Snap
        /\ base' \in Pages
    BY <1>25, RestartTypes DEF Restart
  <2>5. UNCHANGED <<outside, branch, owed, overtaken>>
    BY <1>25 DEF Restart
  <2>6. QED
    BY <1>25, <2>1, <2>2, <2>3, <2>4, <2>5 DEF outside
<1>26. CASE SourceChanges
  BY <1>26, BoundsAssumption DEF SourceChanges, Event
<1>27. CASE MailArrives
  BY <1>27, BoundsAssumption DEF MailArrives, Event
<1>28. CASE Trigger
  BY <1>28 DEF Trigger
<1>29. CASE OtherCommit
  <2>1. overtaken' \in BOOLEAN
    BY <1>29, Zenon DEF OtherCommit
  <2>2. QED
    BY <1>29, <2>1, BoundsAssumption DEF OtherCommit, Event
<1>30. CASE EditPages
  <2>1. overtaken' \in BOOLEAN
    BY <1>30, Zenon DEF EditPages
  <2>2. pages' \in Pages
    BY <1>30 DEF EditPages, Pages
  <2>3. QED
    BY <1>30, <2>1, <2>2, BoundsAssumption DEF EditPages, Event
<1>31. CASE EntityTimer
  BY <1>31 DEF EntityTimer
<1>32. CASE GoogleTimer
  BY <1>32 DEF GoogleTimer
<1>33. CASE UNCHANGED vars
  BY <1>33 DEF vars
<1>34. CASE SkipSlow
  BY <1>34 DEF SkipSlow
<1>35. CASE FetchSlow
  BY <1>35 DEF FetchSlow
<1>36. CASE StoreSlow
  <2>1. moved' \in BOOLEAN
    BY <1>36, Zenon DEF StoreSlow
  <2>2. kept' \in Nat /\ head' \in Nat /\ slowDue' = FALSE
    BY <1>36, HeadAfterType, Zenon DEF StoreSlow
  <2>3. pc' = "head" /\ UNCHANGED <<outside, src, mail, other, pages, wake, locals,
                                    entLast, entDue, googleDue, known, selfs, failed,
                                    events, owed, overtaken>>
    BY <1>36 DEF StoreSlow
  <2>4. QED
    BY <1>36, <2>1, <2>2, <2>3 DEF outside
<1>37. CASE SlowFails
  BY <1>37, BoundsAssumption DEF SlowFails, Event
<1>38. CASE SlowAnswerLost
  BY <1>38, BoundsAssumption DEF SlowAnswerLost, Event
<1>39. CASE SlowChanges
  BY <1>39, BoundsAssumption DEF SlowChanges, Event
<1>40. CASE SlowTimer
  BY <1>40 DEF SlowTimer
<1>41. QED
  BY <1>1, <1>2, <1>3, <1>4, <1>5, <1>6, <1>7, <1>8, <1>9, <1>10, <1>11, <1>12, <1>13,
       <1>14, <1>15, <1>16, <1>17, <1>18, <1>19, <1>20, <1>21, <1>22, <1>23, <1>24,
       <1>25, <1>26, <1>27, <1>28, <1>29, <1>30, <1>31, <1>32, <1>33, <1>34, <1>35,
       <1>36, <1>37, <1>38, <1>39, <1>40
  DEF Next, Process, Sources, Entities, Google, Fault, World

\* Whatever was fetched since the last clear covers the last /trigger.
LEMMA TriggerStep == TypeOK /\ TriggerInv /\ [Next]_vars => TriggerInv'
<1> SUFFICES ASSUME TypeOK, TriggerInv, [Next]_vars PROVE TriggerInv'
  OBVIOUS
<1> USE DEF TypeOK, TriggerInv, outside, branch, locals, memory, history
<1>1. CASE Wait
  BY <1>1 DEF Wait
<1>2. CASE Clear
  BY <1>2 DEF Clear
<1>3. CASE FetchSources
  BY <1>3 DEF FetchSources
<1>4. CASE StoreSources
  BY <1>4 DEF StoreSources, HeadAfter
<1>5. CASE SkipEntities
  BY <1>5 DEF SkipEntities
<1>6. CASE ReadHead
  BY <1>6 DEF ReadHead
<1>7. CASE Archive
  BY <1>7 DEF Archive
<1>8. CASE ListPages
  BY <1>8 DEF ListPages
<1>9. CASE CommitPages
  BY <1>9 DEF CommitPages, HeadAfter, NewPages
<1>10. CASE CommitDropped
  BY <1>10 DEF CommitDropped, NewPages
<1>11. CASE CommitRefused
  BY <1>11 DEF CommitRefused, NewPages
<1>12. CASE RememberHead
  BY <1>12 DEF RememberHead
<1>13. CASE SkipGoogle
  BY <1>13 DEF SkipGoogle, EndCycle
<1>14. CASE LoadDirectory
  BY <1>14 DEF LoadDirectory
<1>15. CASE LearnSelf
  BY <1>15 DEF LearnSelf
<1>16. CASE ReadMail
  BY <1>16 DEF ReadMail
<1>17. CASE StoreMail
  BY <1>17 DEF StoreMail, HeadAfter, NewMail, EndCycle
<1>18. CASE SourcesFail
  BY <1>18 DEF SourcesFail, Event
<1>19. CASE EntitiesFail
  BY <1>19 DEF EntitiesFail, Event
<1>20. CASE GoogleFails
  BY <1>20 DEF GoogleFails, EndCycle, Event
<1>21. CASE MailFails
  BY <1>21 DEF MailFails, EndCycle, Event
<1>22. CASE SourcesAnswerLost
  BY <1>22 DEF SourcesAnswerLost, Event
<1>23. CASE PagesAnswerLost
  BY <1>23 DEF PagesAnswerLost, NewPages, Event
<1>24. CASE HeadUnknown
  BY <1>24 DEF HeadUnknown, Event
<1>25. CASE Restart
  BY <1>25 DEF Restart, Event
<1>26. CASE SourceChanges
  BY <1>26 DEF SourceChanges, Event
<1>27. CASE MailArrives
  BY <1>27 DEF MailArrives, Event
<1>28. CASE Trigger
  BY <1>28 DEF Trigger
<1>29. CASE OtherCommit
  BY <1>29 DEF OtherCommit, Event
<1>30. CASE EditPages
  BY <1>30 DEF EditPages, Event
<1>31. CASE EntityTimer
  BY <1>31 DEF EntityTimer
<1>32. CASE GoogleTimer
  BY <1>32 DEF GoogleTimer
<1>33. CASE UNCHANGED vars
  BY <1>33 DEF vars
<1>34. CASE SkipSlow
  BY <1>34 DEF SkipSlow
<1>35. CASE FetchSlow
  BY <1>35 DEF FetchSlow
<1>36. CASE StoreSlow
  BY <1>36 DEF StoreSlow, HeadAfter
<1>37. CASE SlowFails
  BY <1>37 DEF SlowFails, Event
<1>38. CASE SlowAnswerLost
  BY <1>38 DEF SlowAnswerLost, Event
<1>39. CASE SlowChanges
  BY <1>39 DEF SlowChanges, Event
<1>40. CASE SlowTimer
  BY <1>40 DEF SlowTimer
<1>41. QED
  BY <1>1, <1>2, <1>3, <1>4, <1>5, <1>6, <1>7, <1>8, <1>9, <1>10, <1>11, <1>12, <1>13,
       <1>14, <1>15, <1>16, <1>17, <1>18, <1>19, <1>20, <1>21, <1>22, <1>23, <1>24,
       <1>25, <1>26, <1>27, <1>28, <1>29, <1>30, <1>31, <1>32, <1>33, <1>34, <1>35,
       <1>36, <1>37, <1>38, <1>39, <1>40
  DEF Next, Process, Sources, Entities, Google, Fault, World

\* A rebuild nobody interferes with works on the branch as it is.
LEMMA RebuildStep == TypeOK /\ RebuildInv /\ [Next]_vars => RebuildInv'
<1> SUFFICES ASSUME TypeOK, RebuildInv, [Next]_vars PROVE RebuildInv'
  OBVIOUS
<1> USE ConstantsAssumption DEF TypeOK, RebuildInv, Rebuilding, CurrentUnlessOvertaken,
          PagesCurrent, outside, branch, locals, memory, history
<1>1. CASE Wait
  BY <1>1 DEF Wait
<1>2. CASE Clear
  BY <1>2 DEF Clear
<1>3. CASE FetchSources
  BY <1>3 DEF FetchSources
<1>4. CASE StoreSources
  <2>1. CASE got = src
    <3>1. moved' = moved
      BY <1>4, <2>1, Zenon DEF StoreSources
    <3>2. QED
      BY <1>4, <2>1, <3>1 DEF StoreSources, HeadAfter
  <2>2. CASE got # src
    <3>1. moved' = TRUE
      BY <1>4, <2>2, Zenon DEF StoreSources
    <3>2. QED
      BY <1>4, <2>2, <3>1 DEF StoreSources, HeadAfter
  <2>3. QED
    BY <2>1, <2>2
<1>5. CASE SkipEntities
  BY <1>5 DEF SkipEntities
<1>6. CASE ReadHead
  BY <1>6 DEF ReadHead
<1>7. CASE Archive
  BY <1>7 DEF Archive
<1>8. CASE ListPages
  BY <1>8 DEF ListPages
<1>9. CASE CommitPages
  <2>1. CASE overtaken
    BY <1>9, <2>1 DEF CommitPages, HeadAfter
  <2>2. CASE ~overtaken
    <3>1. pages' = NewPages
      BY <1>9, <2>2 DEF CommitPages
    <3>2. NewPages \in Page /\ NewPages \notin {None, Hand}
      BY NewPagesType
    <3>3. NewPages.src = src /\ NewPages.kept = kept /\ NewPages.mail = mail
          /\ NewPages.other = other
      BY <1>9, <2>2 DEF CommitPages, NewPages, Rendering
    <3>4. PagesCurrent'
      BY <1>9, <3>1, <3>2, <3>3 DEF CommitPages
    <3>5. QED
      BY <1>9, <2>2, <3>4 DEF CommitPages, HeadAfter
  <2>3. QED
    BY <2>1, <2>2
<1>10. CASE CommitDropped
  BY <1>10 DEF CommitDropped, NewPages
<1>11. CASE CommitRefused
  BY <1>11 DEF CommitRefused, NewPages
<1>12. CASE RememberHead
  BY <1>12 DEF RememberHead
<1>13. CASE SkipGoogle
  BY <1>13 DEF SkipGoogle, EndCycle
<1>14. CASE LoadDirectory
  BY <1>14 DEF LoadDirectory
<1>15. CASE LearnSelf
  BY <1>15 DEF LearnSelf
<1>16. CASE ReadMail
  BY <1>16 DEF ReadMail
<1>17. CASE StoreMail
  <2>1. CASE NewMail = mail
    <3>1. moved' = moved
      BY <1>17, <2>1, Zenon DEF StoreMail
    <3>2. QED
      BY <1>17, <2>1, <3>1 DEF StoreMail, HeadAfter, EndCycle
  <2>2. CASE NewMail # mail
    <3>1. moved' = TRUE
      BY <1>17, <2>2, Zenon DEF StoreMail
    <3>2. QED
      BY <1>17, <2>2, <3>1 DEF StoreMail, HeadAfter, EndCycle
  <2>3. QED
    BY <2>1, <2>2
<1>18. CASE SourcesFail
  BY <1>18 DEF SourcesFail, Event
<1>19. CASE EntitiesFail
  BY <1>19 DEF EntitiesFail, Event
<1>20. CASE GoogleFails
  BY <1>20 DEF GoogleFails, EndCycle, Event
<1>21. CASE MailFails
  BY <1>21 DEF MailFails, EndCycle, Event
<1>22. CASE SourcesAnswerLost
  BY <1>22 DEF SourcesAnswerLost, Event
<1>23. CASE PagesAnswerLost
  BY <1>23 DEF PagesAnswerLost, NewPages, Event
<1>24. CASE HeadUnknown
  BY <1>24 DEF HeadUnknown, Event
<1>25. CASE Restart
  BY <1>25 DEF Restart, Event
<1>26. CASE SourceChanges
  BY <1>26 DEF SourceChanges, Event
<1>27. CASE MailArrives
  BY <1>27 DEF MailArrives, Event
<1>28. CASE Trigger
  BY <1>28 DEF Trigger
<1>29. CASE OtherCommit
  BY <1>29 DEF OtherCommit, Event
<1>30. CASE EditPages
  BY <1>30 DEF EditPages, Event
<1>31. CASE EntityTimer
  BY <1>31 DEF EntityTimer
<1>32. CASE GoogleTimer
  BY <1>32 DEF GoogleTimer
<1>33. CASE UNCHANGED vars
  BY <1>33 DEF vars
<1>34. CASE SkipSlow
  BY <1>34 DEF SkipSlow
<1>35. CASE FetchSlow
  BY <1>35 DEF FetchSlow
<1>36. CASE StoreSlow
  <2>1. CASE got = kept
    <3>1. moved' = moved
      BY <1>36, <2>1, Zenon DEF StoreSlow
    <3>2. QED
      BY <1>36, <2>1, <3>1 DEF StoreSlow, HeadAfter
  <2>2. CASE got # kept
    <3>1. moved' = TRUE
      BY <1>36, <2>2, Zenon DEF StoreSlow
    <3>2. QED
      BY <1>36, <2>2, <3>1 DEF StoreSlow, HeadAfter
  <2>3. QED
    BY <2>1, <2>2
<1>37. CASE SlowFails
  BY <1>37 DEF SlowFails, Event
<1>38. CASE SlowAnswerLost
  BY <1>38 DEF SlowAnswerLost, Event
<1>39. CASE SlowChanges
  BY <1>39 DEF SlowChanges, Event
<1>40. CASE SlowTimer
  BY <1>40 DEF SlowTimer
<1>41. QED
  BY <1>1, <1>2, <1>3, <1>4, <1>5, <1>6, <1>7, <1>8, <1>9, <1>10, <1>11, <1>12, <1>13,
       <1>14, <1>15, <1>16, <1>17, <1>18, <1>19, <1>20, <1>21, <1>22, <1>23, <1>24,
       <1>25, <1>26, <1>27, <1>28, <1>29, <1>30, <1>31, <1>32, <1>33, <1>34, <1>35,
       <1>36, <1>37, <1>38, <1>39, <1>40
  DEF Next, Process, Sources, Entities, Google, Fault, World

(***************************************************************************)
(* The theorems.                                                           *)
(***************************************************************************)

\* The three invariants together hold in every reachable state.
LEMMA Invariance == Spec => []IInv
<1>1. IInv /\ [Next]_vars => IInv'
  BY TypeStep, TriggerStep, RebuildStep DEF IInv
<1>2. QED
  BY InitInv, <1>1, PTL DEF Spec

\* Whatever is committed, whoever fails and whenever the pod is replaced, every
\* variable keeps its type: in particular the mail notes never hold more of the
\* pages than their front matter (EntityDirectory), and the directory is loaded
\* before the mail is rendered (sync_google).
THEOREM TypeCorrect == Spec => []TypeOK
<1>1. IInv => TypeOK
  BY DEF IInv
<1>2. QED
  BY Invariance, <1>1, PTL

\* No call of /trigger is lost between _wake.wait, _wake.clear and the cycle of
\* main: when the loop sleeps, the notes of Meerkat and Riffado are at least as
\* new as their listings were at the last call.  HubSpot and the mirrors, which
\* keep to their intervals, are no part of it.
THEOREM TriggersServed == Spec => []NoLostTrigger
<1>1. IInv => NoLostTrigger
  BY DEF IInv, TypeOK, TriggerInv, NoLostTrigger
<1>2. QED
  BY Invariance, <1>1, PTL

\* The window between the archive and the second read of the head is the only
\* way for sync_entities to remember a head whose pages are out of date.
THEOREM RebuildsCurrent == Spec => []Safe
<1>1. IInv => Safe
  BY DEF IInv, RebuildInv, Safe
<1>2. QED
  BY Invariance, <1>1, PTL

\* The commit of a rebuild never causes the next rebuild.
THEOREM RebuildsDue == Spec => NoIdleRebuild
<1>1. IInv /\ [Next]_vars => [pc = "head" /\ pc' = "archive" => moved]_vars
  <2>1. SUFFICES ASSUME IInv, Next, pc = "head", pc' = "archive" PROVE moved
    BY DEF vars
  <2>2. ReadHead
    BY <2>1 DEF Next, Process, Wait, Clear, Sources, FetchSources, StoreSources,
       SkipSlow, FetchSlow, StoreSlow, Entities,
       SkipEntities, Archive, ListPages, CommitPages, CommitDropped, CommitRefused,
       RememberHead, Google, SkipGoogle, LoadDirectory, LearnSelf, ReadMail, StoreMail,
       EndCycle, Fault, SourcesFail, EntitiesFail, GoogleFails, MailFails,
       SourcesAnswerLost, PagesAnswerLost, HeadUnknown, Restart, World, SourceChanges,
       SlowFails, SlowAnswerLost, SlowChanges, SlowTimer, MailArrives, Trigger,
       OtherCommit, EditPages, EntityTimer, GoogleTimer
  <2>3. QED
    BY <2>1, <2>2 DEF IInv, RebuildInv, ReadHead
<1>2. QED
  BY Invariance, <1>1, PTL DEF Spec, NoIdleRebuild

--------------------------------------------------------------------------------
(***************************************************************************)
(* What the cycle calls for Meerkat.  A second note or activity of the     *)
(* write-back is posted only when it believes that there is none.  It      *)
(* believes so wrongly after a failure only: of the request that fetched   *)
(* the contact, of the write, or of the answer to it; and then it is the   *)
(* failure that the second note or activity is counted against.            *)
(***************************************************************************)
CONSTANTS N, Budget, Gone, MaxVersions, MaxEdits, MaxFaults

VARIABLES people, own, acts, bumped, late, page, brain, met, full, todo, cache, reread,
          plan, at, budget, edits, faults

Mk == INSTANCE MeerkatSync

\* What the constants are.
Constants == Mk!BoundsAssumption /\ Mk!NoneAssumption

--------------------------------------------------------------------------------
(***************************************************************************)
(* Notes and their number.                                                 *)
(***************************************************************************)

\* The number of a set is the same in either module.
LEMMA CardinalityIs == \A S : Mk!Cardinality(S) = Cardinality(S)
BY DEF Mk!Cardinality, Cardinality

KeptIn(s) == {i \in DOMAIN s : s[i] # Gone}

\* A sequence of notes keeps a number of them.
LEMMA KeptCount ==
    ASSUME NEW s \in Seq(Mk!Texts)
    PROVE  IsFiniteSet(KeptIn(s)) /\ Mk!Cardinality(KeptIn(s)) \in Nat
<1>1. KeptIn(s) \subseteq 1 .. Len(s) /\ Len(s) \in Nat
  BY DEF KeptIn
<1>2. IsFiniteSet(1 .. Len(s))
  BY <1>1, CardinalityIs, FS_Interval
<1> QED
  BY <1>1, <1>2, CardinalityIs, FS_Subset, FS_CardinalityType

\* To write over notes that are kept does not make them more.
LEMMA KeptOverwritten ==
    ASSUME NEW s \in Seq(Mk!Texts), NEW t \in Seq(Mk!Texts), DOMAIN t = DOMAIN s,
           \A i \in DOMAIN s : s[i] = Gone => t[i] = Gone
    PROVE  Mk!Cardinality(KeptIn(t)) <= Mk!Cardinality(KeptIn(s))
<1>1. KeptIn(t) \subseteq KeptIn(s)
  BY DEF KeptIn
<1> QED
  BY <1>1, KeptCount, CardinalityIs, FS_Subset

\* To post a note, or the same twice, adds as many.
LEMMA KeptPosted ==
    ASSUME NEW s \in Seq(Mk!Texts), NEW x \in Mk!Texts, NEW n \in {1, 2}
    PROVE  /\ s \o [i \in 1 .. n |-> x] \in Seq(Mk!Texts)
           /\ Len(s \o [i \in 1 .. n |-> x]) = Len(s) + n
           /\ Mk!Cardinality(KeptIn(s \o [i \in 1 .. n |-> x])) <= Mk!Cardinality(KeptIn(s)) + n
<1> DEFINE p == [i \in 1 .. n |-> x]
           t == s \o p
           m == Len(s)
<1>1. p \in Seq(Mk!Texts) /\ Len(p) = n
  OBVIOUS
<1>2. m \in Nat /\ n \in Nat /\ m + 1 \in Int /\ m + n \in Int
  OBVIOUS
<1> HIDE DEF p
<1>3. t \in Seq(Mk!Texts) /\ Len(t) = m + n /\ \A i \in 1 .. m : t[i] = s[i]
  BY <1>1
<1>4. KeptIn(t) \subseteq KeptIn(s) \cup ((m + 1) .. (m + n))
  BY <1>2, <1>3 DEF KeptIn
<1>5. IsFiniteSet((m + 1) .. (m + n)) /\ Mk!Cardinality((m + 1) .. (m + n)) = n
  <2>1. IsFiniteSet((m + 1) .. (m + n))
        /\ Mk!Cardinality((m + 1) .. (m + n)) =
              IF m + 1 > m + n THEN 0 ELSE (m + n) - (m + 1) + 1
    BY <1>2, CardinalityIs, FS_Interval
  <2>2. ~(m + 1 > m + n) /\ (m + n) - (m + 1) + 1 = n
    BY <1>2
  <2> QED
    BY <2>1, <2>2
<1> DEFINE K == KeptIn(s)
           J == (m + 1) .. (m + n)
<1>6. IsFiniteSet(K) /\ Mk!Cardinality(K) \in Nat
  BY KeptCount
<1>7. IsFiniteSet(K \cup J) /\ Mk!Cardinality(K \cap J) \in Nat
      /\ Mk!Cardinality(K \cup J)
            = Mk!Cardinality(K) + Mk!Cardinality(J) - Mk!Cardinality(K \cap J)
  BY <1>5, <1>6, CardinalityIs, FS_Union, FS_Intersection, FS_CardinalityType
<1>8. Mk!Cardinality(KeptIn(t)) <= Mk!Cardinality(K \cup J)
  <2> HIDE DEF t, K, J
  <2> QED
    BY <1>4, <1>7, CardinalityIs, FS_Subset DEF K, J
<1>9. Mk!Cardinality(KeptIn(t)) \in Nat
  BY <1>3, KeptCount
<1>10. Mk!Cardinality(KeptIn(t)) <= Mk!Cardinality(KeptIn(s)) + n
  <2>1. Mk!Cardinality(J) = n
    BY <1>5
  <2> HIDE DEF t, K, J
  <2>2. Mk!Cardinality(K \cup J) <= Mk!Cardinality(K) + n
    BY <1>6, <1>7, <1>2, <2>1
  <2>3. Mk!Cardinality(K \cup J) \in Nat
    BY <1>7, CardinalityIs, FS_CardinalityType
  <2>4. Mk!Cardinality(KeptIn(t)) <= Mk!Cardinality(K) + n
    BY <1>2, <1>6, <1>8, <1>9, <2>2, <2>3
  <2> QED
    BY <2>4 DEF K
<1> QED
  BY <1>3, <1>10 DEF p

\* The list of a contact that has notes is not empty.
LEMMA EmptyListing ==
    ASSUME NEW s \in Seq(Mk!Texts), NEW order \in Mk!SetToSeqs(KeptIn(s))
    PROVE  /\ DOMAIN order = 1 .. Mk!Cardinality(KeptIn(s))
           /\ \A k \in DOMAIN order : order[k] \in DOMAIN s
           /\ Len(order) = Mk!Cardinality(KeptIn(s)) /\ order \in Seq(Nat)
<1>1. Mk!Cardinality(KeptIn(s)) \in Nat
  BY KeptCount
<1>2. order \in [1 .. Mk!Cardinality(KeptIn(s)) -> KeptIn(s)]
  BY DEF Mk!SetToSeqs
<1>3. KeptIn(s) \subseteq DOMAIN s /\ KeptIn(s) \subseteq Nat
  BY DEF KeptIn
<1> DEFINE k == Mk!Cardinality(KeptIn(s))
<1>4. order \in [1 .. k -> Nat] /\ DOMAIN order = 1 .. k
  BY <1>2, <1>3
<1>5. \A i \in DOMAIN order : order[i] \in DOMAIN s
  BY <1>2, <1>3
<1> HIDE DEF k
<1>6. order \in Seq(Nat) /\ Len(order) = k
  BY <1>1, <1>4 DEF k
<1> QED
  BY <1>4, <1>5, <1>6 DEF k

\* A set of numbers has a least one.
LEMMA LeastIs ==
    ASSUME NEW S \in SUBSET Nat, S # {}
    PROVE  Mk!Min(S) \in S
<1> DEFINE R == OpToRel(<, Nat)
<1>1. IsWellFoundedOn(R, Nat)
  BY NatLessThanWellFounded
<1>2. \A x, y \in Nat : x < y => <<x, y>> \in R
  BY DEF OpToRel
<1> HIDE DEF R
<1>3. PICK m \in S : \A y \in S : ~(<<y, m>> \in R)
  BY <1>1, WFMin
<1>4. \A y \in S : m <= y
  <2>1. TAKE y \in S
  <2>2. m \in Nat /\ y \in Nat
    OBVIOUS
  <2>3. y < m => <<y, m>> \in R
    BY <1>2, <2>2
  <2>4. ~(<<y, m>> \in R)
    BY <1>3
  <2> QED
    BY <2>2, <2>3, <2>4
<1> QED
  BY <1>4 DEF Mk!Min
--------------------------------------------------------------------------------
(***************************************************************************)
(* What the types say.                                                     *)
(***************************************************************************)
NoteFacts(c) ==
    /\ own[c] \in Seq(Mk!Texts) /\ Mk!Kept(c) = KeptIn(own[c])
    /\ Mk!Cardinality(Mk!Kept(c)) \in Nat

LEMMA Numbers ==
    ASSUME Constants, Mk!TypeOK
    PROVE  /\ faults \in Nat /\ edits \in Nat /\ budget \in Nat /\ Len(acts) \in Nat
           /\ 1 \in Mk!Contacts /\ Mk!Contacts \subseteq Nat /\ 0 \in Mk!Versions
           /\ \A c \in Mk!Contacts : NoteFacts(c)
<1>1. faults \in Nat /\ edits \in Nat /\ budget \in Nat /\ Len(acts) \in Nat
  BY DEF Mk!TypeOK, Constants, Mk!BoundsAssumption
<1>2. 1 \in Mk!Contacts /\ Mk!Contacts \subseteq Nat /\ 0 \in Mk!Versions
  BY DEF Constants, Mk!BoundsAssumption, Mk!Contacts, Mk!Versions
<1>3. ASSUME NEW c \in Mk!Contacts
      PROVE  NoteFacts(c)
  <2>1. own[c] \in Seq(Mk!Texts)
    BY DEF Mk!TypeOK
  <2>2. Mk!Kept(c) = KeptIn(own[c])
    BY DEF Mk!Kept, KeptIn
  <2> QED
    BY <2>1, <2>2, KeptCount DEF NoteFacts
<1> QED
  BY <1>1, <1>2, <1>3

\* What is known of a contact when something is known.
LEMMA KnownIs ==
    ASSUME Constants, Mk!TypeOK, NEW c \in Mk!Contacts
    PROVE  /\ known[c] # None => known[c] \in Mk!Details
           /\ cache[c] # None => cache[c] \in Mk!Details
BY DEF Mk!TypeOK

\* The activity that a PUT is about.
LEMMA TheActIs ==
    ASSUME Constants, Mk!TypeOK, \A c \in Mk!Contacts : known[c] # None, Mk!Holders # {}
    PROVE  Mk!TheAct \in Nat /\ Mk!Holders \subseteq Mk!Contacts
<1>1. Mk!Holders \subseteq Mk!Contacts /\ Mk!Contacts \subseteq Nat
  BY Numbers DEF Mk!Holders
<1>2. Mk!Min(Mk!Holders) \in Mk!Holders
  BY <1>1, LeastIs
<1> DEFINE m == Mk!Min(Mk!Holders)
<1>3. m \in Mk!Contacts /\ known[m].acts # {}
  BY <1>1, <1>2 DEF Mk!Holders
<1>4. known[m].acts \in SUBSET Nat
  BY <1>3, KnownIs DEF Mk!Details
<1>5. Mk!Min(known[m].acts) \in known[m].acts
  BY <1>3, <1>4, LeastIs
<1> QED
  BY <1>1, <1>4, <1>5 DEF Mk!TheAct

--------------------------------------------------------------------------------
(***************************************************************************)
(* What a step owes for a contact's notes, and for the activities.         *)
(***************************************************************************)

\* The bound of one contact.
NoteBound(c) ==
    /\ Mk!Cardinality(Mk!Kept(c)) <= 1 + faults
    /\ Mk!HasNone(known, c) => Mk!Cardinality(Mk!Kept(c)) <= faults
    /\ c \in reread /\ Mk!HasNone(cache, c) =>
          /\ Mk!Cardinality(Mk!Kept(c)) <= faults
          /\ Mk!HasNone(known, c) /\ pc # "fetch" => Mk!Cardinality(Mk!Kept(c)) < faults

\* A step that adds no more notes than failures keeps the bound, when it makes
\* nobody believe that notes are missing.
LEMMA NotesFrame ==
    ASSUME Constants, Mk!TypeOK, Mk!TypeOK', NEW c \in Mk!Contacts, NoteBound(c),
           Mk!Cardinality(Mk!Kept(c)') + faults <= Mk!Cardinality(Mk!Kept(c)) + faults',
           Mk!HasNone(known, c)' => Mk!HasNone(known, c),
           c \in reread' /\ Mk!HasNone(cache, c)' => c \in reread /\ Mk!HasNone(cache, c),
           \/ pc' = "fetch" \/ pc # "fetch"
           \/ Mk!Cardinality(Mk!Kept(c)') + faults < Mk!Cardinality(Mk!Kept(c)) + faults'
    PROVE  NoteBound(c)'
<1>1. faults \in Nat /\ faults' \in Nat
  <2>1. faults' \in 0 .. MaxFaults
    BY DEF Mk!TypeOK
  <2> QED
    BY <2>1, Numbers
<1>2. Mk!Cardinality(Mk!Kept(c)) \in Nat
  BY Numbers DEF NoteFacts
<1>3. Mk!Cardinality(Mk!Kept(c)') \in Nat
  <2>1. own'[c] \in Seq(Mk!Texts) /\ Mk!Kept(c)' = KeptIn(own'[c])
    BY DEF Mk!TypeOK, Mk!Kept, KeptIn
  <2> QED
    BY <2>1, KeptCount
<1> QED
  BY <1>1, <1>2, <1>3 DEF NoteBound

\* The same notes, or fewer.
LEMMA NotesSame ==
    ASSUME NEW c \in Mk!Contacts, own' = own
    PROVE  Mk!Kept(c)' = Mk!Kept(c)
BY DEF Mk!Kept

\* The contact shows an activity wherever it will be looked for.
Shown(c) == Mk!Shows(known, c) /\ (c \in reread => Mk!Shows(cache, c))
NoneHas == \A c \in Mk!Contacts : known[c] # None => known[c].acts = {}

LEMMA ActsFrame ==
    ASSUME Constants, Mk!TypeOK, Mk!TypeOK', Mk!ActsBounded,
           Len(acts') + faults <= Len(acts) + faults',
           \A c \in Mk!Contacts : Shown(c) => Shown(c)',
           reread' # {} /\ pc' # "fetch" /\ NoneHas' =>
              reread # {} /\ NoneHas
                 /\ (pc # "fetch" \/ Len(acts') + faults < Len(acts) + faults')
    PROVE  Mk!ActsBounded'
<1>1. faults \in Nat /\ faults' \in Nat /\ Len(acts) \in Nat /\ Len(acts') \in Nat
  <2>1. faults' \in 0 .. MaxFaults /\ acts' \in Seq(SUBSET Mk!Contacts)
    BY DEF Mk!TypeOK
  <2> QED
    BY <2>1, Numbers
<1>2. Len(acts') <= 1 + faults'
  BY <1>1 DEF Mk!ActsBounded
<1>3. Len(acts') <= faults' \/ \E c \in Mk!Contacts : Shown(c)'
  <2>1. Len(acts) <= faults \/ \E c \in Mk!Contacts : Shown(c)
    BY DEF Mk!ActsBounded, Shown
  <2> QED
    BY <1>1, <2>1
<1>4. reread' # {} /\ pc' # "fetch" /\ NoneHas' => Len(acts') < faults'
  <2>1. NoneHas => Len(acts) <= faults
    BY DEF Mk!ActsBounded, NoneHas, Mk!Shows
  <2>2. reread # {} /\ NoneHas /\ pc # "fetch" => Len(acts) < faults
    BY DEF Mk!ActsBounded, NoneHas
  <2> QED
    BY <1>1, <2>1, <2>2
<1> QED
  BY <1>2, <1>3, <1>4 DEF Mk!ActsBounded, Shown, NoneHas

--------------------------------------------------------------------------------
(***************************************************************************)
(* The steps.                                                              *)
(***************************************************************************)
LEMMA MeerkatInit ==
    ASSUME Constants, Mk!Init
    PROVE  Mk!IInv
<1>1. 1 \in Mk!Contacts /\ 0 \in Mk!Versions /\ N \in Nat /\ MaxEdits \in Nat
      /\ MaxFaults \in Nat
      /\ Budget \in Nat /\ Mk!Contacts \subseteq Nat
  BY DEF Constants, Mk!BoundsAssumption, Mk!Contacts, Mk!Versions
<1>2. Mk!TypeOK
  <2>1. people \in [Mk!Contacts -> 0 .. MaxEdits] /\ own \in [Mk!Contacts -> Seq(Mk!Texts)]
        /\ acts \in Seq(SUBSET Mk!Contacts)
    BY <1>1 DEF Mk!Init
  <2>2. {cache, known} \subseteq [Mk!Contacts -> Mk!Details \cup {None}]
    BY DEF Mk!Init
  <2>3. /\ page \in [Mk!Contacts -> (0 .. MaxEdits) \cup {None}]
        /\ bumped \subseteq Mk!Contacts /\ late \subseteq Mk!Contacts
        /\ brain \in Mk!Versions /\ met \subseteq Mk!Contacts /\ moved \in BOOLEAN
        /\ pc \in {"idle", "fetch", "entities", "notes", "acts"}
        /\ full \in BOOLEAN /\ todo \subseteq Mk!Contacts /\ reread \subseteq Mk!Contacts
    BY <1>1 DEF Mk!Init
  <2>4. /\ plan \in [text : Mk!Versions, notes : SUBSET Mk!Contacts, met : SUBSET Mk!Contacts]
        /\ at \in 1 .. N + 1 /\ budget \in 0 .. Budget
        /\ edits \in 0 .. MaxEdits /\ faults \in 0 .. MaxFaults
    BY <1>1 DEF Mk!Init, Mk!NoPlan
  <2> QED
    BY <2>1, <2>2, <2>3, <2>4 DEF Mk!TypeOK
<1>3. Mk!KnownIsCached
  BY <1>1 DEF Mk!Init, Mk!KnownIsCached
<1>4. Mk!NotesBounded
  <2>1. ASSUME NEW c \in Mk!Contacts
        PROVE  Mk!Cardinality(Mk!Kept(c)) = 0 /\ ~Mk!HasNone(known, c)
    <3>1. Mk!Kept(c) = {}
      BY DEF Mk!Init, Mk!Kept
    <3> QED
      BY <3>1, CardinalityIs, FS_EmptySet DEF Mk!HasNone, Mk!Init
  <2>2. reread = {} /\ faults = 0
    BY DEF Mk!Init
  <2> QED
    BY <2>1, <2>2 DEF Mk!NotesBounded
<1>5. Mk!ActsBounded
  BY DEF Mk!Init, Mk!ActsBounded
<1> QED
  BY <1>2, <1>3, <1>4, <1>5 DEF Mk!IInv

\* A step that leaves alone what the bounds look at.
LEMMA Aside ==
    ASSUME Constants, Mk!TypeOK, Mk!NotesBounded, Mk!ActsBounded, Mk!TypeOK',
           UNCHANGED <<own, acts, cache, known, reread>>, faults <= faults',
           pc' = "fetch" \/ pc # "fetch" \/ faults < faults'
    PROVE  Mk!NotesBounded' /\ Mk!ActsBounded'
<1>1. faults \in Nat /\ faults' \in Nat /\ Len(acts) \in Nat
  <2>1. faults' \in 0 .. MaxFaults
    BY DEF Mk!TypeOK
  <2> QED
    BY <2>1, Numbers
<1>2. ASSUME NEW c \in Mk!Contacts
      PROVE  NoteBound(c)'
  <2>1. Mk!Kept(c)' = Mk!Kept(c) /\ NoteBound(c)
    BY NotesSame DEF Mk!NotesBounded, NoteBound
  <2>2. Mk!Cardinality(Mk!Kept(c)) \in Nat
    BY Numbers DEF NoteFacts
  <2>3. /\ Mk!HasNone(known, c)' = Mk!HasNone(known, c)
        /\ Mk!HasNone(cache, c)' = Mk!HasNone(cache, c)
    BY DEF Mk!HasNone
  <2> QED
    BY <1>1, <2>1, <2>2, <2>3, NotesFrame
<1>3. \A c \in Mk!Contacts : Shown(c) => Shown(c)'
  BY DEF Shown, Mk!Shows
<1>4. Mk!ActsBounded'
  BY <1>1, <1>3, ActsFrame DEF NoneHas
<1> QED
  BY <1>2, <1>4 DEF Mk!NotesBounded, NoteBound

\* People edit a contact, or the text of a note: no note is added.
LEMMA EditInv ==
    ASSUME Constants, Mk!IInv, Mk!Edit
    PROVE  Mk!IInv'
<1>1. PICK c \in Mk!Contacts :
         /\ Mk!Bump({c})
         /\ \/ people' = [people EXCEPT ![c] = @ + 1] /\ UNCHANGED own
            \/ /\ \E i \in DOMAIN own[c], t \in {Hand, Gone} :
                     own[c][i] # Gone /\ own' = [own EXCEPT ![c][i] = t]
               /\ UNCHANGED people
  BY DEF Mk!Edit
<1>2. Mk!TypeOK /\ Mk!KnownIsCached /\ Mk!NotesBounded /\ Mk!ActsBounded
  BY DEF Mk!IInv
<1>3. /\ edits < MaxEdits /\ edits' = edits + 1 /\ edits \in Nat /\ MaxEdits \in Nat
      /\ UNCHANGED <<acts, page, brain, met, moved, pc, full, todo, cache, known, reread>>
      /\ UNCHANGED <<plan, at, budget, faults>>
  BY <1>2 DEF Mk!Edit, Mk!TypeOK, Constants, Mk!BoundsAssumption, Mk!main, Mk!fetch, Mk!write
<1>4. own' \in [Mk!Contacts -> Seq(Mk!Texts)]
      /\ \A d \in Mk!Contacts : Mk!Kept(d)' \subseteq Mk!Kept(d)
  <2>1. own \in [Mk!Contacts -> Seq(Mk!Texts)]
    BY <1>2 DEF Mk!TypeOK
  <2>2. CASE UNCHANGED own
    BY <2>1, <2>2 DEF Mk!Kept
  <2>3. CASE \E i \in DOMAIN own[c], t \in {Hand, Gone} :
                own[c][i] # Gone /\ own' = [own EXCEPT ![c][i] = t]
    <3>1. PICK i \in DOMAIN own[c] : \E t \in {Hand, Gone} :
                own[c][i] # Gone /\ own' = [own EXCEPT ![c][i] = t]
      BY <2>3
    <3>2. PICK t \in {Hand, Gone} : own[c][i] # Gone /\ own' = [own EXCEPT ![c][i] = t]
      BY <3>1
    <3>3. own[c] \in Seq(Mk!Texts) /\ t \in Mk!Texts
      BY <2>1 DEF Mk!Texts
    <3>4. [own[c] EXCEPT ![i] = t] \in Seq(Mk!Texts)
      BY <3>3
    <3>5. own' \in [Mk!Contacts -> Seq(Mk!Texts)]
      BY <2>1, <3>2, <3>4
    <3>6. \A d \in Mk!Contacts : Mk!Kept(d)' \subseteq Mk!Kept(d)
      BY <2>1, <3>2 DEF Mk!Kept
    <3> QED
      BY <3>5, <3>6
  <2> QED
    BY <1>1, <2>2, <2>3
<1>5. people' \in [Mk!Contacts -> 0 .. MaxEdits] /\ \A d \in Mk!Contacts : people'[d] <= edits'
  <2>1. people \in [Mk!Contacts -> 0 .. MaxEdits] /\ \A d \in Mk!Contacts : people[d] <= edits
    BY <1>2 DEF Mk!TypeOK, Mk!KnownIsCached
  <2> QED
    BY <1>1, <1>3, <2>1
<1>6. bumped' \subseteq Mk!Contacts /\ late' \subseteq Mk!Contacts
  BY <1>1, <1>2 DEF Mk!Bump, Mk!TypeOK
<1>7. Mk!TypeOK'
  <2>1. edits' \in 0 .. MaxEdits
    BY <1>3
  <2> QED
    BY <1>2, <1>3, <1>4, <1>5, <1>6, <2>1 DEF Mk!TypeOK
<1>8. Mk!KnownIsCached'
  BY <1>2, <1>3, <1>5 DEF Mk!KnownIsCached
<1>9. ASSUME NEW d \in Mk!Contacts
      PROVE  NoteBound(d)'
  <2>1. Mk!Cardinality(Mk!Kept(d)') <= Mk!Cardinality(Mk!Kept(d))
        /\ Mk!Cardinality(Mk!Kept(d)') \in Nat
        /\ Mk!Cardinality(Mk!Kept(d)) \in Nat
    <3>1. own[d] \in Seq(Mk!Texts) /\ own'[d] \in Seq(Mk!Texts)
      BY <1>2, <1>7 DEF Mk!TypeOK
    <3>2. Mk!Kept(d) = KeptIn(own[d]) /\ Mk!Kept(d)' = KeptIn(own'[d])
      BY DEF Mk!Kept, KeptIn
    <3> QED
      BY <1>4, <3>1, <3>2, KeptCount, CardinalityIs, FS_Subset
  <2>2. NoteBound(d)
    BY <1>2 DEF Mk!NotesBounded, NoteBound
  <2>3. faults \in Nat
    BY <1>2, Numbers
  <2>4. Mk!HasNone(known, d)' = Mk!HasNone(known, d) /\ Mk!HasNone(cache, d)'
              = Mk!HasNone(cache, d)
    BY <1>3 DEF Mk!HasNone
  <2> QED
    BY <1>2, <1>3, <1>7, <2>1, <2>2, <2>3, <2>4, NotesFrame
<1>10. Mk!ActsBounded'
  BY <1>2, <1>3 DEF Mk!ActsBounded, Mk!Shows
<1> QED
  BY <1>7, <1>8, <1>9, <1>10 DEF Mk!IInv, Mk!NotesBounded, NoteBound

\* Notes change, main moves, time passes.
LEMMA OtherInv ==
    ASSUME Constants, Mk!IInv, Mk!BrainChanges \/ Mk!Touch \/ Mk!Elapse
    PROVE  Mk!IInv'
<1>1. Mk!TypeOK /\ Mk!KnownIsCached /\ Mk!NotesBounded /\ Mk!ActsBounded
  BY DEF Mk!IInv
<1>2. Mk!TypeOK'
  <2>1. CASE Mk!BrainChanges
    <3>1. brain' \in Mk!Versions
      BY <1>1, <2>1 DEF Mk!BrainChanges, Mk!TypeOK, Mk!Versions, Constants, Mk!BoundsAssumption
    <3> QED
      BY <1>1, <2>1, <3>1 DEF Mk!BrainChanges, Mk!TypeOK, Mk!meerkat, Mk!stamps, Mk!fetch,
         Mk!write, Mk!bounds
  <2>2. CASE Mk!Touch
    BY <1>1, <2>2 DEF Mk!Touch, Mk!TypeOK, Mk!meerkat, Mk!stamps, Mk!fetch, Mk!write, Mk!bounds
  <2>3. CASE Mk!Elapse
    BY <1>1, <2>3 DEF Mk!Elapse, Mk!TypeOK, Mk!meerkat, Mk!stamps, Mk!main, Mk!write, Mk!bounds
  <2> QED
    BY <2>1, <2>2, <2>3
<1>3. UNCHANGED <<people, own, acts, pc, todo, cache, known, reread, edits, faults>>
  BY DEF Mk!BrainChanges, Mk!Touch, Mk!Elapse, Mk!meerkat, Mk!fetch, Mk!bounds
<1>4. Mk!KnownIsCached'
  BY <1>1, <1>3 DEF Mk!KnownIsCached
<1>5. faults <= faults'
  BY <1>1, <1>3, Numbers
<1>6. Mk!NotesBounded' /\ Mk!ActsBounded'
  BY <1>1, <1>2, <1>3, <1>5, Aside DEF Mk!TypeOK
<1> QED
  BY <1>2, <1>4, <1>6 DEF Mk!IInv
\* A fetch begins: it reads what is not cached.
LEMMA ListInv ==
    ASSUME Constants, Mk!IInv, Mk!List
    PROVE  Mk!IInv'
<1>1. Mk!TypeOK /\ Mk!KnownIsCached /\ Mk!NotesBounded /\ Mk!ActsBounded
  BY DEF Mk!IInv
<1>2. /\ pc' = "fetch" /\ todo' = {c \in Mk!Contacts : full \/ cache[c] = None \/ c \in bumped}
      /\ UNCHANGED <<people, own, acts, cache, known, reread, edits, faults>>
  BY DEF Mk!List, Mk!meerkat, Mk!bounds
<1>3. Mk!TypeOK'
  BY <1>1 DEF Mk!List, Mk!TypeOK, Mk!meerkat, Mk!main, Mk!write, Mk!bounds
<1>4. Mk!KnownIsCached'
  BY <1>1, <1>2 DEF Mk!KnownIsCached
<1>5. faults <= faults'
  BY <1>1, <1>2, Numbers
<1>6. Mk!NotesBounded' /\ Mk!ActsBounded'
  BY <1>1, <1>2, <1>3, <1>5, Aside
<1> QED
  BY <1>3, <1>4, <1>6 DEF Mk!IInv

\* What is read of a contact is the truth.
LEMMA ReadInv ==
    ASSUME Constants, Mk!IInv, Mk!ReadContact
    PROVE  Mk!IInv'
<1>1. Mk!TypeOK /\ Mk!KnownIsCached /\ Mk!NotesBounded /\ Mk!ActsBounded
  BY DEF Mk!IInv
<1>2. PICK c \in todo :
        /\ todo' = todo \ {c} /\ reread' = reread \cup {c}
        /\ \E children \in Mk!Children(c) : cache' = [cache EXCEPT ![c] = children]
        /\ bumped' = (bumped \ {c}) \cup (late \cap {c})
  BY DEF Mk!ReadContact
<1>3. PICK children \in Mk!Children(c) : cache' = [cache EXCEPT ![c] = children]
  BY <1>2
<1>4. /\ pc = "fetch" /\ pc' = "fetch"
      /\ UNCHANGED <<people, own, acts, known, edits, faults>>
      /\ UNCHANGED <<late, page, brain, met, moved, full, plan, at, budget>>
  BY DEF Mk!ReadContact, Mk!meerkat, Mk!main, Mk!write, Mk!bounds
<1>5. c \in Mk!Contacts /\ own[c] \in Seq(Mk!Texts)
  BY <1>1, <1>2 DEF Mk!TypeOK
<1>6. PICK order \in Mk!SetToSeqs(KeptIn(own[c])) :
        children = [people |-> people[c],
                    own |-> [k \in DOMAIN order |-> [id |-> order[k],
                          text |-> own[c][order[k]]]],
                    acts |-> {i \in DOMAIN acts : c \in acts[i]}]
  BY DEF Mk!Children, KeptIn
<1> DEFINE n == Mk!Cardinality(KeptIn(own[c]))
           list == [k \in DOMAIN order |-> [id |-> order[k], text |-> own[c][order[k]]]]
<1>7. n \in Nat /\ DOMAIN order = 1 .. n
      /\ \A k \in DOMAIN order : order[k] \in DOMAIN own[c] /\ order[k] \in Nat
  <2>1. n \in Nat
    BY <1>5, KeptCount
  <2>2. DOMAIN order = 1 .. n
    BY <1>5, <1>6, EmptyListing
  <2>3. \A k \in DOMAIN order : order[k] \in DOMAIN own[c]
    BY <1>5, <1>6, EmptyListing
  <2>4. DOMAIN own[c] \subseteq Nat
    BY <1>5
  <2> QED
    BY <2>1, <2>2, <2>3, <2>4
<1>8. list \in Seq([id : Nat, text : Mk!Texts]) /\ Len(list) = n
  <2>1. \A k \in DOMAIN order : own[c][order[k]] \in Mk!Texts
    BY <1>5, <1>7
  <2> HIDE DEF n
  <2>2. list \in [1 .. n -> [id : Nat, text : Mk!Texts]]
    <3>1. \A k \in DOMAIN order :
             [id |-> order[k], text |-> own[c][order[k]]] \in [id : Nat, text : Mk!Texts]
      BY <1>7, <2>1
    <3> QED
      BY <1>7, <3>1
  <2>3. n \in Nat
    BY <1>7
  <2> DEFINE R == [id : Nat, text : Mk!Texts]
  <2>4. list \in [1 .. n -> R]
    BY <2>2
  <2> HIDE DEF list, R
  <2>5. list \in Seq(R) /\ Len(list) = n
    BY <2>3, <2>4
  <2> QED
    BY <2>5 DEF R
<1>9. children \in Mk!Details /\ children # None /\ children.own = list
      /\ children.acts = {i \in DOMAIN acts : c \in acts[i]}
  <2>1. people[c] \in 0 .. MaxEdits
    BY <1>1, <1>5 DEF Mk!TypeOK
  <2>2. {i \in DOMAIN acts : c \in acts[i]} \in SUBSET Nat
    BY <1>1 DEF Mk!TypeOK
  <2> HIDE DEF list
  <2>3. children = [people |-> people[c], own |-> list,
                    acts |-> {i \in DOMAIN acts : c \in acts[i]}]
    BY <1>6 DEF list
  <2>4. children \in Mk!Details
    BY <1>8, <2>1, <2>2, <2>3 DEF Mk!Details
  <2> QED
    BY <2>3, <2>4 DEF Constants, Mk!NoneAssumption
<1>10. /\ cache' \in [Mk!Contacts -> Mk!Details \cup {None}] /\ cache'[c] = children
       /\ \A d \in Mk!Contacts \ {c} : cache'[d] = cache[d]
  BY <1>1, <1>3, <1>5, <1>9 DEF Mk!TypeOK
<1>11. Mk!TypeOK'
  <2>1. bumped' \subseteq Mk!Contacts /\ todo' \subseteq Mk!Contacts
        /\ reread' \subseteq Mk!Contacts
    BY <1>1, <1>2 DEF Mk!TypeOK
  <2> QED
    BY <1>1, <1>4, <1>10, <2>1 DEF Mk!TypeOK
<1>12. Mk!KnownIsCached'
  BY <1>1, <1>2, <1>4, <1>9, <1>10 DEF Mk!KnownIsCached
<1>13. ASSUME NEW d \in Mk!Contacts
       PROVE  NoteBound(d)'
  <2>1. NoteBound(d) /\ Mk!Kept(d)' = Mk!Kept(d) /\ Mk!HasNone(known, d)' = Mk!HasNone(known, d)
    BY <1>1, <1>4, NotesSame DEF Mk!NotesBounded, NoteBound, Mk!HasNone
  <2>2. Mk!Cardinality(Mk!Kept(d)) \in Nat /\ faults \in Nat
    BY <1>1, Numbers DEF NoteFacts
  <2>3. CASE d = c
    <3>1. Mk!HasNone(cache, c)' => n = 0
      <4>1. Mk!HasNone(cache, c)' => list = <<>>
        BY <1>9, <1>10 DEF Mk!HasNone
      <4>2. list = <<>> => Len(list) = 0
        OBVIOUS
      <4> QED
        BY <4>1, <4>2, <1>8
    <3>2. Mk!Cardinality(Mk!Kept(c)) = n
      BY DEF Mk!Kept, KeptIn
    <3> HIDE DEF n
    <3> QED
      BY <1>4, <2>1, <2>2, <2>3, <3>1, <3>2 DEF NoteBound
  <2>4. CASE d # c
    <3>1. Mk!HasNone(cache, d)' = Mk!HasNone(cache, d) /\ (d \in reread' => d \in reread)
      BY <1>2, <1>10, <2>4 DEF Mk!HasNone
    <3> QED
      BY <1>1, <1>4, <1>11, <2>1, <2>2, <3>1, NotesFrame
  <2> QED
    BY <2>3, <2>4
<1>14. Mk!ActsBounded'
  <2>1. \A d \in Mk!Contacts : Shown(d) => Shown(d)'
    <3>1. TAKE d \in Mk!Contacts
    <3>2. Mk!Shows(known, d)' = Mk!Shows(known, d)
      BY <1>4 DEF Mk!Shows
    <3>3. CASE d = c
      <4>1. Mk!Shows(known, c) => Mk!Shows(cache, c)'
        BY <1>4, <1>9, <1>10 DEF Mk!Shows
      <4> QED
        BY <3>2, <3>3, <4>1 DEF Shown
    <3>4. CASE d # c
      <4>1. Mk!Shows(cache, d)' = Mk!Shows(cache, d) /\ (d \in reread' => d \in reread)
        BY <1>2, <1>4, <1>10, <3>4 DEF Mk!Shows
      <4> QED
        BY <3>2, <4>1 DEF Shown
    <3> QED
      BY <3>3, <3>4
  <2>2. Len(acts') + faults <= Len(acts) + faults'
    BY <1>1, <1>4, Numbers
  <2> QED
    BY <1>1, <1>4, <1>11, <2>1, <2>2, ActsFrame
<1> QED
  BY <1>11, <1>12, <1>13, <1>14 DEF Mk!IInv, Mk!NotesBounded, NoteBound

\* Once all is read, what is known is what is cached.
LEMMA FetchDoneInv ==
    ASSUME Constants, Mk!IInv, Mk!FetchDone
    PROVE  Mk!IInv'
<1>1. Mk!TypeOK /\ Mk!KnownIsCached /\ Mk!NotesBounded /\ Mk!ActsBounded
  BY DEF Mk!IInv
<1>2. /\ pc = "fetch" /\ todo = {} /\ pc' = "entities"
      /\ known' = cache /\ reread' = {} /\ full' = FALSE
      /\ UNCHANGED <<people, own, acts, bumped, late, brain, met, todo, cache, edits>>
      /\ UNCHANGED <<plan, at, budget>>
  BY DEF Mk!FetchDone, Mk!meerkat, Mk!stamps, Mk!write
<1>3. \A c \in Mk!Contacts : cache[c] \in Mk!Details
  BY <1>1, <1>2, KnownIs DEF Mk!KnownIsCached
<1>4. /\ faults' \in 0 .. MaxFaults /\ faults \in Nat /\ faults' \in Nat /\ faults <= faults'
      /\ page' \in [Mk!Contacts -> (0 .. MaxEdits) \cup {None}] /\ moved' \in BOOLEAN
  <2>1. /\ faults \in 0 .. MaxFaults /\ MaxFaults \in Nat /\ moved \in BOOLEAN
        /\ page \in [Mk!Contacts -> (0 .. MaxEdits) \cup {None}]
    BY <1>1 DEF Mk!TypeOK, Constants, Mk!BoundsAssumption
  <2>2. CASE page' = Mk!Rendered /\ moved' = (moved \/ page # Mk!Rendered) /\ UNCHANGED faults
    <3>1. Mk!Rendered \in [Mk!Contacts -> 0 .. MaxEdits]
      BY <1>3 DEF Mk!Rendered, Mk!Details
    <3> QED
      BY <2>1, <2>2, <3>1
  <2>3. CASE Mk!Fault /\ UNCHANGED <<page, moved>>
    BY <2>1, <2>3 DEF Mk!Fault
  <2> QED
    BY <2>2, <2>3 DEF Mk!FetchDone
<1>5. Mk!TypeOK'
  BY <1>1, <1>2, <1>4 DEF Mk!TypeOK
<1>6. Mk!KnownIsCached'
  <2>1. \A c \in Mk!Contacts : known'[c] # None
    BY <1>2, <1>3 DEF Constants, Mk!NoneAssumption
  <2>2. 1 \in Mk!Contacts
    BY <1>1, Numbers
  <2> QED
    BY <1>1, <1>2, <2>1, <2>2 DEF Mk!KnownIsCached
<1>7. ASSUME NEW c \in Mk!Contacts
      PROVE  NoteBound(c)'
  <2>1. NoteBound(c) /\ Mk!Kept(c)' = Mk!Kept(c)
    BY <1>1, <1>2, NotesSame DEF Mk!NotesBounded, NoteBound
  <2>2. Mk!Cardinality(Mk!Kept(c)) \in Nat
    BY <1>1, Numbers DEF NoteFacts
  <2>3. Mk!HasNone(known, c)' = Mk!HasNone(cache, c) /\ (c \in reread \/ cache[c] = known[c])
    BY <1>1, <1>2 DEF Mk!HasNone, Mk!KnownIsCached
  <2>4. Mk!HasNone(cache, c) => Mk!Cardinality(Mk!Kept(c)) <= faults
    BY <2>1, <2>3 DEF NoteBound, Mk!HasNone
  <2> QED
    BY <1>2, <1>4, <2>1, <2>2, <2>3, <2>4 DEF NoteBound
<1>8. Mk!ActsBounded'
  <2>1. \A c \in Mk!Contacts : Shown(c) => Shown(c)'
    <3>1. TAKE c \in Mk!Contacts
    <3>2. Shown(c) => Mk!Shows(cache, c)
      BY <1>1 DEF Shown, Mk!Shows, Mk!KnownIsCached
    <3>3. Mk!Shows(known, c)' = Mk!Shows(cache, c)
      BY <1>2 DEF Mk!Shows
    <3> QED
      BY <1>2, <3>2, <3>3 DEF Shown
  <2>2. Len(acts') + faults <= Len(acts) + faults'
    <3>1. Len(acts) \in Nat
      BY <1>1, Numbers
    <3> QED
      BY <1>2, <1>4, <3>1
  <2> QED
    BY <1>1, <1>2, <1>5, <2>1, <2>2, ActsFrame
<1> QED
  BY <1>5, <1>6, <1>7, <1>8 DEF Mk!IInv, Mk!NotesBounded, NoteBound

\* A request that fails leaves the cache ahead of what is known.
LEMMA FetchFailsInv ==
    ASSUME Constants, Mk!IInv, Mk!FetchFails
    PROVE  Mk!IInv'
<1>1. Mk!TypeOK /\ Mk!KnownIsCached /\ Mk!NotesBounded /\ Mk!ActsBounded
  BY DEF Mk!IInv
<1>2. /\ pc' = "entities" /\ todo' = {}
      /\ UNCHANGED <<people, own, acts, cache, known, reread, edits>>
  BY DEF Mk!FetchFails, Mk!meerkat
<1>3. faults < MaxFaults /\ faults' = faults + 1 /\ faults \in Nat /\ MaxFaults \in Nat
  BY <1>1 DEF Mk!FetchFails, Mk!Fault, Mk!TypeOK, Constants, Mk!BoundsAssumption
<1>4. Mk!TypeOK'
  <2>1. faults' \in 0 .. MaxFaults
    BY <1>3
  <2> QED
    BY <1>1, <1>2, <2>1 DEF Mk!FetchFails, Mk!TypeOK, Mk!meerkat, Mk!stamps, Mk!main, Mk!write
<1>5. Mk!KnownIsCached'
  BY <1>1, <1>2 DEF Mk!KnownIsCached
<1>6. Mk!NotesBounded' /\ Mk!ActsBounded'
  BY <1>1, <1>2, <1>3, <1>4, Aside
<1> QED
  BY <1>4, <1>5, <1>6 DEF Mk!IInv

\* The write-back begins when every contact is known, or does not begin.
LEMMA PlanInv ==
    ASSUME Constants, Mk!IInv, Mk!Plan
    PROVE  Mk!IInv'
<1>1. Mk!TypeOK /\ Mk!KnownIsCached /\ Mk!NotesBounded /\ Mk!ActsBounded
  BY DEF Mk!IInv
<1>2. /\ pc = "entities" /\ pc' # "fetch" /\ (pc' \in {"notes", "acts"} => known[1] # None)
      /\ pc' \in {"idle", "notes"} /\ moved' \in BOOLEAN
      /\ UNCHANGED <<people, own, acts, bumped, late, page, brain, met, edits, faults>>
      /\ UNCHANGED <<full, todo, cache, known, reread>>
  BY <1>1 DEF Mk!Plan, Mk!meerkat, Mk!stamps, Mk!fetch, Mk!bounds, Mk!TypeOK
<1>3. /\ plan' \in [text : Mk!Versions, notes : SUBSET Mk!Contacts, met : SUBSET Mk!Contacts]
      /\ at' \in 1 .. N + 1 /\ budget' \in 0 .. Budget
  <2>1. /\ plan \in [text : Mk!Versions, notes : SUBSET Mk!Contacts, met : SUBSET Mk!Contacts]
        /\ at \in 1 .. N + 1 /\ budget \in 0 .. Budget /\ brain \in Mk!Versions
        /\ N \in Nat /\ Budget \in Nat
    BY <1>1 DEF Mk!TypeOK, Constants, Mk!BoundsAssumption
  <2>2. CASE UNCHANGED Mk!write
    BY <2>1, <2>2 DEF Mk!write
  <2>3. CASE /\ at' = 1 /\ budget' = Budget
             /\ \E on \in SUBSET Mk!Contacts :
                   plan' = [text |-> brain, notes |-> on, met |-> met \cap on]
    BY <2>1, <2>3
  <2> QED
    BY <2>2, <2>3 DEF Mk!Plan
<1>4. Mk!TypeOK'
  BY <1>1, <1>2, <1>3 DEF Mk!TypeOK
<1>5. Mk!KnownIsCached'
  BY <1>1, <1>2 DEF Mk!KnownIsCached
<1>6. faults <= faults'
  BY <1>1, <1>2, Numbers
<1>7. Mk!NotesBounded' /\ Mk!ActsBounded'
  BY <1>1, <1>2, <1>4, <1>6, Aside
<1> QED
  BY <1>4, <1>5, <1>7 DEF Mk!IInv

\* The write-back goes on, or ends with nothing to write.
LEMMA SkipInv ==
    ASSUME Constants, Mk!IInv, Mk!SkipNote \/ Mk!SkipAct
    PROVE  Mk!IInv'
<1>1. Mk!TypeOK /\ Mk!KnownIsCached /\ Mk!NotesBounded /\ Mk!ActsBounded
  BY DEF Mk!IInv
<1>2. /\ pc \in {"notes", "acts"} /\ pc' \in {"idle", "notes", "acts"}
      /\ moved' \in BOOLEAN /\ at' \in 1 .. N + 1
      /\ UNCHANGED <<people, own, acts, bumped, late, page, brain, met, edits, faults>>
      /\ UNCHANGED <<full, todo, cache, known, reread, plan, budget>>
  <2>1. moved \in BOOLEAN /\ at \in 1 .. N + 1 /\ N \in Nat
    BY <1>1 DEF Mk!TypeOK, Constants, Mk!BoundsAssumption
  <2>2. CASE Mk!SkipNote
    <3>1. at' = at \/ (at \in Mk!Contacts /\ at' = at + 1)
      BY <2>2 DEF Mk!SkipNote
    <3>2. at' \in 1 .. N + 1
      BY <2>1, <3>1 DEF Mk!Contacts
    <3> QED
      BY <2>1, <2>2, <3>2 DEF Mk!SkipNote, Mk!meerkat, Mk!stamps, Mk!main, Mk!fetch, Mk!bounds
  <2>3. CASE Mk!SkipAct
    BY <2>1, <2>3 DEF Mk!SkipAct, Mk!EndPass, Mk!meerkat, Mk!stamps, Mk!fetch, Mk!write,
       Mk!bounds
  <2> QED
    BY <2>2, <2>3
<1>3. Mk!TypeOK'
  BY <1>1, <1>2 DEF Mk!TypeOK
<1>4. Mk!KnownIsCached'
  BY <1>1, <1>2 DEF Mk!KnownIsCached
<1>5. faults <= faults'
  BY <1>1, <1>2, Numbers
<1>6. Mk!NotesBounded' /\ Mk!ActsBounded'
  BY <1>1, <1>2, <1>3, <1>5, Aside
<1> QED
  BY <1>3, <1>4, <1>6 DEF Mk!IInv
\* What the write-back puts into its lists, the cache shows too, but for the
\* contacts read since.
LEMMA Remembers ==
    ASSUME Constants, Mk!TypeOK, Mk!KnownIsCached, NEW new, Mk!Remember(new),
           new \in [Mk!Contacts -> Mk!Details], pc # "fetch", pc' # "fetch", reread' = reread,
           people' = people, edits' = edits
    PROVE  /\ {cache', known'} \subseteq [Mk!Contacts -> Mk!Details \cup {None}]
           /\ known' = new /\ \A c \in reread : cache'[c] = cache[c]
           /\ Mk!KnownIsCached'
<1>1. known' = new /\ cache' = [c \in Mk!Contacts |-> IF c \in reread THEN cache[c] ELSE new[c]]
  BY DEF Mk!Remember
<1>2. \A c \in Mk!Contacts : new[c] \in Mk!Details /\ new[c] # None
      /\ cache[c] \in Mk!Details \cup {None}
  BY DEF Mk!TypeOK, Constants, Mk!NoneAssumption
<1>3. {cache', known'} \subseteq [Mk!Contacts -> Mk!Details \cup {None}]
  BY <1>1, <1>2
<1>4. \A c \in reread : cache'[c] = cache[c]
  BY <1>1 DEF Mk!TypeOK
<1>5. Mk!KnownIsCached'
  <2>1. 1 \in Mk!Contacts
    BY Numbers
  <2>2. \A c \in Mk!Contacts : known'[c] # None
    BY <1>1, <1>2
  <2>3. \A c \in Mk!Contacts \ reread' : cache'[c] = known'[c]
    BY <1>1
  <2>4. \A c \in Mk!Contacts : people'[c] <= edits'
    BY DEF Mk!KnownIsCached
  <2> QED
    BY <2>1, <2>2, <2>3, <2>4 DEF Mk!KnownIsCached
<1> QED
  BY <1>1, <1>3, <1>4, <1>5

\* The write-back knows every contact.
LEMMA WriterKnows ==
    ASSUME Constants, Mk!TypeOK, Mk!KnownIsCached, pc \in {"notes", "acts"}
    PROVE  \A c \in Mk!Contacts : known[c] # None /\ known[c] \in Mk!Details
<1>1. 1 \in Mk!Contacts /\ known[1] # None
  BY Numbers DEF Mk!KnownIsCached
<1> QED
  BY <1>1, KnownIs DEF Mk!KnownIsCached

\* A PUT changes the text of a note that is there.
LEMMA PutIs ==
    ASSUME Constants, Mk!TypeOK, NEW a \in Mk!Contacts, NEW id, own' = Mk!NotePut(a, id)
    PROVE  /\ own' \in [Mk!Contacts -> Seq(Mk!Texts)]
           /\ \A c \in Mk!Contacts : Mk!Cardinality(Mk!Kept(c)') <= Mk!Cardinality(Mk!Kept(c))
<1>1. own \in [Mk!Contacts -> Seq(Mk!Texts)] /\ plan.text \in Mk!Texts
  BY DEF Mk!TypeOK, Mk!Texts
<1> DEFINE t == [own[a] EXCEPT ![id] = IF @ = Gone THEN Gone ELSE plan.text]
<1>2. own' = [own EXCEPT ![a] = t]
  BY <1>1 DEF Mk!NotePut
<1>3. t \in Seq(Mk!Texts) /\ DOMAIN t = DOMAIN own[a]
      /\ \A i \in DOMAIN t : own[a][i] = Gone => t[i] = Gone
  <2>1. own[a] \in Seq(Mk!Texts) /\ Gone \in Mk!Texts
    BY <1>1 DEF Mk!Texts
  <2>2. DOMAIN t = DOMAIN own[a] /\ \A i \in DOMAIN t : own[a][i] = Gone => t[i] = Gone
    BY <2>1
  <2>3. \A i \in DOMAIN t : t[i] \in Mk!Texts
    BY <2>1, <1>1
  <2>4. t \in Seq(Mk!Texts)
    <3> DEFINE m == Len(own[a])
    <3>1. m \in Nat /\ DOMAIN own[a] = 1 .. m
      BY <2>1
    <3>2. t \in [1 .. m -> Mk!Texts]
      BY <2>2, <2>3, <3>1
    <3> HIDE DEF t, m
    <3> QED
      BY <3>1, <3>2
  <2> QED
    BY <2>2, <2>4
<1> HIDE DEF t
<1>4. ASSUME NEW c \in Mk!Contacts
      PROVE  Mk!Cardinality(Mk!Kept(c)') <= Mk!Cardinality(Mk!Kept(c))
  <2>1. Mk!Kept(c) = KeptIn(own[c]) /\ Mk!Kept(c)' = KeptIn(own'[c])
    BY DEF Mk!Kept, KeptIn
  <2>2. own[c] \in Seq(Mk!Texts) /\ own'[c] \in Seq(Mk!Texts) /\ DOMAIN own'[c] = DOMAIN own[c]
        /\ \A i \in DOMAIN own[c] : own[c][i] = Gone => own'[c][i] = Gone
    BY <1>1, <1>2, <1>3
  <2> QED
    BY <2>1, <2>2, KeptOverwritten
<1> QED
  BY <1>1, <1>2, <1>3, <1>4

\* A POST adds a note, or two when it is repeated.
LEMMA PostIs ==
    ASSUME Constants, Mk!TypeOK, NEW a \in Mk!Contacts, NEW n \in {1, 2}, own'
                 = Mk!NotePosted(a, n)
    PROVE  /\ own' \in [Mk!Contacts -> Seq(Mk!Texts)] /\ Len(own'[a]) \in Nat
           /\ Mk!Cardinality(Mk!Kept(a)') <= Mk!Cardinality(Mk!Kept(a)) + n
           /\ \A c \in Mk!Contacts \ {a} : Mk!Kept(c)' = Mk!Kept(c)
<1>1. own \in [Mk!Contacts -> Seq(Mk!Texts)] /\ plan.text \in Mk!Texts
  BY DEF Mk!TypeOK, Mk!Texts
<1> DEFINE t == own[a] \o [i \in 1 .. n |-> plan.text]
<1>2. own' = [own EXCEPT ![a] = t]
  BY <1>1 DEF Mk!NotePosted
<1>3. own[a] \in Seq(Mk!Texts)
  BY <1>1
<1>4. t \in Seq(Mk!Texts) /\ Mk!Cardinality(KeptIn(t)) <= Mk!Cardinality(KeptIn(own[a])) + n
  BY <1>1, <1>3, KeptPosted
<1> HIDE DEF t
<1>5. own' \in [Mk!Contacts -> Seq(Mk!Texts)] /\ own'[a] = t
  BY <1>1, <1>2, <1>4
<1>6. Mk!Kept(a) = KeptIn(own[a]) /\ Mk!Kept(a)' = KeptIn(own'[a])
  BY DEF Mk!Kept, KeptIn
<1>7. \A c \in Mk!Contacts \ {a} : Mk!Kept(c)' = Mk!Kept(c)
  BY <1>1, <1>2 DEF Mk!Kept
<1>8. Len(own'[a]) \in Nat
  BY <1>4, <1>5
<1> QED
  BY <1>4, <1>5, <1>6, <1>7, <1>8

\* Marks do not matter to what is bounded.
LEMMA BumpTypes ==
    ASSUME Mk!TypeOK, NEW cs \in SUBSET Mk!Contacts, Mk!Bump(cs)
    PROVE  bumped' \subseteq Mk!Contacts /\ late' \subseteq Mk!Contacts
BY DEF Mk!Bump, Mk!TypeOK

\* A note is posted when the contact is believed to have none, and then it is
\* known.
LEMMA WriteNoteInv ==
    ASSUME Constants, Mk!IInv, Mk!WriteNote
    PROVE  Mk!IInv'
<1>1. Mk!TypeOK /\ Mk!KnownIsCached /\ Mk!NotesBounded /\ Mk!ActsBounded
  BY DEF Mk!IInv
<1>2. /\ pc = "notes" /\ pc' = "notes" /\ at \in Mk!Contacts /\ budget > 0
      /\ Mk!Bump({at}) /\ at' = at + 1 /\ budget' = budget - 1
      /\ UNCHANGED <<people, acts, page, brain, met, moved, full, todo, reread, plan, edits>>
  BY DEF Mk!WriteNote, Mk!NoteDue, Mk!main
<1>0. PICK a \in Mk!Contacts : a = at
  BY <1>2
<1>3. \A c \in Mk!Contacts : known[c] # None /\ known[c] \in Mk!Details
  BY <1>1, <1>2, WriterKnows
<1>4. known \in [Mk!Contacts -> Mk!Details] /\ plan.text \in Mk!Texts
  <2>1. known \in [Mk!Contacts -> Mk!Details \cup {None}] /\ plan.text \in Mk!Texts
    BY <1>1 DEF Mk!TypeOK, Mk!Texts
  <2> QED
    BY <1>3, <2>1
<1>5. faults \in Nat /\ \A c \in Mk!Contacts : NoteFacts(c)
  BY <1>1, Numbers
<1> DEFINE put == [known EXCEPT ![a].own[1].text = plan.text]
           post == [known EXCEPT ![a].own = <<[id |-> Len(own'[a]), text |-> plan.text]>>]
           K(c) == Mk!Cardinality(Mk!Kept(c))
\* What both kinds of request have to show.
<1>6. ASSUME NEW new \in [Mk!Contacts -> Mk!Details], Mk!Remember(new),
             own' \in [Mk!Contacts -> Seq(Mk!Texts)], faults' \in 0 .. MaxFaults, faults
                   <= faults',
             new[a].own # <<>>,
             \A c \in Mk!Contacts \ {a} : new[c] = known[c] /\ Mk!Cardinality(Mk!Kept(c)')
                   <= K(c),
             \A c \in Mk!Contacts : new[c].acts = known[c].acts,
             \/ known[a].own # <<>> /\ Mk!Cardinality(Mk!Kept(a)') <= K(a)
             \/ known[a].own = <<>> /\ Mk!Cardinality(Mk!Kept(a)') + faults
                   <= K(a) + faults' + 1
      PROVE  Mk!IInv'
  <2>1. /\ {cache', known'} \subseteq [Mk!Contacts -> Mk!Details \cup {None}]
        /\ known' = new /\ \A c \in reread : cache'[c] = cache[c]
        /\ Mk!KnownIsCached'
    BY <1>1, <1>2, <1>6, Remembers
  <2>2. Mk!TypeOK'
    <3>1. at' \in 1 .. N + 1 /\ budget' \in 0 .. Budget
      BY <1>0, <1>1, <1>2 DEF Mk!TypeOK, Mk!Contacts, Constants, Mk!BoundsAssumption
    <3>2. bumped' \subseteq Mk!Contacts /\ late' \subseteq Mk!Contacts
      BY <1>1, <1>2, BumpTypes
    <3> QED
      BY <1>1, <1>2, <1>6, <2>1, <3>1, <3>2 DEF Mk!TypeOK
  <2>3. \A c \in Mk!Contacts : new[c] # None
    BY <1>6 DEF Constants, Mk!NoneAssumption
  <2>4. \A c \in Mk!Contacts : Mk!Cardinality(Mk!Kept(c)') \in Nat /\ K(c) \in Nat
        /\ faults' \in Nat
    <3>1. \A c \in Mk!Contacts : own'[c] \in Seq(Mk!Texts) /\ Mk!Kept(c)' = KeptIn(own'[c])
      BY <1>6 DEF Mk!Kept, KeptIn
    <3>2. faults' \in Nat
      BY <1>6 DEF Constants, Mk!BoundsAssumption
    <3> QED
      BY <1>5, <3>1, <3>2, KeptCount DEF NoteFacts
  <2>5. ASSUME NEW c \in Mk!Contacts
        PROVE  NoteBound(c)'
    <3>1. NoteBound(c) /\ (c \in reread' /\ Mk!HasNone(cache, c)' => c \in reread
          /\ Mk!HasNone(cache, c))
      BY <1>1, <1>2, <2>1 DEF Mk!NotesBounded, NoteBound, Mk!HasNone
    <3>2. CASE c # a \/ known[a].own # <<>>
      <4>1. Mk!HasNone(known, c)' => Mk!HasNone(known, c)
        BY <1>6, <2>1, <3>2 DEF Mk!HasNone
      <4>2. Mk!Cardinality(Mk!Kept(c)') <= K(c)
        BY <1>6, <3>2
      <4>3. Mk!Cardinality(Mk!Kept(c)') + faults <= K(c) + faults'
        BY <1>5, <1>6, <2>4, <4>2
      <4> QED
        BY <1>1, <1>2, <2>2, <3>1, <4>1, <4>3, NotesFrame
    <3>3. CASE c = a /\ known[a].own = <<>>
      <4>1. Mk!HasNone(known, a) /\ ~Mk!HasNone(known, a)'
        BY <1>2, <1>3, <1>6, <2>1, <3>3 DEF Mk!HasNone
      <4>2. K(a) <= faults /\ (a \in reread /\ Mk!HasNone(cache, a) => K(a) < faults)
        BY <1>2, <3>1, <3>3, <4>1 DEF NoteBound
      <4>3. Mk!Cardinality(Mk!Kept(a)') + faults <= K(a) + faults' + 1
        BY <1>6, <3>3
      <4>4. Mk!Cardinality(Mk!Kept(a)') \in Nat /\ K(a) \in Nat /\ faults' \in Nat
        BY <1>2, <2>4
      <4> HIDE DEF K
      <4>5. Mk!Cardinality(Mk!Kept(a)') <= faults' + 1
            /\ (a \in reread /\ Mk!HasNone(cache, a) => Mk!Cardinality(Mk!Kept(a)') <= faults')
        BY <1>5, <4>2, <4>3, <4>4
      <4> QED
        BY <3>1, <3>3, <4>1, <4>4, <4>5 DEF NoteBound
    <3> QED
      BY <3>2, <3>3
  <2>6. Mk!ActsBounded'
    <3>1. \A c \in Mk!Contacts : Shown(c) => Shown(c)'
      <4>1. TAKE c \in Mk!Contacts
      <4>2. Mk!Shows(known, c) => Mk!Shows(known, c)'
        BY <1>2, <1>6, <2>1, <2>3 DEF Mk!Shows
      <4>3. c \in reread => (Mk!Shows(cache, c) => Mk!Shows(cache, c)')
        BY <1>2, <2>1 DEF Mk!Shows
      <4> QED
        BY <1>2, <4>2, <4>3 DEF Shown
    <3>2. Len(acts') + faults <= Len(acts) + faults'
      BY <1>1, <1>2, <1>5, <1>6, <2>4, Numbers
    <3>3. NoneHas' => NoneHas
      BY <1>6, <2>1, <2>3 DEF NoneHas
    <3> QED
      BY <1>1, <1>2, <2>2, <3>1, <3>2, <3>3, ActsFrame
  <2> QED
    BY <2>1, <2>2, <2>5, <2>6 DEF Mk!IInv, Mk!NotesBounded, NoteBound
<1>7. faults \in 0 .. MaxFaults /\ MaxFaults \in Nat
  BY <1>1 DEF Mk!TypeOK, Constants, Mk!BoundsAssumption
<1>8. CASE Mk!Mine(a) # <<>>
  <2>1. own' = Mk!NotePut(a, Mk!Mine(a)[1].id) /\ Mk!Remember(put) /\ UNCHANGED faults
    BY <1>0, <1>8 DEF Mk!WriteNote
  <2>2. own' \in [Mk!Contacts -> Seq(Mk!Texts)]
        /\ \A c \in Mk!Contacts : Mk!Cardinality(Mk!Kept(c)') <= Mk!Cardinality(Mk!Kept(c))
    BY <1>1, <1>2, <2>1, PutIs
  <2>3. put \in [Mk!Contacts -> Mk!Details] /\ put[a].own # <<>>
        /\ (\A c \in Mk!Contacts \ {a} : put[c] = known[c])
        /\ (\A c \in Mk!Contacts : put[c].acts = known[c].acts)
    <3> DEFINE d == known[a]
               o == [d.own EXCEPT ![1].text = plan.text]
    <3>1. d \in Mk!Details /\ d.own \in Seq([id : Nat, text : Mk!Texts]) /\ d.own # <<>>
      BY <1>2, <1>3, <1>8 DEF Mk!Mine, Mk!Details
    <3>2. 1 \in DOMAIN d.own /\ d.own[1] \in [id : Nat, text : Mk!Texts]
      <4> DEFINE R == [id : Nat, text : Mk!Texts]
                 q == d.own
      <4>1. q \in Seq(R) /\ q # <<>>
        BY <3>1
      <4> HIDE DEF R, q
      <4>2. 1 \in DOMAIN q /\ q[1] \in R
        BY <4>1
      <4> QED
        BY <4>2 DEF q, R
    <3>3. [d.own[1] EXCEPT !.text = plan.text] \in [id : Nat, text : Mk!Texts]
      BY <1>4, <3>2
    <3>4. o \in Seq([id : Nat, text : Mk!Texts]) /\ o # <<>>
      BY <3>1, <3>2, <3>3
    <3> HIDE DEF o
    <3>5. [d EXCEPT !.own = o] \in Mk!Details /\ [d EXCEPT !.own = o].own = o
          /\ [d EXCEPT !.own = o].acts = d.acts
      BY <3>1, <3>4 DEF Mk!Details
    <3>6. put = [known EXCEPT ![a] = [d EXCEPT !.own = o]]
      BY DEF o
    <3> HIDE DEF put, d
    <3> QED
      BY <1>2, <1>4, <3>4, <3>5, <3>6 DEF d
  <2> HIDE DEF put
  <2>4. faults' \in 0 .. MaxFaults /\ faults <= faults'
    BY <1>5, <1>7, <2>1
  <2>5. known[a].own # <<>> /\ Mk!Cardinality(Mk!Kept(a)') <= K(a)
    BY <1>2, <1>8, <2>2 DEF Mk!Mine
  <2> QED
    BY <1>6, <2>1, <2>2, <2>3, <2>4, <2>5
<1>9. CASE Mk!Mine(a) = <<>>
  <2>1. /\ \/ own' = Mk!NotePosted(a, 1) /\ UNCHANGED faults
           \/ Mk!Fault /\ own' = Mk!NotePosted(a, 2)
        /\ Mk!Remember(post)
    BY <1>0, <1>9 DEF Mk!WriteNote
  <2>2. PICK n \in {1, 2} : own' = Mk!NotePosted(a, n) /\ faults' = faults + (n - 1)
                             /\ (n = 2 => faults < MaxFaults)
    <3>1. CASE own' = Mk!NotePosted(a, 1) /\ UNCHANGED faults
      <4>1. faults' = faults + (1 - 1)
        BY <1>5, <3>1
      <4> QED
        BY <3>1, <4>1
    <3>2. CASE Mk!Fault /\ own' = Mk!NotePosted(a, 2)
      <4>1. faults' = faults + (2 - 1) /\ faults < MaxFaults
        BY <3>2 DEF Mk!Fault
      <4> QED
        BY <3>2, <4>1
    <3> QED
      BY <2>1, <3>1, <3>2
  <2>3. /\ own' \in [Mk!Contacts -> Seq(Mk!Texts)] /\ Len(own'[a]) \in Nat
        /\ Mk!Cardinality(Mk!Kept(a)') <= Mk!Cardinality(Mk!Kept(a)) + n
        /\ \A c \in Mk!Contacts \ {a} : Mk!Kept(c)' = Mk!Kept(c)
    BY <1>1, <1>2, <2>2, PostIs
  <2>4. post \in [Mk!Contacts -> Mk!Details] /\ post[a].own # <<>>
        /\ (\A c \in Mk!Contacts \ {a} : post[c] = known[c])
        /\ (\A c \in Mk!Contacts : post[c].acts = known[c].acts)
    <3> DEFINE d == known[a]
               o == <<[id |-> Len(own'[a]), text |-> plan.text]>>
    <3>1. d \in Mk!Details
      BY <1>2, <1>3
    <3>2. o \in Seq([id : Nat, text : Mk!Texts]) /\ o # <<>>
      BY <1>4, <2>3
    <3> HIDE DEF o
    <3>3. [d EXCEPT !.own = o] \in Mk!Details /\ [d EXCEPT !.own = o].own = o
          /\ [d EXCEPT !.own = o].acts = d.acts
      BY <3>1, <3>2 DEF Mk!Details
    <3>4. post = [known EXCEPT ![a] = [d EXCEPT !.own = o]]
      BY DEF o
    <3> HIDE DEF post, d
    <3> QED
      BY <1>2, <1>4, <3>2, <3>3, <3>4 DEF d
  <2> HIDE DEF post
  <2>5. faults' \in 0 .. MaxFaults /\ faults <= faults'
    BY <1>7, <2>2
  <2>6. \A c \in Mk!Contacts \ {a} : Mk!Cardinality(Mk!Kept(c)') <= K(c)
    BY <1>5, <2>3 DEF NoteFacts
  <2>7. Mk!Cardinality(Mk!Kept(a)') + faults <= K(a) + faults' + 1
    <3>1. own'[a] \in Seq(Mk!Texts) /\ Mk!Kept(a)' = KeptIn(own'[a])
      BY <1>2, <2>3 DEF Mk!Kept, KeptIn
    <3>2. Mk!Cardinality(Mk!Kept(a)') \in Nat /\ K(a) \in Nat
      BY <1>2, <1>5, <3>1, KeptCount DEF NoteFacts
    <3> QED
      BY <1>5, <2>2, <2>3, <3>2
  <2>8. known[a].own = <<>>
    BY <1>9 DEF Mk!Mine
  <2> QED
    BY <1>6, <2>1, <2>3, <2>4, <2>5, <2>6, <2>7, <2>8
<1> QED
  BY <1>8, <1>9
\* A PUT of the activity leaves it with every contact it is shown to have.
LEMMA ActPutIs ==
    ASSUME Constants, Mk!TypeOK, \A c \in Mk!Contacts : known[c] # None, Mk!Holders # {},
                 acts' = Mk!ActPut
    PROVE  /\ acts' \in Seq(SUBSET Mk!Contacts) /\ Len(acts') = Len(acts)
           /\ \A c \in Mk!Contacts : Mk!Shows(known, c) =>
                 \A i \in DOMAIN acts : c \in acts[i] => i \in DOMAIN acts' /\ c \in acts'[i]
<1>1. acts \in Seq(SUBSET Mk!Contacts) /\ plan.met \cup Mk!Holders \in SUBSET Mk!Contacts
  BY DEF Mk!TypeOK, Mk!Holders
<1> DEFINE S == plan.met \cup Mk!Holders
<1>2. acts' = [acts EXCEPT ![Mk!TheAct] = S]
  BY DEF Mk!ActPut
<1>3. \A c \in Mk!Contacts : Mk!Shows(known, c) => c \in S
  BY DEF Mk!Shows, Mk!Holders
<1> HIDE DEF S
<1>4. DOMAIN acts' = DOMAIN acts /\ \A i \in DOMAIN acts : acts'[i] = acts[i] \/ acts'[i] = S
  BY <1>1, <1>2
<1>5. acts' \in Seq(SUBSET Mk!Contacts) /\ Len(acts') = Len(acts)
  <2> DEFINE m == Len(acts)
             C == SUBSET Mk!Contacts
  <2>1. S \in C /\ acts \in Seq(C)
    BY <1>1 DEF S
  <2> HIDE DEF C
  <2>2. m \in Nat /\ DOMAIN acts = 1 .. m /\ \A i \in 1 .. m : acts[i] \in C
    BY <2>1
  <2>3. acts' \in [1 .. m -> C]
    BY <1>2, <1>4, <2>1, <2>2
  <2> HIDE DEF m
  <2>4. acts' \in Seq(C) /\ Len(acts') = m
    BY <2>2, <2>3
  <2> QED
    BY <2>4 DEF C, m
<1> QED
  BY <1>3, <1>4, <1>5

\* A POST adds an activity, or two when it is repeated.
LEMMA ActPostIs ==
    ASSUME Constants, Mk!TypeOK, NEW n \in {1, 2}, acts' = Mk!ActPosted(n)
    PROVE  /\ acts' \in Seq(SUBSET Mk!Contacts) /\ Len(acts') = Len(acts) + n
           /\ \A i \in DOMAIN acts : i \in DOMAIN acts' /\ acts'[i] = acts[i]
           /\ Len(acts') \in DOMAIN acts' /\ acts'[Len(acts')] = plan.met
<1>1. acts \in Seq(SUBSET Mk!Contacts) /\ plan.met \in SUBSET Mk!Contacts
  BY DEF Mk!TypeOK
<1> DEFINE p == [i \in 1 .. n |-> plan.met]
<1>2. p \in Seq(SUBSET Mk!Contacts) /\ Len(p) = n /\ p[n] = plan.met
  BY <1>1
<1>3. acts' = acts \o p
  BY DEF Mk!ActPosted
<1> HIDE DEF p
<1>4. Len(acts) \in Nat
  BY <1>1
<1>5. acts' \in Seq(SUBSET Mk!Contacts) /\ Len(acts') = Len(acts) + n
      /\ DOMAIN acts' = 1 .. Len(acts) + n
  BY <1>1, <1>2, <1>3
<1>6. \A i \in DOMAIN acts : i \in DOMAIN acts' /\ acts'[i] = acts[i]
  BY <1>1, <1>2, <1>3, <1>4, <1>5
<1>7. Len(acts) + n \in DOMAIN acts' /\ acts'[Len(acts) + n] = plan.met
  BY <1>1, <1>2, <1>3, <1>4, <1>5
<1> QED
  BY <1>5, <1>6, <1>7

\* The notes are not touched, and every contact keeps the notes it is known by.
LEMMA NotesAside ==
    ASSUME Constants, Mk!TypeOK, Mk!TypeOK', Mk!NotesBounded, own' = own, reread' = reread,
           pc # "fetch", faults <= faults',
           \A c \in Mk!Contacts : Mk!HasNone(known, c)' => Mk!HasNone(known, c),
           \A c \in reread : cache'[c] = cache[c]
    PROVE  Mk!NotesBounded'
<1>1. faults \in Nat /\ faults' \in Nat
  <2>1. faults' \in 0 .. MaxFaults
    BY DEF Mk!TypeOK
  <2> QED
    BY <2>1, Numbers
<1>2. ASSUME NEW c \in Mk!Contacts
      PROVE  NoteBound(c)'
  <2>1. NoteBound(c) /\ Mk!Kept(c)' = Mk!Kept(c)
    BY NotesSame DEF Mk!NotesBounded, NoteBound
  <2>2. Mk!Cardinality(Mk!Kept(c)) \in Nat
    BY Numbers DEF NoteFacts
  <2>3. c \in reread' /\ Mk!HasNone(cache, c)' => c \in reread /\ Mk!HasNone(cache, c)
    BY DEF Mk!HasNone
  <2> QED
    BY <1>1, <2>1, <2>2, <2>3, NotesFrame
<1> QED
  BY <1>2 DEF Mk!NotesBounded, NoteBound

\* An activity is posted when nobody is known to have one; then it is known.
LEMMA WriteActInv ==
    ASSUME Constants, Mk!IInv, Mk!WriteAct
    PROVE  Mk!IInv'
<1>1. Mk!TypeOK /\ Mk!KnownIsCached /\ Mk!NotesBounded /\ Mk!ActsBounded
  BY DEF Mk!IInv
<1>2. /\ pc = "acts" /\ Mk!ActDue /\ Mk!Bump(plan.met) /\ pc' = "idle" /\ moved' = FALSE
      /\ budget' = budget - 1
      /\ UNCHANGED <<people, own, page, brain, met, full, todo, reread, plan, at, edits>>
  BY DEF Mk!WriteAct, Mk!EndPass
<1>3. \A c \in Mk!Contacts : known[c] # None /\ known[c] \in Mk!Details
  BY <1>1, <1>2, WriterKnows
<1>4. known \in [Mk!Contacts -> Mk!Details] /\ plan.met \in SUBSET Mk!Contacts /\ plan.met # {}
      /\ budget > 0 /\ ~(plan.met \subseteq Mk!Holders)
  <2>1. known \in [Mk!Contacts -> Mk!Details \cup {None}] /\ plan.met \in SUBSET Mk!Contacts
    BY <1>1 DEF Mk!TypeOK
  <2> QED
    BY <1>2, <1>3, <2>1 DEF Mk!ActDue
<1>5. faults \in Nat /\ Len(acts) \in Nat /\ faults \in 0 .. MaxFaults /\ MaxFaults \in Nat
  BY <1>1, Numbers DEF Mk!TypeOK, Constants, Mk!BoundsAssumption
<1>6. PICK id : /\ id = IF Mk!Holders # {} THEN Mk!TheAct ELSE Len(acts')
                /\ Mk!Remember([c \in Mk!Contacts |-> IF c \in plan.met \ Mk!Holders
                                                THEN [known[c] EXCEPT !.acts = @ \cup {id}]
                                                ELSE known[c]])
  BY DEF Mk!WriteAct
<1> DEFINE new == [c \in Mk!Contacts |-> IF c \in plan.met \ Mk!Holders
                                      THEN [known[c] EXCEPT !.acts = @ \cup {id}]
                                      ELSE known[c]]
\* What both kinds of request have to show.
<1>7. ASSUME id \in Nat, acts' \in Seq(SUBSET Mk!Contacts), faults' \in 0 .. MaxFaults,
             faults <= faults', Len(acts') <= 1 + faults',
             \/ Len(acts') <= faults'
             \/ \E c \in Mk!Contacts : Shown(c)'
      PROVE  Mk!IInv'
  <2>1. /\ new \in [Mk!Contacts -> Mk!Details]
        /\ \A c \in Mk!Contacts : new[c].own = known[c].own
        /\ \A c \in plan.met \ Mk!Holders : new[c].acts = known[c].acts \cup {id}
        /\ \A c \in Mk!Contacts : known[c].acts \subseteq new[c].acts
    <3>1. ASSUME NEW c \in Mk!Contacts, NEW d \in Mk!Details, d = known[c]
          PROVE  [d EXCEPT !.acts = @ \cup {id}] \in Mk!Details
      BY <1>7, <3>1 DEF Mk!Details
    <3>2. ASSUME NEW c \in Mk!Contacts, NEW d \in Mk!Details, d = known[c]
          PROVE  /\ [d EXCEPT !.acts = @ \cup {id}].own = d.own
                 /\ [d EXCEPT !.acts = @ \cup {id}].acts = d.acts \cup {id}
      BY <3>2 DEF Mk!Details
    <3> QED
      BY <1>3, <1>4, <3>1, <3>2
  <2>2. /\ {cache', known'} \subseteq [Mk!Contacts -> Mk!Details \cup {None}]
        /\ known' = new /\ \A c \in reread : cache'[c] = cache[c]
        /\ Mk!KnownIsCached'
    <3>1. Mk!Remember(new)
      BY <1>6
    <3> HIDE DEF new
    <3> QED
      BY <1>1, <1>2, <2>1, <3>1, Remembers
  <2> HIDE DEF new
  <2>3. Mk!TypeOK'
    <3>1. budget' \in 0 .. Budget
      BY <1>1, <1>2, <1>4 DEF Mk!TypeOK, Constants, Mk!BoundsAssumption
    <3>2. bumped' \subseteq Mk!Contacts /\ late' \subseteq Mk!Contacts
      BY <1>1, <1>2, <1>4, BumpTypes
    <3> QED
      BY <1>1, <1>2, <1>7, <2>2, <3>1, <3>2 DEF Mk!TypeOK
  <2>4. Mk!NotesBounded'
    <3>1. \A c \in Mk!Contacts : Mk!HasNone(known, c)' => Mk!HasNone(known, c)
      BY <1>3, <2>1, <2>2 DEF Mk!HasNone
    <3> QED
      BY <1>1, <1>2, <1>7, <2>2, <2>3, <3>1, NotesAside
  <2>5. ~NoneHas'
    <3>1. PICK c \in plan.met : c \notin Mk!Holders
      BY <1>4
    <3>2. c \in Mk!Contacts /\ known'[c] \in Mk!Details /\ id \in known'[c].acts
      BY <1>4, <2>1, <2>2, <3>1
    <3>3. known'[c] # None /\ known'[c].acts # {}
      BY <3>2 DEF Constants, Mk!NoneAssumption
    <3> QED
      BY <3>2, <3>3 DEF NoneHas
  <2>6. Mk!ActsBounded'
    BY <1>7, <2>5 DEF Mk!ActsBounded, Shown, NoneHas
  <2> QED
    BY <2>2, <2>3, <2>4, <2>6 DEF Mk!IInv
<1>8. CASE Mk!Holders # {}
  <2>1. acts' = Mk!ActPut /\ faults' = faults /\ id = Mk!TheAct
    BY <1>6, <1>8 DEF Mk!WriteAct
  <2>2. /\ acts' \in Seq(SUBSET Mk!Contacts) /\ Len(acts') = Len(acts)
        /\ \A c \in Mk!Contacts : Mk!Shows(known, c) =>
              \A i \in DOMAIN acts : c \in acts[i] => i \in DOMAIN acts' /\ c \in acts'[i]
    BY <1>1, <1>3, <1>8, <2>1, ActPutIs
  <2>3. id \in Nat
    BY <1>1, <1>3, <1>8, <2>1, TheActIs
  <2>4. ASSUME NEW c \in Mk!Contacts, Shown(c)
        PROVE  Shown(c)'
    <3>1. Mk!Shows(known, c) /\ (c \in reread => Mk!Shows(cache, c))
      BY <2>4 DEF Shown
    <3>2. known' = new /\ \A d \in reread : cache'[d] = cache[d]
      BY <1>1, <1>6 DEF Mk!Remember, Mk!TypeOK
    <3>3. c \in Mk!Holders
      BY <3>1 DEF Mk!Shows, Mk!Holders
    <3>4. known'[c] = known[c]
      BY <3>2, <3>3
    <3> HIDE DEF new
    <3>5. Mk!Shows(known, c)'
      BY <2>2, <3>1, <3>4 DEF Mk!Shows
    <3>6. c \in reread => Mk!Shows(cache, c)'
      BY <2>2, <3>1, <3>2 DEF Mk!Shows
    <3> QED
      BY <1>2, <3>5, <3>6 DEF Shown
  <2>5. Len(acts) <= 1 + faults /\ (Len(acts) <= faults \/ \E c \in Mk!Contacts : Shown(c))
    BY <1>1 DEF Mk!ActsBounded, Shown
  <2> HIDE DEF new
  <2> QED
    BY <1>5, <1>7, <2>1, <2>2, <2>3, <2>4, <2>5
<1>9. CASE Mk!Holders = {}
  <2>1. PICK n \in {1, 2} : acts' = Mk!ActPosted(n) /\ faults' = faults + (n - 1)
                             /\ (n = 2 => faults < MaxFaults)
    <3>1. CASE acts' = Mk!ActPosted(1) /\ UNCHANGED faults
      <4>1. faults' = faults + (1 - 1)
        BY <1>5, <3>1
      <4> QED
        BY <3>1, <4>1
    <3>2. CASE Mk!Fault /\ acts' = Mk!ActPosted(2)
      <4>1. faults' = faults + (2 - 1) /\ faults < MaxFaults
        BY <3>2 DEF Mk!Fault
      <4> QED
        BY <3>2, <4>1
    <3> QED
      BY <1>9, <3>1, <3>2 DEF Mk!WriteAct
  <2>2. /\ acts' \in Seq(SUBSET Mk!Contacts) /\ Len(acts') = Len(acts) + n
        /\ Len(acts') \in DOMAIN acts' /\ acts'[Len(acts')] = plan.met
    BY <1>1, <2>1, ActPostIs
  <2>3. NoneHas
    BY <1>9 DEF NoneHas, Mk!Holders
  <2>4. Len(acts) <= faults /\ (reread # {} => Len(acts) < faults)
    BY <1>1, <1>2, <2>3 DEF Mk!ActsBounded, NoneHas, Mk!Shows
  <2>5. id = Len(acts') /\ id \in Nat
    BY <1>5, <1>6, <1>9, <2>2
  <2>6. reread = {} => \E c \in Mk!Contacts : Shown(c)'
    <3>1. PICK c \in plan.met : c \in Mk!Contacts /\ c \notin Mk!Holders
      BY <1>4
    <3>2. known' = new
      BY <1>6 DEF Mk!Remember
    <3>3. known'[c] \in Mk!Details /\ id \in known'[c].acts
      <4> DEFINE d == known[c]
      <4>1. d \in Mk!Details
        BY <1>3, <3>1
      <4> HIDE DEF d
      <4>2. [d EXCEPT !.acts = @ \cup {id}] \in Mk!Details
            /\ id \in [d EXCEPT !.acts = @ \cup {id}].acts
        BY <2>5, <4>1 DEF Mk!Details
      <4> QED
        BY <3>1, <3>2, <4>2 DEF d
    <3> HIDE DEF new
    <3>4. known'[c] # None
      BY <3>3 DEF Constants, Mk!NoneAssumption
    <3>5. Mk!Shows(known, c)'
      BY <2>2, <2>5, <3>1, <3>3, <3>4 DEF Mk!Shows
    <3> QED
      BY <1>2, <3>1, <3>5 DEF Shown
  <2> HIDE DEF new
  <2>7. /\ faults' \in 0 .. MaxFaults /\ faults <= faults' /\ Len(acts') <= 1 + faults'
        /\ (reread # {} => Len(acts') <= faults')
    BY <1>5, <2>1, <2>2, <2>4
  <2> QED
    BY <1>7, <2>2, <2>5, <2>6, <2>7
<1> QED
  BY <1>8, <1>9

\* A write that fails may have been done: it pays for what it adds.
LEMMA WriteFailsInv ==
    ASSUME Constants, Mk!IInv, Mk!WriteFails
    PROVE  Mk!IInv'
<1>1. Mk!TypeOK /\ Mk!KnownIsCached /\ Mk!NotesBounded /\ Mk!ActsBounded
  BY DEF Mk!IInv
<1>2. /\ pc \in {"notes", "acts"} /\ pc' = "idle" /\ moved' = FALSE
      /\ faults < MaxFaults /\ faults' = faults + 1
      /\ UNCHANGED <<people, bumped, late, page, brain, met, edits>>
      /\ UNCHANGED <<full, todo, cache, known, reread, plan, at, budget>>
  BY DEF Mk!WriteFails, Mk!NoteDue, Mk!Fault, Mk!EndPass, Mk!stamps, Mk!fetch, Mk!write
<1>3. /\ faults \in Nat /\ Len(acts) \in Nat /\ faults' \in 0 .. MaxFaults
      /\ \A c \in Mk!Contacts : NoteFacts(c)
  BY <1>1, <1>2, Numbers DEF Constants, Mk!BoundsAssumption
<1>4. \A c \in Mk!Contacts : known[c] # None
  BY <1>1, <1>2, WriterKnows
<1>5. Mk!KnownIsCached'
  BY <1>1, <1>2 DEF Mk!KnownIsCached
<1>6. /\ own' \in [Mk!Contacts -> Seq(Mk!Texts)]
      /\ \A c \in Mk!Contacts : Mk!Cardinality(Mk!Kept(c)') <= Mk!Cardinality(Mk!Kept(c)) + 1
  <2>1. CASE own' = own
    BY <1>1, <1>3, <2>1, NotesSame DEF Mk!TypeOK, NoteFacts
  <2>2. CASE at \in Mk!Contacts /\ Mk!Mine(at) # <<>> /\ own' = Mk!NotePut(at,
              Mk!Mine(at)[1].id)
    <3>1. PICK a \in Mk!Contacts : own' = Mk!NotePut(a, Mk!Mine(a)[1].id)
      BY <2>2
    <3>2. /\ own' \in [Mk!Contacts -> Seq(Mk!Texts)]
          /\ \A c \in Mk!Contacts : Mk!Cardinality(Mk!Kept(c)') <= Mk!Cardinality(Mk!Kept(c))
      BY <1>1, <3>1, PutIs
    <3>3. \A c \in Mk!Contacts : Mk!Cardinality(Mk!Kept(c)') \in Nat
      <4>1. \A c \in Mk!Contacts : own'[c] \in Seq(Mk!Texts) /\ Mk!Kept(c)' = KeptIn(own'[c])
        BY <3>2 DEF Mk!Kept, KeptIn
      <4> QED
        BY <4>1, KeptCount
    <3> QED
      BY <1>3, <3>2, <3>3 DEF NoteFacts
  <2>3. CASE at \in Mk!Contacts /\ own' = Mk!NotePosted(at, 1)
    <3>1. PICK a \in Mk!Contacts : own' = Mk!NotePosted(a, 1)
      BY <2>3
    <3>2. /\ own' \in [Mk!Contacts -> Seq(Mk!Texts)]
          /\ Mk!Cardinality(Mk!Kept(a)') <= Mk!Cardinality(Mk!Kept(a)) + 1
          /\ \A c \in Mk!Contacts \ {a} : Mk!Kept(c)' = Mk!Kept(c)
      BY <1>1, <3>1, PostIs
    <3> QED
      BY <1>3, <3>2 DEF NoteFacts
  <2> QED
    BY <2>1, <2>2, <2>3 DEF Mk!WriteFails, Mk!NoteDue
<1>7. /\ acts' \in Seq(SUBSET Mk!Contacts) /\ Len(acts') <= Len(acts) + 1
      /\ \A c \in Mk!Contacts : Mk!Shows(known, c) =>
            \A i \in DOMAIN acts : c \in acts[i] => i \in DOMAIN acts' /\ c \in acts'[i]
  <2>1. CASE acts' = acts
    BY <1>1, <1>3, <2>1 DEF Mk!TypeOK
  <2>2. CASE Mk!Holders # {} /\ acts' = Mk!ActPut
    BY <1>1, <1>3, <1>4, <2>2, ActPutIs
  <2>3. CASE acts' = Mk!ActPosted(1)
    BY <1>1, <1>3, <2>3, ActPostIs
  <2> QED
    BY <2>1, <2>2, <2>3 DEF Mk!WriteFails
<1>8. Mk!TypeOK'
  BY <1>1, <1>2, <1>3, <1>6, <1>7 DEF Mk!TypeOK
<1>9. ASSUME NEW c \in Mk!Contacts
      PROVE  NoteBound(c)'
  <2>1. NoteBound(c) /\ Mk!HasNone(known, c)' = Mk!HasNone(known, c)
        /\ Mk!HasNone(cache, c)' = Mk!HasNone(cache, c)
    BY <1>1, <1>2 DEF Mk!NotesBounded, NoteBound, Mk!HasNone
  <2>2. Mk!Cardinality(Mk!Kept(c)') + faults <= Mk!Cardinality(Mk!Kept(c)) + faults'
    <3>1. own'[c] \in Seq(Mk!Texts) /\ Mk!Kept(c)' = KeptIn(own'[c])
      BY <1>6 DEF Mk!Kept, KeptIn
    <3>2. Mk!Cardinality(Mk!Kept(c)') \in Nat /\ Mk!Cardinality(Mk!Kept(c)) \in Nat
      BY <1>3, <3>1, KeptCount DEF NoteFacts
    <3> QED
      BY <1>2, <1>3, <1>6, <3>2
  <2> QED
    BY <1>1, <1>2, <1>8, <2>1, <2>2, NotesFrame
<1>10. Mk!ActsBounded'
  <2>1. \A c \in Mk!Contacts : Shown(c) => Shown(c)'
    <3>1. TAKE c \in Mk!Contacts
    <3>2. Mk!Shows(known, c) => Mk!Shows(known, c)'
      BY <1>2, <1>7 DEF Mk!Shows
    <3>3. Mk!Shows(known, c) /\ Mk!Shows(cache, c) => Mk!Shows(cache, c)'
      BY <1>2, <1>7 DEF Mk!Shows
    <3> QED
      BY <1>2, <3>2, <3>3 DEF Shown
  <2>2. Len(acts') + faults <= Len(acts) + faults'
    <3>1. Len(acts') \in Nat
      BY <1>7
    <3> QED
      BY <1>2, <1>3, <1>7, <3>1
  <2>3. NoneHas' => NoneHas
    BY <1>2 DEF NoneHas
  <2> QED
    BY <1>1, <1>2, <1>8, <2>1, <2>2, <2>3, ActsFrame
<1> QED
  BY <1>5, <1>8, <1>9, <1>10 DEF Mk!IInv, Mk!NotesBounded, NoteBound

\* After a restart nothing is believed.
LEMMA RestartInv ==
    ASSUME Constants, Mk!IInv, Mk!Restart
    PROVE  Mk!IInv'
<1>1. Mk!TypeOK /\ Mk!KnownIsCached /\ Mk!NotesBounded /\ Mk!ActsBounded
  BY DEF Mk!IInv
<1>2. /\ faults < MaxFaults /\ faults' = faults + 1
      /\ pc' = "idle" /\ full' = TRUE /\ moved' = TRUE /\ todo' = {} /\ reread' = {}
      /\ cache' = [c \in Mk!Contacts |-> None] /\ known' = [c \in Mk!Contacts |-> None]
      /\ UNCHANGED <<people, own, acts, bumped, late, page, brain, met, edits>>
      /\ UNCHANGED <<plan, at, budget>>
  BY DEF Mk!Restart, Mk!Fault, Mk!meerkat, Mk!stamps, Mk!write
<1>3. /\ faults \in Nat /\ Len(acts) \in Nat /\ faults' \in 0 .. MaxFaults
  BY <1>1, <1>2, Numbers DEF Constants, Mk!BoundsAssumption
<1>4. Mk!TypeOK'
  BY <1>1, <1>2, <1>3 DEF Mk!TypeOK
<1>5. Mk!KnownIsCached'
  BY <1>1, <1>2 DEF Mk!KnownIsCached
<1>6. Mk!NotesBounded'
  <2>1. ASSUME NEW c \in Mk!Contacts
        PROVE  NoteBound(c)'
    <3>1. Mk!Cardinality(Mk!Kept(c)) \in Nat /\ Mk!Cardinality(Mk!Kept(c)) <= 1 + faults
          /\ Mk!Kept(c)' = Mk!Kept(c)
      BY <1>1, <1>2, Numbers, NotesSame DEF NoteFacts, Mk!NotesBounded
    <3>2. ~Mk!HasNone(known, c)'
      BY <1>2 DEF Mk!HasNone
    <3> QED
      BY <1>2, <1>3, <3>1, <3>2 DEF NoteBound
  <2> QED
    BY <2>1 DEF Mk!NotesBounded, NoteBound
<1>7. Mk!ActsBounded'
  BY <1>1, <1>2, <1>3 DEF Mk!ActsBounded
<1> QED
  BY <1>4, <1>5, <1>6, <1>7 DEF Mk!IInv

LEMMA MeerkatNext ==
    ASSUME Constants, Mk!IInv, [Mk!Next]_Mk!vars
    PROVE  Mk!IInv'
<1>1. CASE Mk!Sync
  BY <1>1, ListInv, ReadInv, FetchDoneInv DEF Mk!Sync
<1>2. CASE Mk!Writeback
  BY <1>2, PlanInv, SkipInv, WriteNoteInv, WriteActInv DEF Mk!Writeback
<1>3. CASE Mk!Edit \/ Mk!BrainChanges \/ Mk!Touch \/ Mk!Elapse
  BY <1>3, EditInv, OtherInv
<1>4. CASE Mk!FetchFails \/ Mk!WriteFails \/ Mk!Restart
  BY <1>4, FetchFailsInv, WriteFailsInv, RestartInv
<1>5. CASE UNCHANGED Mk!vars
  <2>1. UNCHANGED <<people, own, acts, bumped, late, page, brain, met, moved, pc>>
        /\ UNCHANGED <<full, todo, cache, known, reread, plan, at, budget, edits, faults>>
    BY <1>5 DEF Mk!vars, Mk!meerkat, Mk!stamps, Mk!main, Mk!fetch, Mk!write, Mk!bounds
  <2>2. Mk!TypeOK /\ Mk!KnownIsCached /\ Mk!NotesBounded /\ Mk!ActsBounded
    BY DEF Mk!IInv
  <2>3. Mk!TypeOK'
    BY <2>1, <2>2 DEF Mk!TypeOK
  <2>4. Mk!KnownIsCached'
    BY <2>1, <2>2 DEF Mk!KnownIsCached
  <2>5. faults <= faults'
    BY <2>1, <2>2, Numbers
  <2>6. Mk!NotesBounded' /\ Mk!ActsBounded'
    BY <2>1, <2>2, <2>3, <2>5, Aside
  <2> QED
    BY <2>3, <2>4, <2>6 DEF Mk!IInv
<1> QED
  BY <1>1, <1>2, <1>3, <1>4, <1>5 DEF Mk!Next

\* However people edit Meerkat and whatever the write-back believes, a second
\* summary of a contact and a second activity of the meeting cost a failure each.
THEOREM DuplicatesCostFailures ==
    ASSUME Mk!BoundsAssumption, Mk!NoneAssumption
    PROVE  Mk!Spec => []Mk!Safe
<1>1. Constants
  BY DEF Constants
<1>2. Mk!Init => Mk!IInv
  BY <1>1, MeerkatInit
<1>3. Mk!IInv /\ [Mk!Next]_Mk!vars => Mk!IInv'
  BY <1>1, MeerkatNext
<1>4. Mk!IInv => Mk!Safe
  BY DEF Mk!IInv, Mk!Safe, Mk!OnlyFaultsDuplicate, Mk!NotesBounded, Mk!ActsBounded
<1> QED
  BY <1>2, <1>3, <1>4, PTL DEF Mk!Spec
================================================================================
