------------------------------- MODULE BrainCycle ------------------------------
(***************************************************************************)
(* The loop of brain-sync (apps/ai/brain/sync/brain_sync.py): main runs a  *)
(* cycle, waits for SYNC_INTERVAL_SECONDS or a /trigger, and runs the next *)
(* one.  A cycle syncs the sources, rebuilds the entity pages when the     *)
(* branch has moved, and syncs the mail, whose notes link to those pages.  *)
(* Other writers commit to the branch at any time.                         *)
(*                                                                         *)
(* Two kinds of sources come before the entities.  Meerkat and Riffado are *)
(* listed in every cycle; HubSpot and the mirrors are left alone until     *)
(* their interval has passed, whatever woke the loop.                      *)
(*                                                                         *)
(* Abstractions: each kind is one source with a revision; everything else  *)
(* in the repository that brain-sync does not write is one revision; the   *)
(* entity pages are one value, made of what they were rendered from; mail  *)
(* and calendar are one mailbox.  A revision is a change a listing shows:  *)
(* child records of Meerkat that leave UpdatedAt alone wait for the full   *)
(* resync (MeerkatSync), and so do late summaries (RiffadoSync, which also *)
(* has how one source commits its folder).                                 *)
(***************************************************************************)
EXTENDS Naturals

CONSTANTS
    None,        \* no pages in the repository; no head remembered
    Hand,        \* pages a person changed
    Unloaded,    \* _entity_pages is None: not known to this process
    MaxEvents    \* bound: changes from outside and failures, all together

ASSUME BoundsAssumption == MaxEvents \in Nat

VARIABLES
    \* outside
    up,          \* revision of Meerkat and Riffado, as their listings show it
    slow,        \* revision of HubSpot and the mirrored repositories
    box,         \* revision of the mailbox
    \* the branch
    src,         \* the revision of up that the notes hold
    kept,        \* the revision of slow that the notes hold
    mail,        \* the mail notes: revision of the mailbox, pages they link to
    other,       \* revision of everything other people and jobs write
    pages,       \* the entity pages
    head,        \* the head of the branch, as the number of commits
    \* the process
    pc,
    wake,        \* _wake
    got,         \* the revision a source has just answered
    headRead,    \* head, as sync_entities read it first
    snap,        \* what the archive held
    base,        \* the pages as listed for the commit
    entLast,     \* _entities_last[1]
    entDue,      \* ENTITY_INTERVAL_SECONDS have passed
    slowDue,     \* HUBSPOT_INTERVAL_SECONDS or MIRROR_INTERVAL_SECONDS have passed
    googleDue,   \* GOOGLE_INTERVAL_SECONDS have passed
    known,       \* _entity_pages
    selfs,       \* SELF_EMAILS holds the mailbox's own addresses
    failed,      \* Meerkat or Riffado failed in their latest attempt
    events,      \* how much of MaxEvents is used
    \* history
    owed,        \* up, when /trigger was last called
    moved,       \* something besides the last rebuild has moved the head
    overtaken    \* a commit of others fell between archive and last head read

outside == <<up, slow, box>>
branch == <<src, kept, mail, other, pages, head>>
locals == <<got, headRead, snap, base>>
memory == <<entLast, entDue, slowDue, googleDue, known, selfs, failed>>
history == <<owed, moved, overtaken>>
vars == <<outside, branch, pc, wake, locals, memory, events, history>>

--------------------------------------------------------------------------------
(***************************************************************************)
(* What the pages and the mail notes are made of.                          *)
(***************************************************************************)

\* EntityDirectory: it reads only the front matter of the pages, which comes
\* from the records and the configuration, not from the mentions.
View == [src : Nat, kept : Nat, other : Nat]
Views == View \cup {None, Hand}
Mail == [box : Nat, dir : Views]
Snap == [src : Nat, kept : Nat, mail : Mail, other : Nat]

\* own: an address of the mailbox's owner counts as a mention.
Page == [src : Nat, kept : Nat, mail : Mail, other : Nat, own : BOOLEAN]
Pages == Page \cup {None, Hand}

ASSUME ConstantsAssumption ==
    /\ None # Hand
    /\ {None, Hand} \cap (Page \cup View \cup Nat) = {}
    /\ Unloaded \notin Pages

Dir(p) == IF p \in {None, Hand} THEN p
          ELSE [src |-> p.src, kept |-> p.kept, other |-> p.other]

\* render_entities over an archive.
Rendering(s, self) ==
    [src |-> s.src, kept |-> s.kept, mail |-> s.mail, other |-> s.other, own |-> ~self]

NewPages == Rendering(snap, selfs)

\* render_calendar and render_gmail: what Google has, linked by the directory.
NewMail == [box |-> got, dir |-> Dir(known)]

\* apply_changes commits only a difference.
HeadAfter(old, new) == IF old = new THEN head ELSE head + 1

NoMail == [box |-> 0, dir |-> None]
NoSnap == [src |-> 0, kept |-> 0, mail |-> NoMail, other |-> 0]

Init ==
    /\ up = 1 /\ slow = 1 /\ box = 1
    /\ src = 0 /\ kept = 0 /\ mail = NoMail /\ other = 0 /\ pages = None /\ head = 0
    /\ pc = "fetch" /\ wake = FALSE
    /\ got = 0 /\ headRead = 0 /\ snap = NoSnap /\ base = None
    /\ entLast = None /\ entDue = TRUE /\ slowDue = TRUE /\ googleDue = TRUE
    /\ known = Unloaded /\ selfs = FALSE /\ failed = FALSE
    /\ events = 0
    /\ owed = 0 /\ moved = TRUE /\ overtaken = FALSE

--------------------------------------------------------------------------------
(***************************************************************************)
(* The loop and the sources.                                               *)
(***************************************************************************)

\* _wake.wait: set, or the interval has passed.
Wait ==
    /\ pc = "wait"
    /\ pc' = "clear"
    /\ UNCHANGED <<outside, branch, wake, locals, memory, events, history>>

Clear ==
    /\ pc = "clear"
    /\ pc' = "fetch"
    /\ wake' = FALSE
    /\ UNCHANGED <<outside, branch, locals, memory, events, history>>

\* Variant: the event is cleared when the cycle is over, before the wait.
EndCycleClearing == pc' = "wait" /\ wake' = FALSE

\* The cycle is over; the loop goes on to the wait.
EndCycle == pc' = "wait" /\ UNCHANGED wake

FetchSources ==
    /\ pc = "fetch"
    /\ pc' = "store"
    /\ got' = up
    /\ UNCHANGED <<outside, branch, wake, headRead, snap, base, memory, events,
                   history>>

StoreSources ==
    /\ pc = "store"
    /\ pc' = "slow"
    /\ src' = got
    /\ head' = HeadAfter(src, got)
    /\ failed' = FALSE
    /\ moved' = (moved \/ got # src)
    /\ UNCHANGED <<outside, kept, mail, other, pages, wake, locals, entLast, entDue,
                   slowDue, googleDue, known, selfs, events, owed, overtaken>>

\* The interval of HubSpot and the mirrors is not over: the notes stay as old
\* as they are, after a /trigger too.
SkipSlow ==
    /\ pc = "slow"
    /\ ~slowDue
    /\ pc' = "head"
    /\ UNCHANGED <<outside, branch, wake, locals, memory, events, history>>

FetchSlow ==
    /\ pc = "slow"
    /\ slowDue
    /\ pc' = "slowstore"
    /\ got' = slow
    /\ UNCHANGED <<outside, branch, wake, headRead, snap, base, memory, events,
                   history>>

StoreSlow ==
    /\ pc = "slowstore"
    /\ pc' = "head"
    /\ kept' = got
    /\ head' = HeadAfter(kept, got)
    /\ slowDue' = FALSE
    /\ moved' = (moved \/ got # kept)
    /\ UNCHANGED <<outside, src, mail, other, pages, wake, locals, entLast, entDue,
                   googleDue, known, selfs, failed, events, owed, overtaken>>

Sources == FetchSources \/ StoreSources \/ SkipSlow \/ FetchSlow \/ StoreSlow

--------------------------------------------------------------------------------
(***************************************************************************)
(* sync_entities.                                                          *)
(***************************************************************************)

\* The head is the one remembered, or the last rebuild was a moment ago.
SkipEntities ==
    /\ pc = "head"
    /\ head = entLast \/ ~entDue
    /\ pc' = "directory"
    /\ UNCHANGED <<outside, branch, wake, locals, memory, events, history>>

ReadHead ==
    /\ pc = "head"
    /\ head # entLast /\ entDue
    /\ pc' = "archive"
    /\ headRead' = head
    /\ UNCHANGED <<outside, branch, wake, got, snap, base, memory, events, history>>

\* repo_snapshot, and render_entities over it.
Archive ==
    /\ pc = "archive"
    /\ pc' = "list"
    /\ snap' = [src |-> src, kept |-> kept, mail |-> mail, other |-> other]
    /\ overtaken' = FALSE
    /\ UNCHANGED <<outside, branch, wake, got, headRead, base, memory, events,
                   owed, moved>>

\* Variant: the pages rendered last are taken for the listing.
ListPagesCached ==
    /\ pc = "list"
    /\ pc' = "commit"
    /\ base' = IF known = Unloaded THEN pages ELSE known
    /\ UNCHANGED <<outside, branch, wake, got, headRead, snap, memory, events,
                   history>>

ListPages ==
    /\ pc = "list"
    /\ pc' = "commit"
    /\ base' = pages
    /\ UNCHANGED <<outside, branch, wake, got, headRead, snap, memory, events,
                   history>>

\* Variant: the rendered pages are not kept for the mail.
CommitPagesForgotten ==
    /\ pc = "commit"
    /\ NewPages = base \/ pages = base
    /\ pc' = "after"
    /\ pages' = IF NewPages = base THEN pages ELSE NewPages
    /\ head' = HeadAfter(base, NewPages)
    /\ UNCHANGED <<outside, src, kept, mail, other, wake, locals, memory, events,
                   history>>

\* There is nothing to commit, or Forgejo still has what the listing saw.
CommitPages ==
    /\ pc = "commit"
    /\ NewPages = base \/ pages = base
    /\ pc' = "after"
    /\ pages' = IF NewPages = base THEN pages ELSE NewPages
    /\ head' = HeadAfter(base, NewPages)
    /\ known' = NewPages
    /\ UNCHANGED <<outside, src, kept, mail, other, wake, locals, entLast, entDue,
                   slowDue, googleDue, selfs, failed, events, history>>

\* The pages were deleted meanwhile: 404, which http_json takes for an answer.
CommitDropped ==
    /\ pc = "commit"
    /\ NewPages # base /\ base # None /\ pages = None
    /\ pc' = "after"
    /\ known' = NewPages
    /\ UNCHANGED <<outside, branch, wake, locals, entLast, entDue, slowDue,
                   googleDue, selfs, failed, events, history>>

\* They were changed meanwhile: 422, and sync_entities ends with an exception.
CommitRefused ==
    /\ pc = "commit"
    /\ NewPages # base /\ pages \notin {base, None}
    /\ pc' = "directory"
    /\ moved' = TRUE
    /\ UNCHANGED <<outside, branch, wake, locals, memory, events, owed, overtaken>>

\* Variant: the head read before the rebuild is the one remembered.
RememberHeadRead ==
    /\ pc = "after"
    /\ pc' = "directory"
    /\ entLast' = headRead
    /\ entDue' = FALSE
    /\ moved' = FALSE
    /\ UNCHANGED <<outside, branch, wake, locals, slowDue, googleDue, known, selfs,
                   failed, events, owed, overtaken>>

\* The head as it is now, with the commit just made, is the one remembered.
RememberHead ==
    /\ pc = "after"
    /\ pc' = "directory"
    /\ entLast' = head
    /\ entDue' = FALSE
    /\ moved' = FALSE
    /\ UNCHANGED <<outside, branch, wake, locals, slowDue, googleDue, known, selfs,
                   failed, events, owed, overtaken>>

Entities ==
    \/ SkipEntities \/ ReadHead \/ Archive \/ ListPages
    \/ CommitPages \/ CommitDropped \/ CommitRefused \/ RememberHead

--------------------------------------------------------------------------------
(***************************************************************************)
(* sync_google.                                                            *)
(***************************************************************************)

SkipGoogle ==
    /\ pc = "directory"
    /\ ~googleDue
    /\ EndCycle
    /\ UNCHANGED <<outside, branch, locals, memory, events, history>>

\* entity_directory: the pages rendered last, or, in a process that has
\* rendered none, those in the repository.
LoadDirectory ==
    /\ pc = "directory"
    /\ googleDue
    /\ pc' = "self"
    /\ known' = IF known = Unloaded THEN pages ELSE known
    /\ UNCHANGED <<outside, branch, wake, locals, entLast, entDue, slowDue,
                   googleDue, selfs, failed, events, history>>

\* self_addresses.
LearnSelf ==
    /\ pc = "self"
    /\ pc' = "mail"
    /\ selfs' = TRUE
    /\ UNCHANGED <<outside, branch, wake, locals, entLast, entDue, slowDue,
                   googleDue, known, failed, events, history>>

ReadMail ==
    /\ pc = "mail"
    /\ pc' = "mailstore"
    /\ got' = box
    /\ UNCHANGED <<outside, branch, wake, headRead, snap, base, memory, events,
                   history>>

StoreMail ==
    /\ pc = "mailstore"
    /\ mail' = NewMail
    /\ head' = HeadAfter(mail, NewMail)
    /\ moved' = (moved \/ NewMail # mail)
    /\ googleDue' = FALSE
    /\ EndCycle
    /\ UNCHANGED <<outside, src, kept, other, pages, locals, entLast, entDue,
                   slowDue, known, selfs, failed, events, owed, overtaken>>

Google == SkipGoogle \/ LoadDirectory \/ LearnSelf \/ ReadMail \/ StoreMail

Process == Wait \/ Clear \/ Sources \/ Entities \/ Google

--------------------------------------------------------------------------------
(***************************************************************************)
(* Failures.  cycle() logs the exception of a source and goes on to the    *)
(* next one.                                                               *)
(***************************************************************************)
Event == events < MaxEvents /\ events' = events + 1

SourcesFail ==
    /\ pc \in {"fetch", "store"}
    /\ Event
    /\ pc' = "slow"
    /\ failed' = TRUE
    /\ UNCHANGED <<outside, branch, wake, locals, entLast, entDue, slowDue,
                   googleDue, known, selfs, history>>

\* What HubSpot raises leaves _hubspot_last; what one mirror raises is logged,
\* and _mirrors_last is set like after a success.
SlowFails ==
    /\ pc \in {"slow", "slowstore"}
    /\ slowDue
    /\ Event
    /\ pc' = "head"
    /\ slowDue' \in BOOLEAN
    /\ UNCHANGED <<outside, branch, wake, locals, entLast, entDue, googleDue, known,
                   selfs, failed, history>>

EntitiesFail ==
    /\ pc \in {"head", "archive", "list", "commit", "after"}
    /\ Event
    /\ pc' = "directory"
    /\ moved' = TRUE
    /\ UNCHANGED <<outside, branch, wake, locals, memory, owed, overtaken>>

\* Before the calendar and the mail are tried, an exception leaves _google_last.
GoogleFails ==
    /\ pc \in {"directory", "self"}
    /\ googleDue
    /\ Event
    /\ EndCycle
    /\ UNCHANGED <<outside, branch, locals, memory, history>>

\* From there on it does not.
MailFails ==
    /\ pc \in {"mail", "mailstore"}
    /\ Event
    /\ googleDue' = FALSE
    /\ EndCycle
    /\ UNCHANGED <<outside, branch, locals, entLast, entDue, slowDue, known, selfs,
                   failed, history>>

\* A commit is made but its answer never arrives.
SourcesAnswerLost ==
    /\ pc = "store" /\ got # src
    /\ Event
    /\ pc' = "slow"
    /\ src' = got /\ head' = head + 1
    /\ failed' = TRUE /\ moved' = TRUE
    /\ UNCHANGED <<outside, kept, mail, other, pages, wake, locals, entLast, entDue,
                   slowDue, googleDue, known, selfs, owed, overtaken>>

SlowAnswerLost ==
    /\ pc = "slowstore" /\ got # kept
    /\ Event
    /\ pc' = "head"
    /\ kept' = got /\ head' = head + 1
    /\ slowDue' \in BOOLEAN
    /\ moved' = TRUE
    /\ UNCHANGED <<outside, src, mail, other, pages, wake, locals, entLast, entDue,
                   googleDue, known, selfs, failed, owed, overtaken>>

PagesAnswerLost ==
    /\ pc = "commit" /\ NewPages # base /\ pages = base
    /\ Event
    /\ pc' = "directory"
    /\ pages' = NewPages /\ head' = head + 1
    /\ moved' = TRUE
    /\ UNCHANGED <<outside, src, kept, mail, other, wake, locals, memory, owed,
                   overtaken>>

\* The second look at the head is answered 404: the first one counts.
HeadUnknown ==
    /\ pc = "after"
    /\ Event
    /\ pc' = "directory"
    /\ entLast' = headRead
    /\ entDue' = FALSE
    /\ moved' = TRUE
    /\ UNCHANGED <<outside, branch, wake, locals, slowDue, googleDue, known, selfs,
                   failed, owed, overtaken>>

\* The pod is replaced: everything in memory is gone, and a cycle starts.
Restart ==
    /\ Event
    /\ pc' = "fetch" /\ wake' = FALSE
    /\ entLast' = None /\ entDue' = TRUE /\ slowDue' = TRUE /\ googleDue' = TRUE
    /\ known' = Unloaded /\ selfs' = FALSE /\ failed' = FALSE
    /\ got' = 0 /\ headRead' = 0 /\ snap' = NoSnap /\ base' = None
    /\ moved' = TRUE
    /\ UNCHANGED <<outside, branch, owed, overtaken>>

Fault ==
    \/ SourcesFail \/ EntitiesFail \/ GoogleFails \/ MailFails
    \/ SlowFails \/ SourcesAnswerLost \/ SlowAnswerLost \/ PagesAnswerLost
    \/ HeadUnknown \/ Restart

--------------------------------------------------------------------------------
(***************************************************************************)
(* The world around the loop.                                              *)
(***************************************************************************)
SourceChanges ==
    /\ Event
    /\ up' = up + 1
    /\ UNCHANGED <<slow, box, branch, pc, wake, locals, memory, history>>

SlowChanges ==
    /\ Event
    /\ slow' = slow + 1
    /\ UNCHANGED <<up, box, branch, pc, wake, locals, memory, history>>

MailArrives ==
    /\ Event
    /\ box' = box + 1
    /\ UNCHANGED <<up, slow, branch, pc, wake, locals, memory, history>>

\* do_POST on /trigger.
Trigger ==
    /\ ~wake \/ owed # up
    /\ wake' = TRUE
    /\ owed' = up
    /\ UNCHANGED <<outside, branch, pc, locals, memory, events, moved, overtaken>>

\* A person, an agent or a cron job commits a note.
OtherCommit ==
    /\ Event
    /\ other' = other + 1
    /\ head' = head + 1
    /\ moved' = TRUE
    /\ overtaken' = (overtaken \/ pc \in {"list", "commit", "after"})
    /\ UNCHANGED <<outside, src, kept, mail, pages, pc, wake, locals, memory, owed>>

\* Somebody changes or deletes entity pages.
EditPages ==
    /\ Event
    /\ \E p \in {Hand, None} \ {pages} : pages' = p
    /\ head' = head + 1
    /\ moved' = TRUE
    /\ overtaken' = (overtaken \/ pc \in {"commit", "after"})
    /\ UNCHANGED <<outside, src, kept, mail, other, pc, wake, locals, memory, owed>>

EntityTimer ==
    /\ ~entDue
    /\ entDue' = TRUE
    /\ UNCHANGED <<outside, branch, pc, wake, locals, entLast, slowDue, googleDue,
                   known, selfs, failed, events, history>>

SlowTimer ==
    /\ ~slowDue
    /\ slowDue' = TRUE
    /\ UNCHANGED <<outside, branch, pc, wake, locals, entLast, entDue, googleDue,
                   known, selfs, failed, events, history>>

GoogleTimer ==
    /\ ~googleDue
    /\ googleDue' = TRUE
    /\ UNCHANGED <<outside, branch, pc, wake, locals, entLast, entDue, slowDue,
                   known, selfs, failed, events, history>>

World ==
    \/ SourceChanges \/ SlowChanges \/ MailArrives \/ Trigger
    \/ OtherCommit \/ EditPages \/ EntityTimer \/ SlowTimer \/ GoogleTimer

Next == Process \/ Fault \/ World

Spec == Init /\ [][Next]_vars

(***************************************************************************)
(* main's loop has no exit and waits at most one interval; time passes.    *)
(***************************************************************************)
FairSpec ==
    /\ Spec
    /\ WF_vars(Process)
    /\ WF_vars(EntityTimer)
    /\ WF_vars(SlowTimer)
    /\ WF_vars(GoogleTimer)

--------------------------------------------------------------------------------
(***************************************************************************)
(* Properties.                                                             *)
(***************************************************************************)

\* Every variable stays in its type; in particular the mail notes hold the
\* front matter of the pages and never the mail notes the pages list, which
\* would make every rebuild change the mail and every mail sync the pages.
TypeOK ==
    /\ up \in Nat /\ slow \in Nat /\ box \in Nat
    /\ src \in Nat /\ kept \in Nat /\ mail \in Mail /\ other \in Nat
    /\ pages \in Pages /\ head \in Nat
    /\ pc \in {"fetch", "store", "slow", "slowstore", "head", "archive", "list",
               "commit", "after", "directory", "self", "mail", "mailstore", "wait",
               "clear"}
    /\ wake \in BOOLEAN
    /\ got \in Nat /\ headRead \in Nat /\ snap \in Snap /\ base \in Pages
    /\ entLast \in Nat \cup {None}
    /\ entDue \in BOOLEAN /\ slowDue \in BOOLEAN /\ googleDue \in BOOLEAN
    /\ known \in Pages \cup {Unloaded}
    /\ pc \in {"self", "mail", "mailstore"} => known # Unloaded
    /\ selfs \in BOOLEAN /\ failed \in BOOLEAN
    /\ events \in 0 .. MaxEvents
    /\ owed \in Nat /\ moved \in BOOLEAN /\ overtaken \in BOOLEAN

\* A /trigger is never lost to Meerkat and Riffado, the two sources that do_POST
\* promises to re-read: while the loop sleeps with the event clear and neither
\* of them failed, the notes hold at least what their listings showed when
\* /trigger was last called, however that call fell between the steps of the
\* wait, the clear and the cycle.  HubSpot and the mirrors have no such promise:
\* within their interval a /trigger leaves them alone; CatchesUp says that
\* their notes follow in the end.
NoLostTrigger ==
    pc = "wait" /\ ~wake /\ ~failed => src >= owed

PagesCurrent ==
    /\ pages \notin {None, Hand}
    /\ pages.src = src /\ pages.kept = kept /\ pages.mail = mail /\ pages.other = other

\* The head is remembered only when the pages show the branch at that head,
\* unless someone else committed between the archive and the last look at the
\* head, which then counts as shown: a remembered head is what makes brain-sync leave
\* the pages alone.
CurrentUnlessOvertaken ==
    entLast = head /\ ~overtaken => PagesCurrent

\* Types, and the head that stands for the pages.
Safe == TypeOK /\ CurrentUnlessOvertaken

\* The archive is downloaded only when something else than the rebuild's own
\* commit has moved the head since the last rebuild.
NoIdleRebuild == [][pc = "head" /\ pc' = "archive" => moved]_vars

\* When the outside comes to rest, the notes hold what all the sources and the
\* mailbox hold, the pages show all of it and the mail notes link to those
\* pages: the loop of mail notes listed by pages that mail notes link to
\* settles.  The exception is again a commit that overtook the rebuild.
CatchesUp ==
    <>[](/\ src = up /\ kept = slow /\ mail.box = box
         /\ overtaken \/ (PagesCurrent /\ mail.dir = Dir(pages)))

(***************************************************************************)
(* What carries the theorems of BrainCycleProofs through every step.       *)
(***************************************************************************)

\* What was fetched since the last clear is no older than the last /trigger.
TriggerInv ==
    /\ owed <= up /\ src <= up
    /\ pc = "store" => src <= got /\ got <= up /\ (wake \/ owed <= got)
    /\ pc \notin {"clear", "fetch", "store"} => wake \/ failed \/ owed <= src

\* While nobody interferes, a rebuild works on the branch as it is.
Rebuilding == {"archive", "list", "commit", "after"}

RebuildInv ==
    /\ CurrentUnlessOvertaken
    /\ entLast = None \/ entLast <= head
    /\ pc \in Rebuilding => entLast # head /\ headRead <= head /\ moved
    /\ pc \in {"list", "commit", "after"} /\ ~overtaken =>
           snap = [src |-> src, kept |-> kept, mail |-> mail, other |-> other]
    /\ pc = "commit" /\ ~overtaken => pages = base
    /\ pc = "after" /\ ~overtaken => PagesCurrent
    /\ moved \/ entLast = head

IInv == TypeOK /\ TriggerInv /\ RebuildInv
================================================================================
