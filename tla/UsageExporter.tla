----------------------------- MODULE UsageExporter -----------------------------
(***************************************************************************)
(* The exporter of AI tool usage                                           *)
(* (observability/observability/scripts/claude-stats-exporter.py): one     *)
(* thread scans the files of every tool, one tool after the other, and     *)
(* renders all of them into one text; the server hands out the text that   *)
(* was rendered last.  The tools append to their transcripts, copy them    *)
(* (a resumed session) and rewrite their session documents while they are  *)
(* read; one of them may change its format, so that its scanner raises.    *)
(* Claude Code, the first, also keeps totals of its own in                 *)
(* stats-cache.json: claude_stats_* tells these when the file parses, and  *)
(* the scan's when it does not; claude_deep_* and ai_* always tell the     *)
(* scan's.                                                                 *)
(*                                                                         *)
(* Abstractions: what a file tells is a set of ids, those of the messages  *)
(* of the assistant for Claude Code, whose user messages have none and are *)
(* counted line by line; tool calls are counted likewise; tokens and       *)
(* costs, sums over them, and the breakdown by day, model and project are  *)
(* left out.  A line cut short is no line yet.                             *)
(***************************************************************************)
EXTENDS FiniteSetsExt, Integers

CONSTANTS
    N,           \* sources 1 .. N, in the order collect scans them
    Keyed,       \* those counted by id; the first of them is Claude Code
    Documents,   \* those whose files are rewritten whole (Cowork, Grok)
    Files, Ids,  \* of each source
    Totals,      \* the messages stats-cache.json may tell
    None,        \* nothing scanned yet; no text yet; no cache that parses
    MaxFaults    \* bound: restarts, failed scans, changes of format or cache

ASSUME SourcesAssumption ==
    /\ N \in Nat \ {0} /\ 1 \in Keyed
    /\ Keyed \subseteq 1 .. N /\ Documents \subseteq (1 .. N) \ Keyed
ASSUME FilesAssumption == IsFiniteSet(Files) /\ IsFiniteSet(Ids)
ASSUME TotalsAssumption == Totals \subseteq Nat
ASSUME NoneAssumption == None \notin Nat
ASSUME BoundsAssumption == MaxFaults \in Nat

VARIABLES
    content,     \* the ids in each file of each source
    torn,        \* documents being rewritten
    broken,      \* sources whose scanner raises
    cache,       \* stats-cache.json: its total, None if absent or half written
    at,          \* the source being scanned; 0: asleep; N + 1: all are
    toRead,      \* its files still to read
    seen, count, \* seen_msg; total_messages
    stat,        \* what load_stats_cache returned
    good,        \* LAST_GOOD, as the number told for each source
    text,        \* State.text, likewise
    total,       \* claude_stats_total_messages in it, and where it is from
    told, shown, \* what a scrape saw last of the two (history)
    faults

disk == <<content, torn, broken, cache>>
scanning == <<at, toRead, seen, count, stat>>
page == <<text, total>>
scraped == <<told, shown>>
vars == <<disk, scanning, good, page, scraped, faults>>

--------------------------------------------------------------------------------
Sources == 1 .. N
\* The ids a source has written, each once.
Written(s) == UNION {content[s][f] : f \in Files}

Scanned(n) == [cached |-> FALSE, n |-> n]
Cached(n) == [cached |-> TRUE, n |-> n]

Init ==
    /\ content = [s \in Sources |-> [f \in Files |-> {}]]
    /\ torn = {} /\ broken = {} /\ cache \in Totals \cup {None}
    /\ at = 0 /\ toRead = {} /\ seen = {} /\ count = 0 /\ stat = None
    /\ good = [s \in Sources |-> None]
    /\ text = None /\ total = Scanned(0)
    /\ told = [s \in Sources |-> 0] /\ shown = Scanned(0)
    /\ faults = 0

Fault == faults < MaxFaults /\ faults' = faults + 1

--------------------------------------------------------------------------------
(***************************************************************************)
(* The tools.                                                              *)
(***************************************************************************)

\* A line is appended, or a row inserted.
Log ==
    /\ \E s \in Sources \ Documents, f \in Files : \E i \in Ids \ Written(s) :
          content' = [content EXCEPT ![s][f] = @ \cup {i}]
    /\ UNCHANGED <<torn, broken, cache, scanning, good, page, scraped, faults>>

\* A resumed session: its transcript begins with the lines of the old one.
Resume ==
    /\ \E s \in Keyed, f, g \in Files :
        /\ content[s][f] = {} /\ content[s][g] # {}
        /\ content' = [content EXCEPT ![s][f] = content[s][g]]
    /\ UNCHANGED <<torn, broken, cache, scanning, good, page, scraped, faults>>

\* A document is truncated, and written with what is new.
Truncate ==
    /\ \E s \in Documents, f \in Files :
        <<s, f>> \notin torn /\ Ids # Written(s) /\ torn' = torn \cup {<<s, f>>}
    /\ UNCHANGED <<content, broken, cache, scanning, good, page, scraped, faults>>

Rewrite ==
    /\ \E d \in torn :
        /\ torn' = torn \ {d}
        /\ \E new \in IF Ids = Written(d[1]) THEN {{}} ELSE {{i} : i \in Ids \ Written(d[1])} :
              content' = [content EXCEPT ![d[1]][d[2]] = @ \cup new]
    /\ UNCHANGED <<broken, cache, scanning, good, page, scraped, faults>>

ChangeFormat ==
    /\ Fault
    /\ \E s \in Sources \ broken : broken' = broken \cup {s}
    /\ UNCHANGED <<content, torn, cache, scanning, good, page, scraped>>

\* Claude Code writes its totals anew, is caught half way, or removes the file.
WriteCache ==
    /\ Fault
    /\ \E n \in (Totals \cup {None}) \ {cache} : cache' = n
    /\ UNCHANGED <<content, torn, broken, scanning, good, page, scraped>>

--------------------------------------------------------------------------------
(***************************************************************************)
(* refresher: collect and scan.                                            *)
(***************************************************************************)

\* The scanner of s lists the files there are.  The cache is read between the
\* first scan and the second.
Enter(s) ==
    /\ at' = s /\ seen' = {} /\ count' = 0
    /\ stat' = IF s = 2 THEN cache ELSE IF s > 2 THEN stat ELSE None
    /\ toRead' = IF s \in Sources THEN {f \in Files : content[s][f] # {}} ELSE {}

Begin ==
    /\ at = 0
    /\ Enter(1)
    /\ UNCHANGED <<disk, good, page, scraped, faults>>

\* What a file of the source tells; a document that does not parse: nothing.
Readable(f) == IF <<at, f>> \in torn THEN {} ELSE content[at][f]

\* What is new in it: by id, or all of it.
ById(f) == Readable(f) \ seen
AsItIs(f) == Readable(f)

\* Mutant: what two transcripts share is counted twice.
CountFileTwice ==
    /\ at \in Sources \ broken
    /\ \E f \in toRead :
        /\ toRead' = toRead \ {f} /\ seen' = seen \cup Readable(f)
        /\ count' = count + Cardinality(Readable(f))
    /\ UNCHANGED <<disk, at, stat, good, page, scraped, faults>>

CountFile ==
    /\ at \in Sources \ broken
    /\ \E f \in toRead :
        /\ toRead' = toRead \ {f} /\ seen' = seen \cup Readable(f)
        /\ count' = count + Cardinality(IF at \in Keyed THEN ById(f) ELSE AsItIs(f))
    /\ UNCHANGED <<disk, at, stat, good, page, scraped, faults>>

ScanDone ==
    /\ at \in Sources \ broken /\ toRead = {}
    /\ good' = [good EXCEPT ![at] = count]
    /\ Enter(at + 1)
    /\ UNCHANGED <<disk, page, scraped, faults>>

Raises == at \in Sources /\ (Fault \/ (at \in broken /\ UNCHANGED faults))

\* Mutant: the source counts as empty.
ScanFailsEmpty ==
    /\ Raises
    /\ good' = [good EXCEPT ![at] = 0]
    /\ Enter(at + 1)
    /\ UNCHANGED <<disk, page, scraped>>

\* Mutant: one source that fails ends the round.
ScanFailsAll ==
    /\ Raises
    /\ Enter(0)
    /\ UNCHANGED <<disk, good, page, scraped>>

\* The source keeps its last good result; if there is none, collect raises.
ScanFails ==
    /\ Raises
    /\ Enter(IF good[at] = None THEN 0 ELSE at + 1)
    /\ UNCHANGED <<disk, good, page, scraped>>

Render ==
    /\ at = N + 1
    /\ text' = good /\ Enter(0)
    /\ total' = IF stat = None THEN Scanned(good[1]) ELSE Cached(stat)
    /\ UNCHANGED <<disk, good, scraped, faults>>

--------------------------------------------------------------------------------
\* GET /metrics; before the first round there are no samples in it.
Scrape ==
    /\ text # None /\ told' = text /\ shown' = total
    /\ UNCHANGED <<disk, scanning, good, page, faults>>

\* launchd starts the exporter again.
Restart ==
    /\ Fault
    /\ Enter(0) /\ good' = [s \in Sources |-> None]
    /\ text' = None /\ total' = Scanned(0)
    /\ UNCHANGED <<disk, scraped>>

Refresher == Begin \/ CountFile \/ ScanDone \/ (at \in broken /\ ScanFails) \/ Render

Next ==
    \/ Begin \/ CountFile \/ ScanDone \/ ScanFails \/ Render
    \/ Log \/ Resume \/ Truncate \/ Rewrite \/ ChangeFormat \/ WriteCache
    \/ Scrape \/ Restart

Spec == Init /\ [][Next]_vars

\* The thread never ends, documents do not stay half written, and Prometheus
\* keeps scraping.
FairSpec == Spec /\ WF_vars(Refresher) /\ WF_vars(Rewrite) /\ WF_vars(Scrape)

--------------------------------------------------------------------------------
(***************************************************************************)
(* Properties.                                                             *)
(***************************************************************************)

\* Every variable stays in its type.
TypeOK ==
    /\ content \in [Sources -> [Files -> SUBSET Ids]]
    /\ torn \subseteq Documents \X Files /\ broken \subseteq Sources
    /\ at \in 0 .. N + 1 /\ toRead \subseteq Files
    /\ seen \subseteq Ids /\ count \in Nat
    /\ cache \in Totals \cup {None} /\ stat \in Totals \cup {None}
    /\ good \in [Sources -> Nat \cup {None}]
    /\ text \in [Sources -> Nat] \cup {None}
    /\ told \in [Sources -> Nat]
    /\ total \in [cached : BOOLEAN, n : Nat] /\ shown \in [cached : BOOLEAN, n : Nat]
    /\ faults \in 0 .. MaxFaults

\* seen_msg: a message that has an id is counted once, however many transcripts
\* repeat it, whatever was appended while the files were read one after the
\* other.  Messages of the user have none, and may be counted again.
CountedOnce == \A s \in Sources : told[s] <= Cardinality(Written(s))

Safe == TypeOK /\ CountedOnce

(***************************************************************************)
(* Why it is so.                                                           *)
(***************************************************************************)

\* Only a resumed session repeats what another file tells.
FilesApart ==
    \A s \in Sources \ Keyed, f, g \in Files : f # g => content[s][f] \cap content[s][g] = {}

\* The scan has counted each id it saw once, and no file it still has to read
\* can tell it one again, unless it counts by id.
CountsSeen ==
    /\ count = Cardinality(seen)
    /\ at \in Sources => seen \subseteq Written(at)
    /\ at \in Sources \ Keyed => \A f \in toRead : content[at][f] \cap seen = {}

\* No number is more than there is.
AtMost ==
    \A s \in Sources :
        /\ good[s] # None => good[s] <= Cardinality(Written(s))
        /\ text # None => text[s] <= Cardinality(Written(s))
        /\ told[s] <= Cardinality(Written(s))

\* A round is rendered when every source has a result.
AllScanned ==
    /\ \A s \in Sources : s < at => good[s] # None
    /\ text # None => \A s \in Sources : good[s] # None

\* The ids the scan of s has seen or will see.
Ahead(s) == seen \cup UNION {content[s][f] : f \in toRead}

\* What is told lags behind what was rendered, what was scanned and what is
\* being scanned, in this order.
Forward ==
    \A s \in Sources \ Documents :
        /\ text # None => told[s] <= text[s] /\ text[s] <= good[s]
        /\ good[s] # None => told[s] <= good[s]
        /\ at = s => /\ told[s] <= Cardinality(Ahead(s))
                     /\ good[s] # None => good[s] <= Cardinality(Ahead(s))

\* claude_stats_total_messages is the scan's number, or the cache's.
OneOfTwo ==
    /\ text # None /\ ~total.cached => total.n = text[1]
    /\ ~shown.cached => shown.n = told[1]

\* The inductive invariant.
IInv == TypeOK /\ FilesApart /\ CountsSeen /\ AtMost /\ AllScanned /\ Forward /\ OneOfTwo

\* From scrape to scrape, and across restarts, failed scans and changes of
\* format, what was scanned of a source whose files only grow never falls: a
\* session document caught while it is rewritten drops out for a round.  But
\* claude_stats_total_messages may fall whenever stats-cache.json appears, goes,
\* is rewritten or is caught half written (claude-stats-exporter.py:297-303,
\* 663), and only then.
NeverFalls ==
    [][/\ \A s \in Sources \ Documents : told'[s] >= told[s]
       /\ shown'.n < shown.n => shown.cached \/ shown'.cached]_scraped

\* claude-stats-exporter.py:916-917: a source whose scanner raises does not
\* freeze the others: once the tools rest they are told to the last message,
\* provided that every source was scanned once since the exporter started.
NoFreeze ==
    <>[](\/ \E s \in Sources : good[s] = None
         \/ \A s \in Sources \ broken : told[s] = Cardinality(Written(s)))
================================================================================
