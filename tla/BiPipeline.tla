------------------------------- MODULE BiPipeline -------------------------------
(***************************************************************************)
(* The customer intelligence pipeline of FreshRSS                          *)
(* (apps/misc/freshrss/bi-pipeline/pipeline.py, a CronJob that forbids two *)
(* runs at once).  A run loads its state file and the feedback labels,     *)
(* fetches the articles since its cursor, scores each new one for every    *)
(* customer, writes its outputs, posts its alerts, runs the action hooks,  *)
(* writes metrics and saves the state file.  Articles arrive, people label *)
(* alerts, and a run may be killed or lose any of the services it calls.   *)
(*                                                                         *)
(* Abstractions: an article is its place, dates and what its text scores,  *)
(* an event what it scores and how it is summarised; scores are whole      *)
(* points; what the outputs say about heat, themes, forecasts and deltas,  *)
(* which nothing reads back into a decision, is left out.  So is           *)
(* unread_only: nobody marks an article as read before a run lists it.     *)
(***************************************************************************)
EXTENDS Integers, Sequences, FiniteSets, FiniteSetsExt, Functions

CONSTANTS
    Articles, Customers, Types, Summaries, Stories, Domains, Marks,
    Relevant,          \* articles in include_groups
    Published,         \* the date an article carries
    Domain, Fingerprint,  \* its source domain and its fingerprint
    Story,             \* the story its title and an event's summary make
    Match,             \* points of its keyword, feed, domain and context hits,
                       \* in its summary and in the text of its page
    BaseThreshold,     \* min_alert_score of a customer, its tier included
    Answers,           \* events the AI may extract
    Hints,             \* what heuristic_extract finds in an article
    Labels,            \* feedback: what a person may say
    Top,               \* how many alerts of a customer the webhook carries
    Limit, KeepSeen, Lookback, MaxAge, Grace, Cooldown, NoSignal,
    MinLabels, MinItems, MinHistory, MaxRuns,
    Faults,            \* what may go wrong
    MaxClock, MaxFaults, MaxLabels   \* bounds

VARIABLES
    clock,      \* the time
    received,   \* when an article came to the reader; 0: not yet
    labels,     \* the feedback file
    disk,       \* the state file
    outputs,    \* the run directories: their time and alerts.json
    pc,         \* where the run is
    mem,        \* the state as the run works on it
    now0,       \* now_epoch of the run
    got,        \* what was fetched
    queue,      \* new articles not analysed yet
    routed,     \* customer_alerts, customer_watchlist, customer_needs_data
    sent,       \* the alerts its webhook delivered
    faults,     \* how much of MaxFaults is used
    posted,     \* when an alert was last delivered (history)
    promised,   \* ... by a run that went on to save (history)
    left,       \* articles this run's fetch had a reason to leave out (history)
    judged,     \* articles analysed or left out by runs that saved (history)
    jumped      \* a saved cursor came from a date in the future (history)

world == <<clock, received, labels>>
run == <<mem, now0, got, queue, routed, sent, left>>
history == <<posted, promised, judged, jumped>>
vars == <<world, disk, outputs, pc, run, faults, history>>

--------------------------------------------------------------------------------
Percent(x, p) == (x * p) \div 100
Clamp(low, high) == [x \in Int |-> IF x < low THEN low ELSE IF x > high THEN high ELSE x]

Keys == Customers \X Stories \X Types
Lists == {"alert", "watch", "needs"}
Texts == {"summary", "page"}
Items == [customer : Customers, article : Articles, story : Stories, type : Types,
          list : Lists, ai : BOOLEAN]
Event == [type : Types, points : Nat, conf : 0 .. 100, snippets : Nat,
          summary : Summaries, brief : BOOLEAN, ai : BOOLEAN]
Label == [customer : Customers, domain : Domains, type : Types, good : BOOLEAN]

\* stable_story_signature: the AI's wording is part of what makes a story.
StoryOf(a, e) == Story[a][e.summary]

\* cooldown_key.
KeyOf(item) == <<item.customer, item.story, item.type>>
Alerts == {i \in routed : i.list = "alert"}

ASSUME BoundsAssumption ==
    /\ MaxClock \in Nat \ {0} /\ MaxFaults \in Nat /\ MaxLabels \in Nat
    /\ Top \in Nat \ {0} /\ Limit \in Nat \ {0} /\ KeepSeen \in Nat \ {0} /\ MaxRuns \in Nat \ {0}
    /\ Lookback \in Nat /\ MaxAge \in Nat /\ Grace \in Nat
    /\ Cooldown \in Nat \ {0} /\ NoSignal \in Nat \ {0}
    /\ MinLabels \in Nat \ {0} /\ MinItems \in Nat \ {0} /\ MinHistory \in Nat \ {0}

ASSUME ArticlesAssumption ==
    /\ IsFiniteSet(Articles) /\ IsFiniteSet(Customers)
    /\ Relevant \subseteq Articles
    /\ Published \in [Articles -> Nat]
    /\ Story \in [Articles -> [Summaries -> Stories]] /\ Domain \in [Articles -> Domains]
    /\ Fingerprint \in [Articles -> Marks]
    /\ Match \in [Customers -> [Articles -> [Texts -> Nat]]]
    /\ BaseThreshold \in [Customers -> 0 .. 100]
    /\ Labels \subseteq Label

ASSUME EventsAssumption ==
    /\ Answers \subseteq {e \in Event : e.ai}
    /\ Hints \in [Articles -> [type : Types, points : Nat, summary : Summaries, brief : BOOLEAN]]

--------------------------------------------------------------------------------
(***************************************************************************)
(* Scoring.  Multipliers are in percent.                                   *)
(***************************************************************************)

\* compute_quality_multiplier over the labels of one kind.
Quality(stats, kind) ==
    LET good == SumFunctionOnSet(stats, {l \in kind : l.good})
        total == SumFunctionOnSet(stats, kind)
    IN  IF total < MinLabels THEN 100 ELSE Clamp(60, 140)[75 + (50 * good) \div total]

FeedbackQuality(c, d, t, stats) ==
    LET source == {l \in Labels : l.domain = d}
        own == {l \in source : l.customer = c}
        kind == {l \in Labels : l.type = t}
    IN  Clamp(60, 140)[(45 * Quality(stats, own) + 35 * Quality(stats, source)
                                         + 20 * Quality(stats, kind)) \div 100]

SourceQuality(counts) ==
    LET total == counts.alert + counts.watch + counts.needs
    IN  IF total < MinItems THEN 100
        ELSE Clamp(80, 120)[85 + (3 * (10 * counts.alert + 4 * counts.watch)) \div total]

MemorySignal(memory, a, e) ==
    100 + (IF \E m \in memory : m[1] = e.type THEN 6 ELSE 0)
        + (IF \E m \in memory : m[2] = StoryOf(a, e) THEN 3 ELSE 0)

\* score_for_customer; the tenth of a story seen before counts less each time.
Score(c, a, text, e, m) ==
    LET novelty == 10 \div (1 + m.stories[<<e.type, StoryOf(a, e)>>])
        sure == Percent(Match[c][a][text] + e.points + novelty, 60 + Percent(40, e.conf))
        quality == Percent(FeedbackQuality(c, Domain[a], e.type, m.stats),
                           SourceQuality(m.sources[Domain[a]]))
    IN  Clamp(0, 100)[Percent(Percent(sure, Clamp(60, 140)[quality]),
                              MemorySignal(m.memory[c], a, e))]

\* The value a percentage of the scores lies below, by interpolation.
Quantile(s, p) ==
    LET rank(i) == Cardinality({j \in DOMAIN s : s[j] < s[i] \/ (s[j] = s[i] /\ j < i)})
        at(n) == s[CHOOSE i \in DOMAIN s : rank(i) = n]
        low == (p * (Len(s) - 1)) \div 100
        high == IF low + 1 < Len(s) THEN low + 1 ELSE low
    IN  at(low) + Percent(at(high) - at(low), (p * (Len(s) - 1)) % 100)

\* dynamic_threshold_for_customer, from the scores of earlier runs.
Threshold(c) ==
    LET s == disk.scores[c]
    IN  IF Len(s) < MinHistory THEN BaseThreshold[c]
        ELSE Percent(BaseThreshold[c], 35) + Percent(Clamp(25, 90)[Quantile(s, 82)], 65)

\* detect_needs_data_reason: two reasons not to trust an item.
NeedsData(score, e) ==
    /\ score >= 25
    /\ \/ e.conf <= 45 /\ (e.brief \/ e.snippets <= 1)
       \/ e.brief /\ e.snippets <= 1

Cooling(key) ==
    mem.alerted[key] > 0 /\ now0 - mem.alerted[key] < Cooldown

\* The list an item of this score goes to, or none.
Route(c, a, e, score) ==
    IF NeedsData(score, e) THEN "needs"
    ELSE IF /\ score >= Threshold(c) /\ e.conf >= 50
            /\ ~Cooling(<<c, StoryOf(a, e), e.type>>) THEN "alert"
    ELSE IF score >= 30 THEN "watch" ELSE "none"

--------------------------------------------------------------------------------
(***************************************************************************)
(* The state file.                                                         *)
(***************************************************************************)
NoCounts == [l \in Lists |-> 0]

EmptyState ==
    [seen |-> <<>>,                                   \* seen_ids
     cursor |-> 0,                                    \* last_fetch_epoch
     alerted |-> [k \in Keys |-> 0],                  \* alert_history
     lastAlert |-> [c \in Customers |-> 0],           \* customer_last_alert_at
     stories |-> [s \in Types \X Stories |-> 0],      \* story_state
     labelled |-> 0,                                  \* feedback.cursor
     stats |-> [l \in Labels |-> 0],                  \* feedback.stats
     scores |-> [c \in Customers |-> <<>>],           \* dynamic_thresholds
     memory |-> [c \in Customers |-> {}],             \* account_memory
     sources |-> [d \in Domains |-> NoCounts],        \* source_reliability
     gaps |-> {}]                                     \* coverage_gap_customers

Init ==
    /\ clock = 1 /\ received = [a \in Articles |-> 0] /\ labels = <<>>
    /\ disk = EmptyState /\ outputs = {}
    /\ pc = "idle" /\ mem = EmptyState /\ now0 = 0
    /\ got = {} /\ queue = {} /\ routed = {} /\ sent = {} /\ left = {}
    /\ faults = 0
    /\ posted = [k \in Keys |-> 0] /\ promised = [k \in Keys |-> 0]
    /\ judged = {} /\ jumped = FALSE

--------------------------------------------------------------------------------
(***************************************************************************)
(* A run.                                                                  *)
(***************************************************************************)

\* Mutant: forgets the alerts still cooling, keeps the old ones.
RecentTurned(alerted, now) ==
    [k \in Keys |-> IF now - alerted[k] < 6 * Cooldown THEN 0 ELSE alerted[k]]

\* cleanup_alert_history.
Recent(alerted, now) ==
    [k \in Keys |-> IF now - alerted[k] > 6 * Cooldown THEN 0 ELSE alerted[k]]

\* load_feedback_updates counts the lines behind the cursor, whatever they say.
Counted(stats, lines) ==
    [l \in Labels |-> stats[l] + Cardinality({i \in DOMAIN lines : lines[i] = l})]

\* Mutant: reads the file from its beginning.
AllLines == labels

NewLines == SubSeq(labels, disk.labelled + 1, Len(labels))

Start ==
    /\ pc = "idle"
    /\ pc' = "fetch"
    /\ now0' = clock
    /\ mem' = [disk EXCEPT
          !.alerted = Recent(disk.alerted, clock),
          !.stats = Counted(@, NewLines),
          !.labelled = Max({@, Len(labels)})]
    /\ got' = {} /\ queue' = {} /\ routed' = {} /\ sent' = {} /\ left' = {}
    /\ UNCHANGED <<world, disk, outputs, faults, history>>

\* Mutant: asks from the cursor on.
SinceCursor == Max({clock - Lookback, IF mem.cursor = 0 THEN 0 ELSE mem.cursor + 1})

\* The time from which on a fetch asks for articles.
Since == Max({clock - Lookback, IF mem.cursor = 0 THEN 0 ELSE mem.cursor - Grace})

Arrived == {a \in Articles : received[a] # 0}

\* The reader lists what it received last first, up to max_items.
IsPage(page, listed) ==
    /\ page \subseteq listed
    /\ Cardinality(page) = Min({Limit, Cardinality(listed)})
    /\ \A a \in page, b \in listed \ page : received[a] >= received[b]

\* Of two copies of an article the later one is taken.
Superseded(a, page) == \E b \in page : Fingerprint[b] = Fingerprint[a] /\ Published[b] > Published[a]

Kept(a, page) ==
    ~Superseded(a, page) /\ a \in Relevant /\ Published[a] >= clock - MaxAge

Fetch ==
    /\ pc = "fetch"
    /\ pc' = "analyse"
    /\ LET listed == {a \in Arrived : received[a] >= Since}
       IN  \E page \in SUBSET listed :
               /\ IsPage(page, listed)
               /\ got' = {a \in page : Kept(a, page)}
               /\ left' = (listed \ got') \cup {a \in Arrived : received[a] < clock - Lookback}
    /\ queue' = got' \ {mem.seen[i] : i \in DOMAIN mem.seen}
    /\ UNCHANGED <<world, disk, outputs, mem, now0, routed, sent, faults, history>>

\* enrich_article: the text of its page, unless there is none to be had.
Enriched == IF "page" \in Faults THEN Texts ELSE {"page"}

\* heuristic_extract: one snippet, and a confidence of 0.42 whatever it finds.
Heuristic(a) ==
    [type |-> Hints[a].type, points |-> Hints[a].points, conf |-> 42, snippets |-> 1,
     summary |-> Hints[a].summary, brief |-> Hints[a].brief, ai |-> FALSE]

\* extract: what the AI answers, or, when it does not, what the text suggests.
Extracted(a) == Answers \cup (IF "ai" \in Faults THEN {Heuristic(a)} ELSE {})

\* An article with its event, scored and put on a list for every customer.
File(a, e, score, list) ==
    /\ queue' = queue \ {a}
    /\ routed' = routed \cup
          {[customer |-> c, article |-> a, story |-> StoryOf(a, e), type |-> e.type,
            list |-> list[c], ai |-> e.ai] : c \in {d \in Customers : list[d] # "none"}}
    /\ mem' = [mem EXCEPT
          !.stories[<<e.type, StoryOf(a, e)>>] = @ + 1,
          !.scores = [c \in Customers |-> Append(@[c], score[c])],
          !.alerted = [k \in Keys |->
              IF k[2] = StoryOf(a, e) /\ k[3] = e.type /\ list[k[1]] = "alert"
                THEN now0 ELSE @[k]]]

\* One article, the newest first: its event, and for every customer its list.
\* Enrichment and extraction come first for all, but touch nothing else.
Analyse ==
    /\ pc = "analyse"
    /\ \E a \in queue : \E text \in Enriched, e \in Extracted(a) :
       \E score \in {[c \in Customers |-> Score(c, a, text, e, mem)]} :
          /\ \A b \in queue : Published[b] <= Published[a]
          /\ File(a, e, score, [c \in Customers |-> Route(c, a, e, score[c])])
    /\ UNCHANGED <<world, disk, outputs, pc, now0, got, sent, left, faults, history>>

\* Customers without an alert for no_signal_days.
Gaps(lastAlert) ==
    {c \in Customers : lastAlert[c] = 0 \/ clock - lastAlert[c] >= NoSignal}

\* customer_last_alert_at.
LastAlerts ==
    [c \in Customers |-> IF \E i \in Alerts : i.customer = c THEN clock ELSE mem.lastAlert[c]]

\* write_outputs: a directory named for the time, written over if it is there.
Written == {o \in outputs : o.at # clock} \cup {[at |-> clock, alerts |-> Alerts]}

\* The end of the analysis: what the run found, put together and written.
Report ==
    /\ pc = "analyse" /\ queue = {}
    /\ pc' = "webhook"
    /\ mem' = [mem EXCEPT !.lastAlert = LastAlerts, !.gaps = Gaps(LastAlerts)]
    /\ outputs' = Written
    /\ UNCHANGED <<world, disk, now0, got, queue, routed, sent, left, faults, history>>

\* Nothing to act on, and the customers without signal are those of the last run.
Quiet == (\A i \in routed : i.list = "needs") /\ mem.gaps = disk.gaps

\* The best alerts of each customer; which those are is left open.
IsTop(body) ==
    /\ body \subseteq Alerts
    /\ \A c \in Customers :
          Cardinality({i \in body : i.customer = c})
              = Min({Top, Cardinality({i \in Alerts : i.customer = c})})

\* post_webhook; whether it was delivered is not looked at.
Webhook ==
    /\ pc = "webhook"
    /\ pc' = "hooks"
    /\ \/ /\ UNCHANGED faults
          /\ IF Quiet THEN sent' = {} ELSE sent' \in {b \in SUBSET Alerts : IsTop(b)}
       \/ /\ "webhook" \in Faults /\ ~Quiet /\ faults < MaxFaults
          /\ sent' = {} /\ faults' = faults + 1
    /\ posted' = [k \in Keys |-> IF \E i \in sent' : KeyOf(i) = k THEN now0 ELSE posted[k]]
    /\ UNCHANGED <<world, disk, outputs, mem, now0, got, queue, routed, left,
                   promised, judged, jumped>>

\* prune_output_runs.
Pruned == {o \in outputs : Cardinality({p \in outputs : p.at > o.at}) < MaxRuns}

\* run_action_hooks, whose failures are only logged, and the old outputs.
Hooks ==
    /\ pc = "hooks"
    /\ pc' = "metrics"
    /\ outputs' = Pruned
    /\ UNCHANGED <<world, disk, run, faults, history>>

\* InfluxDBWriter.write: an answer, good or bad, is a PipelineError at worst.
Metrics ==
    /\ pc = "metrics"
    /\ pc' = "save"
    /\ UNCHANGED <<world, disk, outputs, run, faults, history>>

\* merge_seen_ids.
Merged(seen, new) ==
    LET all == seen \o new
    IN  IF Len(all) > KeepSeen THEN SubSeq(all, Len(all) - KeepSeen + 1, Len(all)) ELSE all

\* In the order of the fetch, newest first.
InOrder(s) == \A i, j \in DOMAIN s : i < j => s[i] # s[j] /\ Published[s[i]] >= Published[s[j]]
Analysed == got \ {mem.seen[i] : i \in DOMAIN mem.seen}

\* update_source_reliability_state.
Rated(sources) ==
    [d \in Domains |-> [l \in Lists |-> sources[d][l] +
        Cardinality({i \in routed : i.list = l /\ Domain[i.article] = d})]]

\* Mutant: the time of the save instead of the start.
CursorAtSave == Max({Published[a] : a \in got} \cup {IF got = {} THEN mem.cursor ELSE clock})

Cursor == Max({Published[a] : a \in got} \cup {IF got = {} THEN mem.cursor ELSE now0})

Save ==
    /\ pc = "save"
    /\ pc' = "idle"
    /\ \E new \in [1 .. Cardinality(Analysed) -> Analysed] :
          /\ InOrder(new)
          /\ disk' = [mem EXCEPT
                !.seen = Merged(@, new),
                !.cursor = Cursor,
                !.alerted = Recent(@, now0),
                !.memory = [c \in Customers |->
                    {<<i.type, i.story>> : i \in {j \in routed : j.customer = c}}],
                !.sources = Rated(@)]
    /\ promised' = [k \in Keys |-> IF \E i \in sent : KeyOf(i) = k THEN now0 ELSE promised[k]]
    /\ judged' = judged \cup got \cup left
    /\ jumped' = (jumped \/ \E a \in got : Published[a] > now0)
    /\ UNCHANGED <<world, outputs, run, faults, posted>>

Run == Start \/ Fetch \/ Analyse \/ Report \/ Webhook \/ Hooks \/ Metrics \/ Save

--------------------------------------------------------------------------------
(***************************************************************************)
(* What may go wrong: each ends the run without a save, and the CronJob    *)
(* starts another one.                                                     *)
(***************************************************************************)
Ends(fault, at) ==
    /\ fault \in Faults /\ pc \in at /\ faults < MaxFaults
    /\ pc' = "idle" /\ faults' = faults + 1
    /\ UNCHANGED <<world, disk, outputs, run, history>>

\* activeDeadlineSeconds, an eviction, an exception nobody expects.
Killed == Ends("kill", {"fetch", "analyse", "webhook", "hooks", "metrics", "save"})

\* FreshRSS does not answer, retry_attempts times.
FetchFails == Ends("fetch", {"fetch"})

\* InfluxDB is not there: not a PipelineError, so main returns 1.
InfluxGone == Ends("influx", {"metrics"})

Fault == Killed \/ FetchFails \/ InfluxGone

--------------------------------------------------------------------------------
Arrive ==
    /\ \E a \in Articles : received[a] = 0 /\ received' = [received EXCEPT ![a] = clock]
    /\ UNCHANGED <<clock, labels, disk, outputs, pc, run, faults, history>>

GiveFeedback ==
    /\ Len(labels) < MaxLabels
    /\ \E l \in Labels : labels' = Append(labels, l)
    /\ UNCHANGED <<clock, received, disk, outputs, pc, run, faults, history>>

Tick ==
    /\ clock < MaxClock
    /\ clock' = clock + 1
    /\ UNCHANGED <<received, labels, disk, outputs, pc, run, faults, history>>

Next == Run \/ Fault \/ Arrive \/ GiveFeedback \/ Tick

Spec == Init /\ [][Next]_vars

(***************************************************************************)
(* The schedule starts a run every half hour, and a run that is not killed *)
(* goes on.  Some step of Run is enabled in every state, so that weak      *)
(* fairness of Run says that its steps are taken again and again.          *)
(***************************************************************************)
FairSpec == Spec /\ []<><<Run>>_vars

--------------------------------------------------------------------------------
(***************************************************************************)
(* Properties.                                                             *)
(***************************************************************************)
IsState(s) ==
    /\ DOMAIN s = DOMAIN EmptyState
    /\ s.seen \in Seq(Articles) /\ s.cursor \in Nat
    /\ s.alerted \in [Keys -> Nat] /\ s.lastAlert \in [Customers -> Nat]
    /\ s.stories \in [Types \X Stories -> Nat]
    /\ s.labelled \in Nat /\ s.stats \in [Labels -> Nat]
    /\ DOMAIN s.scores = Customers /\ s.gaps \subseteq Customers
    /\ s.memory \in [Customers -> SUBSET (Types \X Stories)]
    /\ s.sources \in [Domains -> [Lists -> Nat]]

\* Every variable stays in its type, whatever a run that ended left behind.
TypeOK ==
    /\ clock \in 1 .. MaxClock /\ received \in [Articles -> Nat] /\ labels \in Seq(Labels)
    /\ IsState(disk) /\ IsState(mem)
    /\ pc \in {"idle", "fetch", "analyse", "webhook", "hooks", "metrics", "save"}
    /\ now0 \in Nat /\ got \subseteq Articles /\ queue \subseteq got
    /\ routed \subseteq Items /\ IsFiniteSet(routed) /\ sent \subseteq Items
    /\ \A o \in outputs : o.at \in Nat /\ o.alerts \subseteq Items
    /\ faults \in 0 .. MaxFaults
    /\ posted \in [Keys -> Nat] /\ promised \in [Keys -> Nat]
    /\ left \subseteq Articles /\ judged \subseteq Articles /\ jumped \in BOOLEAN

\* No article falls between two runs: what came to the reader was analysed, or
\* left out for a reason, by a run that saved, or the next fetch still asks for
\* it: killed, failed and overlong runs, articles that arrive while a run
\* fetches or thinks, and ids dropped from seen_ids notwithstanding.  The
\* exception is a cursor taken from an article dated in the future, behind
\* which arrivals are never fetched.
NothingSkipped ==
    jumped \/ \A a \in Arrived : a \in judged \/ received[a] >= disk.cursor - Grace

\* A customer is not told of a story's event again within cooldown_hours of an
\* alert a saved run delivered, whatever ended in between; and within one run
\* only once, however many articles tell it.
RespectsCooldown ==
    [][\A i \in sent' \ sent :
          /\ promised[KeyOf(i)] = 0 \/ now0 - promised[KeyOf(i)] >= Cooldown
          /\ \A j \in sent' : KeyOf(i) = KeyOf(j) => i = j]_vars

\* README.md, "Feedback loop": every line of the labels file is counted exactly
\* once, also by runs that end before they save and are started again.
LabelsCountedOnce ==
    /\ disk.labelled <= Len(labels)
    /\ disk.stats = Counted(EmptyState.stats, SubSeq(labels, 1, disk.labelled))

\* An event heuristic_extract guessed while the AI was away never becomes an
\* alert, for its confidence stays below min_confidence_for_alert; since the
\* article then counts as seen, no later run makes up for it.
GuessesNeverAlert == \A i \in Alerts : i.ai

\* What the webhook announced can be looked up: until the next run, alerts.json
\* of a run directory that pruning has left alone holds it.
AnnouncedIsOnDisk == \A i \in sent : \E o \in outputs : i \in o.alerts

\* What a run reports and counts can be relied on.
Safe == TypeOK /\ LabelsCountedOnce /\ GuessesNeverAlert /\ AnnouncedIsOnDisk

(***************************************************************************)
(* Why they hold.                                                          *)
(***************************************************************************)
Running == pc # "idle"
Fetched == pc \notin {"idle", "fetch"}

\* Nothing came later than now, and a run began before now.
Times ==
    /\ now0 <= clock /\ \A a \in Articles : received[a] <= clock
    /\ \A o \in outputs : o.at <= clock
    /\ Running => now0 > 0

\* A run starts from the state on disk, and nothing but Save moves the cursor.
Cursors ==
    /\ jumped \/ disk.cursor <= clock
    /\ Running => mem.cursor = disk.cursor

\* What a run has not fetched, and nobody gave a reason to leave out, came
\* after it began.
FetchComplete ==
    Fetched => \A a \in Arrived : jumped \/ a \in got \cup left \cup judged \/ received[a] >= now0

\* An alert that was delivered by a run that saved is remembered while it cools.
Remembers(alerted, now) ==
    \A k \in Keys : promised[k] = 0 \/ alerted[k] >= promised[k] \/ now - promised[k] >= Cooldown

CooldownKept ==
    /\ \A k \in Keys : promised[k] <= clock
    /\ Remembers(disk.alerted, clock)
    /\ Running => Remembers(mem.alerted, now0)

\* The alerts of a run: each has a key of its own that it put on cooldown, and
\* that was not cooling.
AlertsNew ==
    /\ sent \subseteq Alerts
    /\ ~Fetched => ~Running \/ routed = {}
    /\ \A i \in Alerts :
          /\ Running => mem.alerted[KeyOf(i)] = now0
          /\ promised[KeyOf(i)] = 0 \/ now0 - promised[KeyOf(i)] >= Cooldown \/ ~Running
          /\ \A j \in Alerts : KeyOf(i) = KeyOf(j) => i = j

\* The report of a run is the newest.
ReportIsNewest ==
    /\ pc \in {"fetch", "analyse"} => sent = {}
    /\ pc \in {"webhook", "hooks"} \/ sent # {} =>
          \E o \in outputs : o.alerts = Alerts /\ \A p \in outputs : p.at <= o.at

\* The labels behind the cursor that a run works with.
LabelsOfRun ==
    Running => /\ mem.labelled <= Len(labels)
               /\ mem.stats = Counted(EmptyState.stats, SubSeq(labels, 1, mem.labelled))

\* The inductive invariant.
IInv ==
    /\ TypeOK /\ Times /\ Cursors /\ NothingSkipped /\ FetchComplete
    /\ CooldownKept /\ AlertsNew
    /\ GuessesNeverAlert /\ ReportIsNewest /\ AnnouncedIsOnDisk
    /\ LabelsCountedOnce /\ LabelsOfRun

\* Every article that comes to the reader is analysed by a run that saves, or
\* left out by one, in the end, unless a date in the future hid it.
EveryArticleJudged ==
    \A a \in Articles : received[a] # 0 ~> a \in judged \/ jumped

\* README.md:123-124, "State file tracks seen article IDs to avoid duplicate
\* alerts across runs.  If InfluxDB is unavailable, the run still completes and
\* state is still updated.": no alert is delivered twice within its cooldown,
\* also when InfluxDB is gone.  Violated: write lets the connection error of
\* requests pass, which run_pipeline does not catch, so that the run ends after
\* its webhook and before its save, and the next one posts the same alerts.
NeverTwice ==
    [][\A i \in sent' \ sent :
          posted[KeyOf(i)] = 0 \/ now0 - posted[KeyOf(i)] >= Cooldown]_vars
================================================================================
