# Verification of the brain and the programs around it

This directory holds TLA+ models of the programs of whitehouse-rke2 that keep
state: `brain-sync` (`apps/ai/brain/sync/brain_sync.py`), which copies
recordings, contacts, calendar and mail into one Git repository that people,
agents and other jobs edit at the same time; the jobs and servers that write and
read that repository; the customer intelligence pipeline of FreshRSS
(`apps/misc/freshrss/bi-pipeline/pipeline.py`); and the exporter of AI tool usage.
Most of the repository is configuration that Argo CD applies; the models are about
the programs in it.

## The system and its parts

The *brain* is a Forgejo repository of Markdown notes. Around it:

| part | state | operations | who it meets |
|---|---|---|---|
| change-files commits (`apply_changes`, `http_json`) | none; the branch is the state | diff of a folder against its listing, batches of at most `MAX_COMMIT_BYTES`, one POST per batch, retries | every writer of the branch |
| Riffado source | `Riffado/.index.json` (path and signature per recording), `_last_full` | list, compare, fetch, render, commit | Riffado, people who edit notes, routes and corrections |
| loop and entity pages | `_wake`, `_entities_last`, `_entity_pages`, `SELF_EMAILS`, timers | cycle, `/trigger`, archive, render, commit, remember the head | all sources, all other committers, the mail source |
| Gmail source | `Email/.index.json`, `_gmail_meta` | list threads, look, match, fetch and render within a budget, commit | Gmail, the entity pages |
| Calendar, HubSpot | the notes, and when they were last rendered | full render of a window once an interval | the same commits |
| Meerkat and write-back | `_meerkat_details`, `_meerkat_contacts` | fetch with a cache, write summaries and activities back | the Meerkat CRM and its users, the entity rebuild |
| mirrors and Pages | `_mirrors_last`, `_pages_deployed` | copy archives into folders; deploy folders as sites | source repositories, other committers, the pages host |
| brain-messages | `Messages/.index.json`: cursor, months and chats per thread | query BlueBubbles from the cursor on, render months, commit files, then the index | BlueBubbles, Meerkat (creates contacts) |
| brain-imports | a work directory between three containers | fetch trees, run scripts, commit what differs | other committers |
| repo-mirror | a clone, for one run | clone, copy, push, rebase and push again | GitHub, other committers |
| git-sync and MCP server | clone, lastmod file, HEAD file; a snapshot in memory | reset and publish; read and serve | each other, through a volume without a lock |
| graph ingest | a state file; episodes in the graph | remove and add the episodes of a note | other committers, graph database, model |

Apart from the brain:

| part | state | operations | who it meets |
|---|---|---|---|
| BI pipeline | a state file (cursor, seen ids, cooldowns, feedback counts, histories), run directories | fetch, extract, score, write, post, run hooks, write metrics, save | FreshRSS, the AI, the webhook, InfluxDB, people who label alerts |
| usage exporter | last good result per tool, the rendered text | scan all transcripts, render; serve | tools that write their files meanwhile, Prometheus |
| trivy archive | receipts and gzip files | store the logs of scan jobs, report, prune | jobs that vanish after their TTL |
| transcription adapter | one loaded model, one lock | load, transcribe, unload when idle | callers that give up |

They meet in four ways: by *commits* to one branch, each conditional on the blob
hash of every file it touches (Forgejo answers 422 to a stale hash and 404 to
a file that is gone) or, for git, on the tip; by *HTTP listings and answers* that are out of date when they
are used; by *files* one process replaces while another reads them; and by *memory that a restart empties*.

What is hard about it, and hard to test:

- a pass is a dozen requests, and people, agents and jobs commit between any two;
- a commit of several batches can break off between two of them, and the index
  is always in the first (`apply_changes` sorts by path);
- `http_json` takes a 404 for an answer, so a lost batch does not end the pass;
- an answer can be lost after the commit, or the POST to the CRM, was made;
- what is kept from pass to pass (an index, a head, a cache, a cursor) decides what is *not*
  done next time, so a wrong entry stays wrong until something else repairs it;
- pages list mail notes and mail notes link to pages, so each could keep the other busy;
- Gmail and message passes work within a budget, so a pass handles any part of what is due;
- titles collide, and the plain file name goes to the oldest item, so names move
  between items when one is renamed or deleted;
- a BI run alerts people long before it saves what it remembers of that, and may end in between;
- readers without a lock (MCP server, exporter, Pages) see files of different moments.

`PROJECT.json` lists each of these at its line under `hazards`, with the property
that would notice.

What makes each part correct:

- *commits*: nothing a person wrote since the folder was listed is overwritten
  or deleted; a pass with nothing to change commits nothing;
- *Riffado, Gmail*: the index never gives one note to two items; what it claims is there;
  when the outside rests, the folder shows it;
- *loop*: no `/trigger` is lost to the two sources it promises to re-read, Meerkat and Riffado; a remembered head means pages that show that
  head; the rebuild does not cause the next one; pages and mail settle;
- *messages*: a cursor never passes a message that is not in its note; no message is taken out of one;
  when the outside rests, the notes are complete, in spite of the budget and of broken runs;
- *write-back*: a second summary note or activity takes a failure; what the brain says reaches Meerkat in the end;
- *folder copies and jobs*: what is remembered, or stamped, as copied is one tree of the source and no mixture;
  copies converge although every commit elsewhere makes a push fail;
- *MCP server*: dates are never newer than the text they stand at; callers never see a note go back;
- *graph*: no episode is lost sight of, two texts of one note are never mixed, and what the state
  file lists is there, whenever the worker is killed; when commits rest, the graph has the current notes;
- *BI pipeline*: no article falls between two runs; no alert of a saved run comes twice within its cooldown;
  every label is counted once; what was announced can be looked up;
- *exporter*: no message that has an id is counted twice, scanned totals do not fall, one tool that breaks does not freeze the others;
- *trivy* (planned): a receipt implies its file, every scan is stored before it vanishes.

## The modules

| module | what it is |
|---|---|
| `ChangeFiles` | operators: the diff of `apply_changes`, the batches it may be cut into and their order, and when Forgejo accepts one |
| `NotePaths` | operators: `assign_paths` |
| `ConditionalCommits` | abstract specification: a writer that looks, and then only replaces or removes what is still as it saw it; every writer that is modelled request by request implements it |
| `NoteReplica` | abstract specification: a replica that looks, withdraws what it saw changed, and shows what it saw where nothing is shown |
| `FolderMirror` | abstract specification: a copy of a folder that may mix moments but never takes anything back |
| `RiffadoSync`, `GmailSync`, `MessagesSync` | a source each, request by request |
| `BrainCycle` | the loop, `/trigger`, the entity rebuild and the mail, over one value per folder |
| `MeerkatSync` | contacts in, summaries and activities out |
| `FolderSync` | mirrors and Pages, as a chain of two copies |
| `BranchJobs` | brain-imports and repo-mirror side by side on one branch |
| `BrainReader` | git-sync and the MCP server on one volume |
| `GraphIngest` | the worker that keeps the notes in the knowledge graph, await by await |
| `BiPipeline` | a run of the BI pipeline, and the runs after it |
| `UsageExporter` | the exporter's refresher, its scrapes, and the tools |
| `MC...` | the instance of each that TLC checks |
| `RiffadoSyncProofs`, `MessagesSyncProofs`, `BrainCycleProofs`, `GraphIngestProofs`, `BiPipelineProofs`, `BrainReaderProofs`, `UsageExporterProofs`, `BranchJobsProofs` | theorems and proofs; `BrainCycleProofs` has those of `MeerkatSync` too, `BranchJobsProofs` those of `FolderSync`, `MessagesSyncProofs` those of `GmailSync`, as instances |

`BrainCycle` composes the sources at a coarser grain: one step lists, one commits.
That is enough because Forgejo's check is per file. A writer's commit in another
folder never makes a batch stale, so how the sources interleave matters only
for what each *reads* (archive, listing, head), and those reads are steps of their own.
`FolderSync` composes its two copies by making the mirrored folder the site; `BranchJobs`
its two jobs by the tip they share, which is all that git looks at when it refuses a push.

`ConditionalCommits` has a clock beside the folder and the listing. An edit changes one file, and so may a commit; without the
clock a commit that goes over somebody's edit would pass for an edit itself. The clock advances with everything that
others do and with failures, never with a commit that is answered, so a step that changes the folder while the
clock stands still has to find every file it changes as it was listed. The clock of each refinement is its count of events.

Operators called a *variant* or *mutant* in a comment are the same definition with a
plausible mistake in it. No specification uses them: each names the mistake
that a property is there to notice (`mutants` in `PROJECT.json`).

### RiffadoSync

`folder` is `Riffado/` on the branch: a function from paths to blobs, `Absent` where
there is no file. A blob is a note (which recording, which revision of it,
under which routes and corrections), an index, or `Hand`, anything a person wrote. `source` is
Riffado's own state, `conf` the routes and corrections. A recording has a revision
(what its note would say) and a `sig` (`recording_sig`): a late summary changes the first alone.

| action | code |
|---|---|
| `ListFolder`, `ReadIndex`, `ListRecordings` | `list_tree`, `read_raw`, `list_recordings` in `sync_riffado` and `render_riffado` |
| `Render` | the loop of `render_riffado` (kept, fetched and vanished recordings, the new index) and the diff of `apply_changes` |
| `PostBatch`, `PostRefused`, `PostDropped` | one POST of `apply_changes`: committed, 422, 404 |
| `Finish` | the end of `sync_riffado`; a full pass sets `_last_full` |
| `RequestFails`, `AnswerLost`, `ListingCutShort`, `Restart` | an exception in the pass; a commit whose answer is lost; a 404 page taken for the end of the listing; a new pod |
| `FullTimer` | `FULL_RESYNC_SECONDS` have passed |
| `ChangeRecording`, `LateSummary`, `DeleteRecording`, `EditConfig`, `EditByHand` | the world |

`torn` and `fates` are history variables: some operations of a commit landed and others
did not, and no full pass has landed whole since.

### GmailSync

The same commits under a different reader, and without a full pass. `box` is the mailbox, `old` the threads whose
first message is older than `lookback_days`, `dir` the rules and entity pages as one
directory from people to the page they link to (`None`: no match), `meta` is `_gmail_meta`.

| action | code |
|---|---|
| `Begin`, `ReadIndex`, `ListThreads` | directory and `list_tree`; `read_raw` of the index as it is by then; the paged listing of threads |
| `CheckThreads` | the first part of `render_gmail`: index entry, cached or fetched metadata, out of budget, out of the window |
| `Render` | the second part: kept, postponed, rendered, evicted; the diff |
| `PostBatch`, `PostRefused`, `PostDropped`, `Finish`, `RequestFails`, `Restart` | as above; `Restart` empties `meta` |
| `MessageArrives`, `DeleteThread`, `TimePasses`, `DirectoryChanges`, `EditByHand` | the world; people overwrite or remove notes and index |

`edited` and `torn` are history variables: somebody edited the folder; a pass landed only in part, or a
note was overwritten by hand. `IndexWaits` is how a pass that ends knows: the index is in the first batch, so as long as it
is to be written nothing of the pass has landed.

`CheckThreads` and `Render` use the budget for *any* part of what is due, since the
order of the listing is not modelled. The directory of a pass is read at its
start; the mailbox is read again by every fetch.

### BrainCycle

`up` (Meerkat and Riffado), `slow` (HubSpot and the mirrored repositories) and `box` (the mailbox) are the revisions
outside; `src`, `kept`, `mail`, `other`, `pages`, `head` are the branch, `kept` being what it holds of `slow`;
`wake`, `entLast`, `entDue`, `slowDue`, `googleDue`, `known`, `selfs` are the process. A page is made of what
it was rendered from; `Dir` is what `EntityDirectory` takes from the pages: their front matter,
which does not depend on the notes that mention an entity.

| action | code |
|---|---|
| `Wait`, `Clear` | `_wake.wait(INTERVAL)`, `_wake.clear()` in `main` |
| `FetchSources`, `StoreSources` | Meerkat and Riffado, listed in every cycle |
| `SkipSlow`, `FetchSlow`, `StoreSlow` | HubSpot and the mirrors, left alone until their interval has passed |
| `SkipEntities`, `ReadHead`, `Archive`, `ListPages`, `CommitPages`, `CommitDropped`, `CommitRefused`, `RememberHead` | `sync_entities`, one step per request |
| `SkipGoogle`, `LoadDirectory`, `LearnSelf`, `ReadMail`, `StoreMail` | `sync_google` |
| `SourcesFail` ... `Restart` | an exception at each place where it leaves the state differently; `SlowFails`: a mirror's is swallowed and counts as done, HubSpot's is not |
| `SourceChanges`, `SlowChanges`, `MailArrives`, `Trigger`, `OtherCommit`, `EditPages`, the timers | the world |

`owed`, `moved` and `overtaken` are history variables. `NoLostTrigger` is about what a call of `/trigger` promises
(`brain_sync.py:2542-2543`: the sync "always re-reads both sources", Meerkat and Riffado) and no more: within their intervals
HubSpot (`:2128`) and the mirrors (`:2383`) are not read, and a mirror that fails (`:2411`) waits for its next interval, so their notes
may stay older than the call; `CatchesUp` says that they follow in the end. A revision of Meerkat is what its listing shows: a child record that
leaves `UpdatedAt` alone comes with the full refresh (`MeerkatSync`).

### MessagesSync

A job of its own on the same branch, with other habits: the index is committed *after* the
notes, and a stored cursor says how far the notes of a thread go. `server` is what BlueBubbles has;
a message has a date, a month is `MonthLength` dates, and a note is the set of messages of one
thread and month together with the revision of its links. The index is `[threads |-> states]`,
a state `sig`, `cursor`, `pending`, `last` as in the code.

| action | code |
|---|---|
| `Begin`, `ListChats`, `NoChats`, `ListNotes` | the first half of `run`: allowlist and index, `fetch_chats`, `list_tree`, a thread that is new or whose sig changed starts from scratch |
| `SkipThread`, `StartThread` | the loop over threads: those that are pending come last, nothing is fetched without budget |
| `FetchChat` | `fetch_chat_messages` of one chat: whole pages until a short one, or until the budget is used and a second month begun |
| `RenderThread` | the rest of `sync_thread`: cutoff, months, deletions, the new state |
| `DiffNotes`, `DiffIndex`, `PostBatch`, `PostRefused`, `PostDropped`, `Finish` | the two calls of `apply_changes` |
| `RunFails`, `AnswerLost`, `ListingPartial` | a run that ends early; a commit whose answer is lost; chats or contacts missing in an answer |
| `MessageArrives`, `LateMessage`, `ChooseThreads`, `SigChanges`, `EditByHand` | the world |

`late` and `damaged` are history variables: messages that came to the Mac out of order, or
while another chat of their thread was being fetched; and notes that a person edited, that a lost
batch (404) was for, or that were deleted with their thread.

### GraphIngest

Not a writer of the branch but a reader of it. `repo` and `head` are the branch, `graph` maps the uuid of an
episode to what it says (note, text, number of the part), `disk` is the state file and `state` the
worker's copy of it, which differ between a change and its `save_state`. A text is a value with a number of
parts (`chunks`), none for a note that renders to nothing; comparing hashes is comparing texts.

| action | code |
|---|---|
| `ReadHead`, `LoadNotes` | `head_commit`, `load_notes` in `cycle`: the archive may be newer than the head |
| `DropNote`, `SelectNotes` | the loop over deleted notes; pruning of failures and choice of the batch |
| `NextNote`, `RemoveEpisode`, `Forget` | a changed note: `Ingester.remove` one uuid at a time, then the entry goes and is saved |
| `AddPart`, `StoreNote` | `Ingester.add` one part at a time, then the entry is written and saved |
| `AddFails`, `CountFailure` | `add_episode` raises, with or without having stored the episode; what was added is removed again; the attempt is counted and saved; a connection error ends the batch |
| `RemoveFails` | the exception that `remove` logs and passes over |
| `FinishCycle`, `LoadFails`, `Stop` | the end of `cycle`; an exception before anything was changed; SIGTERM |
| `Restart` | the process is killed, at any point, and starts from the file |
| `CommitNote` | somebody commits |

`strays` and `torn` are history variables: episodes that a failure may have left behind (a removal that
raised, an add that raised after storing, an add that was killed), and notes whose removal a kill interrupted.
The properties name them, so they say exactly what such a failure may cost and that nothing else costs it.

`NoteReplica` is what those who search the graph rely on, in terms of notes instead of uuids: `shown` is the
text of an entry that is whole. The worker implements it with `seen` as the archive of the running cycle.

### MeerkatSync

`people` stands for what people keep of a contact, `own` and `acts` for the notes and activities that carry the
brain's mark. `bumped` are the contacts whose `UpdatedAt` is not the one cached; people's edits of a contact bump it, edits
of its children may or may not. `cache` is `_meerkat_details` and `known` `_meerkat_contacts`, whose lists are the same objects
until a fetch that fails has read some of them again (`reread`).

| action | code |
|---|---|
| `List`, `ReadContact`, `FetchDone` | `fetch_meerkat` contact by contact, `sync_meerkat` with its commit |
| `Plan` | `writeback_plan`, after an entity pass that had a reason to run |
| `SkipNote`, `WriteNote`, `SkipAct`, `WriteAct` | `writeback_meerkat`: PUT or POST, the answer put into the lists, the budget |
| `FetchFails`, `WriteFails`, `Restart` | a request that fails (a write may have been done), a new pod |
| `Edit`, `BrainChanges`, `Touch`, `Elapse` | people in Meerkat, what the brain says, other commits, `MEERKAT_FULL_SECONDS` |

### FolderSync and BranchJobs

`FolderSync` has both copies of `brain-sync`, every request a step. `past` is the history of the source, `folder` the mirrored
folder with its `.source-commit`, `site` what the pages host serves; `deployed` and `done` are what the process remembers.
`ListSite`, `ReadPage`, `Deploy` are `sync_pages`: the names come from a tree, the bytes from the branch as it
is later. `existing` is the mirrored folder as `sync_mirrors` listed it.
`ReadHead`, `Archive`, `PostBatch`, `PostRefused`, `PostDropped`, `MirrorDone` are `sync_mirrors`.

`BranchJobs` has the two CronJobs. `FetchArchive`, `FetchTree`, `RunScript`, `Commit`, `PostBatch`, `PostRefused`, `CommitDone`
are the three containers of brain-imports; `LsRemote`, `CloneBrain`, `CloneSource`, `Push`, `Pull` are `mirror.sh`, where a push is
refused when *any* commit reached main since the clone, and a rebase merges file by file or stops at a conflict.
`hand` (history) are the mirrored files people edited since they were mirrored.

### BrainReader

The volume between the two containers is `work` and `head` (the clone) and `lastmod` and `headFile` (`META_DIR`); a text is
the number of the commit that wrote it, so `Version(f, c)` is what file `f` is at commit `c`, and `Torn` a file git has
unlinked and not written yet. `clone` sets HEAD before it checks the files out, `reset` after. `half` (history) is
the commit published from a clone that was not checked out.

| action | code |
|---|---|
| `Fetch`, `Replace`, `ResetDone`, `Log`, `Publish` | the loop of `git-sync.sh`: fetch and `reset --hard`, or clone, file by file; lastmod, HEAD |
| `Load`, `ReadLastmod`, `ReadNote`, `Swap` | `reload_loop` and `load`, note by note; `SNAP` is replaced at the end |
| `Tell` | a tool call that tells the text of a note, of one that was whole when it was read |
| `FetchFails`, `CheckoutFails`, `ResetFails`, `LogFails`, `SidecarRestarts`, `ServerRestarts` | what may go wrong |

`FolderMirror` is what callers rely on; the reader implements it with the swap as the refresh and a restart as a loss.

### BiPipeline

`mem` is the state a run works on and `disk` the file, which differ from the first change to `Save`, the last step.
An article has a place, a date it carries, points per customer and a fingerprint; an event, what the AI
or the heuristics make of it. Scores, penalties, thresholds and routing are computed as in `score_for_customer`
and the routing in `run_pipeline`, in whole points.

| action | code |
|---|---|
| `Start` | `load_state`, pruning of cooldowns, `load_feedback_updates` from its cursor on |
| `Fetch` | the articles since the cursor less a grace, `max_items`, groups, age, duplicates |
| `Analyse` | one new article: text, event, score and list for every customer, cooldowns |
| `Report` | `write_outputs`, gaps |
| `Webhook`, `Hooks`, `Metrics` | `post_webhook`, `run_action_hooks` and pruning, `InfluxDBWriter.write` |
| `Save` | seen ids, cursor, histories, the state file |
| `Killed`, `FetchFails`, `InfluxGone` | a run that ends without a save |
| `Arrive`, `GiveFeedback`, `Tick` | the reader, people, time |

`posted`, `promised`, `left`, `judged` and `jumped` are history variables: when an alert was delivered, by a run that
saved or not; what a fetch had a reason to leave out; what saved runs judged; a cursor that an article dated in the future moved.

### UsageExporter

Sources are scanned in turn, file by file, into `seen` and `count`; `good` is `LAST_GOOD`, `text` what the
server hands out, `told` (history) what Prometheus saw. `cache` is stats-cache.json, `stat` what `load_stats_cache` read of it
between the first scan and the second, `total` the `claude_stats_total_messages` in the text: the cache's number when it
parsed, or else the scan's; `shown` (history) is what Prometheus saw of that. Claude Code's transcripts are `Keyed` (counted by message id, since a
resumed session repeats the old one), Cowork's and Grok's files `Documents` that are rewritten whole.
`Begin`, `CountFile`, `ScanDone`, `ScanFails`, `Render` are `refresher`, `collect` and `scan`; `Scrape` is `do_GET`; `Log`, `Resume`, `Truncate`,
`Rewrite`, `ChangeFormat`, `WriteCache` are the tools.

## What the runs check

| run | instance | shows |
|---|---|---|
| `riffado` | 2 recordings, 2 titles, 2 events | `Safe`: no two recordings share a note (`IndexInjective`), even between the batches of a commit; `IndexHonest`: unless a pass was torn, what the index claims is there; `NoNeedlessCommit`; `KeepsPromise`: the pass implements `ConditionalCommits`; `Converges` |
| `brain_cycle` | 2 events | `NoLostTrigger`, of Meerkat and Riffado; `Safe`: a remembered head means pages that show it (`CurrentUnlessOvertaken`); `NoIdleRebuild`; `CatchesUp` |
| `gmail` | 2 threads with one base name, 2 pages, an index that people break and a note they remove, 3 events, budget of one look and one rendering | `Safe`: paths are injective, the index matches the notes; `Converges`: removed notes and a broken index come back too; `KeepsPromise` |
| `messages` | a thread of two chats over three months, a second thread, pages and budget of one message, 2 events | `Safe`: a cursor is the start of a month and nothing is skipped; `NeverForgets`; `Converges`; `KeepsPromise`: both commits of a run implement `ConditionalCommits` |
| `graph` | 2 notes, texts of no, one and two parts, batches of one, 2 attempts, 3 events | `Safe`: no episode is lost sight of (`EpisodesKnown`); `NeverMixed`, `EntriesWhole`, `IsReplica`: the worker implements `NoteReplica`; `Converges` |
| `meerkat` | 2 contacts, one write per pass, one edit and one failure | `Safe`: a second summary note or activity takes a failure each; `CatchesUp` |
| `foldersync` | 2 files, 2 source commits, 2 events | `Safe`: what is remembered as mirrored is one tree of the source; `CatchesUp` for both copies; `KeepsPromise`: mirrors implement `ConditionalCommits` |
| `jobs` | 2 files per folder, 2 source commits, 2 pushes a run, 2 events | `Safe`: the stamp names the tree that is there; `Conditional`: both jobs implement `ConditionalCommits`; `MirrorCatchesUp` |
| `reader` | 2 notes, 3 commits, 2 faults | `Safe`: dates and commits told are never newer than the text, and a mixed snapshot is replaced; `NeverGoesBack`; `CatchesUp`; `IsMirror`: the server implements `FolderMirror` |
| `bi` | 2 articles of one source, 1 customer, AI answers that word a story in two ways, 1 label, 1 fault, a clock of 3 | `Safe`: labels counted once, guesses never alert, announced alerts are on disk; `NothingSkipped`; `RespectsCooldown`; `EveryArticleJudged` |
| `usage` | Claude Code with its cache, and a tool with documents, 2 files and 2 messages each, 1 fault | `Safe`: no message that has an id is counted twice; `NeverFalls`: scanned totals; `NoFreeze` |
| `bi_influx` | as `bi`, with InfluxDB away | `NeverTwice`, which the code does not keep (below) |

Every `Safe` includes the type invariant of its module.

Bounds. `MaxEvents` counts changes, hand edits and failures together (`MaxEdits`, `MaxFaults`, `MaxCommits` are separate
where a module has them); everything else (passes, triggers, timers, scrapes, tool calls) is unlimited, and the state
spaces are closed under it. The largest are `usage` (2.1 million states, two minutes), `bi` (1.7 million), `reader` (1.3 million), `brain_cycle` (1.0 million), `gmail` (910,000), and `meerkat` (740,000).

- Two recordings and two titles are the smallest instance in which names collide and
  move between items: the second recording has the plain name or the suffixed one
  according to the first one's title. Two events put a failure after a change, or
  two edits into one pass; any cut of a commit into batches is allowed, so a
  three-operation commit already has every way to break off.
- Two threads with one base name compete for the plain name; with a budget of one
  rendering, one of them is always postponed when both are due. The third event is
  needed to evict: a message, a directory change and a failure. `Edits` says what people do: they break the index and
  remove the plain note, the one the threads compete for. With a single page the same properties were checked once with every file
  of the folder edited and removed.
- The two chats of the first thread of `messages` are cut a month apart, and the one that is cut earlier has more
  messages in the month where the other stops: the least cutoff, the months in range and the
  resumption from the cursor all matter. The second thread competes for the budget with one that is backfilling.
  People edit the index and one note (`Editable`): a note
  edited by hand matters to a run only through the blob hash it was listed with.
- `graph` needs three events for its longest story: a commit, a kill in the middle of a removal and a
  commit that changes the note back. With a batch of one and two notes there is a backlog, and with two attempts
  a note can fail once, change, and be given up. There are enough uuids for every episode three
  events can cause; `AddPart` could not go on without one, and TLC would report the deadlock.
- `BrainCycle`: two events are a failure after a change, a commit of others in a rebuild that follows a change, or two
  changes around a trigger; triggers and timers are unlimited. The theorems are for any number of events.
- `meerkat`: with a budget of one write every pass leaves work over, and one failure can be a lost answer, a failed fetch
  after a contact was read again, or a restart.
- `reader`: three commits let a reset run from the first to the third while a load of the second is half done. Two faults
  are what it takes to publish half a clone: a checkout that fails and then a fetch that fails.
- `bi`: the second article is dated ahead of the clock and relevant only by the text of its page; a limit
  of two lists both, and one only in `bi_influx`. A cooldown of two and a clock of three let an alert cool down and
  come again; a look-back of three and a grace of one let an article be on either side of both.
- `usage`: with two files of two messages a resumed session repeats all of another while the scan is between them.
  The cache is there at the start or not, and a fault may be a change of it, a restart, a failed scan or a change of format; two
  faults (4 million states) were checked once, with no cache at the start. The theorems are for any number.

Fairness. `FairSpec` asks that the pass or the process goes on (weak fairness of `Pass`,
`Process`, `Run`, `Cycle`) and that time passes. `main` has no exit, `wait` has a timeout, every request has
one too, and `cycle` catches every exception. The CronJobs (messages every ten minutes, imports, repo-mirror, the BI pipeline
every half hour, all `Forbid`, most with `activeDeadlineSeconds`) start again whatever ended the run before, so their first step is part of
what is fair. `main` of graph-ingest repeats
`cycle` every `INTERVAL_SECONDS`, after exceptions too, and the requests to Forgejo, the model and the database
time out: weak fairness of `Cycle`. `BiPipeline` writes `[]<><<Run>>_vars`, which is weak fairness because some step of a run is enabled in
every state. `BrainReader` has one condition per container, whose loops are `while` without an exit. `MeerkatSync` needs strong
fairness of `Elapse`, because the half hour passes in the middle of passes too, and weak fairness of `Touch`: somebody else
commits to main now and then, without which an entity pass, and with it the write-back, does not run again. `UsageExporter` assumes that
a tool does not leave a document half written and that Prometheus scrapes. Nothing is assumed of failures or of the rest of the
world; that events are bounded is what "when the outside comes to rest" means in `Converges` and `CatchesUp`.

Deadlock is checked in every run; none can stop.

### Where the code and its documents disagree

One disagreement is kept as a run with one property that states the document, and TLC's counterexample:

- `bi_influx` (`NeverTwice`). The README of the pipeline says that the state file avoids duplicate alerts and that a run
  completes and saves when InfluxDB is unavailable. `InfluxDBWriter.write` lets the connection error of `requests` pass, which
  `run_pipeline` does not catch: the run ends after its webhook and before its save, and every run after it posts the same
  alerts again.

Others were found the same way, each with a property the code does not keep. They are written here, and the
properties above except exactly these cases:

1. *Pages that were overtaken* (`brain_sync.py:2442`). `sync_entities` reads the head a second time after its commit and
   remembers it. A commit others made since the archive counts as rendered, and if `main` then rests its notes never
   reach the entity pages, although the comment says that only its own commit is meant. `CurrentUnlessOvertaken` and `CatchesUp` say "unless overtaken".
2. *Own addresses* (`brain_sync.py:1147`). After a restart the pages are rendered before
   `self_addresses` has run, with only `GOOGLE_ACCOUNT` known; the rebuild then remembers its own commit, and
   mentions of the other own addresses stay until `main` moves. `brain/README.md:115-117` says they never count.
3. *Torn mail index* (`brain_sync.py:1843`). When a commit of several batches breaks off after the first, the index claims
   renderings that were never written; Gmail has no full pass, so the note stays
   old until the thread's history moves again (`brain/README.md:92-94`).
4. *Deleted mail* (`brain_sync.py:1827`). A deleted thread whose first message is older than the window
   counts as aged out, even if its last one is recent, and keeps its note (`brain/README.md:94-95`).
5. *Edited message notes* (`messages_sync.py:714`). The README the iMessage job writes says its notes are regenerated;
   only those from the cursor's month on are, so an edit of an older one stays.
6. *Episodes that cannot be removed* (`brain_ingest.py:379`). `remove` takes every exception for an episode that is gone already, and the
   entry that lists it is dropped: an episode that a timeout kept in the graph stays there, in its old text (`graph/README.md:66`).
7. *Summary notes* (`brain/README.md:133-135`: never duplicated). A POST whose answer is lost is repeated, and a fetch that fails
   after a contact was read again leaves the write-back with the list from before: either makes a second note, and
   only the first of them is kept up to date. `Safe` of `MeerkatSync` says that each takes a failure.
8. *A tool that never worked* (`claude-stats-exporter.py:916-926`). The comment says one source cannot freeze the others; a source whose
   scanner raises before it ever succeeded since the start does. `NoFreeze` excepts it.
9. *A clone published half* (`git-sync.sh:20-35`). `git clone` sets HEAD before it writes the files. When the checkout fails, the loop retries,
   finds a `.git` and fetches; when that fails too, it "keeps" and publishes a HEAD half of whose files are missing. The reset that
   completes them moves no HEAD, so nothing is published or loaded again until `main` moves, although `git-sync.sh:4-6` says META_DIR is
   written after each change. `Safe` and `CatchesUp` of `BrainReader` except that commit (`half`).

Other things seen while modelling, which the runs take as they are. *Sync*: `README.md:47` speaks of a
single commit where `apply_changes` may make several; a page of a Riffado listing that answers 404 shortens
the listing, and the notes of the rest are deleted until the next pass; `assign_paths`
calls its paths collision-free, which needs keys that differ in their first 8 characters (below);
a thread whose full fetch brings people that no longer match is rendered once; a
message that reaches the Mac in a month before the cursor is never fetched (`late`); a run that deletes the
notes of a thread missing from a listing and breaks off before its index leaves the old months
unwritten for good (`damaged`). *Graph*: a note that becomes empty keeps its old episodes, since `cycle` passes over
it; a note whose removal was interrupted and which then changes back to the text of its entry stays half removed
(`torn`), because its hash says there is nothing to do; an add that is killed leaves episodes no state knows.
*Meerkat*: a PUT of a note somebody deleted is a 404 taken for success until the next full refresh; the PUT of an activity
writes the attendees of a cached list; what exceeds the budget waits for the next commit to main. *Copies*: a mirrored commit is
remembered per repository although two mirrors may share one, one failing site keeps the later ones from being deployed, a
batch lost to a 404 counts as done. *Jobs*: an edit between the archive and the listing of an import is overwritten by the stale copy
(`Conditional` starts at the listing). *Reader*: `get_entity` binds `SNAP` twice; pages of `read_note` may be of different snapshots; a left-over
`index.lock` is not modelled. *BI*: an article dated in the future moves the cursor past arrivals (`jumped`); what the heuristics
guessed while the AI was away is never extracted again; which story an event belongs to depends on the AI's wording, so a
reworded story is not on cooldown; only the best alerts of a customer are posted though all go on cooldown. *Exporter*:
a document caught while it is rewritten drops out of the totals for a round; user messages of a resumed session have no id
and count twice; the `claude_stats_*` totals jump, down too, between the scan's and those of stats-cache.json when that file appears, goes or
is caught half written; `claude_stats_exporter_last_success_timestamp_seconds` moves although sources failed.

## What is proved

The theorems hold for every value of the constants: any number of recordings, titles, notes, texts, articles, customers, tools
and files, and any bound. They assume only the named `ASSUME`s of the modules, which TLC evaluates on
the instances: the constants that stand for special values are no notes, entries, numbers or
paths, threads and messages at hand are finitely many, and no two recordings' keys, or threads' ids, agree in
their first 8 characters (`Short`). The last is a property of random ids, and without it `assign_paths` really collides.

- `TypeCorrect` (Riffado): each step keeps `TypeOK`. The work is in `Render`: what it is about to write lies in the folder, an index
  at the index path and a note at every other.
- `PathsDistinct`: `assign_paths` gives distinct recordings distinct notes. Within one title only the oldest
  gets the plain name, the others differ by their cut key; across titles the names differ.
- `FromListing`, `InjectiveAlways`, and `SyncSafe` from it: neither property is inductive, so `IInv` of `RiffadoSync` adds what a commit relies on: an operation of the
  pass names the blob its listing saw (`PendingFromListing`), and every index about to be written is as injective
  as the stored one (`IndexesInjective`), which is where `PathsDistinct` comes in.
- `PromiseKept` (Riffado, messages), `MailConditional` (`GmailSync`), `MirrorConditional` (`FolderSync`), `JobsConditional` (`BranchJobs`):
  each `Spec` implements `ConditionalCommits` under the mapping that shows the listing while a pass is on and `Nothing` otherwise.
  Every step is a `Look`, `Forget`, `Commit`, `Edit`, `Elapse` or a stutter; a batch is accepted only when
  every path it changes still is as listed, for every operation left names the blob its listing saw. The messages job writes
  its index later with the shas of the same listing; by then its notes have landed, and they are other paths.
- `HonestAlways`, `NothingNeedless`: from the rest of that `IInv`. `Clock` bounds the revisions a listing holds by those of the source, so that
  what changed never looks again as it was; `PassKnows` says that until a batch lands only people change the folder; `HonestAfter` that the
  folder was honest when listed and will be when the rest of the operations has landed, which is why a batch
  that lands without the rest must leave `torn` set; `Needed` that each operation brings its path from something else to what the listing demands.
- `CursorsTrusted`, `NothingForgotten`: from `IInv` of `MessagesSync`. A note is written anew from what one run fetched, so nothing may be
  missing there that an earlier run wrote. `FetchComplete` says that what has been fetched of a thread is all from its cursor on up
  to the cuts of its chats, and a cursor is the start of a month, so each note in range is fetched whole; `CursorsReached` that a cursor is never ahead of
  its thread; `FolderListed` that until the first commit only people change the folder; `PendingSound` that an operation left holds what the note showed
  when listed and all that the old or the new cursor has passed; `CursorsSound` that what the cursors of this run have passed is in a note
  or in such an operation, and with the last of these gone the index may be written.
- `MailSafe` (`GmailSync`): from `IInv` there. `PassListing` says that a pass works with the folder it listed, and with the index in it, until
  somebody edits it, and that whatever index it reads gives no note to two threads; `PendingSound` that
  the operations left start from the listing and write distinct paths and an index of distinct notes; `DescribedAround` that the
  index describes the notes before the first batch and after the last, unless people edited or a pass was torn. That a refused
  or lost batch needs an edit is `AcceptedUnlessEdited`. A postponed thread keeps the entry it had; that no thread rendered now gets its
  path is what `Evict` is for, and the proof shows that this is enough.
- `DuplicatesCostFailures` (`MeerkatSync`): `NotesBounded` counts the notes against the failures per state of what is known. A contact believed
  to have no note has at most as many as there were failures, whoever believes it, the lists or the cache that a
  failed fetch filled, and the latter only because that fetch has failed. `ActsBounded` is the same of the activities, where any
  contact that truly shows one is enough. People only delete and edit, which takes nothing from either.
- `TypeCorrect` (loop), `TriggersServed`, `RebuildsCurrent`, `RebuildsDue`: from `IInv` of `BrainCycle`.
  `TriggerInv` follows a trigger through the loop: what was fetched of Meerkat and Riffado since the last `Clear` is
  no older than the last trigger, or the event is still set, or one of them failed. `RebuildInv` says
  what a rebuild knows at each of its steps as long as nobody overtook it: the archive equals
  the branch, the listing equals the pages, the remembered head is behind.
- `TypeCorrect` (graph), `EpisodesKnownAlways`, `NeverMixedAlways`, `EntriesWholeAlways`: from `IInv` of
  `GraphIngest`. `Control` says what is at hand at each step, above all that every uuid of an entry being removed is
  still to be tried, left behind or gone, and that the two copies of the state list the same episodes whenever
  a kill can fall; `BatchInv` that a note in the batch may be tried and has a new text; `EntriesPoint` and
  `AddedInv` that a listed, added or retracted episode belongs to its note and text. The last two are what
  keeps a removal away from the episodes of other notes; a new uuid is by its choice none that is in use.
- `ReplicaOfBranch`: each step of the worker is a step of `NoteReplica` or a stutter. A removal withdraws the
  text when it begins, not when the last episode is gone, and `StoreNote` shows the new one when the last
  part is there; the text withdrawn differs from the archive by `BatchInv`.
- `NoArticleSkipped`, `CooldownRespected`, `PipelineSafe`: from `IInv` of `BiPipeline`. `FetchComplete` says that what a run has not fetched
  and nobody had a reason to leave out came after the run began, which is why `Save` may take the start as the cursor;
  `CooldownKept` that disk and memory remember every alert a saved run delivered while it cools, in spite of pruning;
  `AlertsNew` that each alert of a run put its own key on cooldown; `LabelsOfRun` that the counts in memory
  are those of the lines before the cursor, which is why a run that ends loses nothing.
- `SnapshotsSound`, `NeverBack`: from `IInv` of `BrainReader`. `InOrder` says that commits reach main, clone, `META_DIR` and server in this
  order; `CloneBetween` that a file of the clone is between HEAD and FETCH_HEAD, and what a published HEAD says of the files unless it is `half`; `ReadWell` that a note read is at least what
  the dates read before it say, and that a snapshot with a note of another commit means that the clone has moved on;
  `ReadsForward` that what is read next is not older than what is shown. `VersionIs` and `VersionAppended` are the facts about versions it rests on.
- `ReaderMirrors`: `Spec` of the reader implements `FolderMirror`: a push is a `Commit` of the mirror, a swap its `Refresh`,
  a restart of the server its `Lose`.
- `ToldOnce`, `TotalsNeverFall`: from `IInv` of `UsageExporter`. `CountsSeen` says that the count is the number of ids seen and that no file left
  to read repeats one unless ids are compared; `Forward` that told, rendered, last good and what is ahead of the running scan
  come in this order, the last being what was seen together with all the files still to read, which appends only enlarge;
  `OneOfTwo` that `claude_stats_total_messages` is the scan's number wherever it is not the cache's.
- `StampsHonest`, `JobsConditional`: from `IInv` of `BranchJobs`. `CloneCurrent` says that a clone lacks only what people edited since,
  and nothing when main has not moved, which is when a push is taken; `OursIsTree` that rebases leave the
  local commit one tree of the source outside those edits, so no mixture is ever there to be pushed.
- `MirroredIsMirrored` (`FolderSync`): `HeadIsPast` says that the head a pass reads is a commit of the source, `CommitMirrors` that, as long as
  nobody edits the folder, every operation left finds what it names, and with the last the folder is a tree not older than
  that head. A pass that ends early does not reach `MirrorDone`, so the head it read is not remembered.

TLC checked each `IInv` as an invariant on the instances before it was proved.

Only model-checked: all liveness (`Converges`, `CatchesUp`, `EveryArticleJudged`, `NoFreeze`, `MirrorCatchesUp`; temporal
logic with fairness is beyond the prover's backends).

## What is not modelled

Text: how a note is rendered, redacted, parsed or matched against names. A note is
identified by what it was made from, which is all the sync logic compares (by hash). Waits between
retries, log lines, metrics and the dry run. The order of mail in a listing. Case folding of
titles (two titles equal up to case are one title here). The window of dates of the calendar and of HubSpot, whose commits are like
Riffado's. The contacts that brain-messages creates in Meerkat. What the MCP tools compute from the notes they find. Heat, themes, story snapshots,
forecasts and deltas of the BI pipeline, which nothing reads back into a decision, its feedback API, the trimming of its
histories, and `unread_only` (`pipeline.py:1373`): an article somebody marks as read before a run lists it is never judged. The breakdown of usage by day, model and project.

The components marked `not_modelled` in `PROJECT.json`, each with its reason there: briefing, digest, transcript archive, the MISP conversion and the
webhooks are single passes without state of their own; the Velero pruner, the Longhorn and UPS scripts act on listings without a
memory; media, radio, screens and face recognition are conversions or numerics; the manifests are configuration.

## Plan

1. `TrivyArchive`: jobs with a TTL, receipts, pruning.
2. `TranscribeAdapter`: the model, its lock and the idle unload.
3. The contacts brain-messages creates in Meerkat, whose POST may be repeated, composed with `MeerkatSync`.
