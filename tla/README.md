# Verifying FSignal

FSignal watches founders' posts for companies that an accelerator has funded and
not listed yet. It tells a Slack channel about such a company ("EARLY"), and tells
it again when the official directory catches up ("confirmed"). This directory holds
TLA+ models of that program, what TLC checks about them on small instances, and what
TLAPS proves about them for every instance.

## The system

One Python process runs one asyncio event loop and writes to one SQLite file. Two
facts about it shape every model:

* **Atomicity of tasks.** A coroutine gives way only where it awaits something that
  is not ready: `source.collect()`, `notifier.send_*`, a lock or a sleep.
  `ingest_official`, `ingest_social` and `reconcile_ghosts` are declared `async` and
  await nothing, so no other task runs while they do. `flush_alerts` awaits once per
  alert.
* **Atomicity of writes.** Every method of `Database` opens a connection, commits
  and closes it. A handler that raises or a process that dies between two of them
  leaves what the first wrote.

| Component | State | Operations | Talks to |
|---|---|---|---|
| Alert outbox (`engine.flush_alerts`, `db.*alert*`) | `alert_outbox`, `company_alerts`, `alerted_*_at`, the flush lock | enqueue, flush, mark sent, mark error, mark dead | engine, Slack |
| Detection engine (`engine.py`) | `social_signals`, `official_companies`, `official_snapshots`, `candidate_ledger`, `timeline_events` | `ingest_official`, `ingest_social`, `reconcile_ghosts` | scanner calls it; it calls matcher, extractor, database |
| Scanner (`scanner.py`) | its lock, the two lists of sources | `scan_all`, `run_named_source`, `run_reconciliation` | sources, engine, scheduler, Pond |
| Official directories (`sources/official.py`) | `_last_full_crawl`, `last_mode`, `active_batches` | full, recent and fallback crawls | scanner |
| Social sources (`sources/social.py`) | watermarks, `last_mode`, `targets` | native and indexed search | scanner, database |
| Scheduler (`scheduler.py`) | per source: failures, `last_status`, next run | start, run loop, backoff, stop | scanner |
| Pond protocol (`pond.py`, `main.py`) | `pond_runs`, one lock per run id | execute a run once, replay its answer | scanner, engine |
| Matcher, extractor, scorer, targeting | none | pure functions of text and rows | engine |
| Slack notifier and presenter, Slack interactions | none | build, send, answer a button | Slack |
| HTTP service, configuration, scripts | none of their own | pages, health, settings | everything |

`PROJECT.json` lists each with its status.

### What makes it hard

* Several scheduler tasks and `scan_all` call `flush_alerts`, and other tasks enqueue
  while it waits for Slack.
* Slack may accept a message whose answer never arrives; a task may be cancelled
  there (shutdown, the deadline of a Pond run), and the process may die there.
* A failure belongs to one message, which must not mute the queue, or to everything,
  in which case trying on would burn the queue.
* An alert is queued long before it is delivered; what the engine knows about a
  company (`company_alerts`) is written at delivery.
* A handler that stops half way leaves a signal without its alert, and the signal is
  not new the next time.
* A new listing that a ghost matches is not announced, on the promise that the ghost
  will be confirmed; two different calls of the matcher take the two decisions.
* Directories list, withdraw and list again; a crawl may be a slice of one, and two
  crawls of one source object may overlap and overwrite what the other says of itself.
* A watermark moves as soon as a query is answered, long before its posts are stored.
* Each source keeps its own clock, its own row of failures and the label `/health`
  shows; a source that hunts needs what another one finds.
* Names come as handles, fragments and sentences; the same one may exist in several
  cohorts, and reading it wrongly either hides a company or announces it twice.

### What would make each component correct

| Component | Properties | Where |
|---|---|---|
| Outbox | no alert twice if the answer of the first copy arrived; sent means accepted; alerts finish in the order they were queued; only the oldest is charged with failures; a reply lands in its own company's thread; nothing waits forever | `Outbox` |
| Engine | every ghost has its alert or its corroboration; a corroboration stands in a thread; one confirmation per company, never none, never before EARLY; of the ghosts it is given, reconciliation leaves none open that a listing matches; a withheld listing is answered; a post is judged once | `Radar` |
| Directories | a crawl retires only what the directory did not show meanwhile, with named exceptions; the first rows are those of a full crawl and are never announced, all others are; a snapshot cites what is listed | `Directory` |
| Social sources | a post behind a watermark is stored or known to be lost; a claim is found in the end | `Collector` |
| Scheduler | the label of a source says how its last run ended; failures back off; a source keeps running whatever others do, and hunts once there is something to hunt for | `Scheduler` |
| Pond | one execution and one answer per run id; a conflict is one; scans do not overlap; every request ends | `PondRuns` |
| Matcher and extractor | a listed company that a post makes recognisable is never announced; a post is matched only to a row that what it says can mean; one EARLY message per company | `Matching`, `Extraction`, `Claims` |

## The modules

| Module | What it is |
|---|---|
| `AlertDelivery` | the abstract promise of the outbox: a first-in first-out queue, delivered at least once |
| `Outbox` | the outbox as `app/db.py` and `flush_alerts` implement it; instantiates `AlertDelivery` |
| `OutboxProofs`, `OutboxRefinement` | theorems about `Outbox`; the second is that it implements `AlertDelivery` |
| `Radar` | the engine on top of the outbox; EXTENDS `Outbox` |
| `RadarProofs` | theorems about `Radar` |
| `RunRegister` | the abstract promise of run ids: a run is decided once and answered alike ever after |
| `PondRuns` | `POST /runs` as `app/main.py` implements it; instantiates `RunRegister` |
| `PondProofs` | theorems about `PondRuns` |
| `Scheduler`, `SchedulerProofs` | the loop of each source, its delays and labels; theorems |
| `Directory`, `DirectoryProofs` | one official directory, the crawls that copy it, and the ingestion of their rows; theorems |
| `Collector`, `CollectorProofs` | the hunt for posts: queries, watermarks, the indexed fallback, ingestion; theorems |
| `Matching` | the algorithms of `matcher.py`, as operators over spelled names |
| `Extraction` | the algorithms of `extract.py` and the scores of `intelligence.py`; EXTENDS `Matching` |
| `Claims`, `ClaimsProofs` | posts read and companies listed in any order, judged by the two above; theorems |
| `MCOutbox`, `MCRadar`, `MCPond`, `MCScheduler`, `MCDirectory`, `MCCollector`, `MCClaims` | instances for TLC; `MCOutbox`, `MCRadar` and `MCDirectory` also hold the statements of docs and comments that the code contradicts |

The engine is looked at from several sides, each with what it needs: `Radar` has the
signals and their alerts and takes matching and crawls as given, `Directory` and
`Collector` have one source each with every request it makes, `Claims` has real texts
and real names and one handler, and `Scheduler` has the times and the labels and only
the status of a run.

Operators whose comment begins with "Faulty" are plausible bugs: each property is
known to fail when one of them takes the place of the definition it varies
(`mutants` in `PROJECT.json`). No specification uses them.

### Outbox

| Variable | In the code |
|---|---|
| `outbox` | table `alert_outbox`; the id of a row is its position, `status` folds `sent_at` and `dead_at` |
| `companyAlert` | table `company_alerts`: the `slack_ts` per company and stage, `NoRow`, or `NoThread` for NULL |
| `alerted` | `alerted_ghost_at` and `alerted_confirmed_at` of `social_signals` |
| `receipts` | the `alert:<dedupe key>:sent` rows of `timeline_events` |
| `flushLock` | `RadarEngine._flush_lock` |
| `flush[t]` | where task `t` is in the loop of `flush_alerts`: the row at Slack, the rest of the snapshot, the thread looked up |
| `channel` | external: what Slack accepted; a message's `ts` is its position |
| `lost` | history: the messages whose acceptance no row reflects |

One action is what `flush_alerts` does from one await to the next. `FlushAlerts` takes
the lock, reads the snapshot and hands over the first alert. `SendSucceeds`,
`SendFails`, `ReplyLost` and `KeyRefused` are the ways the await can end, with every
write that follows and the step to the next alert (`Deliver`), to the dead letter, or
out of the loop. A call of the database may raise on the way: before the row is marked
sent (`Recorded` says how far the writes got) that is `ReplyLost`, a global failure of a
message which Slack has; after it, when only the timeline event is missing, it is
`TimelineFails`, which charges a row that is sent and may dead-letter it. The
`Interrupt` actions cut that at each await and between any two
commits. A process that dies also empties memory, which is what `Release` does to
the task; what survives of the other tasks is that none of them is in the loop,
which the lock already says.

The error of a row is reduced to the distinction the code draws: `"alert"` for the
texts in `PER_ALERT_FAILURES`, `"global"` for every other. The failures of `_require`
and of an unknown kind are of the first sort and are among those `SendFails` offers.
The demo mode, in which `_send` writes a file and returns no `ts`, is left out.

### Radar

`work` is the handler the event loop is in. While it is not `Idle`, only that handler
moves, one transaction per step; `HandlerStops` cuts it between any two, for a
database error as well as for a crash. Flushes run only while `work` is `Idle`.

| Variable | In the code |
|---|---|
| `companies` | `official_companies` of one directory: unknown, listed, or `stale_at` set |
| `status` | `social_signals.status` |
| `ledger`, `timeline` | `candidate_ledger.verdict`, and the events the handlers write |
| `usable` | whether `extract(...)` accepts a post's text; `RulesImprove` is a release with stricter rules |
| `fresh` | whether the snapshot is younger than `snapshot_max_age_minutes` |
| `cut` | history: the signals written by a handler that stopped before their alert |
| `withheld` | history: the listings left to a ghost's confirmation, with the ghost |

What text processing decides is a constant: `Scoped` is `match_official` with the
post's batch (the call in `ingest_social` and `reconcile_ghosts`), `Unscoped` the one
without it (the call in `ingest_official`), `KeyOf` is `company_key`, `Strong` the
posts above `min_signal_confidence`. The relations are independent: nothing ties
`Scoped` to `Unscoped` except what an instance says.

Handlers walk lists; the model walks sets in any order, which includes the code's.
`list_ghosts(500)` is `ListGhosts`: at most `GhostLimit` open ghosts, those that score
highest (`Rank`, with ties in any order). Both of its callers take what it returns, the
reconciliation and the test that withholds a listing.

### PondRuns

| Variable | In the code |
|---|---|
| `pondRuns` | table `pond_runs`: the request and its terminal response |
| `runLock` | `pond_run_locks`, by run id |
| `scanLock` | `Scanner.lock` |
| `handler` | the requests being served: waiting for a lock, or awaiting `scan_all` |
| `executions`, `unsaved`, `answered`, `conflicts` | history: executions of a run, those that left no response, what callers were told |

A request awaits at most two things: the lock of its run id and `scan_all`. All else
happens in the step that gets the lock, so only a scan holds a lock between steps.
Asking for the lock is a step of its own (`Receive`); as it reads nothing that others
write, that adds nothing. A body stands for its hash and determines its run id, which
is a field of it. `ScanEnds` covers the return of the scan, any exception and the
deadline (`asyncio.wait_for`), all of which save a terminal response; so does a read
that raises, an unknown `signal_id` included, because the `except` around the
execution comes first. A crash is the interruption of every request, one by one. An
answer may get lost, which is what makes clients ask again.

What the scan does to the rest of the service is the subject of `Outbox` and `Radar`:
its cancellation at the deadline is `InterruptBefore` or `InterruptAfter` there.

### Scheduler

| Variable | In the code |
|---|---|
| `phase` | where the task of a source is: not begun (with or without a startup scan), in `_run_once`, in the wait of `_source_loop`, cancelled |
| `lastStatus`, `failures`, `ran`, `succeeded` | `last_status`, `consecutive_failures`, `last_run` and `last_success` of its `SourceState` |
| `nextIn` | the delay with which `next_run` was last set, in seconds |
| `active` | per directory, whether its latest snapshot names active batches |
| `blind` | whether the run found no target, which is decided at its start |
| `outcome` | history: how the last finished run ended, or that it raised |

A run is a step at its start and one at its end. `Finish` is the rest of `_run_once`
with the classification of the result, the counter, the label and the next delay;
an official run may record its snapshot in between (`RecordSnapshot`), which is what
a social source that waits is waiting for. A blind run waits, unless it
fails before it looks at its targets. The reconciler is a source whose only results are
success and an exception. `Stop` cancels every task wherever it is. There
is no clock: a sleep ends at some time. The value of `failures` is cut off at
`CountedUpTo`, and the assumption says why: beyond it the delay is the cap.

### Directory

| Variable | In the code |
|---|---|
| `live`, `changes` | external: what the directory shows |
| `fullDue` | `_is_full_crawl_due`, from `_last_full_crawl` and the clock; `Elapse` is the interval passing |
| `run` | the crawls of the one source object: the request each waits for, the slices left, what is collected, and its mode |
| `lastMode`, `lastActive` | `source.last_mode` and `source.active_batches`, which all runs of the object share |
| `rows`, `snapshot` | `official_companies` and `official_snapshots` of this source, by external id |
| `announced` | the rows whose official alert was enqueued |
| `baseline`, `first`, `lost`, `fullLost`, `torn` | history, for the properties |

Each request of a crawl is a step, and the directory may change between two of them:
the facets and one slice per batch of a full crawl, the recent window, the second
index after the first one refuses, the API, and the page that stands in for it. A
company has one external id in the API and the index and another on the page, so `rows`
is by company and spelling. `Ingest` is everything from the return of `collect` to the
end of `_run_source`, since nothing is awaited there; its argument says how far the
transactions got (`upsert`, `prune`, the alerts one by one, `snapshot`). `Restart`
empties memory.

The API is asked for one page, `ApiLimit` companies in whatever order (`ApiAnswers`).
Ingestion reads mode and batches from the source object. YC sets them after its client
is closed, so nothing comes between; Speedrun sets them before (`Answer`), and the other
run may do so, too, before either ingests (`SaidMode`, `SaidActive`). That an addition is withheld for a ghost is left to `Radar`.

### Collector

| Variable | In the code |
|---|---|
| `newest` | external: posts are numbers in the order in which they go up |
| `targets`, `hunted` | the snapshots' batches and cohorts, and `source.targets` |
| `watermark` | table `watermarks`, by the text of the query |
| `run` | per run: native or indexed, the queries left, the watermark read for the one that is asked, the posts found |
| `stored` | per post, how the row of its first adjudication was collected |
| `dropped`, `beyond` | history: posts a failed run had in hand, and posts that did not fit on a page |

The queries are those of `targeting.py`, word by word of what they ask for: grouped by
program for X, one per label for the index, twice per batch for LinkedIn. `NativeAnswer`
is the answer to one query, the move of its watermark and the reading of the next one's.
`OutOfCredit` throws the native posts away and asks the index, with the targets of
whichever run began last, even one that found no target and refused (`Refuse`);
`RequestFails`, `IngestFails` and `Restart` cut a run at
every other point.

### Matching, Extraction and Claims

Names are sequences of words, a word is spelled as parts (split at dots and
underscores) of atoms, and every rule of `matcher.py` is an operator on them:
`NormalizeName`, `StripAffixes` and `HandleIdentity` for handles, `IsTokenPrefix`,
`BatchIdentity` (a label may have two codes), and `ResolveOfficial` with its four
methods in their order, each of which takes the first row it accepts. `CompanyKey` is what
identifies a company in the outbox.

A text is a sequence of words too: what a regular expression matches is one word, and
constants say which pattern or list it belongs to. On that, `Extraction` has the four
shapes of `extract_company` in their order, the choice and the validation of the name,
the gates of `extract` and `Confidence`. The only state is in `Claims`: `rows`, the
directory as `list_official` returns it, and `ledger`, what was decided of each post
read. A post carries the truth about itself (whom it is about, how it calls the company,
which batch and website it states; whether it stands on a page of LinkedIn, a company's or
not); the program does not see it, and the properties
compare its decision with it.

## What is checked

| Run | Instance | Shows |
|---|---|---|
| `outbox` | 2 tasks, 3 alerts of different kinds (an EARLY, a reply to it, the confirmation of a migrated row), 2 attempts, snapshots of 2, one unanswered message | `OutboxTypeOK`, `NoDoubleDelivery`, `SentMeansDelivered`, `InOrder`, `OnlyOldestCharged`, `ThreadsMatchCompany`, that `Outbox` implements `AlertDelivery` (`OutboxDelivers`), and `EveryAlertSettles`: every alert is sent or dead-lettered in the end (161,992 states) |
| `radar` | 2 posts about one company, a directory with 2 rows, a list of one ghost, 1 task, any interleaving, handlers cut anywhere | `RadarTypeOK`, `CorroborationsThreaded`, `GhostsAnnounced`, `ConfirmationsAnnounced`, `ConfirmedFollowsEarly`, `ReconcileComplete`, `WithheldAnswered`, `StatusHistory`, and that the engine uses the outbox as the outbox expects (`RadarUsesOutbox`) |
| `pond` | 2 run ids, a scan and a status request for one of them and a scan for the other, 3 requests at a time | `PondTypeOK`, `ExecutedOnce`, `ConflictsJustified`, `OneScan`, that `PondRuns` implements `RunRegister` (`RunsDecidedOnce`), and `RequestsEnd` |
| `scheduler` | a directory read every hour, X every four hours, the reconciler, whose runs may hang | `SchedTypeOK`, `HealthTruthful`, `BacksOff`, `KeepsRunning`, `HuntsOnceTold` (140,878 states) |
| `directory` | both adapters, 3 companies in 2 batches and one without, 2 overlapping runs, 1 change | `DirTypeOK`, `AdditionsAnnounced`, `SnapshotCited`, `BaselineFull`, `RetiredWasGone` (819,914 states) |
| `collector` | both adapters, 2 posts, 2 sets of targets, 2 overlapping runs, 1 fault, pages of one post | `CollTypeOK`, `EveryPostAccounted`, `ClaimsFound` (59,484 states) |
| `claims` | 5 companies: three of one name, in different programs and one without a batch, and two of one batch that share their first word; 10 ways of calling them, 4 openings, 6 shapes of a text; 2 posts read, 2 companies listed | `ClaimsTypeOK`, `ListedNeverEarly`, `MatchesWithinCohort`, `OneEarlyPerCompany` (2,100,416 states) |
| `global_failure`, `migrated_row`, `second_source`, `withheld_listing`, `overlapping_crawls` | small | what a comment or the README says and the code does not do; see below |

**Bounds.** `MaxLost` caps the messages that go unanswered and `MaxTries` the attempts
of rows that a crash keeps from dying: without them the channel and the counter grow
forever. One lost message is enough to post a second copy, to give a company two
EARLY messages and a reply a choice of threads. Three alerts with snapshots of two
make a flush end with work left over, an alert arrive during a flush, and a failure
stop before a younger alert. Two tasks are enough for a lock. In `radar`, one company
with two posts is the smallest case of a corroboration, two rows let one be withdrawn
by a crawl that lists the other, and one posting matches only without its batch.
`MaxAttempts` is 1 there, so any failure kills: the longer histories of one alert are
the business of `outbox`. Posts come as one batch; a batch that fails after its first
post leaves what a batch of one would.

The second post scores more than the first and the list of ghosts has one place, which is
the smallest list that is too short: the first is left behind while the second is open, is
pushed out after a listing was withheld for it, and gets its turn when later rules have
refused the second. The properties were also checked with a list of two.

In `pond`, three requests are a duplicate, a conflict and a scan in the way;
`MaxUnsaved` caps the executions of a run that leave no response, which could go on
forever otherwise.

In `radar`, `MCView` drops what no guard and no property of that run reads (the ledger, the
timeline, the marks of delivery), so that states that differ only there are one;
`RadarTypeOK` is still evaluated on the first of each. What is dropped is written
from what is kept and read by nothing, so no behaviour is lost.

In `scheduler`, one directory, one social source and a source that hangs are the smallest
case in which one depends on another and none may depend on the third; with the
intervals of the configuration the delays meet both the cap and a cap that is below the
interval. Two failures in a row are where the backoff starts to double; `CountedUpTo`
is 2 because the third delay is the cap for all three sources.

In `directory`, company 2 goes up or another goes away while two crawls overlap: with
one change each crawl is complete, or missed it, or saw it in one slice and not in
another. The recent window shows one company and the facets may fall one short of the
total, so that both bounds are met; the company without a batch is the one that only
the recent window can see. An API page of three holds all there is when two companies are
up and is just full with three. `MCView` drops what the runs share when nothing will
read it: only an ingestion of Speedrun does, and each run sets it before it gets there.
`SYMMETRY` exchanges the two runs; the properties are
invariants and one action property, for which that is sound.

In `collector`, a page of one post is full with two; two runs suffice to move a
watermark back, and one fault at any step to drop what a run has in hand. The words of
the two posts are a claim, and a claim with a batch code, so that one post answers two
queries. `MaxRead` is 2 in `claims`, because each property there is about one post
and its company or about two posts; every shape of text is combined with every name
and opening it can have, and `MaxListed` allows for the same name listed twice. The
companies are chosen for the doubtful cases of the matcher: a namesake in another
program, a row without a batch, a first word that two companies of a batch have.

Deadlock is checked in `pond`, where requests keep coming. Elsewhere it is not an
error: a system with nothing pending and every input consumed is at rest, a scheduler
that was stopped is meant to be, and in the models the bounds may stop the world.

**Fairness.** `OutboxFairness`, used by `outbox`. Weak fairness of a
flush's start: every scheduler loop ends in `flush_alerts`, forever. Strong fairness
of a send's end: the HTTP client's timeout ends every send, and among infinitely many
not all are cut off by a crash or a cancellation. No fairness says a send succeeds.
`PondFairness`, used by `pond`. Strong fairness of being served: an `asyncio.Lock` wakes
its waiters in the order they came, so whoever waits gets its turn. Weak fairness of a
scan's end: every run has a deadline.

`SchedFairness`, used by `scheduler`. Weak fairness of a task's first step and of the end
of its sleep: `asyncio.wait_for` times out. Weak fairness of the end of a run, except for
the sources in `Hanging`: the adapters' HTTP clients have timeouts, and the model also
says what happens to the others if some source has none. `CollFairness`, used by
`collector`: weak fairness of each run's next step, since the scheduler starts the source
again and again and requests are answered or fail; failures are bounded by `MaxFaults`,
which stands for an account that is not broken forever.

## What disagrees with the code

1. **Global failures do lose alerts** (`global_failure`). `engine.py` says that burning
   the queue against a dead token is what pausing avoids. Pausing also charges an
   attempt, and the fifth kills the oldest alert whatever the failure was.
2. **A migrated row is posted again and again** (`migrated_row`). The confirmation of a
   signal stored before `company_key` existed is posted, then `company_alerts` refuses
   its NULL key, and the row is retried.
3. **A second source may be dropped** (`second_source`). Until the EARLY alert is
   delivered, and for good if it died, a later post gets the key `ghost:<company>`
   again and `INSERT OR IGNORE` ignores it.
4. **A listing may be announced by nobody** (`withheld_listing`). A ghost of another
   batch withholds it by name and does not match it when ghosts are reconciled.
5. **A slice may retire a directory** (`overlapping_crawls`). `scanner.py` says that only a
   mode which reads the whole directory counts absence as withdrawal. The mode is an
   attribute of the source: two overlapping runs of Speedrun, one through the API and one
   through the fallback page, may leave the page's rows under the mode of the API.

Other things the models show, without a run of their own:

* **Scheduler.** A run that raises leaves `last_status` as it was: after "waiting", a
  source whose runs raise is retried every minute (scheduler.py:319-322; its comment
  says the short delay is for missing snapshots). A source whose first run was cut off
  is labelled `not_configured`. After earlier failures, a source that reports
  `not_configured` or `billing_blocked` sleeps the backoff and not its interval, as the
  module's table has it. The cap of an hour is shorter than X's interval.
* **Engine.** With more open ghosts than `list_ghosts(500)` returns, one that improved rules
  refuse, or that a listing matches, stays open as long as the better-scored ones do.
* **Directory.** The Speedrun API is asked for 500 companies once; in a longer directory
  those beyond the page are retired as if they had gone. With overlapping crawls, one that
  began before a company was listed may retire the row that the other just wrote, until the next crawl. `_last_full_crawl` is
  set before ingestion: after a failed one the recent window may become the baseline.
  A company without a batch is inserted by a recent crawl and retired by each full one.
  Switching to the fallback page lists every company under a second id.
* **Collector.** Overlapping runs may move a watermark back; that only repeats work. A
  watermark moves before the posts are stored: an exhausted account, a later query or
  ingestion that fails lose the posts in hand for X (`dropped`), and a full page loses the older
  ones (`beyond`). Batch queries ask for the primary code of a label, "X26" and never
  "P26", though targeting.py:25-29 says that founders use both.
* **Matching.** A handle made of a name that itself begins or ends like an affix
  (`@trywechat` for WeChat) is not found, nor is a core of three letters; such companies
  are announced although they are listed. A post with a website and no batch is matched
  by its exact name to a company of another cohort. `company_key` differs for "X26" and
  "P26", and with and without a website.
* **Extraction.** "our company Atlas AI has been accepted to YC F26!" yields "Atlas AI
  has". A name found by product handle has no identity weight, so such a post never
  reaches the confidence of an EARLY alert.

The passing properties say how far the statements do hold: `NoDoubleDelivery` speaks
of answers that arrived, `GhostsAnnounced` of an alert of the company or a reply,
`WithheldAnswered` of ghosts that match with their batch, it and `ReconcileComplete` of
ghosts that are on the list or score more than one that is, `EveryPostAccounted` of posts no
failure or full page took. `RetiredWasGone` names a moment during the crawl and four
exceptions: a company without a batch, a row of the fallback page, a full page of the API,
the mode of another run. In `Claims`, `Calls` says what a post can mean: its website; within
its batch the name, its leading words or a handle made of it; the exact name, if the post
or the row has no batch. `ListedNeverEarly` is about posts that call their company so, and
`MatchesWithinCohort` about matches that nothing of the kind supports: with one short name
for two companies of a batch, or a row without a batch, the code takes the first row, as
`tests/test_matching.py:89-91` asserts. `OneEarlyPerCompany` is about posts that give the
same website, or the same name and batch.

## What is proved

`OutboxProofs`, for any numbers of tasks, alerts, attempts, losses and crashes:
`OutboxTypeCorrect`, `OutboxDeliversOnce`, `OutboxSentIsDelivered`,
`OutboxFinishesInOrder`, `OutboxChargesOldest`, `OutboxThreadsMatch`. All come from
one inductive invariant, `OutboxInv`. Why the properties need more than themselves:

* `InOrder` survives a step only if the loop works on the oldest pending row, and
  still does after that row is finished: `FlushInOrder` says that the row at Slack is
  the oldest pending one and that its snapshot has no gap. Rows that arrive meanwhile
  come later, because ids only grow.
* `NoDoubleDelivery` needs that a noticed message has its row sent or, when the timeline
  failed, dead (`NoticedMeansDone`) while the row at Slack is pending, and that a dedupe key has
  one row (`DedupeUnique`).
* `ThreadsMatchCompany` needs that what `company_alerts` remembers is an EARLY message
  of that company (`CompanyThreads`), and that the thread looked up before the send
  still is one after it (`FlushThreads`); both need that rows carry the key of the
  signal they point at (`RowsAreRequests`).

`OutboxRefinement` proves `OutboxImplementsDelivery`: the outbox is the queue of
`AlertDelivery`. A row is an entry and its status the fate, so a step of the holder is
`Finish`, `Abandon`, `Post` or nothing according to what became of its row and whether
Slack accepted the message; that the row is the oldest pending one is `FlushInOrder`.

`RadarProofs` proves the engine's part. `EngineInv` adds to the types that a migrated
row is never inserted again (`LegacyStored`), that the post between its insertion and
its alert is no migrated one (`InsertedIsNew`: what is enqueued for it is a request
the outbox knows), and that reconciliation has only open ghosts before it
(`ReconcilesGhosts`). From it:

* `RadarIsOutboxClient`: every step of the service is a step of `OutboxSpec` or leaves
  the outbox alone. The theorems about the outbox hold for the service:
  `RadarDeliversOnce`, `RadarDelivers`, `RadarTypeCorrect`.
* `SignalHistory`: a post is judged once, and only an open ghost is decided again.

What ties signals to alerts, and alerts to what Slack shows, stands on `EngineInv`,
`OutboxInv` and a third inductive invariant, `AlertInv` (`AlertInvariant`):

* `EveryGhostAnnounced` and `EveryConfirmationAnnounced` speak of moments at which no
  handler runs. In between, the signal that the handler is at is the only exception
  (`Detecting`, `Confirming`), and it has the status that makes the handler enqueue its
  alert next (`AtDecided`); every other ghost or confirmed signal has its alert
  (`DetectedEnqueued`, `ConfirmedEnqueued`). Where `INSERT OR IGNORE` enqueues nothing, the
  row with that key is there. A handler that stops moves its signal from the exception
  to `cut`.
* `CorroborationsStandInThreads`: a corroboration has the EARLY alert of its company
  before it in the queue (`BehindEarly`): the handler enqueues one only if the company is
  announced in its batch or in `company_alerts`, and such a company has an EARLY alert
  (`AnnouncedEnqueued`). So by the time it is the oldest pending row
  that alert is sent or dead. If it is sent, `company_alerts` has the timestamp
  (`SentRemembered`), and the loop finds it. What the loop looked up may be out of date
  by the time Slack accepts: `FlushThreaded` says that a message on its way without a
  thread has an EARLY alert that is dead, and dead rows stay dead.
* `ConfirmationsFollowEarly`: the same order of the queue, and that what is sent before was
  accepted before (`SentMeansDelivered`), at a smaller position of the channel.

`ReconciliationComplete` and `WithheldIsAnswered` come from `ReconcileInv`: the ghosts that
are not among those still to be looked at are fine or stand behind a full list of ghosts
that score no less (`OpenGhostsChecked`), which holds on because no row is listed, no rule
changes and the list stays as it was read while the handler is at work; what is on a list
was a ghost (`ListWasGhosts`); and a listing is withheld only for what was a ghost and has
not been reopened since (`WithheldForGhosts`, from the history of statuses).

`RecordsAreTruthful` is about what the run `radar` leaves out of its view, the timeline and
the ledger: an event is true of its signal whatever follows, and a verdict other than
a refusal has its signal in the table. `INSERT OR REPLACE` may still put "alerted"
on a post that stays possible, or "possible" on one that was announced.

`PondProofs`, for any run ids, bodies and numbers of requests: `PondTypeCorrect`,
`RunsExecuteOnce`, `ConflictsAreJustified`, `ScansDoNotOverlap`, and
`RunsImplementRegister`, the refinement. `PondInv` adds that a lock which is held
belongs to the one scan there is, whose run has no response yet (`LocksHeld`), and that
an execution is at work, left a response, or left none (`ExecutionsCounted`). From the
first, a run that is saved had none: `INSERT OR REPLACE` never replaces, which is what
makes a step of the program a step of the register.

`SchedulerProofs`, for any sources, intervals and delays: `SchedTypeCorrect`,
`HealthIsTruthful`, `FailuresBackOff`. A label is computed from four fields, none of
which is the last outcome: `LabelInputs` says what they are after a success and that
only a success leaves them so. `FailuresBackOff` needs that the delay in force is the
one that the status and the failures call for (`DelayInForce`), and then that the
delay grows with the failures, which is arithmetic on powers of two and the cap.

`DirectoryProofs`, for any companies, batches, windows and overlapping runs, and any
number of changes: `DirTypeCorrect`, `EveryAdditionAnnounced`, `SnapshotsCount`,
`BaselineIsFull`, `RetiredWasGoneThen`. The invariant `DirInv` adds to the properties what
a crawl knows on its way: what it has collected was shown, and what it misses was not,
at some moment since it began (`Witnessed`); in a full crawl the batches that are left
and those that were read cover the facets (`SlicesCover`), so a crawl that ends in a
complete mode has each company collected, missed or without a batch
(`CrawlComplete`). What Speedrun's runs share is not tied to any run: `RetiredWasGoneThen`
holds whatever mode the other run has left, and says where that shows. The rest is about `Ingest` and the table: there are rows only if
there is a baseline (`RowsKnown`).

`CollectorProofs`, for any posts, queries, targets, page sizes, runs and faults:
`CollTypeCorrect` and `NoPostSkipped`. Watermarks may move back, so a watermark says
nothing of the one that was read before; what is kept is that the posts up to the value
a request was sent with are accounted for (`AskedSinceAccounted`), whatever the table
says by the time of the answer. Being accounted for is never lost, since a failure
puts what a run had in hand among the dropped.

`ClaimsProofs`, for any companies, names, spellings, batches, websites, texts and posts.
First what the matcher promises, without its methods and their order:
`ResolveFindsListed` says that `resolve_official` finds a row which lists what the post
says (`ListedAs`) if there is one, and no row otherwise, and `ResolvedRowAgrees` that the
row has the post's website or a batch that does not contradict the post's. The argument
is that a table is as good as its rows, one at a time; only the exact name looks at
several, and what it prefers among them does not change whether there is one. That is
also why `Radar` may take matching as a relation between posts and rows (`Scoped`).
Then the ledger (`ClaimsInvariant`): an entry says what its post says, was matched to a row
that accepts the post, or is announced and none of the rows of its time does
(`FaithfulLedger`); and a key is announced once and corroborated after that
(`KeysAnnouncedOnce`). It follows, without any condition, that `ClaimsTypeOK` holds
(`ClaimsTypeCorrect`), and what the ledger is worth in terms of what the program read
(`DecisionsFollowReading`): nothing is announced which a row lists, nothing is matched to a
row that does not list it, and the same find is announced once.
`AnnouncedAreIdentified` adds what the extraction contributes: a post that passes the gates
names a company or gives a website, and the name that any of the four shapes picks is one
that `valid_company_name` accepts, or a handle that is no program's. That `_pick` returns
a candidate at all takes an argument: the number of occurrences is bounded by the text
(`OccurrencesCounted`) and the length by `_MAX_NAME_TOKENS`, so there is a best one.

Whether what the program read is what the post meant depends on the names themselves:
with arbitrary words for names a matcher can be fooled, and the remarks on Matching
above say how. `ListedNeverEarly`, `MatchesWithinCohort` and `OneEarlyPerCompany`, which
compare decisions with the truth about the posts, are therefore about the names of an
instance and only model-checked.

Assumptions: `OutboxAssumption` (the kinds of the constants, NULL is no key,
`MAX_ALERT_ATTEMPTS` and the limit are positive, callers use the engine's requests),
`RadarAssumption` (the kinds of the relations; the engine is the only caller),
`PondAssumption` (a body has one run id; nobody is no request), `SchedulerAssumption`
(intervals are positive, the retries and the cap are in their order, the reconciler is no
source), `DirectoryAssumption` (batches and companies are numbers, and finitely many; the
absent batch is none), `CollectorAssumption` (posts are numbered; finitely many
runs), `ExtractionAssumption` (`_MAX_NAME_TOKENS` is a number) and `ClaimsAssumption` (a post
is about a company and its text is a sequence). TLC evaluates all of them, and
`MatchingAssumption`, which no proof uses.

Every invariant was checked by TLC before it was proved, on the instance of its run.
`AlertInv` and `ReconcileInv` were also checked with a migrated signal, with two companies
and with two attempts; `RecordsInv` without the view, with one post and the whole of
`radar`'s directory and with two posts and one row; `AnnouncedIdentified` with one post read.

Only model-checked: `EveryAlertSettles`, `RequestsEnd`, `KeepsRunning`, `HuntsOnceTold` and
`ClaimsFound`, since liveness and ENABLED are beyond the prover; and the three properties of
the run `claims` that compare what was read with what was meant, which rest on what
normalizing and stripping particular words yields. What folds compute for every input (`NormalizeName`, the choice
of `Pick`) would take induction over data; the proofs take them as they are. No module
has a recursive definition.

## What is not modelled

Message layout, pages, button answers, signatures, scripts: no state. In extraction: the
regular expressions themselves (what one matches is a word), the locale affixes, the
go-to-market score; `_pick` is given texts whose opening is well formed. The row of
`source_runs` that each run writes, on which nothing decides. The clock: delays are
numbers, ages and intervals pass at any time. Two directories at once: the engine treats
them alike. Batches with more hits than one query returns, HTML and JSON. Two signals with
keys for one company: `KeyOf` in `Radar` takes the matcher's answer as it is, and `Claims`
shows what the answer is.

## Plan

Done first, because every promise to the user passes through it: the outbox, the engine
on top of it, the runs of Pond; then the sources, the scheduler, matching and
extraction; then proofs of every invariant that a run checks. What is left, in this order:

1. The refinement between `Claims` and the engine's verdicts in `Radar`: `Entry` is what
   `Adjudicate` does if `Scoped` is `ListedAs`.
2. `Extraction`: of two candidates the one that recurs is picked; the shape of a name
   bounds its confidence.
3. `HuntsOnceTold` as a safety property of the social source's status, which could be proved.
4. `Directory` and `Collector` composed with `Scheduler`, if an instance is small enough.
