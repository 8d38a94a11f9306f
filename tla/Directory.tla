----------------------------- MODULE Directory -----------------------------
(***************************************************************************)
(* One official directory and the crawls that copy it into the table       *)
(* official_companies: the adapters of app/sources/official.py and what    *)
(* Scanner._run_source, ingest_official and the database make of their     *)
(* rows.  The scheduler and a manual scan may crawl with the same source   *)
(* object at the same time; every request is a step of its own, and the    *)
(* directory may change between any two of them.                           *)
(*                                                                         *)
(* After the client is closed nothing is awaited until the end of the run: *)
(* Ingest is one step, whose argument says how many of its transactions    *)
(* were committed before a failure or the death of the process.  Closing   *)
(* the client is awaited; YC says what it has read after that, Speedrun    *)
(* before it, in attributes that all runs of the source share.  The ghosts *)
(* for which an addition is withheld are the subject of Radar.             *)
(***************************************************************************)
EXTENDS Integers, FiniteSets, FiniteSetsExt

CONSTANTS
    Company,        \* numbers, in the order in which the companies launched
    Batch,          \* the labels of batches, numbers in their order
    BatchOf,        \* [Company -> Batch \union {NoBatch}]
    NoBatch,        \* the batch of a company that has none
    Run,            \* runs of the source that may overlap
    Tolerance,      \* how many companies the facets need not account for
    RecentSize,     \* how many companies the recent window shows
    ActiveCount,    \* active_batch_count
    ApiLimit,       \* how many companies the one request to the Speedrun API returns
    Shown,          \* the companies that the directory shows at first
    Adapters,       \* a subset of {"yc_directory", "speedrun"}
    MaxChanges,     \* bound: how often the directory changes
    None            \* no snapshot, no baseline, no mode yet

Mode == {"full", "hot", "canonical", "fallback"}

ASSUME DirectoryAssumption ==
    /\ Company \subseteq Nat /\ IsFiniteSet(Company)
    /\ Batch \subseteq Nat /\ IsFiniteSet(Batch)
    /\ NoBatch \notin Batch
    /\ BatchOf \in [Company -> Batch \union {NoBatch}]
    /\ IsFiniteSet(Run)
    /\ Shown \subseteq Company
    /\ Tolerance \in Nat /\ RecentSize \in Nat /\ ActiveCount \in Nat /\ MaxChanges \in Nat
    /\ ApiLimit \in Nat \ {0}
    /\ Adapters \subseteq {"yc_directory", "speedrun"} /\ Adapters # {}
    /\ None \notin Mode

VARIABLES
    adapter,        \* the adapter this directory is read with
    live,           \* the companies the directory shows now
    changes,        \* how often it has changed
    fullDue,        \* no full crawl yet in this process, or not for an interval
    run,            \* what each run is doing
    lastMode,       \* source.last_mode
    lastActive,     \* source.active_batches
    rows,           \* official_companies of this source, by external id
    snapshot,       \* official_snapshots of this source
    announced,      \* the rows for which an official alert was enqueued
    baseline,       \* history: the mode of the crawl that wrote the first rows
    first,          \* history: those rows
    lost,           \* history: rows whose ingestion stopped before their alert
    fullLost,       \* history: a full crawl came to nothing after collect()
    torn            \* history: rows have changed since the snapshot was recorded

history == <<baseline, first, lost, fullLost, torn>>
stored == <<rows, snapshot, announced>>
shared == <<lastMode, lastActive>>
dirVars == <<adapter, live, changes, fullDue, run, shared, stored, history>>

\* The external id of a company: its slug, or what the fallback page makes of its name.
Id == Company \X {"slug", "page"}

Slugs(S) == S \X {"slug"}

\* Faulty: the recent window counts as the whole directory, too.
CompleteModesAny == {"full", "hot", "canonical"}

\* COMPLETE_SNAPSHOT_MODES
CompleteSnapshotModes == {"full", "canonical"}

Idle ==
    [step |-> "idle", mode |-> None, primary |-> FALSE, expected |-> 0,
     counts |-> [b \in Batch |-> 0], left |-> {}, found |-> {}, missed |-> {}]

DirInit ==
    /\ adapter \in Adapters
    /\ live = Shown
    /\ changes = 0
    /\ fullDue = TRUE
    /\ run = [r \in Run |-> Idle]
    /\ lastMode = None
    /\ lastActive = {}
    /\ rows = [i \in Id |-> "unknown"]
    /\ snapshot = None
    /\ announced = {}
    /\ baseline = None
    /\ first = {}
    /\ lost = {}
    /\ fullLost = FALSE
    /\ torn = FALSE

Move(r, new) ==
    /\ run' = [run EXCEPT ![r] = new]
    /\ UNCHANGED <<adapter, live, changes, fullDue, stored, history>>

Update(r, new) == Move(r, new) /\ UNCHANGED shared

-----------------------------------------------------------------------------
(* The directory, and time *)

Publish(c) ==
    /\ c \notin live
    /\ changes < MaxChanges
    /\ live' = live \union {c}
    /\ changes' = changes + 1
    /\ UNCHANGED <<adapter, fullDue, run, shared, stored, history>>

\* Every complete crawl under way may now miss the company.
Withdraw(c) ==
    /\ c \in live
    /\ changes < MaxChanges
    /\ live' = live \ {c}
    /\ changes' = changes + 1
    /\ run' = [r \in Run |->
                IF run[r].mode \in {"full", "canonical"}
                THEN [run[r] EXCEPT !.missed = @ \union {c}]
                ELSE run[r]]
    /\ UNCHANGED <<adapter, fullDue, shared, stored, history>>

\* The interval between two full crawls passes.
Elapse ==
    /\ ~fullDue
    /\ fullDue' = TRUE
    /\ UNCHANGED <<adapter, live, changes, run, shared, stored, history>>

-----------------------------------------------------------------------------
(* The YC directory *)

InBatch(S, b) == {c \in S : BatchOf[c] = b}

\* The newest companies of the directory: the replica is sorted by launch.
Recent == {c \in live : Cardinality({d \in live : d > c}) < RecentSize}

\* _retrieve: the first request for the given index.
Retrieve(mode, primary, missed) ==
    [Idle EXCEPT !.step = IF mode = "full" THEN "facets" ELSE "recent",
                 !.mode = mode, !.primary = primary, !.missed = missed]

\* What collect() sets out to do.  The request for the credentials of the index comes
\* before all others and may fail like them; it reads nothing of the directory.
Collect ==
    IF adapter = "speedrun"
    THEN [Idle EXCEPT !.step = "api", !.mode = "canonical", !.missed = Company \ live]
    ELSE IF fullDue THEN Retrieve("full", TRUE, Company \ live)
    ELSE Retrieve("hot", TRUE, {})

\* Faulty: the full crawl is taken for done when it begins.
StartMarking(r) ==
    /\ run[r].step = "idle"
    /\ run' = [run EXCEPT ![r] = Collect]
    /\ fullDue' = FALSE
    /\ UNCHANGED <<adapter, live, changes, shared, stored, history>>

\* collect() up to its first request; whether a full crawl is due is decided here.
Start(r) ==
    /\ run[r].step = "idle"
    /\ Update(r, Collect)

\* A RuntimeError while the index is read: the other index is tried, then the run fails.
Degrade(r) == Update(r, IF run[r].primary
                                THEN Retrieve(run[r].mode, FALSE, run[r].missed)
                                ELSE Idle)

\* The facets of the index; the companies without a batch are in none of them.
ReadFacets(r) ==
    LET counts == [b \in Batch |-> Cardinality(InBatch(live, b))]
        total == Cardinality({c \in live : BatchOf[c] \in Batch})
        expected == Cardinality(live)
    IN  /\ run[r].step = "facets"
        /\ IF total = 0 \/ expected - total > Tolerance
           THEN Degrade(r)
           ELSE Update(r, [run[r] EXCEPT
                            !.step = "slices", !.expected = expected, !.counts = counts,
                            !.left = {b \in Batch : counts[b] > 0}])

\* The rows of a crawl that is complete.
Collected(r, found) ==
    [Idle EXCEPT !.step = "collected", !.mode = run[r].mode, !.found = found,
                 !.missed = run[r].missed]

\* slice_batch: one filtered query, at a time of its own; after the last one the
\* slices must cover what the index reported.
ReadSlice(r, b) ==
    LET hits == InBatch(live, b)
        left == run[r].left \ {b}
        found == run[r].found \union Slugs(hits)
    IN  /\ run[r].step = "slices" /\ b \in run[r].left
        /\ IF \/ Cardinality(hits) < run[r].counts[b]
              \/ left = {} /\ Cardinality(found) < run[r].expected - Tolerance
           THEN Degrade(r)
           ELSE Update(r, IF left = {} THEN Collected(r, found)
                          ELSE [run[r] EXCEPT !.left = left, !.found = found,
                                              !.counts = [@ EXCEPT ![b] = 0]])

\* A hot crawl; no company at all is a failure of the run, not of the index.
ReadRecent(r) ==
    /\ run[r].step = "recent"
    /\ Update(r, IF Recent = {} THEN Idle
                 ELSE Collected(r, Slugs(Recent)))

\* The index answers, and refuses or answers nothing.
Refused(r) ==
    /\ run[r].step \in {"facets", "slices", "recent"}
    /\ Degrade(r)

\* A request or the closing of the client fails, or the deadline of a scan cancels the
\* run: it ends.  Only a failure of the API is caught (ApiFails).
Unreachable(r) ==
    /\ run[r].step # "idle"
    /\ Update(r, Idle)

\* Faulty: takes a company without a batch for one of a batch of its own.
RankUnlabelled(found) == {BatchOf[i[1]] : i \in found}

\* _rank_active_batches: the batches of the companies that launched last.
RankByLaunch(found) ==
    LET seen == {i[1] : i \in found}
        newest(b) == Max(InBatch(seen, b))
        named == {b \in Batch : InBatch(seen, b) # {}}
    IN  {b \in named : Cardinality({d \in named : newest(d) > newest(b)}) < ActiveCount}

-----------------------------------------------------------------------------
(* Speedrun *)

\* The fallback reads a slice by design: what it misses is not kept.
PageNext == [Idle EXCEPT !.step = "page", !.mode = "fallback"]

\* What the one request for ApiLimit companies may return, in whatever order the API has.
ApiAnswers == {S \in SUBSET live : /\ Cardinality(S) <= ApiLimit
                                   /\ S # live => Cardinality(S) = ApiLimit}

\* _rank_active_cohorts: the labels themselves are in order.
RankByLabel(found) ==
    LET named == {BatchOf[i[1]] : i \in found} \ {NoBatch}
    IN  {b \in named : Cardinality({d \in named : d > b}) < ActiveCount}

\* Rows are read: the mode and the active cohorts are said before the client is closed.
Answer(r, found) ==
    /\ Move(r, Collected(r, found))
    /\ lastMode' = run[r].mode
    /\ lastActive' = RankByLabel(found)

\* The API answers, or answers nothing, which leads to the page like a failure.
ReadApi(r, answer) ==
    /\ run[r].step = "api"
    /\ answer \in ApiAnswers
    /\ IF answer = {} THEN Update(r, PageNext) ELSE Answer(r, Slugs(answer))

ApiFails(r) ==
    /\ run[r].step = "api"
    /\ Update(r, PageNext)

\* parse_fallback: some of the companies, by name and cohort; nothing is a failure.
ReadPage(r, shown) ==
    /\ run[r].step = "page"
    /\ shown \subseteq {c \in live : BatchOf[c] \in Batch}
    /\ IF shown = {} THEN Update(r, Idle) ELSE Answer(r, shown \X {"page"})

-----------------------------------------------------------------------------
(* Ingestion *)

\* Faulty: whether the directory was ever read is told by its snapshot.
HasSnapshot == snapshot # None

\* has_official_source: retired rows count, too.
HasOfficialSource == \E i \in Id : rows[i] # "unknown"

\* upsert_companies, which lists again what had been retired.
Upserted(items) == [i \in Id |-> IF i \in items THEN "listed" ELSE rows[i]]

ListedIn(table) == {i \in Id : table[i] = "listed"}

\* mark_absent_as_stale: unless the crawl lost more than half of the directory.
Pruned(items, table) ==
    IF items = {} \/ 2 * Cardinality(items) < Cardinality(ListedIn(table)) THEN table
    ELSE [i \in Id |-> IF table[i] = "listed" /\ i \notin items THEN "stale" ELSE table[i]]

\* Faulty: counts the rows that the directory has withdrawn.
CountAll(table) == Cardinality({i \in Id : table[i] # "unknown"})

\* count_official
CountOfficial(table) == Cardinality(ListedIn(table))

\* The transactions of an ingestion, in their order.
Reach == {"nothing", "upsert", "prune", "announce", "snapshot"}

\* The rows after an ingestion that got as far as reach.
RowsAfter(items, mode, reach) ==
    IF reach = "nothing" THEN rows
    ELSE IF reach = "upsert" \/ mode \notin CompleteSnapshotModes THEN Upserted(items)
    ELSE Pruned(items, Upserted(items))

Additions(items) == {i \in items : rows[i] = "unknown"}

\* What ingestion reads of the source: YC has just said it, Speedrun's attributes are
\* those of the run that answered last.
SaidMode(r) == IF adapter = "yc_directory" THEN run[r].mode ELSE lastMode

SaidActive(r) ==
    IF adapter = "yc_directory" THEN RankByLaunch(run[r].found) ELSE lastActive

\* collect() returns its rows: ingest_official, record_snapshot and the end of
\* _run_source, as far as reach, with alerts for the rows in sent.
Ingest(r, reach, sent) ==
    LET items == run[r].found
        mode == SaidMode(r)
        additions == Additions(items)
        alertNew == HasOfficialSource
        table == RowsAfter(items, mode, reach)
    IN  /\ run[r].step = "collected"
        /\ CASE reach \in {"nothing", "upsert"} \/ ~alertNew -> sent = {}
             [] reach = "prune" /\ alertNew -> TRUE
             [] OTHER -> sent = additions
        /\ rows' = table
        /\ announced' = announced \union sent
        /\ snapshot' = IF reach = "snapshot"
                       THEN [size |-> CountOfficial(table), active |-> SaidActive(r)]
                       ELSE snapshot
        /\ fullDue' = (fullDue /\ run[r].mode # "full")
        /\ run' = [run EXCEPT ![r] = Idle]
        /\ lastMode' = mode
        /\ lastActive' = SaidActive(r)
        /\ baseline' = IF reach # "nothing" /\ ~alertNew THEN run[r].mode ELSE baseline
        /\ first' = IF reach # "nothing" /\ ~alertNew THEN items ELSE first
        /\ lost' = IF reach # "nothing" /\ alertNew
                   THEN lost \union (additions \ sent) ELSE lost
        /\ fullLost' = (fullLost \/ (run[r].mode = "full" /\ reach = "nothing"))
        /\ torn' = (reach # "snapshot" /\ (torn \/ table # rows))
        /\ UNCHANGED <<adapter, live, changes>>

\* The process dies between two steps and a new one begins; so it does at once
\* after an ingestion that stopped half way.
Restart ==
    /\ run' = [r \in Run |-> Idle]
    /\ fullDue' = TRUE
    /\ lastMode' = None /\ lastActive' = {}
    /\ UNCHANGED <<adapter, live, changes, stored, history>>

DirNext ==
    \/ \E c \in Company : Publish(c) \/ Withdraw(c)
    \/ Elapse
    \/ \E r \in Run :
        \/ Start(r)
        \/ ReadFacets(r)
        \/ \E b \in Batch : ReadSlice(r, b)
        \/ ReadRecent(r)
        \/ Refused(r)
        \/ Unreachable(r)
        \/ ApiFails(r)
        \/ \E shown \in SUBSET Company : ReadApi(r, shown) \/ ReadPage(r, shown)
        \/ \E reach \in Reach, sent \in SUBSET Additions(run[r].found) :
                Ingest(r, reach, sent)
    \/ Restart

DirSpec == DirInit /\ [][DirNext]_dirVars

-----------------------------------------------------------------------------
(* Properties *)

RunState ==
    [step : {"idle", "facets", "slices", "recent", "api", "page", "collected"},
     mode : Mode \union {None}, primary : BOOLEAN, expected : Nat, counts : [Batch -> Nat],
     left : SUBSET Batch, found : SUBSET Id, missed : SUBSET Company]

\* Every variable has its type; a slice is read only for a batch that the facets named,
\* and a run never ends with no rows.
DirTypeOK ==
    /\ adapter \in Adapters
    /\ live \subseteq Company
    /\ changes \in 0..MaxChanges
    /\ fullDue \in BOOLEAN
    /\ run \in [Run -> RunState]
    /\ \A r \in Run :
        /\ \A b \in run[r].left : run[r].counts[b] > 0
        /\ run[r].step = "collected" => run[r].found # {}
    /\ lastMode \in Mode \union {None}
    /\ lastActive \subseteq Batch
    /\ rows \in [Id -> {"unknown", "listed", "stale"}]
    /\ snapshot = None \/ /\ snapshot.size \in 1..Cardinality(Id)
                          /\ snapshot.active \subseteq Batch
    /\ announced \subseteq Id
    /\ baseline \in Mode \union {None}
    /\ first \subseteq Id /\ lost \subseteq Id
    /\ fullLost \in BOOLEAN /\ torn \in BOOLEAN

\* The rows that a step retires.
Retired == {i \in Id : rows[i] = "listed" /\ rows'[i] = "stale"}

\* The crawls whose run ends with a step.
Ending == {r \in Run : run[r].step = "collected" /\ run'[r].step = "idle"}

\* A row is retired only if the directory did not show its company at some moment of the
\* crawl that retires it, except a company that no batch slice can show, a row of the
\* fallback page, a row of Speedrun when the API filled its page, and one that a crawl
\* retires under the mode of another (db.py:320, scanner.py:14-18, 105-110).
RetiredWasGone ==
    [][\A i \in Retired :
        \E r \in Ending :
            \/ i[1] \in run[r].missed
            \/ adapter = "yc_directory" /\ BatchOf[i[1]] = NoBatch
            \/ i[2] = "page"
            \/ adapter = "speedrun" /\ \/ Cardinality(run[r].found) = ApiLimit
                                       \/ run[r].mode # lastMode]_dirVars

\* What the first crawl wrote is never announced; every other row is, unless its own
\* ingestion stopped first (scanner.py:98-102).
AdditionsAnnounced ==
    /\ announced \intersect first = {}
    /\ \A i \in Id : rows[i] # "unknown" => i \in first \union announced \union lost

\* The size of the corpus that EARLY alerts cite is the number of companies the table
\* lists, as long as no ingestion stopped before its snapshot (db.py:365-371).
SnapshotCited ==
    (snapshot # None /\ ~torn) => snapshot.size = Cardinality(ListedIn(rows))

\* The first rows of the YC directory come from a full crawl, unless the ingestion of
\* one failed (official.py:166-171: the baseline depends on it).
BaselineFull == baseline = "hot" => fullLost
=============================================================================
