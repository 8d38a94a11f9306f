------------------------------- MODULE Radar -------------------------------
(***************************************************************************)
(* The detection engine over one official directory: ingest_official,      *)
(* ingest_social and reconcile_ghosts of app/engine.py, with what          *)
(* Scanner._run_source wraps around the first of them, on top of the       *)
(* outbox that flush_alerts empties (Outbox).                              *)
(*                                                                         *)
(* None of these handlers awaits anything, so on the event loop each runs  *)
(* from its first line to its last with no other task in between: while    *)
(* the variable work is not Idle, only the handler in it moves.  But each  *)
(* call of the database commits on its own, and the process may die        *)
(* between two of them: a handler is therefore a chain of steps, one per   *)
(* transaction, that HandlerStops can cut.                                *)
(*                                                                         *)
(* A signal is a post, identified by its source and external id; what the  *)
(* extractor and the scorer make of its text is given by usable and        *)
(* Strong, what the matcher makes of it and a directory row by Scoped and  *)
(* Unscoped.                                                               *)
(***************************************************************************)
EXTENDS Outbox

CONSTANTS
    Scoped,     \* Signal \X Official: match_official given the post's batch
    Unscoped,   \* Signal \X Official: match_official without a batch
    Strong,     \* signals that reach min_signal_confidence
    Rank,       \* [Signal -> Nat]: the order of gtm_score and confidence
    GhostLimit, \* the limit that list_ghosts is called with
    Doubtful,   \* signals whose text later extraction rules may refuse
    Batches,    \* the sets of posts a social source may collect
    Crawls      \* the pairs <<rows, complete>> a directory may collect

ASSUME RadarAssumption ==
    /\ Scoped \subseteq Signal \X Official
    /\ Unscoped \subseteq Signal \X Official
    /\ Strong \subseteq Signal
    /\ Rank \in [Signal -> Nat] /\ GhostLimit \in Nat \ {0} /\ IsFiniteSet(Signal)
    /\ Doubtful \subseteq Signal
    /\ Batches \subseteq SUBSET Signal
    /\ Crawls \subseteq (SUBSET Official) \X BOOLEAN
    /\ Offered = EngineRequest

VARIABLES
    companies,      \* official_companies: [Official -> {"unknown", "listed", "stale"}]
    status,         \* social_signals.status, "new" for a signal without a row
    ledger,         \* candidate_ledger.verdict, "none" for a candidate without a row
    timeline,       \* timeline_events written by the handlers, as pairs
    usable,         \* the signals whose text the current extraction rules accept
    fresh,          \* the directory's snapshot is younger than snapshot_max_age_minutes
    work,           \* the handler the event loop is in
    cut,            \* history: the signals whose handler stopped before their alert
    withheld        \* history: the ghosts whose confirmation is to announce an addition

history == <<cut, withheld>>
engineVars == <<companies, status, ledger, timeline, usable, fresh, work, cut,
                withheld>>
radarVars == <<outboxVars, engineVars>>

Status == {"new", "ghost", "possible", "already_official", "confirmed", "suppressed"}
VerdictName == {"suppressed", "already_official", "possible", "alerted"}

Idle ==
    [task |-> "idle", step |-> "none", todo |-> {}, at |-> Null, alertNew |-> FALSE,
     seen |-> {}, ghosts |-> {}, announced |-> {}, entries |-> {}]

RadarInit ==
    /\ OutboxInit
    /\ companies = [o \in Official |-> "unknown"]
    /\ status = [s \in Signal |-> IF s \in Legacy THEN "ghost" ELSE "new"]
    /\ ledger = [s \in Signal |-> "none"]
    /\ timeline = {}
    /\ usable = Signal
    /\ fresh = FALSE
    /\ work = Idle
    /\ cut = {}
    /\ withheld = {}

\* INSERT OR IGNORE on the unique event key.
RecordTimeline(events) == timeline' = timeline \union events

Listed == {o \in Official : companies[o] = "listed"}
\* Faulty: the open list has the possible signals in it, too.
GhostsAndPossible == {s \in Signal : status[s] \in {"ghost", "possible"}}

Ghosts == {s \in Signal : status[s] = "ghost"}

\* Faulty: the rows that the database comes upon first.
ListGhostsUnordered ==
    {b \in SUBSET Ghosts : /\ Cardinality(b) <= GhostLimit
                           /\ b # Ghosts => Cardinality(b) = GhostLimit}

\* list_ghosts: the highest-scored ones up to the limit; which of equals come first
\* depends on when they were detected.
ListGhosts ==
    {b \in SUBSET Ghosts : /\ Cardinality(b) <= GhostLimit
                           /\ b # Ghosts => Cardinality(b) = GhostLimit
                           /\ \A g \in b, h \in Ghosts \ b : Rank[g] >= Rank[h]}

-----------------------------------------------------------------------------
(* Official directories *)

\* collect() returned the rows of the directory; the whole snapshot is upserted in
\* one transaction, which also lists again what had been retired.  The baseline is
\* decided just before, on whether the directory ever had a row.
IngestOfficial(rows, complete) ==
    /\ work = Idle
    /\ companies' = [o \in Official |-> IF o \in rows THEN "listed" ELSE companies[o]]
    /\ work' = [Idle EXCEPT
                    !.task = "official",
                    !.step = IF complete /\ rows # {} THEN "prune" ELSE "additions",
                    !.todo = {o \in rows : companies[o] = "unknown"},
                    !.alertNew = \E o \in Official : companies[o] # "unknown",
                    !.seen = rows]
    /\ UNCHANGED <<outboxVars, status, ledger, timeline, usable, fresh, history>>

\* PRUNE_MIN_RETAINED_FRACTION: a crawl that lost more than half is not believed.
Believable(seen) == 2 * Cardinality(seen) >= Cardinality(Listed)

\* mark_absent_as_stale
PruneAbsent ==
    /\ work.task = "official" /\ work.step = "prune"
    /\ companies' =
        IF Believable(work.seen)
        THEN [o \in Official |->
                IF o \in Listed \ work.seen THEN "stale" ELSE companies[o]]
        ELSE companies
    /\ work' = [work EXCEPT !.step = "additions", !.seen = {}]
    /\ UNCHANGED <<outboxVars, status, ledger, timeline, usable, fresh, history>>

\* record_timeline_many, if there is anything new; without alerts that is all.  With
\* alerts, the open ghosts are read once for all additions.
RecordAdditions ==
    /\ work.task = "official" /\ work.step = "additions"
    /\ RecordTimeline({<<"official_detected", o>> : o \in work.todo})
    /\ IF work.alertNew
       THEN \E ghosts \in ListGhosts : work' = [work EXCEPT !.step = "announce", !.ghosts = ghosts]
       ELSE work' = [work EXCEPT !.step = "announce", !.todo = {}]
    /\ UNCHANGED <<outboxVars, companies, status, ledger, usable, fresh, history>>

\* Faulty: any signal the new company matches, open or not.
MatchingSignals(o) == {s \in Signal : status[s] # "new" /\ <<s, o>> \in Unscoped}

\* The ghosts of the list that the new company matches, batches left aside.
MatchingGhosts(o) == {g \in work.ghosts : <<g, o>> \in Unscoped}

\* One addition: announced, or left to the confirmation of the ghost it matches.
AnnounceOfficial(o) ==
    /\ work.task = "official" /\ work.step = "announce"
    /\ o \in work.todo
    /\ \/ MatchingGhosts(o) # {} /\ UNCHANGED outboxVars
       \/ MatchingGhosts(o) = {} /\ Enqueue(OfficialRequest(o))
    /\ withheld' = withheld \union (MatchingGhosts(o) \X {o})
    /\ work' = [work EXCEPT !.todo = @ \ {o}]
    /\ UNCHANGED <<companies, status, ledger, timeline, usable, fresh, cut>>

\* record_snapshot, after the last addition.
RecordSnapshot ==
    /\ work.task = "official" /\ work.step = "announce"
    /\ work.todo = {}
    /\ fresh' = TRUE
    /\ work' = Idle
    /\ UNCHANGED <<outboxVars, companies, status, ledger, timeline, usable, history>>

-----------------------------------------------------------------------------
(* Social sources *)

\* collect() returned a batch of posts.
IngestSocial(batch) ==
    /\ work = Idle
    /\ work' = [Idle EXCEPT !.task = "social", !.step = "next", !.todo = batch]
    /\ UNCHANGED <<outboxVars, companies, status, ledger, timeline, usable, fresh, history>>

OfficialMatch(s) == \E o \in Listed : <<s, o>> \in Scoped

\* The order of the tests is the code's: identity, listing, snapshot age, confidence.
Verdict(s) ==
    CASE s \notin usable -> "suppressed"
      [] s \in usable /\ OfficialMatch(s) -> "already_official"
      [] s \in usable /\ ~OfficialMatch(s) /\ ~(fresh /\ s \in Strong) -> "possible"
      [] s \in usable /\ ~OfficialMatch(s) /\ fresh /\ s \in Strong -> "alerted"

\* Faulty: the row keeps the verdict itself.
InitialStatusVerbatim(verdict) == verdict

InitialStatus(verdict) == IF verdict = "alerted" THEN "ghost" ELSE verdict

\* Faulty: a post that is seen again is judged again, row and all.
AdjudicateAgain(s) ==
    /\ work.task = "social" /\ work.step = "next"
    /\ s \in work.todo
    /\ LET verdict == Verdict(s)
           isNew == verdict # "suppressed"
       IN  /\ status' = IF isNew
                        THEN [status EXCEPT ![s] = InitialStatus(verdict)]
                        ELSE status
           /\ work' = [work EXCEPT
                        !.todo = @ \ {s},
                        !.entries = @ \union {<<s, verdict>>},
                        !.at = IF isNew THEN s ELSE Null,
                        !.step = IF isNew THEN "timeline" ELSE "next"]
    /\ UNCHANGED <<outboxVars, companies, ledger, timeline, usable, fresh, history>>

\* One post is judged: its ledger entry is noted, and unless its text was unusable
\* its row is inserted, if the post was never seen before.
Adjudicate(s) ==
    /\ work.task = "social" /\ work.step = "next"
    /\ s \in work.todo
    /\ LET verdict == Verdict(s)
           isNew == verdict # "suppressed" /\ status[s] = "new"
       IN  /\ status' = IF isNew
                        THEN [status EXCEPT ![s] = InitialStatus(verdict)]
                        ELSE status
           /\ work' = [work EXCEPT
                        !.todo = @ \ {s},
                        !.entries = @ \union {<<s, verdict>>},
                        !.at = IF isNew THEN s ELSE Null,
                        !.step = IF isNew THEN "timeline" ELSE "next"]
    /\ UNCHANGED <<outboxVars, companies, ledger, timeline, usable, fresh, history>>

\* The event every new signal gets; a possible one gets no other.
RecordDetection ==
    /\ work.task = "social" /\ work.step = "timeline"
    /\ RecordTimeline({<<"social_detected", work.at>>})
    /\ work' = IF status[work.at] = "possible"
               THEN [work EXCEPT !.step = "next", !.at = Null]
               ELSE [work EXCEPT !.step = "classify"]
    /\ UNCHANGED <<outboxVars, companies, status, ledger, usable, fresh, history>>

\* ghost_classified or already_official.
RecordClassification ==
    /\ work.task = "social" /\ work.step = "classify"
    /\ RecordTimeline({<<status[work.at], work.at>>})
    /\ work' = IF status[work.at] = "ghost"
               THEN [work EXCEPT !.step = "announce"]
               ELSE [work EXCEPT !.step = "next", !.at = Null]
    /\ UNCHANGED <<outboxVars, companies, status, ledger, usable, fresh, history>>

\* Faulty: an open ghost of the company counts as an announcement.
AlreadyDetected(s) ==
    \/ KeyOf[s] \in work.announced
    \/ \E g \in Ghosts \ {s} : KeyOf[g] = KeyOf[s]

\* The company was announced earlier in this batch, or its EARLY alert was delivered.
AlreadyAnnounced(s) ==
    \/ KeyOf[s] \in work.announced
    \/ companyAlert[<<KeyOf[s], "ghost">>] # NoRow

\* Faulty: a post about a company that any stored post names is not announced.
AnnounceGhostIfFirst ==
    /\ work.task = "social" /\ work.step = "announce"
    /\ IF \E s \in Signal \ {work.at} : status[s] # "new" /\ KeyOf[s] = KeyOf[work.at]
       THEN UNCHANGED outboxVars
       ELSE Enqueue(GhostRequest(work.at))
    /\ work' = [work EXCEPT !.step = "next", !.at = Null,
                            !.announced = @ \union {KeyOf[work.at]}]
    /\ UNCHANGED <<companies, status, ledger, timeline, usable, fresh, history>>

\* One alert per company; another post about it corroborates.
AnnounceGhost ==
    /\ work.task = "social" /\ work.step = "announce"
    /\ Enqueue(IF AlreadyAnnounced(work.at)
               THEN CorroborationRequest(work.at)
               ELSE GhostRequest(work.at))
    /\ work' = [work EXCEPT !.step = "next", !.at = Null,
                            !.announced = @ \union {KeyOf[work.at]}]
    /\ UNCHANGED <<companies, status, ledger, timeline, usable, fresh, history>>

\* record_candidates: INSERT OR REPLACE for the whole batch.
RecordCandidates ==
    /\ work.task = "social" /\ work.step = "next"
    /\ work.todo = {}
    /\ ledger' = [s \in Signal |->
                    IF \E v \in VerdictName : <<s, v>> \in work.entries
                    THEN CHOOSE v \in VerdictName : <<s, v>> \in work.entries
                    ELSE ledger[s]]
    /\ work' = Idle
    /\ UNCHANGED <<outboxVars, companies, status, timeline, usable, fresh, history>>

-----------------------------------------------------------------------------
(* Reconciliation *)

\* reconcile_ghosts begins, with the ghosts that list_ghosts returns.
ReconcileGhosts ==
    /\ work = Idle
    /\ Ghosts # {}
    /\ \E ghosts \in ListGhosts :
        work' = [Idle EXCEPT !.task = "reconcile", !.step = "next", !.todo = ghosts,
                             !.ghosts = ghosts]
    /\ UNCHANGED <<outboxVars, companies, status, ledger, timeline, usable, fresh, history>>

\* Its text would no longer be admitted.
RetireGhost(g) ==
    /\ work.task = "reconcile" /\ work.step = "next"
    /\ g \in work.todo /\ g \notin usable
    /\ status' = [status EXCEPT ![g] = "suppressed"]
    /\ work' = [work EXCEPT !.todo = @ \ {g}, !.at = g, !.step = "retired"]
    /\ UNCHANGED <<outboxVars, companies, ledger, timeline, usable, fresh, history>>

RecordRetirement ==
    /\ work.task = "reconcile" /\ work.step = "retired"
    /\ RecordTimeline({<<"retired", work.at>>})
    /\ work' = [work EXCEPT !.at = Null, !.step = "next"]
    /\ UNCHANGED <<outboxVars, companies, status, ledger, usable, fresh, history>>

KeepGhost(g) ==
    /\ work.task = "reconcile" /\ work.step = "next"
    /\ g \in work.todo /\ g \in usable /\ ~OfficialMatch(g)
    /\ work' = [work EXCEPT !.todo = @ \ {g}]
    /\ UNCHANGED <<outboxVars, companies, status, ledger, timeline, usable, fresh, history>>

\* confirm_signal
ConfirmGhost(g) ==
    /\ work.task = "reconcile" /\ work.step = "next"
    /\ g \in work.todo /\ g \in usable /\ OfficialMatch(g)
    /\ status' = [status EXCEPT ![g] = "confirmed"]
    /\ work' = [work EXCEPT !.todo = @ \ {g}, !.at = g, !.step = "confirmed"]
    /\ UNCHANGED <<outboxVars, companies, ledger, timeline, usable, fresh, history>>

RecordConfirmation ==
    /\ work.task = "reconcile" /\ work.step = "confirmed"
    /\ RecordTimeline({<<"official_confirmed", work.at>>})
    /\ work' = [work EXCEPT !.step = "announce"]
    /\ UNCHANGED <<outboxVars, companies, status, ledger, usable, fresh, history>>

\* Faulty: only a company whose EARLY alert was delivered is confirmed.
AnnounceConfirmedReply(o) ==
    /\ work.task = "reconcile" /\ work.step = "announce"
    /\ o \in Listed /\ <<work.at, o>> \in Scoped
    /\ IF companyAlert[<<KeyOf[work.at], "ghost">>] = NoRow
       THEN UNCHANGED outboxVars
       ELSE Enqueue(ConfirmedRequest(work.at, o))
    /\ work' = [work EXCEPT !.at = Null, !.step = "next"]
    /\ UNCHANGED <<companies, status, ledger, timeline, usable, fresh, history>>

\* Exactly one confirmation per company; the matched row is what the matcher chose.
AnnounceConfirmed(o) ==
    /\ work.task = "reconcile" /\ work.step = "announce"
    /\ o \in Listed /\ <<work.at, o>> \in Scoped
    /\ Enqueue(ConfirmedRequest(work.at, o))
    /\ work' = [work EXCEPT !.at = Null, !.step = "next"]
    /\ UNCHANGED <<companies, status, ledger, timeline, usable, fresh, history>>

ReconcileDone ==
    /\ work.task = "reconcile" /\ work.step = "next"
    /\ work.todo = {}
    /\ work' = Idle
    /\ UNCHANGED <<outboxVars, companies, status, ledger, timeline, usable, fresh, history>>

-----------------------------------------------------------------------------
(* The rest of the world *)

\* Time passes, and the snapshot is too old to adjudicate against.
SnapshotAges ==
    /\ work = Idle
    /\ fresh
    /\ fresh' = FALSE
    /\ UNCHANGED <<outboxVars, companies, status, ledger, timeline, usable, work, history>>

\* A release restarts the service with extraction rules that refuse s.
RulesImprove(s) ==
    /\ work = Idle /\ flushLock = Null
    /\ s \in Doubtful \intersect usable
    /\ usable' = usable \ {s}
    /\ UNCHANGED <<outboxVars, companies, status, ledger, timeline, fresh, work, history>>

\* The signal the handler at work has written without the alert that belongs to it.
Unannounced ==
    {s \in {work.at} \ {Null} : status[s] \in {"ghost", "confirmed"}}

\* Faulty: the queue lives in memory and a handler that stops takes it along.
HandlerStopsForgetting ==
    /\ work # Idle /\ flushLock = Null
    /\ work' = Idle
    /\ outbox' = <<>>
    /\ cut' = cut \union Unannounced
    /\ UNCHANGED <<companyAlert, alerted, receipts, flushLock, flush, channel, lost,
                   companies, status, ledger, timeline, usable, fresh, withheld>>

\* A call of the database raises in the middle of a handler, or the process dies
\* there: what was committed before stays.  A process that dies takes a flush that
\* waits for Slack along; the handler reads nothing that this changes, so it is the
\* interruption of that flush just before the handler began.
HandlerStops ==
    /\ work # Idle
    /\ work' = Idle
    /\ cut' = cut \union Unannounced
    /\ UNCHANGED <<outboxVars, companies, status, ledger, timeline, usable, fresh, withheld>>

\* flush_alerts runs, or is interrupted, while no handler holds the event loop.
Flush(t) ==
    /\ work = Idle
    /\ FlushStep(t)
    /\ UNCHANGED engineVars

-----------------------------------------------------------------------------

OfficialStep ==
    \/ PruneAbsent
    \/ RecordAdditions
    \/ \E o \in Official : AnnounceOfficial(o)
    \/ RecordSnapshot

SocialStep ==
    \/ \E s \in Signal : Adjudicate(s)
    \/ RecordDetection
    \/ RecordClassification
    \/ AnnounceGhost
    \/ RecordCandidates

ReconcileStep ==
    \/ \E g \in Signal : RetireGhost(g) \/ KeepGhost(g) \/ ConfirmGhost(g)
    \/ RecordRetirement
    \/ RecordConfirmation
    \/ \E o \in Official : AnnounceConfirmed(o)
    \/ ReconcileDone

HandlerStep == OfficialStep \/ SocialStep \/ ReconcileStep

RadarNext ==
    \/ \E c \in Crawls : IngestOfficial(c[1], c[2])
    \/ \E b \in Batches : IngestSocial(b)
    \/ ReconcileGhosts
    \/ HandlerStep
    \/ SnapshotAges
    \/ \E s \in Signal : RulesImprove(s)
    \/ HandlerStops
    \/ \E t \in Task : Flush(t)

RadarSpec == RadarInit /\ [][RadarNext]_radarVars

-----------------------------------------------------------------------------
(* Properties *)

Work ==
    [task : {"idle", "official", "social", "reconcile"},
     step : {"none", "prune", "additions", "announce", "next", "timeline", "classify",
             "retired", "confirmed"},
     todo : SUBSET (Signal \union Official), at : Signal \union {Null}, alertNew : BOOLEAN,
     seen : SUBSET Official, ghosts : SUBSET Signal, announced : SUBSET Company,
     entries : SUBSET (Signal \X VerdictName)]

EngineTypeOK ==
    /\ companies \in [Official -> {"unknown", "listed", "stale"}]
    /\ status \in [Signal -> Status]
    /\ ledger \in [Signal -> VerdictName \union {"none"}]
    /\ usable \subseteq Signal
    /\ fresh \in BOOLEAN
    /\ work \in Work
    /\ cut \subseteq Signal
    /\ withheld \subseteq Signal \X Official

RadarTypeOK == OutboxTypeOK /\ EngineTypeOK

\* "A second independent source for the same company replies in the original Slack
\* thread" (README): a corroboration that stands outside a thread is about a company
\* whose EARLY alert was given up, whoever enqueued what in whichever order.
CorroborationsThreaded ==
    \A k \in DOMAIN channel :
        channel[k].dedupe[1] = "corroboration" /\ channel[k].thread = NoThread =>
            \E i \in DOMAIN outbox :
                /\ outbox[i].dedupe = <<"ghost", KeyOf[channel[k].signal]>>
                /\ outbox[i].status = "dead"

\* "The engine persists state before notifying Slack": when no handler runs, every
\* ghost has an alert of its company or a corroboration of its own in the outbox,
\* unless a handler was cut between its row and its alert.
GhostsAnnounced ==
    work = Idle =>
        \A s \in Ghosts \ (Legacy \union cut) :
            \E i \in DOMAIN outbox :
                outbox[i].dedupe \in {<<"ghost", KeyOf[s]>>, <<"corroboration", s>>}

\* "Exactly one confirmation per company, however many posts corroborated it": never
\* two (the outbox sees to that), and for a confirmed signal never none.
ConfirmationsAnnounced ==
    work = Idle =>
        \A s \in Signal \ cut :
            status[s] = "confirmed" =>
                \E i \in DOMAIN outbox : outbox[i].dedupe = <<"confirmed", KeyOf[s]>>

\* A confirmation reports that a directory caught up with a company the channel knows:
\* its EARLY alert came before, unless Slack refused it for good, a crash swallowed
\* it, or the signal is older than company keys.
ConfirmedFollowsEarly ==
    \A k \in DOMAIN channel :
        channel[k].dedupe[1] = "confirmed" /\ channel[k].signal \notin Legacy \union cut =>
            \/ \E j \in 1..(k - 1) : channel[j].dedupe = <<"ghost", KeyOf[channel[k].signal]>>
            \/ \E i \in DOMAIN outbox :
                    /\ outbox[i].dedupe = <<"ghost", KeyOf[channel[k].signal]>>
                    /\ outbox[i].status = "dead"

\* A post is adjudicated once: what it was at first sight only a ghost may change,
\* to confirmed or to suppressed, and no later sighting or crash reopens it.
StatusHistory ==
    [][\A s \in Signal :
        status'[s] # status[s] =>
            \/ status[s] = "new" /\ status'[s] \in {"ghost", "possible", "already_official"}
            \/ status[s] = "ghost" /\ status'[s] \in {"confirmed", "suppressed"}]_radarVars

\* reconcile_ghosts has done its last ghost.
ReconcileEnds == work.task = "reconcile" /\ work.step = "next" /\ work.todo = {}

\* A ghost for which the list had no place.
Overlooked(g) ==
    /\ g \in Ghosts \ work.ghosts
    /\ Cardinality(work.ghosts) = GhostLimit
    /\ \A h \in work.ghosts : Rank[h] >= Rank[g]

\* A reconciliation that has done its last ghost leaves none open that the current rules
\* refuse, and none that a listed company matches, except behind a full list of ghosts
\* that score no less.
ReconcileComplete ==
    ReconcileEnds =>
        \A g \in Ghosts : Overlooked(g) \/ (g \in usable /\ ~OfficialMatch(g))

\* "A matching ghost gets the stronger confirmation alert during reconciliation": once
\* ghosts are reconciled, the ghost that an unannounced addition was left to is confirmed,
\* unless it was retired, matched only because ingest_official ignores its batch, or has
\* been pushed from the list by others meanwhile.
WithheldAnswered ==
    ReconcileEnds =>
        \A g \in Signal, o \in Listed :
            <<g, o>> \in withheld \intersect Scoped =>
                status[g] \in {"confirmed", "suppressed"} \/ Overlooked(g)

\* What the engine does to the outbox, failures and crashes included, is what the
\* outbox expects of its callers: the theorems about Outbox hold for the service.
RadarUsesOutbox == OutboxSpec

-----------------------------------------------------------------------------
(* The inductive invariant behind them *)

\* A migrated row is stored already, so no handler ever inserts it.
LegacyStored == \A s \in Legacy : status[s] # "new"

\* A post between its insertion and its alert is one that was just inserted.
InsertedIsNew ==
    work.task = "social" /\ work.step \in {"timeline", "classify", "announce"} =>
        work.at \in Signal \ Legacy

\* What reconciliation still has to look at is an open ghost.
ReconcilesGhosts == work.task = "reconcile" => work.todo \subseteq Ghosts

EngineInv == EngineTypeOK /\ LegacyStored /\ InsertedIsNew /\ ReconcilesGhosts

\* Some alert was enqueued under this dedupe key; the EARLY alert of c was given up.
Enqueued(d) == \E i \in DOMAIN outbox : outbox[i].dedupe = d
EarlyDead(c) ==
    \E i \in DOMAIN outbox : outbox[i].dedupe = <<"ghost", c>> /\ outbox[i].status = "dead"

\* The signal whose alert, or whose confirmation, the handler has still to enqueue.
Detecting ==
    IF work.task = "social" /\ work.step \in {"timeline", "classify", "announce"}
    THEN {work.at} ELSE {}
Confirming ==
    IF work.task = "reconcile" /\ work.step \in {"confirmed", "announce"}
    THEN {work.at} ELSE {}

\* Such a signal was just inserted, or just confirmed.
AtDecided ==
    /\ \A s \in Detecting : status[s] \in {"ghost", "possible", "already_official"}
    /\ \A s \in Confirming : status[s] = "confirmed"

\* Every other ghost, confirmed since or not, has an alert of its company or a
\* corroboration of its own, unless the handler that inserted it was cut; every other
\* confirmed signal has the confirmation of its company.
DetectedEnqueued ==
    \A s \in Signal \ (Legacy \union cut \union Detecting) :
        status[s] \in {"ghost", "confirmed"} =>
            Enqueued(<<"ghost", KeyOf[s]>>) \/ Enqueued(<<"corroboration", s>>)

ConfirmedEnqueued ==
    \A s \in Signal \ (cut \union Confirming) :
        status[s] = "confirmed" => Enqueued(<<"confirmed", KeyOf[s]>>)

\* A company that the batch or company_alerts takes for announced has its EARLY alert,
\* and an EARLY alert that was sent left the timestamp to reply to.
AnnouncedEnqueued ==
    /\ \A c \in work.announced : Enqueued(<<"ghost", c>>)
    /\ \A c \in Company : companyAlert[<<c, "ghost">>] # NoRow => Enqueued(<<"ghost", c>>)

SentRemembered ==
    \A i \in DOMAIN outbox :
        outbox[i].dedupe[1] = "ghost" /\ outbox[i].status = "sent" =>
            companyAlert[<<outbox[i].dedupe[2], "ghost">>] > 0

\* A corroboration or a confirmation stands behind the EARLY alert of its company.
BehindEarly ==
    \A i \in DOMAIN outbox :
        \/ outbox[i].dedupe[1] = "corroboration"
        \/ outbox[i].dedupe[1] = "confirmed" /\ outbox[i].signal \notin Legacy \union cut
        => \E j \in 1..(i - 1) : outbox[j].dedupe = <<"ghost", KeyOf[outbox[i].signal]>>

\* A corroboration that is on its way without a thread has none to stand in.
FlushThreaded ==
    \A t \in Task :
        /\ flushLock = t
        /\ KindOf(Current(t)) = "corroboration"
        /\ flush[t].thread = NoThread
        => EarlyDead(KeyOf[Current(t).signal])

AlertInv ==
    /\ AtDecided
    /\ DetectedEnqueued
    /\ ConfirmedEnqueued
    /\ AnnouncedEnqueued
    /\ SentRemembered
    /\ BehindEarly
    /\ FlushThreaded
    /\ CorroborationsThreaded
    /\ ConfirmedFollowsEarly

\* The ghosts that reconciliation has looked at and left open are fine.
OpenGhostsChecked ==
    work.task = "reconcile" =>
        \A g \in Ghosts \ work.todo : Overlooked(g) \/ (g \in usable /\ ~OfficialMatch(g))

\* A listing is only ever withheld for what was a ghost.
WithheldForGhosts ==
    \A p \in withheld : status[p[1]] \in {"ghost", "confirmed", "suppressed"}

\* The list of ghosts a handler has read holds nothing that was never one.
ListWasGhosts ==
    \A g \in work.ghosts : status[g] \in {"ghost", "confirmed", "suppressed"}

ReconcileInv == OpenGhostsChecked /\ WithheldForGhosts /\ ListWasGhosts

-----------------------------------------------------------------------------
(* What the timeline and the ledger say of the signals *)

\* The statuses of a signal of which the timeline tells this event.
StatusAfter ==
    [social_detected |-> Status \ {"new"}, ghost |-> {"ghost", "confirmed", "suppressed"},
     already_official |-> {"already_official"}, official_confirmed |-> {"confirmed"},
     retired |-> {"suppressed"}]

\* An event of the timeline is never taken back by what follows it.
TimelineTruthful ==
    \A s \in Signal, e \in DOMAIN StatusAfter :
        <<e, s>> \in timeline => status[s] \in StatusAfter[e]

\* A row of the ledger has a signal to be reached, unless the post was refused: otherwise it
\* "is half an audit trail" (engine.py:236).
LedgerHasSignal ==
    \A s \in Signal : ledger[s] \notin {"none", "suppressed"} => status[s] # "new"

\* So have the verdicts of the batch at work; and the signal at work is what will be told
\* of it.
VerdictsHaveSignal ==
    \A s \in Signal, v \in VerdictName \ {"suppressed"} :
        <<s, v>> \in work.entries => status[s] # "new"

TellsStatus ==
    /\ work.task = "social" /\ work.step \in {"timeline", "classify"} =>
        status[work.at] \in {"ghost", "possible", "already_official"}
    /\ work.task = "social" /\ work.step = "classify" => status[work.at] # "possible"
    /\ work.task = "reconcile" /\ work.step = "confirmed" => status[work.at] = "confirmed"
    /\ work.task = "reconcile" /\ work.step = "retired" => status[work.at] = "suppressed"

RecordsInv == TimelineTruthful /\ LedgerHasSignal /\ VerdictsHaveSignal /\ TellsStatus
=============================================================================
