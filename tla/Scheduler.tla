----------------------------- MODULE Scheduler -----------------------------
(***************************************************************************)
(* The per-source scheduler of app/scheduler.py: one task per source that  *)
(* sleeps until its next run, runs the source, and takes the length of the *)
(* next sleep from what became of the run.  /health reads the same state.  *)
(*                                                                         *)
(* A run is one step at its start and one at its end, between which every  *)
(* other task may move.  What a run does to the directory and the posts is *)
(* the subject of Directory, Collector and Radar; here it matters what it  *)
(* returns, and that an official run says which batches are active.  The   *)
(* times of the clock are left out: a sleep ends at some time, and nextIn  *)
(* is the number of seconds the code asked for.                            *)
(***************************************************************************)
EXTENDS Integers

CONSTANTS
    Official,       \* the sources that read a directory
    Social,         \* the sources that hunt for posts
    Reconciler,     \* the state of the task that reconciles ghosts
    Interval,       \* [Source -> Nat], seconds between two runs
    WaitingRetry,   \* WAITING_RETRY_SECONDS
    FirstRetry,     \* FIRST_FAILURE_RETRY_SECONDS
    MaxBackoff,     \* MAX_BACKOFF_SECONDS
    CountedUpTo,    \* bound: the highest value of consecutive_failures kept apart
    Hanging,        \* sources whose runs need not end
    None            \* no status, no time, no outcome

Monitored == Official \union Social
Source == Monitored \union {Reconciler}

\* Statuses of a run for which no failure is counted.
Excused == {"not_configured", "waiting", "billing_blocked"}

Status == Excused \union {"ok", "error"}

Outcome == Status \union {"raised"}

\* The factor of the backoff for 1, 2, ... failures in a row; 64 for any more.
Factors == <<1, 2, 4, 8, 16, 32, 64>>

Least(a, b) == IF a <= b THEN a ELSE b

Factor(n) == Factors[Least(n, 7)]

\* A longer row of failures than CountedUpTo makes no difference to the delay.
ASSUME SchedulerAssumption ==
    /\ Reconciler \notin Monitored
    /\ Official \intersect Social = {}
    /\ Interval \in [Source -> Nat \ {0}]
    /\ WaitingRetry \in Nat \ {0}
    /\ FirstRetry \in Nat /\ FirstRetry >= WaitingRetry
    /\ MaxBackoff \in Nat /\ MaxBackoff >= FirstRetry
    /\ CountedUpTo \in 2..7
    /\ CountedUpTo = 7
         \/ \A s \in Source : Interval[s] * Factor(CountedUpTo) >= MaxBackoff
    /\ None \notin Outcome \union Nat

VARIABLES
    stopping,       \* the stop event is set and every task cancelled
    phase,          \* where the task of a source is
    lastStatus,     \* SourceState.last_status
    failures,       \* SourceState.consecutive_failures
    ran,            \* last_run is set
    succeeded,      \* last_success is set
    nextIn,         \* the delay with which next_run was last set, or None
    active,         \* per directory, whether its snapshot names active batches
    blind,          \* whether the run of a source found no active batch
    outcome         \* history: how the last finished run of a source ended

sourceState == <<lastStatus, failures, ran, succeeded, nextIn>>
schedVars == <<stopping, phase, sourceState, active, blind, outcome>>

\* A new process, whose first runs come at once or, without a startup scan, after
\* an interval; the snapshots are those of an earlier process, or none.
SchedInit ==
    /\ stopping = FALSE
    /\ \E created \in {"due", "deferred"} : phase = [s \in Source |-> created]
    /\ lastStatus = [s \in Source |-> None]
    /\ failures = [s \in Source |-> 0]
    /\ ran = [s \in Source |-> FALSE]
    /\ succeeded = [s \in Source |-> FALSE]
    /\ nextIn = [s \in Source |-> None]
    /\ active \in [Official -> BOOLEAN]
    /\ blind = [s \in Source |-> FALSE]
    /\ outcome = [s \in Source |-> None]

-----------------------------------------------------------------------------
(* Delays and labels *)

\* Faulty: the short retry follows every failure but the first.
BackoffShortLater(s, n) ==
    IF n = 0 THEN Interval[s]
    ELSE IF n = 1 THEN Least(Interval[s] * Factor(2), MaxBackoff)
    ELSE Least(FirstRetry, Interval[s])

\* backoff_seconds after n failures in a row.
BackoffSeconds(s, n) ==
    IF n = 0 THEN Interval[s]
    ELSE IF n = 1 THEN Least(FirstRetry, Interval[s])
    ELSE Least(Interval[s] * Factor(n), MaxBackoff)

\* The delay of the next run; a source that waits for a snapshot comes back soon.
Delay(s, status, n) ==
    IF status = "waiting"
    THEN Least(WaitingRetry, Interval[s])
    ELSE BackoffSeconds(s, n)

\* health_label, as /health shows it.
HealthLabel(s) ==
    CASE lastStatus[s] \in Excused -> lastStatus[s]
      [] lastStatus[s] \notin Excused /\ failures[s] >= 1 -> "degraded"
      [] lastStatus[s] \notin Excused /\ failures[s] = 0 /\ ~ran[s] -> "pending"
      [] lastStatus[s] \notin Excused /\ failures[s] = 0 /\ ran[s] /\ ~succeeded[s] ->
            "not_configured"
      [] OTHER -> "healthy"

\* production_ready of /health, with demo_mode off.
ProductionReady == \A s \in Monitored : HealthLabel(s) = "healthy"

-----------------------------------------------------------------------------
(* The loop of one source *)

\* Faulty: the sources hunt for what was active when they were created.
TargetsEmptyAtFirst(s) ==
    s \in Social /\ IF ran[s] THEN blind[s] ELSE \A o \in Official : ~active[o]

\* SocialTargets.from_db: no snapshot names a batch that is filling.
TargetsEmpty(s) == s \in Social /\ \A o \in Official : ~active[o]

\* _run_once up to the first await; a social source has its targets by then.
StartRun(s) ==
    /\ phase' = [phase EXCEPT ![s] = "running"]
    /\ ran' = [ran EXCEPT ![s] = TRUE]
    /\ blind' = [blind EXCEPT ![s] = TargetsEmpty(s)]
    /\ UNCHANGED <<lastStatus, failures, succeeded>>

\* The first step of a task that runs at once.
Begin(s) ==
    /\ phase[s] = "due"
    /\ StartRun(s)
    /\ UNCHANGED <<stopping, nextIn, active, outcome>>

\* Faulty: the time of the first run is not set.
DeferUnscheduled(s) ==
    /\ phase[s] = "deferred"
    /\ phase' = [phase EXCEPT ![s] = "sleeping"]
    /\ UNCHANGED <<stopping, sourceState, active, blind, outcome>>

\* The first step of a task that sleeps a whole interval before it runs.
Defer(s) ==
    /\ phase[s] = "deferred"
    /\ phase' = [phase EXCEPT ![s] = "sleeping"]
    /\ nextIn' = [nextIn EXCEPT ![s] = Interval[s]]
    /\ UNCHANGED <<stopping, lastStatus, failures, ran, succeeded, active, blind, outcome>>

\* The wait for the stop event times out.
Wake(s) ==
    /\ phase[s] = "sleeping"
    /\ StartRun(s)
    /\ UNCHANGED <<stopping, nextIn, active, outcome>>

\* An official run records its snapshot: its crawl names active batches, or none.
RecordSnapshot(s, named) ==
    /\ s \in Official
    /\ phase[s] = "running"
    /\ active' = [active EXCEPT ![s] = named]
    /\ UNCHANGED <<stopping, phase, sourceState, blind, outcome>>

\* How a run may end.  Without a target, collect refuses, at its start or, if another
\* run of the source has taken its targets away, where it falls back on the index; the
\* targets may not be readable at all.  "raised" is an exception out of the scanner,
\* which turns those of the sources into statuses.
Results(s) ==
    IF s = Reconciler THEN {"ok", "raised"}
    ELSE IF s \in Official THEN {"ok", "error", "raised"}
    ELSE IF blind[s] THEN {"waiting", "error", "not_configured", "raised"}
    ELSE {"ok", "error", "billing_blocked", "not_configured", "waiting", "raised"}

\* last_status after a run; one that raises leaves the old one.
StatusAfter(s, result) ==
    IF s = Reconciler \/ result = "raised" THEN lastStatus[s] ELSE result

\* Faulty: only failures that the scanner returns are counted.
FailuresAfterReturned(s, result) ==
    IF result = "ok" THEN 0
    ELSE IF result \in Excused \union {"raised"} THEN failures[s]
    ELSE Least(failures[s] + 1, CountedUpTo)

\* consecutive_failures after a run.
FailuresAfter(s, result) ==
    IF result = "ok" THEN 0
    ELSE IF result \in Excused THEN failures[s]
    ELSE Least(failures[s] + 1, CountedUpTo)

\* Faulty: an exception ends the task.
PhaseAfterUnguarded(result) == IF result = "raised" THEN "ended" ELSE "sleeping"

\* Where a task is after a run.
PhaseAfter(result) == "sleeping"

\* The rest of _run_once, and the next turn of the loop up to its wait.
Finish(s, result) ==
    /\ phase[s] = "running"
    /\ result \in Results(s)
    /\ lastStatus' = [lastStatus EXCEPT ![s] = StatusAfter(s, result)]
    /\ failures' = [failures EXCEPT ![s] = FailuresAfter(s, result)]
    /\ succeeded' = [succeeded EXCEPT ![s] = @ \/ result = "ok"]
    /\ nextIn' = [nextIn EXCEPT ![s] = Delay(s, lastStatus'[s], failures'[s])]
    /\ phase' = [phase EXCEPT ![s] = PhaseAfter(result)]
    /\ outcome' = [outcome EXCEPT ![s] = result]
    /\ UNCHANGED <<stopping, ran, active, blind>>

-----------------------------------------------------------------------------
(* Shutdown *)

\* stop: the event is set, every task is cancelled and awaited.  A cancelled task
\* takes no other step, whatever it awaited: a run is left unfinished.
Stop ==
    /\ ~stopping
    /\ stopping' = TRUE
    /\ phase' = [s \in Source |-> "ended"]
    /\ UNCHANGED <<sourceState, active, blind, outcome>>

SchedNext ==
    \/ \E s \in Source :
        \/ Begin(s)
        \/ Defer(s)
        \/ Wake(s)
        \/ \E named \in BOOLEAN : RecordSnapshot(s, named)
        \/ \E result \in Outcome : Finish(s, result)
    \/ Stop

SchedSpec == SchedInit /\ [][SchedNext]_schedVars

\* Tasks get their turns, sleeps end, and so do the runs of sources that do not hang.
SchedFairness ==
    /\ \A s \in Source : WF_schedVars(Begin(s)) /\ WF_schedVars(Defer(s)) /\ WF_schedVars(Wake(s))
    /\ \A s \in Source \ Hanging : WF_schedVars(\E result \in Outcome : Finish(s, result))

SchedLiveSpec == SchedSpec /\ SchedFairness

-----------------------------------------------------------------------------
(* Properties *)

\* Every variable has its type, and a task that sleeps knows for how long.
SchedTypeOK ==
    /\ stopping \in BOOLEAN
    /\ phase \in [Source -> {"due", "deferred", "sleeping", "running", "ended"}]
    /\ lastStatus \in [Source -> Status \union {None}]
    /\ failures \in [Source -> 0..CountedUpTo]
    /\ ran \in [Source -> BOOLEAN]
    /\ succeeded \in [Source -> BOOLEAN]
    /\ nextIn \in [Source -> Nat \union {None}]
    /\ active \in [Official -> BOOLEAN]
    /\ blind \in [Source -> BOOLEAN]
    /\ outcome \in [Source -> Outcome \union {None}]
    /\ \A s \in Source : phase[s] = "sleeping" => nextIn[s] # None

\* /health calls a source healthy exactly when its last finished run succeeded, and
\* production_ready needs that of every monitored source: no row of refusals,
\* exceptions and cancelled runs leaves a label behind that says more (scheduler.py:100).
HealthTruthful ==
    /\ \A s \in Source : HealthLabel(s) = "healthy" <=> outcome[s] = "ok"
    /\ ProductionReady <=> \A s \in Monitored : outcome[s] = "ok"

\* Two failed runs in a row never bring the third one sooner: a fault that persists
\* is not retried faster and faster, whether it is returned or raised (scheduler.py:80).
BacksOff ==
    [][\A s \in Source :
         /\ phase[s] = "running" /\ phase'[s] = "sleeping"
         /\ outcome[s] \in {"error", "raised"}
         /\ outcome'[s] \in {"error", "raised"}
         => nextIn'[s] >= nextIn[s]]_schedVars

\* Until it is stopped, a source whose runs end is run again and again, whatever
\* becomes of its own runs and even if another source hangs (scheduler.py:3-6).
KeepsRunning ==
    \A s \in Source \ Hanging : []<>(phase[s] = "running" \/ stopping)

\* Once a snapshot keeps naming active batches, a social source that lost the race
\* with the directory scan hunts, again and again (scheduler.py:45-50).
HuntsOnceTold ==
    \A s \in Social \ Hanging :
        (<>[](\E o \in Official : active[o]))
            => []<>((phase[s] = "running" /\ ~blind[s]) \/ stopping)
=============================================================================
