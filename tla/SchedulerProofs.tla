--------------------------- MODULE SchedulerProofs --------------------------
(***************************************************************************)
(* Theorems about Scheduler: for any sources, intervals and delays, the    *)
(* label of a source says how its last run ended, and a source that keeps  *)
(* failing is never retried sooner.                                        *)
(***************************************************************************)
EXTENDS Scheduler, TLAPS

\* What the label is read from agrees with how the last run ended.
LabelAgrees(s) ==
    /\ phase[s] = "running" => ran[s]
    /\ s = Reconciler => lastStatus[s] = None
    /\ outcome[s] = "ok" =>
            lastStatus[s] \notin Excused /\ failures[s] = 0 /\ ran[s] /\ succeeded[s]
    /\ (lastStatus[s] \notin Excused /\ failures[s] = 0 /\ succeeded[s]) => outcome[s] = "ok"

LabelInputs == \A s \in Source : LabelAgrees(s)

\* After its first run a source sleeps for the delay that its status and its
\* failures call for; nothing else sets the time of the next run any more.
DelayInForce ==
    \A s \in Source :
        /\ phase[s] \in {"due", "deferred"} => outcome[s] = None
        /\ outcome[s] # None => nextIn[s] = Delay(s, lastStatus[s], failures[s])
        /\ outcome[s] \in {"error", "raised"} => failures[s] >= 1

\* The inductive invariant.
SchedInv == SchedTypeOK /\ LabelInputs /\ DelayInForce

-----------------------------------------------------------------------------
(* Delays *)

\* A factor of the backoff is one of seven powers of two.
LEMMA FactorIs ==
    ASSUME NEW n \in Nat \ {0}
    PROVE  Factor(n) \in {1, 2, 4, 8, 16, 32, 64}
<1>1. Least(n, 7) \in 1..7
  BY DEF Least
<1>2. \A k \in 1..7 : Factors[k] \in {1, 2, 4, 8, 16, 32, 64}
  BY DEF Factors
<1> QED
  BY <1>1, <1>2 DEF Factor

\* The factors grow.
LEMMA FactorsGrow ==
    ASSUME NEW n \in Nat \ {0}
    PROVE  Factor(n) <= Factor(n + 1)
<1>1. CASE n >= 7
  <2>1. Least(n, 7) = 7 /\ Least(n + 1, 7) = 7
    BY <1>1 DEF Least
  <2>2. Factor(n) = Factors[7] /\ Factor(n + 1) = Factors[7]
    BY <2>1 DEF Factor
  <2>3. Factors[7] = 64
    BY DEF Factors
  <2> QED
    BY <2>2, <2>3
<1>2. CASE n \in 1..6
  <2>1. Least(n, 7) = n /\ Least(n + 1, 7) = n + 1
    BY <1>2 DEF Least
  <2>2. \A k \in 1..6 : Factors[k] <= Factors[k + 1]
    BY DEF Factors
  <2> QED
    BY <1>2, <2>1, <2>2 DEF Factor
<1> QED
  BY <1>1, <1>2

\* An interval times a factor: at least the interval, and more for a larger factor.
LEMMA Stretched ==
    ASSUME NEW i \in Nat, NEW a \in {1, 2, 4, 8, 16, 32, 64},
           NEW b \in {1, 2, 4, 8, 16, 32, 64}, a <= b
    PROVE  /\ i * a \in Nat
           /\ i <= i * a
           /\ i * a <= i * b
<1>1. \A k \in {1, 2, 4, 8, 16, 32, 64} : i * k \in Nat /\ i <= i * k
  OBVIOUS
<1>2. CASE a = 1
  BY <1>1, <1>2
<1>3. CASE a = 2
  BY <1>3
<1>4. CASE a = 4
  BY <1>4
<1>5. CASE a = 8
  BY <1>5
<1>6. CASE a = 16
  BY <1>6
<1>7. CASE a = 32
  BY <1>7
<1>8. CASE a = 64
  BY <1>8
<1> QED
  BY <1>1, <1>2, <1>3, <1>4, <1>5, <1>6, <1>7, <1>8

\* A backoff is a number of seconds and, after any failure, no shorter than the
\* delay of a source that waits.
LEMMA BackoffAtLeastWaiting ==
    ASSUME NEW s \in Source, NEW n \in Nat
    PROVE  /\ BackoffSeconds(s, n) \in Nat
           /\ n >= 1 => BackoffSeconds(s, n) >= Least(WaitingRetry, Interval[s])
<1>1. /\ Interval[s] \in Nat /\ Interval[s] >= 1
      /\ WaitingRetry \in Nat /\ FirstRetry \in Nat /\ MaxBackoff \in Nat
      /\ WaitingRetry <= FirstRetry /\ FirstRetry <= MaxBackoff
  BY SchedulerAssumption
<1>2. CASE n <= 1
  BY <1>1, <1>2 DEF BackoffSeconds, Least
<1>3. CASE n >= 2
  <2>1. Factor(n) \in {1, 2, 4, 8, 16, 32, 64}
    BY <1>3, FactorIs
  <2>2. Interval[s] * Factor(n) \in Nat /\ Interval[s] <= Interval[s] * Factor(n)
    BY <1>1, <2>1, Stretched
  <2>3. BackoffSeconds(s, n) = Least(Interval[s] * Factor(n), MaxBackoff)
    BY <1>3 DEF BackoffSeconds
  <2> QED
    BY <1>1, <2>2, <2>3 DEF Least
<1> QED
  BY <1>2, <1>3

\* One more failure never shortens the backoff.
LEMMA BackoffGrows ==
    ASSUME NEW s \in Source, NEW n \in Nat \ {0}
    PROVE  BackoffSeconds(s, n) <= BackoffSeconds(s, n + 1)
<1>1. /\ Interval[s] \in Nat /\ Interval[s] >= 1
      /\ FirstRetry \in Nat /\ MaxBackoff \in Nat /\ FirstRetry <= MaxBackoff
  BY SchedulerAssumption
<1>2. /\ Factor(n) \in {1, 2, 4, 8, 16, 32, 64}
      /\ Factor(n + 1) \in {1, 2, 4, 8, 16, 32, 64}
      /\ Factor(n) <= Factor(n + 1)
  BY FactorIs, FactorsGrow
<1>3. /\ Interval[s] * Factor(n) \in Nat
      /\ Interval[s] * Factor(n + 1) \in Nat
      /\ Interval[s] <= Interval[s] * Factor(n + 1)
      /\ Interval[s] * Factor(n) <= Interval[s] * Factor(n + 1)
  BY <1>1, <1>2, Stretched
<1>4. BackoffSeconds(s, n + 1) = Least(Interval[s] * Factor(n + 1), MaxBackoff)
  BY DEF BackoffSeconds
<1>5. CASE n = 1
  <2>1. BackoffSeconds(s, n) = Least(FirstRetry, Interval[s])
    BY <1>5 DEF BackoffSeconds
  <2> QED
    BY <1>1, <1>3, <1>4, <2>1 DEF Least
<1>6. CASE n # 1
  <2>1. BackoffSeconds(s, n) = Least(Interval[s] * Factor(n), MaxBackoff)
    BY <1>6 DEF BackoffSeconds
  <2> QED
    BY <1>1, <1>3, <1>4, <2>1 DEF Least
<1> QED
  BY <1>5, <1>6

\* Every delay is a number of seconds.
LEMMA DelayIsNat ==
    ASSUME NEW s \in Source, NEW status, NEW n \in Nat
    PROVE  Delay(s, status, n) \in Nat
  BY BackoffAtLeastWaiting, SchedulerAssumption DEF Delay, Least

-----------------------------------------------------------------------------
(* The invariant is inductive *)

\* The initial states satisfy the invariant.
LEMMA InitInv == SchedInit => SchedInv
<1>1. None \notin Excused \union {"ok", "error", "raised"} /\ CountedUpTo \in Nat
  BY SchedulerAssumption DEF Outcome, Status
<1>2. SchedInit => SchedTypeOK
  <2> SUFFICES ASSUME SchedInit PROVE SchedTypeOK
    OBVIOUS
  <2>1. PICK created \in {"due", "deferred"} : phase = [s \in Source |-> created]
    BY DEF SchedInit
  <2>2. /\ phase \in [Source -> {"due", "deferred", "sleeping", "running", "ended"}]
        /\ \A s \in Source : phase[s] # "sleeping"
    BY <2>1
  <2>3. failures \in [Source -> 0..CountedUpTo] /\ nextIn \in [Source -> Nat \union {None}]
    BY <1>1 DEF SchedInit
  <2>4. /\ lastStatus \in [Source -> Status \union {None}]
        /\ outcome \in [Source -> Outcome \union {None}]
    BY DEF SchedInit
  <2>5. /\ stopping \in BOOLEAN
        /\ ran \in [Source -> BOOLEAN]
        /\ succeeded \in [Source -> BOOLEAN]
        /\ blind \in [Source -> BOOLEAN]
        /\ active \in [Official -> BOOLEAN]
    BY DEF SchedInit
  <2> QED
    BY <2>2, <2>3, <2>4, <2>5 DEF SchedTypeOK
<1>3. SchedInit => LabelInputs
  BY <1>1 DEF SchedInit, LabelInputs, LabelAgrees
<1>4. SchedInit => DelayInForce
  BY <1>1 DEF SchedInit, DelayInForce
<1> QED
  BY <1>2, <1>3, <1>4 DEF SchedInv

\* What a run may end with is an outcome; the task of ghosts is never excused.
LEMMA ResultsAreOutcomes ==
    ASSUME NEW s \in Source, NEW result \in Results(s)
    PROVE  /\ result \in Outcome
           /\ s = Reconciler => result \in {"ok", "raised"}
  BY DEF Results, Outcome, Status, Excused

\* The start of a run changes nothing that labels and delays are read from, except ran.
LEMMA StartKeeps ==
    ASSUME SchedInv, NEW s \in Source, StartRun(s),
           UNCHANGED <<stopping, nextIn, active, outcome>>
    PROVE  SchedInv'
<1>1. TargetsEmpty(s) \in BOOLEAN
  BY DEF TargetsEmpty
<1>2. SchedTypeOK'
  BY <1>1 DEF SchedInv, SchedTypeOK, StartRun
<1>3. LabelInputs'
  BY DEF SchedInv, SchedTypeOK, LabelInputs, LabelAgrees, StartRun
<1>4. DelayInForce'
  BY DEF SchedInv, SchedTypeOK, DelayInForce, StartRun, Delay, BackoffSeconds
<1> QED
  BY <1>2, <1>3, <1>4 DEF SchedInv

\* A task that first sleeps an interval has not run yet.
LEMMA DeferKeeps ==
    ASSUME SchedInv, NEW s \in Source, Defer(s)
    PROVE  SchedInv'
<1>1. Interval[s] \in Nat /\ None \notin Nat
  BY SchedulerAssumption
<1>2. SchedTypeOK'
  BY <1>1 DEF SchedInv, SchedTypeOK, Defer
<1>3. LabelInputs'
  BY DEF SchedInv, LabelInputs, LabelAgrees, Defer
<1>4. outcome[s] = None
  BY DEF SchedInv, DelayInForce, Defer
<1>5. DelayInForce'
  BY <1>4 DEF SchedInv, SchedTypeOK, DelayInForce, Defer, Delay, BackoffSeconds
<1> QED
  BY <1>2, <1>3, <1>5 DEF SchedInv

\* A snapshot is none of the state of a source.
LEMMA RecordKeeps ==
    ASSUME SchedInv, NEW s \in Source, NEW named \in BOOLEAN, RecordSnapshot(s, named)
    PROVE  SchedInv'
  BY DEF SchedInv, SchedTypeOK, LabelInputs, LabelAgrees, DelayInForce, RecordSnapshot,
         sourceState, Delay, BackoffSeconds

\* The number of failures after a run.
LEMMA FailuresCounted ==
    ASSUME SchedInv, NEW s \in Source, NEW result \in Outcome
    PROVE  /\ FailuresAfter(s, result) \in 0..CountedUpTo
           /\ result \in {"error", "raised"} => FailuresAfter(s, result) >= 1
           /\ result = "ok" => FailuresAfter(s, result) = 0
           /\ result \in Excused => FailuresAfter(s, result) = failures[s]
  BY SchedulerAssumption DEF SchedInv, SchedTypeOK, FailuresAfter, Least, Excused, Outcome, Status

\* The end of a run sets label and delay by how it ended.
LEMMA FinishKeeps ==
    ASSUME SchedInv, NEW s \in Source, NEW result \in Outcome, Finish(s, result)
    PROVE  SchedInv'
<1>1. /\ result \in Results(s)
      /\ lastStatus' = [lastStatus EXCEPT ![s] = StatusAfter(s, result)]
      /\ failures' = [failures EXCEPT ![s] = FailuresAfter(s, result)]
      /\ succeeded' = [succeeded EXCEPT ![s] = @ \/ result = "ok"]
      /\ nextIn' = [nextIn EXCEPT ![s] = Delay(s, lastStatus'[s], failures'[s])]
      /\ phase' = [phase EXCEPT ![s] = "sleeping"]
      /\ outcome' = [outcome EXCEPT ![s] = result]
      /\ UNCHANGED <<stopping, ran, active, blind>>
  BY DEF Finish, PhaseAfter
<1>2. StatusAfter(s, result) \in Status \union {None}
  BY DEF SchedInv, SchedTypeOK, StatusAfter, Outcome
<1>3. /\ FailuresAfter(s, result) \in 0..CountedUpTo
      /\ result \in {"error", "raised"} => FailuresAfter(s, result) >= 1
      /\ result = "ok" => FailuresAfter(s, result) = 0
      /\ result \in Excused => FailuresAfter(s, result) = failures[s]
  BY FailuresCounted
<1>4. CountedUpTo \in Nat
  BY SchedulerAssumption
<1>5. /\ lastStatus'[s] = StatusAfter(s, result)
      /\ failures'[s] = FailuresAfter(s, result)
      /\ nextIn'[s] = Delay(s, lastStatus'[s], failures'[s])
      /\ outcome'[s] = result
      /\ phase'[s] = "sleeping"
      /\ succeeded'[s] = (succeeded[s] \/ result = "ok")
  BY <1>1 DEF SchedInv, SchedTypeOK
<1>6. nextIn'[s] \in Nat
  BY <1>3, <1>4, <1>5, DelayIsNat
<1>7. SchedTypeOK'
  <2>1. nextIn' \in [Source -> Nat \union {None}] /\ nextIn'[s] # None
    BY <1>1, <1>5, <1>6, SchedulerAssumption DEF SchedInv, SchedTypeOK
  <2>2. outcome' \in [Source -> Outcome \union {None}]
    BY <1>1 DEF SchedInv, SchedTypeOK
  <2>3. failures' \in [Source -> 0..CountedUpTo]
    BY <1>1, <1>3 DEF SchedInv, SchedTypeOK
  <2>4. lastStatus' \in [Source -> Status \union {None}]
    BY <1>1, <1>2 DEF SchedInv, SchedTypeOK
  <2>5. succeeded' \in [Source -> BOOLEAN]
    BY <1>1 DEF SchedInv, SchedTypeOK
  <2>6. /\ phase' \in [Source -> {"due", "deferred", "sleeping", "running", "ended"}]
        /\ \A t \in Source : phase'[t] = "sleeping" => nextIn'[t] # None
    BY <1>1, <2>1 DEF SchedInv, SchedTypeOK
  <2> QED
    BY <1>1, <2>1, <2>2, <2>3, <2>4, <2>5, <2>6 DEF SchedInv, SchedTypeOK
<1>8. \A t \in Source : t # s =>
        /\ lastStatus'[t] = lastStatus[t] /\ failures'[t] = failures[t]
        /\ succeeded'[t] = succeeded[t] /\ nextIn'[t] = nextIn[t]
        /\ phase'[t] = phase[t] /\ outcome'[t] = outcome[t]
  BY <1>1 DEF SchedInv, SchedTypeOK
<1>9. LabelInputs'
  <2>1. ran'[s]
    BY <1>1 DEF SchedInv, LabelInputs, LabelAgrees, Finish
  <2>2. ASSUME NEW t \in Source, t # s PROVE LabelAgrees(t)'
    BY <1>1, <1>8, <2>2 DEF SchedInv, LabelInputs, LabelAgrees
  <2>3. s = Reconciler => lastStatus'[s] = None
    BY <1>5 DEF StatusAfter, SchedInv, LabelInputs, LabelAgrees
  <2>4. ASSUME result = "ok" PROVE LabelAgrees(s)'
    <3>1. lastStatus'[s] \notin Excused
      BY <1>5, <2>4, SchedulerAssumption
      DEF StatusAfter, SchedInv, LabelInputs, LabelAgrees, Excused, Outcome, Status
    <3> QED
      BY <1>3, <1>5, <2>1, <2>3, <2>4, <3>1 DEF LabelAgrees
  <2>5. ASSUME result \in Excused PROVE LabelAgrees(s)'
    <3>1. lastStatus'[s] \in Excused
      BY <1>1, <1>5, <2>5, ResultsAreOutcomes DEF StatusAfter, Excused
    <3> QED
      BY <1>5, <2>1, <2>3, <2>5, <3>1 DEF LabelAgrees, Excused
  <2>6. ASSUME result \in {"error", "raised"} PROVE LabelAgrees(s)'
    <3>1. failures'[s] # 0
      BY <1>3, <1>4, <1>5, <2>6
    <3> QED
      BY <1>5, <2>1, <2>3, <2>6, <3>1 DEF LabelAgrees
  <2>7. LabelAgrees(s)'
    BY <2>4, <2>5, <2>6 DEF Outcome, Status
  <2> QED
    BY <2>2, <2>7 DEF LabelInputs
<1>10. DelayInForce'
  <2>1. result # None
    BY SchedulerAssumption
  <2> QED
    BY <1>3, <1>5, <1>8, <2>1 DEF SchedInv, DelayInForce, Delay, BackoffSeconds
<1> QED
  BY <1>7, <1>9, <1>10 DEF SchedInv

\* Nothing is read from the state of a task that has ended.
LEMMA StopKeeps ==
    ASSUME SchedInv, Stop
    PROVE  SchedInv'
  BY DEF SchedInv, SchedTypeOK, LabelInputs, LabelAgrees, DelayInForce, Stop, sourceState,
         Delay, BackoffSeconds

\* Every step keeps the invariant.
LEMMA NextKeeps ==
    ASSUME SchedInv, [SchedNext]_schedVars
    PROVE  SchedInv'
<1>1. ASSUME NEW s \in Source, Begin(s) PROVE SchedInv'
  BY <1>1, StartKeeps DEF Begin
<1>2. ASSUME NEW s \in Source, Defer(s) PROVE SchedInv'
  BY <1>2, DeferKeeps
<1>3. ASSUME NEW s \in Source, Wake(s) PROVE SchedInv'
  BY <1>3, StartKeeps DEF Wake
<1>4. ASSUME NEW s \in Source, NEW named \in BOOLEAN, RecordSnapshot(s, named) PROVE SchedInv'
  BY <1>4, RecordKeeps
<1>5. ASSUME NEW s \in Source, NEW result \in Outcome, Finish(s, result) PROVE SchedInv'
  BY <1>5, FinishKeeps
<1>6. CASE Stop
  BY <1>6, StopKeeps
<1>7. CASE UNCHANGED schedVars
  BY <1>7 DEF SchedInv, SchedTypeOK, LabelInputs, LabelAgrees, DelayInForce, schedVars,
              sourceState, Delay, BackoffSeconds
<1> QED
  BY <1>1, <1>2, <1>3, <1>4, <1>5, <1>6, <1>7 DEF SchedNext

\* The invariant holds in every reachable state.
LEMMA Invariance == SchedSpec => []SchedInv
<1>1. SchedInv /\ [SchedNext]_schedVars => SchedInv'
  BY NextKeeps
<1> QED
  BY InitInv, <1>1, PTL DEF SchedSpec

-----------------------------------------------------------------------------
(* Theorems *)

\* Every variable has its type, and a task that sleeps knows for how long.
THEOREM SchedTypeCorrect == SchedSpec => []SchedTypeOK
<1>1. SchedInv => SchedTypeOK
  BY DEF SchedInv
<1> QED
  BY Invariance, <1>1, PTL

\* /health calls a source healthy exactly when its last finished run succeeded
\* (health_label in scheduler.py), and production_ready adds nothing to that.
THEOREM HealthIsTruthful == SchedSpec => []HealthTruthful
<1>1. ASSUME SchedInv, NEW s \in Source
      PROVE  HealthLabel(s) = "healthy" <=> outcome[s] = "ok"
  <2>1. failures[s] \in Nat /\ (failures[s] >= 1 <=> failures[s] # 0)
    BY <1>1, SchedulerAssumption DEF SchedInv, SchedTypeOK
  <2>2. CASE lastStatus[s] \in Excused
    BY <1>1, <2>2 DEF SchedInv, LabelInputs, LabelAgrees, HealthLabel, Excused
  <2>3. CASE lastStatus[s] \notin Excused /\ failures[s] # 0
    <3>1. HealthLabel(s) = "degraded"
      BY <2>1, <2>3 DEF HealthLabel
    <3> QED
      BY <1>1, <2>3, <3>1 DEF SchedInv, LabelInputs, LabelAgrees
  <2>4. CASE lastStatus[s] \notin Excused /\ failures[s] = 0
    BY <1>1, <2>1, <2>4 DEF SchedInv, LabelInputs, LabelAgrees, HealthLabel
  <2> QED
    BY <2>2, <2>3, <2>4
<1>2. SchedInv => HealthTruthful
  BY <1>1 DEF HealthTruthful, ProductionReady, Source
<1> QED
  BY Invariance, <1>2, PTL

\* A task goes from its run to sleep at the end of the run only.
LEMMA OnlyFinishEndsRuns ==
    ASSUME SchedInv, [SchedNext]_schedVars, NEW s \in Source,
           phase[s] = "running", phase'[s] = "sleeping"
    PROVE  \E result \in Outcome : Finish(s, result)
<1>1. ASSUME NEW t \in Source, StartRun(t) PROVE FALSE
  BY <1>1 DEF SchedInv, SchedTypeOK, StartRun
<1>2. ASSUME NEW t \in Source, Defer(t) PROVE FALSE
  BY <1>2 DEF SchedInv, SchedTypeOK, Defer
<1>3. ASSUME NEW t \in Source, NEW result \in Outcome, Finish(t, result) PROVE t = s
  BY <1>3 DEF SchedInv, SchedTypeOK, Finish
<1>4. ASSUME NEW t \in Source, NEW named \in BOOLEAN, RecordSnapshot(t, named) PROVE FALSE
  BY <1>4 DEF RecordSnapshot
<1>5. ~Stop
  BY DEF Stop
<1>6. ~UNCHANGED schedVars
  BY DEF schedVars
<1> QED
  BY <1>1, <1>2, <1>3, <1>4, <1>5, <1>6 DEF SchedNext, Begin, Wake

\* Two failed runs in a row never bring the third one sooner (backoff_seconds and
\* the delay of _run_loop).
THEOREM FailuresBackOff == SchedSpec => BacksOff
<1>1. ASSUME SchedInv, [SchedNext]_schedVars, NEW s \in Source,
             phase[s] = "running", phase'[s] = "sleeping",
             outcome[s] \in {"error", "raised"}, outcome'[s] \in {"error", "raised"}
      PROVE  nextIn'[s] >= nextIn[s]
  <2>1. PICK result \in Outcome : Finish(s, result)
    BY <1>1, OnlyFinishEndsRuns
  <2>2. result = outcome'[s]
    BY <1>1, <2>1 DEF Finish, SchedInv, SchedTypeOK
  <2>3. /\ lastStatus'[s] = StatusAfter(s, result)
        /\ failures'[s] = Least(failures[s] + 1, CountedUpTo)
        /\ nextIn'[s] = Delay(s, lastStatus'[s], failures'[s])
    BY <1>1, <2>1, <2>2 DEF Finish, SchedInv, SchedTypeOK, FailuresAfter, Excused
  <2>4. nextIn[s] = Delay(s, lastStatus[s], failures[s]) /\ failures[s] >= 1
    BY <1>1, SchedulerAssumption DEF SchedInv, DelayInForce, Outcome, Status
  <2>5. failures[s] \in 1..CountedUpTo /\ CountedUpTo \in 2..7
    BY <1>1, <2>4, SchedulerAssumption DEF SchedInv, SchedTypeOK
  <2>6. failures'[s] \in Nat \ {0}
        /\ (failures'[s] = failures[s] + 1 \/ failures'[s] = failures[s])
    BY <2>3, <2>5 DEF Least
  <2>7. CASE lastStatus'[s] = "waiting"
    <3>1. lastStatus[s] = "waiting"
      BY <1>1, <2>2, <2>3, <2>7 DEF StatusAfter
    <3> QED
      BY <2>3, <2>4, <2>7, <3>1, SchedulerAssumption DEF Delay, Least
  <2>8. CASE lastStatus'[s] # "waiting" /\ lastStatus[s] = "waiting"
    BY <2>3, <2>4, <2>6, <2>8, BackoffAtLeastWaiting DEF Delay
  <2>9. CASE lastStatus'[s] # "waiting" /\ lastStatus[s] # "waiting"
    <3>1. BackoffSeconds(s, failures[s]) <= BackoffSeconds(s, failures[s] + 1)
      BY <2>5, BackoffGrows
    <3>2. BackoffSeconds(s, failures[s]) \in Nat
      BY <2>5, BackoffAtLeastWaiting
    <3> QED
      BY <2>3, <2>4, <2>6, <2>9, <3>1, <3>2 DEF Delay
  <2> QED
    BY <2>7, <2>8, <2>9
<1>2. SchedInv /\ [SchedNext]_schedVars
        => [\A s \in Source :
             /\ phase[s] = "running" /\ phase'[s] = "sleeping"
             /\ outcome[s] \in {"error", "raised"}
             /\ outcome'[s] \in {"error", "raised"}
             => nextIn'[s] >= nextIn[s]]_schedVars
  BY <1>1
<1> QED
  BY Invariance, <1>2, PTL DEF SchedSpec, BacksOff
=============================================================================
