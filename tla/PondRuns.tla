------------------------------ MODULE PondRuns ------------------------------
(***************************************************************************)
(* POST /runs of app/main.py: runs of the Pond protocol, coalesced by a    *)
(* lock per run id, remembered in the table pond_runs, and the scan that   *)
(* scan_now starts under the lock of Scanner.scan_all.                     *)
(*                                                                         *)
(* On the event loop a request runs on until it awaits: the lock of its    *)
(* run id, if another request holds it, or scan_all.  Every other action   *)
(* of a run is over in the step that takes the lock, so that only a scan   *)
(* holds a lock from one step to the next.                                 *)
(*                                                                         *)
(* A request is its body, which names its run id and its action; the body  *)
(* stands for its hash.  Requests that the envelope check refuses change   *)
(* no state and are left out.                                              *)
(***************************************************************************)
EXTENDS Integers, FiniteSets

CONSTANTS
    RunId,
    Body,           \* bodies that PondRunRequest and validate_parameters accept
    IdOf,           \* [Body -> RunId], their run_id
    Scans,          \* the bodies whose action is scan_now
    Handler,        \* places for requests that are served at the same time
    Null,           \* nobody, nothing
    MaxUnsaved      \* bound: executions of a run that leave no response behind

ASSUME PondAssumption ==
    /\ IdOf \in [Body -> RunId]
    /\ Scans \subseteq Body
    /\ Null \notin Handler \union Body
    /\ MaxUnsaved \in Nat

\* What a terminal response says, and which execution of the run it reports.
Response == [text : {"completed", "already_running", "failed"}, execution : Nat]

NoRun == [body |-> Null, response |-> Null]

Run == [body : Body, response : Response]

VARIABLES
    pondRuns,       \* pond_runs: [RunId -> Run, or NoRun]
    runLock,        \* pond_run_locks: [RunId -> Handler, or Null]
    scanLock,       \* Scanner.lock: the handler whose scan holds it, or Null
    handler,        \* per handler, what it serves and what it waits for
    executions,     \* history: how often each run was executed
    unsaved,        \* history: how many of these left no response behind
    answered,       \* history: the runs that callers were given, with their ids
    conflicts       \* history: the bodies refused with idempotency_conflict

history == <<executions, unsaved, answered, conflicts>>
pondVars == <<pondRuns, runLock, scanLock, handler, history>>

Free == [at |-> "free", body |-> Null]

PondInit ==
    /\ pondRuns = [r \in RunId |-> NoRun]
    /\ runLock = [r \in RunId |-> Null]
    /\ scanLock = Null
    /\ handler = [h \in Handler |-> Free]
    /\ executions = [r \in RunId |-> 0]
    /\ unsaved = [r \in RunId |-> 0]
    /\ answered = {}
    /\ conflicts = {}

RunOf(h) == IdOf[handler[h].body]

\* Faulty: the request is answered and its body stays behind.
LeaveBody(h) == handler' = [handler EXCEPT ![h].at = "free"]

Leave(h) == handler' = [handler EXCEPT ![h] = Free]

\* A request that passed every check asks for the lock of its run.
Receive(h, b) ==
    /\ handler[h] = Free
    /\ handler' = [handler EXCEPT ![h] = [at |-> "waiting", body |-> b]]
    /\ UNCHANGED <<pondRuns, runLock, scanLock, history>>

-----------------------------------------------------------------------------
(* With the lock of the run *)

\* Faulty: the runs of this process are looked up, and nobody waits for them.
HasTurnUnlocked(h) == handler[h].at = "waiting"

\* The lock is the handler's: it goes on at once.
HasTurn(h) == handler[h].at = "waiting" /\ runLock[RunOf(h)] = Null

\* Faulty: the answer is the saved one, whatever was asked.
SavedForAny(h) == pondRuns[RunOf(h)] # NoRun

SavedFor(h) == pondRuns[RunOf(h)].body = handler[h].body

\* The caller gets the response to what it asked, or is gone by now.
Tell(r, run) == answered' \in {answered, answered \union {<<r, run>>}}

Replay(h) ==
    /\ HasTurn(h)
    /\ pondRuns[RunOf(h)] # NoRun
    /\ SavedFor(h)
    /\ Tell(RunOf(h),
            [body |-> handler[h].body, response |-> pondRuns[RunOf(h)].response])
    /\ Leave(h)
    /\ UNCHANGED <<pondRuns, runLock, scanLock, executions, unsaved, conflicts>>

\* Faulty: a run id that is known is a conflict.
ConflictAlways(h) ==
    /\ HasTurn(h)
    /\ pondRuns[RunOf(h)] # NoRun
    /\ conflicts' = conflicts \union {handler[h].body}
    /\ Leave(h)
    /\ UNCHANGED <<pondRuns, runLock, scanLock, executions, unsaved, answered>>

Conflict(h) ==
    /\ HasTurn(h)
    /\ pondRuns[RunOf(h)] # NoRun
    /\ ~SavedFor(h)
    /\ conflicts' = conflicts \union {handler[h].body}
    /\ Leave(h)
    /\ UNCHANGED <<pondRuns, runLock, scanLock, executions, unsaved, answered>>

\* The run was executed for the nth time: save_pond_run, then the answer.
Save(h, text, n) ==
    LET run == [body |-> handler[h].body, response |-> [text |-> text, execution |-> n]]
    IN  /\ pondRuns' = [pondRuns EXCEPT ![RunOf(h)] = run]
        /\ Tell(RunOf(h), run)
        /\ UNCHANGED unsaved

\* save_pond_run raises, or the process dies before it: there is no answer.
SaveFails(h) ==
    /\ unsaved[RunOf(h)] < MaxUnsaved
    /\ unsaved' = [unsaved EXCEPT ![RunOf(h)] = @ + 1]
    /\ UNCHANGED <<pondRuns, answered>>

Finish(h, text, n) == Save(h, text, n) \/ SaveFails(h)

\* The run is executed: nothing is saved for it.
Execute(h) ==
    /\ HasTurn(h)
    /\ pondRuns[RunOf(h)] = NoRun
    /\ executions' = [executions EXCEPT ![RunOf(h)] = @ + 1]

\* get_status, list_ghosts and get_timeline await nothing.  Whatever they raise, an
\* unknown signal_id included, becomes a failed run.
Read(h) ==
    /\ Execute(h)
    /\ handler[h].body \notin Scans
    /\ \E text \in {"completed", "failed"} : Finish(h, text, executions[RunOf(h)] + 1)
    /\ Leave(h)
    /\ UNCHANGED <<runLock, scanLock, conflicts>>

\* scan_all finds its lock taken and returns at once; the run is completed.
ScanBusy(h) ==
    /\ Execute(h)
    /\ handler[h].body \in Scans
    /\ scanLock # Null
    /\ Finish(h, "already_running", executions[RunOf(h)] + 1)
    /\ Leave(h)
    /\ UNCHANGED <<runLock, scanLock, conflicts>>

\* Faulty: scan_all does not ask whether its lock is taken.
ScanStartsAnyway(h) ==
    /\ Execute(h)
    /\ handler[h].body \in Scans
    /\ scanLock' = h
    /\ runLock' = [runLock EXCEPT ![RunOf(h)] = h]
    /\ handler' = [handler EXCEPT ![h].at = "scanning"]
    /\ UNCHANGED <<pondRuns, unsaved, answered, conflicts>>

ScanStarts(h) ==
    /\ Execute(h)
    /\ handler[h].body \in Scans
    /\ scanLock = Null
    /\ scanLock' = h
    /\ runLock' = [runLock EXCEPT ![RunOf(h)] = h]
    /\ handler' = [handler EXCEPT ![h].at = "scanning"]
    /\ UNCHANGED <<pondRuns, unsaved, answered, conflicts>>

\* Both locks are given back.
Unlock(h) ==
    /\ scanLock' = Null
    /\ runLock' = [runLock EXCEPT ![RunOf(h)] = Null]
    /\ Leave(h)

\* Faulty: the lock of the run stays taken when the deadline has passed.
ScanEndsLocked(h) ==
    /\ handler[h].at = "scanning"
    /\ \E text \in {"completed", "failed"} :
            /\ Finish(h, text, executions[RunOf(h)])
            /\ scanLock' = Null
            /\ runLock' = IF text = "failed" THEN runLock
                          ELSE [runLock EXCEPT ![RunOf(h)] = Null]
    /\ Leave(h)
    /\ UNCHANGED <<executions, conflicts>>

\* The scan returns, raises, or is cancelled at the deadline of the run.
ScanEnds(h) ==
    /\ handler[h].at = "scanning"
    /\ \E text \in {"completed", "failed"} : Finish(h, text, executions[RunOf(h)])
    /\ Unlock(h)
    /\ UNCHANGED <<executions, conflicts>>

\* The request is cancelled at shutdown, or the process dies, which interrupts every
\* request there is: locks live in memory, pond_runs does not.
InterruptWaiting(h) ==
    /\ handler[h].at = "waiting"
    /\ Leave(h)
    /\ UNCHANGED <<pondRuns, runLock, scanLock, history>>

InterruptScan(h) ==
    /\ handler[h].at = "scanning"
    /\ SaveFails(h)
    /\ Unlock(h)
    /\ UNCHANGED <<executions, conflicts>>

-----------------------------------------------------------------------------

\* What a handler does once the lock of its run is free.
Serve(h) == Replay(h) \/ Conflict(h) \/ Read(h) \/ ScanBusy(h) \/ ScanStarts(h)

PondNext ==
    \E h \in Handler :
        \/ \E b \in Body : Receive(h, b)
        \/ Serve(h)
        \/ ScanEnds(h)
        \/ InterruptWaiting(h)
        \/ InterruptScan(h)

PondSpec == PondInit /\ [][PondNext]_pondVars

\* The lock of asyncio wakes its waiters in the order they came (SF), and the deadline
\* ends every scan (WF).
PondFairness ==
    \A h \in Handler : SF_pondVars(Serve(h)) /\ WF_pondVars(ScanEnds(h))

PondLiveSpec == PondSpec /\ PondFairness

-----------------------------------------------------------------------------
(* Properties *)

PondTypeOK ==
    /\ pondRuns \in [RunId -> Run \union {NoRun}]
    /\ runLock \in [RunId -> Handler \union {Null}]
    /\ scanLock \in Handler \union {Null}
    /\ handler \in [Handler -> [at : {"waiting", "scanning"}, body : Body] \union {Free}]
    /\ executions \in [RunId -> Nat]
    /\ unsaved \in [RunId -> Nat]
    /\ answered \subseteq RunId \X Run
    /\ conflicts \subseteq Body

\* "Coalesce concurrent duplicate requests" (main.py, runs): a run is executed again
\* only after an execution whose response was never saved.
ExecutedOnce == \A r \in RunId : executions[r] <= 1 + unsaved[r]

\* "Reusing a run_id with a materially different body returns HTTP 409" (docs/POND.md),
\* and nothing else does: whoever is refused, the run belongs to another request.
ConflictsJustified ==
    \A b \in conflicts :
        pondRuns[IdOf[b]] # NoRun /\ pondRuns[IdOf[b]].body # b

\* "Run every source once, without allowing overlapping scans" (scanner.py, scan_all):
\* two runs never scan at the same time.
OneScan ==
    \A h, k \in Handler :
        handler[h].at = "scanning" /\ handler[k].at = "scanning" => h = k

\* "An identical duplicate receives the saved terminal result" (docs/POND.md), failed
\* runs, lost answers, shutdowns and crashes included.
Register ==
    INSTANCE RunRegister WITH
        Decision <- Run,
        Undecided <- NoRun,
        decided <- pondRuns

RunsDecidedOnce == Register!RegisterSpec

\* Every request is served or cut off: no run is left behind a lock that nobody holds.
RequestsEnd == \A h \in Handler : handler[h].at # "free" ~> handler[h].at = "free"

-----------------------------------------------------------------------------
(* The inductive invariant behind the first four *)

\* A lock that is held is held by the one scan there is, for a run without response.
LocksHeld ==
    /\ \A h \in Handler :
        handler[h].at = "scanning" =>
            /\ scanLock = h
            /\ runLock[RunOf(h)] = h
            /\ pondRuns[RunOf(h)] = NoRun
    /\ \A r \in RunId :
        runLock[r] # Null => handler[runLock[r]].at = "scanning" /\ RunOf(runLock[r]) = r

\* Every execution is the one at work, left a response, or left none.
ExecutionsCounted ==
    \A r \in RunId :
        executions[r] =
            unsaved[r]
                + (IF runLock[r] # Null THEN 1 ELSE 0)
                + (IF pondRuns[r] # NoRun THEN 1 ELSE 0)

PondInv == PondTypeOK /\ LocksHeld /\ ExecutionsCounted /\ ConflictsJustified
=============================================================================
