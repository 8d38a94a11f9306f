----------------------------- MODULE PondProofs -----------------------------
(***************************************************************************)
(* Theorems about PondRuns: the locks keep scans apart and executions      *)
(* countable, and pond_runs is a register of runs that are decided once.   *)
(***************************************************************************)
EXTENDS PondRuns, TLAPS

\* The initial state satisfies the invariant.
LEMMA InitInv == PondInit => PondInv
  BY PondAssumption
  DEF PondInit, PondInv, PondTypeOK, LocksHeld, ExecutionsCounted, ConflictsJustified, Free

\* What a handler that does something serves.
LEMMA Serving ==
    ASSUME PondTypeOK, NEW h \in Handler, handler[h].at # "free"
    PROVE  /\ handler[h].at \in {"waiting", "scanning"}
           /\ handler[h].body \in Body
           /\ RunOf(h) \in RunId
  BY PondAssumption DEF PondTypeOK, Free, RunOf

\* A row of pond_runs is a run, and no run is the absence of one.
LEMMA RunIsNoRun == NoRun \notin Run
  BY PondAssumption DEF Run, NoRun

\* A handler that has its turn finds nobody at work on its run.
LEMMA TurnIsAlone ==
    ASSUME PondInv, NEW h \in Handler, HasTurn(h)
    PROVE  /\ handler[h].at = "waiting"
           /\ handler[h].body \in Body
           /\ RunOf(h) \in RunId
           /\ runLock[RunOf(h)] = Null
           /\ \A k \in Handler : handler[k].at = "scanning" => RunOf(k) # RunOf(h)
  BY Serving, PondAssumption DEF PondInv, LocksHeld, HasTurn

\* A request that waits leaves without having held a lock.
LEMMA LeaveKeepsLocks ==
    ASSUME PondInv, NEW h \in Handler, handler[h].at = "waiting", Leave(h),
           UNCHANGED <<runLock, scanLock>>,
           \A k \in Handler : handler[k].at = "scanning" =>
                pondRuns'[RunOf(k)] = pondRuns[RunOf(k)]
    PROVE  /\ LocksHeld'
           /\ handler' \in [Handler -> [at : {"waiting", "scanning"}, body : Body] \union {Free}]
<1>1. handler' \in [Handler -> [at : {"waiting", "scanning"}, body : Body] \union {Free}]
  BY DEF PondInv, PondTypeOK, Leave
<1>2. \A k \in Handler : handler'[k].at = "scanning" => handler'[k] = handler[k]
  BY DEF PondInv, PondTypeOK, Leave, Free
<1>3. \A k \in Handler : handler[k].at = "scanning" => handler'[k] = handler[k]
  BY DEF PondInv, PondTypeOK, Leave
<1>4. \A r \in RunId : runLock[r] # Null => runLock[r] \in Handler
  BY DEF PondInv, PondTypeOK
<1> QED
  BY <1>1, <1>2, <1>3, <1>4 DEF PondInv, LocksHeld, RunOf

-----------------------------------------------------------------------------
(* Every step keeps the invariant *)

\* A new request holds nothing yet.
LEMMA ReceiveKeeps ==
    ASSUME PondInv, NEW h \in Handler, NEW b \in Body, Receive(h, b)
    PROVE  PondInv'
<1>1. PondTypeOK'
  BY DEF PondInv, PondTypeOK, Receive, history
<1>2. \A k \in Handler :
            handler[k].at = "scanning" \/ handler'[k].at = "scanning" => handler'[k] = handler[k]
  BY DEF PondInv, PondTypeOK, Receive, Free
<1>3. \A r \in RunId : runLock[r] # Null => runLock[r] \in Handler
  BY DEF PondInv, PondTypeOK
<1>4. LocksHeld'
  BY <1>2, <1>3 DEF PondInv, LocksHeld, Receive, RunOf
<1>5. ExecutionsCounted' /\ ConflictsJustified'
  BY DEF PondInv, ExecutionsCounted, ConflictsJustified, Receive, history
<1> QED
  BY <1>1, <1>4, <1>5 DEF PondInv

\* A saved run is answered as it was.
LEMMA ReplayKeeps ==
    ASSUME PondInv, NEW h \in Handler, Replay(h)
    PROVE  PondInv'
<1>1. HasTurn(h) /\ Leave(h) /\ UNCHANGED <<pondRuns, runLock, scanLock>>
  BY DEF Replay
<1>2. handler[h].at = "waiting" /\ handler[h].body \in Body /\ RunOf(h) \in RunId
  BY <1>1, TurnIsAlone
<1>3. /\ LocksHeld'
      /\ handler' \in [Handler -> [at : {"waiting", "scanning"}, body : Body] \union {Free}]
  BY <1>1, <1>2, LeaveKeepsLocks
<1>4. [body |-> handler[h].body, response |-> pondRuns[RunOf(h)].response] \in Run
  BY <1>2 DEF PondInv, PondTypeOK, Replay, Run, NoRun
<1>5. answered' \subseteq RunId \X Run
  BY <1>2, <1>4 DEF PondInv, PondTypeOK, Replay, Tell
<1>6. PondTypeOK'
  BY <1>3, <1>5 DEF PondInv, PondTypeOK, Replay
<1>7. ExecutionsCounted' /\ ConflictsJustified'
  BY DEF PondInv, ExecutionsCounted, ConflictsJustified, Replay
<1> QED
  BY <1>3, <1>6, <1>7 DEF PondInv

\* A conflict is about a run that belongs to another request.
LEMMA ConflictKeeps ==
    ASSUME PondInv, NEW h \in Handler, Conflict(h)
    PROVE  PondInv'
<1>1. HasTurn(h) /\ Leave(h) /\ UNCHANGED <<pondRuns, runLock, scanLock>>
  BY DEF Conflict
<1>2. handler[h].at = "waiting" /\ handler[h].body \in Body /\ RunOf(h) \in RunId
  BY <1>1, TurnIsAlone
<1>3. /\ LocksHeld'
      /\ handler' \in [Handler -> [at : {"waiting", "scanning"}, body : Body] \union {Free}]
  BY <1>1, <1>2, LeaveKeepsLocks
<1>4. PondTypeOK'
  BY <1>2, <1>3 DEF PondInv, PondTypeOK, Conflict
<1>5. ExecutionsCounted'
  BY DEF PondInv, ExecutionsCounted, Conflict
<1>6. ConflictsJustified'
  BY <1>2 DEF PondInv, ConflictsJustified, Conflict, SavedFor, RunOf
<1> QED
  BY <1>3, <1>4, <1>5, <1>6 DEF PondInv

\* How an execution ends: with a row for a run that had none, or with nothing.
LEMMA FinishEffect ==
    ASSUME PondInv, NEW h \in Handler, handler[h].body \in Body, RunOf(h) \in RunId,
           pondRuns[RunOf(h)] = NoRun,
           NEW text \in {"completed", "already_running", "failed"}, NEW n \in Nat,
           Finish(h, text, n)
    PROVE  /\ pondRuns' \in [RunId -> Run \union {NoRun}]
           /\ unsaved' \in [RunId -> Nat]
           /\ answered' \subseteq RunId \X Run
           /\ \A r \in RunId : r # RunOf(h) =>
                    pondRuns'[r] = pondRuns[r] /\ unsaved'[r] = unsaved[r]
           /\ \/ pondRuns'[RunOf(h)] # NoRun /\ unsaved' = unsaved
              \/ pondRuns' = pondRuns /\ unsaved'[RunOf(h)] = unsaved[RunOf(h)] + 1
<1> DEFINE run == [body |-> handler[h].body, response |-> [text |-> text, execution |-> n]]
<1>1. run \in Run
  BY DEF Run, Response
<1>2. CASE Save(h, text, n)
  <2>1. pondRuns' = [pondRuns EXCEPT ![RunOf(h)] = run] /\ unsaved' = unsaved
    BY <1>2 DEF Save
  <2>2. answered' \subseteq answered \union {<<RunOf(h), run>>}
    BY <1>2 DEF Save, Tell
  <2>3. run # NoRun
    BY <1>1, RunIsNoRun
  <2> HIDE DEF run
  <2> QED
    BY <1>1, <2>1, <2>2, <2>3 DEF PondInv, PondTypeOK
<1>3. CASE SaveFails(h)
  BY <1>3 DEF SaveFails, PondInv, PondTypeOK
<1> QED
  BY <1>2, <1>3 DEF Finish

\* A conflict stays justified, because a saved run stays.
LEMMA ConflictsStay ==
    ASSUME PondInv, NEW h \in Handler, RunOf(h) \in RunId, pondRuns[RunOf(h)] = NoRun,
           \A r \in RunId : r # RunOf(h) => pondRuns'[r] = pondRuns[r],
           UNCHANGED conflicts
    PROVE  ConflictsJustified'
  BY PondAssumption DEF PondInv, PondTypeOK, ConflictsJustified

\* An execution that is over in one step: its run has no lock before and after.
LEMMA ExecutedKeeps ==
    ASSUME PondInv, NEW h \in Handler, Execute(h), Leave(h),
           NEW text \in {"completed", "already_running", "failed"},
           Finish(h, text, executions[RunOf(h)] + 1),
           UNCHANGED <<runLock, scanLock, conflicts>>
    PROVE  PondInv'
<1>1. HasTurn(h) /\ pondRuns[RunOf(h)] = NoRun
      /\ executions' = [executions EXCEPT ![RunOf(h)] = @ + 1]
  BY DEF Execute
<1>2. /\ handler[h].at = "waiting" /\ handler[h].body \in Body /\ RunOf(h) \in RunId
      /\ runLock[RunOf(h)] = Null
      /\ \A k \in Handler : handler[k].at = "scanning" => RunOf(k) # RunOf(h)
  BY <1>1, TurnIsAlone
<1>3. executions[RunOf(h)] + 1 \in Nat
  BY <1>2 DEF PondInv, PondTypeOK
<1>4. /\ pondRuns' \in [RunId -> Run \union {NoRun}]
      /\ unsaved' \in [RunId -> Nat]
      /\ answered' \subseteq RunId \X Run
      /\ \A r \in RunId : r # RunOf(h) =>
                pondRuns'[r] = pondRuns[r] /\ unsaved'[r] = unsaved[r]
      /\ \/ pondRuns'[RunOf(h)] # NoRun /\ unsaved' = unsaved
         \/ pondRuns' = pondRuns /\ unsaved'[RunOf(h)] = unsaved[RunOf(h)] + 1
  BY <1>1, <1>2, <1>3, FinishEffect
<1>5. \A k \in Handler : handler[k].at = "scanning" =>
            pondRuns'[RunOf(k)] = pondRuns[RunOf(k)]
  BY <1>2, <1>4, Serving DEF PondInv
<1>6. /\ LocksHeld'
      /\ handler' \in [Handler -> [at : {"waiting", "scanning"}, body : Body] \union {Free}]
  BY <1>2, <1>5, LeaveKeepsLocks
<1>7. PondTypeOK'
  <2>1. executions' \in [RunId -> Nat]
    BY <1>1, <1>2 DEF PondInv, PondTypeOK
  <2>2. UNCHANGED <<runLock, scanLock, conflicts>>
    OBVIOUS
  <2> QED
    BY <1>4, <1>6, <2>1, <2>2 DEF PondInv, PondTypeOK
<1>8. ExecutionsCounted'
  <2> SUFFICES ASSUME NEW r \in RunId
               PROVE  executions'[r] = unsaved'[r] + (IF runLock'[r] # Null THEN 1 ELSE 0)
                            + (IF pondRuns'[r] # NoRun THEN 1 ELSE 0)
    BY DEF ExecutionsCounted
  <2>1. executions \in [RunId -> Nat] /\ unsaved \in [RunId -> Nat]
    BY DEF PondInv, PondTypeOK
  <2>2. executions[r] = unsaved[r] + (IF runLock[r] # Null THEN 1 ELSE 0)
                            + (IF pondRuns[r] # NoRun THEN 1 ELSE 0)
    BY DEF PondInv, ExecutionsCounted
  <2>3. CASE r = RunOf(h)
    BY <1>1, <1>2, <1>4, <2>1, <2>2, <2>3
  <2>4. CASE r # RunOf(h)
    BY <1>1, <1>2, <1>4, <2>1, <2>2, <2>4
  <2> QED
    BY <2>3, <2>4
<1>9. ConflictsJustified'
  BY <1>1, <1>2, <1>4, ConflictsStay
<1> QED
  BY <1>6, <1>7, <1>8, <1>9 DEF PondInv

\* A read, and a scan that finds another one running, are over in one step.
LEMMA ReadKeeps ==
    ASSUME PondInv, NEW h \in Handler, Read(h) \/ ScanBusy(h)
    PROVE  PondInv'
<1>1. CASE Read(h)
  BY <1>1, ExecutedKeeps DEF Read
<1>2. CASE ScanBusy(h)
  BY <1>2, ExecutedKeeps DEF ScanBusy
<1> QED
  BY <1>1, <1>2

\* A scan takes both locks for a run without response.
LEMMA ScanStartsKeeps ==
    ASSUME PondInv, NEW h \in Handler, ScanStarts(h)
    PROVE  PondInv'
<1>1. /\ HasTurn(h) /\ pondRuns[RunOf(h)] = NoRun
      /\ executions' = [executions EXCEPT ![RunOf(h)] = @ + 1]
      /\ scanLock = Null /\ scanLock' = h
      /\ runLock' = [runLock EXCEPT ![RunOf(h)] = h]
      /\ handler' = [handler EXCEPT ![h].at = "scanning"]
      /\ UNCHANGED <<pondRuns, unsaved, answered, conflicts>>
  BY DEF ScanStarts, Execute
<1>2. /\ handler[h].at = "waiting" /\ handler[h].body \in Body /\ RunOf(h) \in RunId
      /\ runLock[RunOf(h)] = Null
  BY <1>1, TurnIsAlone
<1>3. handler[h] \in [at : {"waiting", "scanning"}, body : Body]
  BY <1>2 DEF PondInv, PondTypeOK, Free
<1>4. handler'[h] = [at |-> "scanning", body |-> handler[h].body]
  BY <1>1, <1>3 DEF PondInv, PondTypeOK
<1>5. \A k \in Handler : k # h => handler'[k] = handler[k]
  BY <1>1 DEF PondInv, PondTypeOK
<1>6. PondTypeOK'
  <2>1. handler' \in [Handler -> [at : {"waiting", "scanning"}, body : Body] \union {Free}]
    <3>1. handler'[h] \in [at : {"waiting", "scanning"}, body : Body]
      BY <1>2, <1>4
    <3> QED
      BY <1>1, <3>1 DEF PondInv, PondTypeOK
  <2>2. executions' \in [RunId -> Nat] /\ runLock' \in [RunId -> Handler \union {Null}]
    BY <1>1, <1>2 DEF PondInv, PondTypeOK
  <2> QED
    BY <1>1, <2>1, <2>2 DEF PondInv, PondTypeOK
<1>7. \A k \in Handler : k # h => handler[k].at # "scanning"
  BY <1>1, PondAssumption DEF PondInv, LocksHeld
<1>8. LocksHeld'
  <2>1. RunOf(h)' = RunOf(h)
    BY <1>4 DEF RunOf
  <2>2. ASSUME NEW k \in Handler, handler'[k].at = "scanning"
        PROVE  k = h
    BY <1>5, <1>7, <2>2
  <2>3. ASSUME NEW r \in RunId, runLock'[r] # Null
        PROVE  r = RunOf(h) /\ runLock'[r] = h
    <3>1. CASE r = RunOf(h)
      BY <1>1, <3>1 DEF PondInv, PondTypeOK
    <3>2. CASE r # RunOf(h)
      <4>1. runLock[r] # Null
        BY <1>1, <2>3, <3>2 DEF PondInv, PondTypeOK
      <4>2. runLock[r] \in Handler /\ handler[runLock[r]].at = "scanning"
        BY <4>1 DEF PondInv, PondTypeOK, LocksHeld
      <4> QED
        BY <1>2, <1>7, <4>2
    <3> QED
      BY <3>1, <3>2
  <2>4. scanLock' = h /\ runLock'[RunOf(h)] = h /\ pondRuns'[RunOf(h)] = NoRun
    BY <1>1, <1>2 DEF PondInv, PondTypeOK
  <2> QED
    BY <1>4, <2>1, <2>2, <2>3, <2>4 DEF LocksHeld
<1>9. ExecutionsCounted'
  <2>1. executions \in [RunId -> Nat] /\ unsaved \in [RunId -> Nat]
    BY DEF PondInv, PondTypeOK
  <2>2. h # Null
    BY PondAssumption
  <2> QED
    BY <1>1, <1>2, <2>1, <2>2 DEF PondInv, PondTypeOK, ExecutionsCounted
<1>10. ConflictsJustified'
  BY <1>1 DEF PondInv, ConflictsJustified
<1> QED
  BY <1>6, <1>8, <1>9, <1>10 DEF PondInv

\* The scan that ends gives its locks back, and nobody else has one.
LEMMA UnlockKeepsLocks ==
    ASSUME PondInv, NEW h \in Handler, handler[h].at = "scanning", Unlock(h)
    PROVE  /\ LocksHeld'
           /\ handler' \in [Handler -> [at : {"waiting", "scanning"}, body : Body] \union {Free}]
           /\ runLock' \in [RunId -> Handler \union {Null}]
           /\ runLock[RunOf(h)] = h /\ runLock'[RunOf(h)] = Null
           /\ \A r \in RunId : r # RunOf(h) => runLock'[r] = runLock[r]
<1>1. handler[h].body \in Body /\ RunOf(h) \in RunId
  BY Serving DEF PondInv
<1>2. handler' = [handler EXCEPT ![h] = Free]
      /\ runLock' = [runLock EXCEPT ![RunOf(h)] = Null]
  BY DEF Unlock, Leave
<1>3. \A k \in Handler : handler[k].at = "scanning" => k = h
  BY DEF PondInv, LocksHeld
<1>4. \A k \in Handler : handler'[k].at # "scanning"
  BY <1>2, <1>3 DEF PondInv, PondTypeOK, Free
<1>5. \A r \in RunId : runLock'[r] = Null
  <2> SUFFICES ASSUME NEW r \in RunId, runLock'[r] # Null
               PROVE  FALSE
    OBVIOUS
  <2>1. r # RunOf(h) /\ runLock[r] # Null
    BY <1>1, <1>2 DEF PondInv, PondTypeOK
  <2>2. runLock[r] \in Handler /\ handler[runLock[r]].at = "scanning" /\ RunOf(runLock[r]) = r
    BY <2>1 DEF PondInv, PondTypeOK, LocksHeld
  <2> QED
    BY <1>3, <2>1, <2>2
<1> QED
  BY <1>1, <1>2, <1>4, <1>5 DEF PondInv, PondTypeOK, LocksHeld

\* The end of a scan, saved or not, finishes the execution that its start counted.
LEMMA ScanEndsKeeps ==
    ASSUME PondInv, NEW h \in Handler, ScanEnds(h) \/ InterruptScan(h)
    PROVE  PondInv'
<1>1. handler[h].at = "scanning" /\ Unlock(h) /\ UNCHANGED <<executions, conflicts>>
  BY DEF ScanEnds, InterruptScan
<1>2. handler[h].body \in Body /\ RunOf(h) \in RunId /\ pondRuns[RunOf(h)] = NoRun
  BY <1>1, Serving DEF PondInv, LocksHeld
<1>3. /\ LocksHeld'
      /\ handler' \in [Handler -> [at : {"waiting", "scanning"}, body : Body] \union {Free}]
      /\ runLock' \in [RunId -> Handler \union {Null}]
      /\ runLock[RunOf(h)] = h /\ runLock'[RunOf(h)] = Null
      /\ \A r \in RunId : r # RunOf(h) => runLock'[r] = runLock[r]
  BY <1>1, UnlockKeepsLocks
<1>4. executions[RunOf(h)] \in Nat
  BY <1>2 DEF PondInv, PondTypeOK
<1>5. \E text \in {"completed", "failed"} : Finish(h, text, executions[RunOf(h)])
  BY DEF ScanEnds, InterruptScan, Finish
<1>6. /\ pondRuns' \in [RunId -> Run \union {NoRun}]
      /\ unsaved' \in [RunId -> Nat]
      /\ answered' \subseteq RunId \X Run
      /\ \A r \in RunId : r # RunOf(h) =>
                pondRuns'[r] = pondRuns[r] /\ unsaved'[r] = unsaved[r]
      /\ \/ pondRuns'[RunOf(h)] # NoRun /\ unsaved' = unsaved
         \/ pondRuns' = pondRuns /\ unsaved'[RunOf(h)] = unsaved[RunOf(h)] + 1
  BY <1>2, <1>4, <1>5, FinishEffect
<1>7. scanLock' = Null
  BY <1>1 DEF Unlock
<1>8. PondTypeOK'
  BY <1>1, <1>3, <1>6, <1>7 DEF PondInv, PondTypeOK
<1>9. ExecutionsCounted'
  <2> SUFFICES ASSUME NEW r \in RunId
               PROVE  executions'[r] = unsaved'[r] + (IF runLock'[r] # Null THEN 1 ELSE 0)
                            + (IF pondRuns'[r] # NoRun THEN 1 ELSE 0)
    BY DEF ExecutionsCounted
  <2>1. executions \in [RunId -> Nat] /\ unsaved \in [RunId -> Nat]
    BY DEF PondInv, PondTypeOK
  <2>2. executions[r] = unsaved[r] + (IF runLock[r] # Null THEN 1 ELSE 0)
                            + (IF pondRuns[r] # NoRun THEN 1 ELSE 0)
    BY DEF PondInv, ExecutionsCounted
  <2>3. CASE r = RunOf(h)
    BY <1>1, <1>2, <1>3, <1>6, <2>1, <2>2, <2>3, PondAssumption
  <2>4. CASE r # RunOf(h)
    BY <1>1, <1>3, <1>6, <2>1, <2>2, <2>4
  <2> QED
    BY <2>3, <2>4
<1>10. ConflictsJustified'
  BY <1>1, <1>2, <1>6, ConflictsStay
<1> QED
  BY <1>3, <1>8, <1>9, <1>10 DEF PondInv

\* A request that is cut off while it waits leaves nothing behind.
LEMMA InterruptKeeps ==
    ASSUME PondInv, NEW h \in Handler, InterruptWaiting(h)
    PROVE  PondInv'
<1>1. handler[h].at = "waiting" /\ Leave(h) /\ UNCHANGED <<pondRuns, runLock, scanLock>>
  BY DEF InterruptWaiting
<1>2. /\ LocksHeld'
      /\ handler' \in [Handler -> [at : {"waiting", "scanning"}, body : Body] \union {Free}]
  BY <1>1, LeaveKeepsLocks
<1>3. PondTypeOK'
  BY <1>2 DEF PondInv, PondTypeOK, InterruptWaiting, history
<1>4. ExecutionsCounted' /\ ConflictsJustified'
  BY DEF PondInv, ExecutionsCounted, ConflictsJustified, InterruptWaiting, history
<1> QED
  BY <1>2, <1>3, <1>4 DEF PondInv

\* The invariant is inductive.
THEOREM PondInvariant == PondSpec => []PondInv
<1>1. ASSUME PondInv, [PondNext]_pondVars
      PROVE  PondInv'
  <2>1. CASE UNCHANGED pondVars
    BY <1>1, <2>1
    DEF pondVars, history, PondInv, PondTypeOK, LocksHeld, RunOf, ExecutionsCounted,
        ConflictsJustified
  <2>2. ASSUME NEW h \in Handler, NEW b \in Body, Receive(h, b)
        PROVE  PondInv'
    BY <1>1, <2>2, ReceiveKeeps
  <2>3. ASSUME NEW h \in Handler, Serve(h)
        PROVE  PondInv'
    BY <1>1, <2>3, ReplayKeeps, ConflictKeeps, ReadKeeps, ScanStartsKeeps DEF Serve
  <2>4. ASSUME NEW h \in Handler, ScanEnds(h) \/ InterruptScan(h)
        PROVE  PondInv'
    BY <1>1, <2>4, ScanEndsKeeps
  <2>5. ASSUME NEW h \in Handler, InterruptWaiting(h)
        PROVE  PondInv'
    BY <1>1, <2>5, InterruptKeeps
  <2> QED
    BY <1>1, <2>1, <2>2, <2>3, <2>4, <2>5 DEF PondNext
<1> QED
  BY <1>1, InitInv, PTL DEF PondSpec

-----------------------------------------------------------------------------
(* What follows *)

\* Type correctness of the runs, the locks and the requests.
THEOREM PondTypeCorrect == PondSpec => []PondTypeOK
<1>1. PondInv => PondTypeOK
  BY DEF PondInv
<1> QED
  BY <1>1, PondInvariant, PTL

\* A run is executed again only if an earlier execution left no response behind.
THEOREM RunsExecuteOnce == PondSpec => []ExecutedOnce
<1>1. PondInv => ExecutedOnce
  BY DEF PondInv, PondTypeOK, ExecutionsCounted, ExecutedOnce, LocksHeld
<1> QED
  BY <1>1, PondInvariant, PTL

\* A request is refused only if its run id belongs to another one.
THEOREM ConflictsAreJustified == PondSpec => []ConflictsJustified
<1>1. PondInv => ConflictsJustified
  BY DEF PondInv
<1> QED
  BY <1>1, PondInvariant, PTL

\* Scans never overlap.
THEOREM ScansDoNotOverlap == PondSpec => []OneScan
<1>1. PondInv => OneScan
  BY DEF PondInv, LocksHeld, OneScan
<1> QED
  BY <1>1, PondInvariant, PTL

-----------------------------------------------------------------------------
(* The register *)

\* An execution that ends decides the run, or is not seen.
LEMMA FinishDecides ==
    ASSUME PondInv, NEW h \in Handler, handler[h].body \in Body, RunOf(h) \in RunId,
           pondRuns[RunOf(h)] = NoRun,
           NEW text \in {"completed", "already_running", "failed"}, NEW n \in Nat,
           Finish(h, text, n)
    PROVE  Register!RegisterNext \/ UNCHANGED <<pondRuns, answered>>
<1> DEFINE run == [body |-> handler[h].body, response |-> [text |-> text, execution |-> n]]
<1>1. CASE Save(h, text, n)
  <2>1. run \in Run
    BY DEF Run, Response
  <2>2. /\ pondRuns' = [pondRuns EXCEPT ![RunOf(h)] = run]
        /\ answered' \in {answered, answered \union {<<RunOf(h), run>>}}
    BY <1>1 DEF Save, Tell
  <2> HIDE DEF run
  <2>3. pondRuns'[RunOf(h)] = run
    BY <2>2 DEF PondInv, PondTypeOK
  <2>4. Register!Decide(RunOf(h))
    BY <2>1, <2>2, <2>3 DEF Register!Decide
  <2> QED
    BY <2>4 DEF Register!RegisterNext
<1>2. CASE SaveFails(h)
  BY <1>2 DEF SaveFails
<1> QED
  BY <1>1, <1>2 DEF Finish

\* A replay gives the caller what was decided.
LEMMA ReplayAnswers ==
    ASSUME PondInv, NEW h \in Handler, Replay(h)
    PROVE  Register!RegisterNext \/ UNCHANGED <<pondRuns, answered>>
<1> DEFINE run == [body |-> handler[h].body, response |-> pondRuns[RunOf(h)].response]
<1>1. RunOf(h) \in RunId
  BY TurnIsAlone DEF Replay
<1>2. pondRuns[RunOf(h)] \in Run /\ pondRuns[RunOf(h)].body = handler[h].body
  BY <1>1 DEF Replay, SavedFor, PondInv, PondTypeOK
<1>3. run = pondRuns[RunOf(h)]
  BY <1>2 DEF Run
<1>4. answered' \in {answered, answered \union {<<RunOf(h), run>>}}
  BY DEF Replay, Tell
<1> HIDE DEF run
<1>5. pondRuns' = pondRuns /\ pondRuns[RunOf(h)] # NoRun
  BY DEF Replay
<1>6. CASE answered' = answered
  BY <1>5, <1>6
<1>7. CASE answered' = answered \union {<<RunOf(h), run>>}
  <2>1. Register!Answer(RunOf(h))
    BY <1>3, <1>5, <1>7 DEF Register!Answer
  <2> QED
    BY <1>1, <2>1 DEF Register!RegisterNext
<1> QED
  BY <1>4, <1>6, <1>7

\* pond_runs is a register: a run has one request and one response, whoever asks how
\* often, in whatever order, and whatever is cut off in between.
THEOREM RunsImplementRegister == PondSpec => RunsDecidedOnce
<1>1. PondInit => Register!RegisterInit
  BY DEF PondInit, Register!RegisterInit
<1>2. ASSUME PondInv, [PondNext]_pondVars
      PROVE  [Register!RegisterNext]_(Register!registerVars)
  <2> SUFFICES Register!RegisterNext \/ UNCHANGED <<pondRuns, answered>>
    BY DEF Register!registerVars
  <2>1. CASE UNCHANGED pondVars
    BY <2>1 DEF pondVars, history
  <2>2. ASSUME NEW h \in Handler,
               \/ \E b \in Body : Receive(h, b)
               \/ Conflict(h) \/ ScanStarts(h) \/ InterruptWaiting(h) \/ InterruptScan(h)
        PROVE  UNCHANGED <<pondRuns, answered>>
    BY <2>2 DEF Receive, Conflict, ScanStarts, InterruptWaiting, InterruptScan, SaveFails,
                history
  <2>3. ASSUME NEW h \in Handler, Read(h) \/ ScanBusy(h)
        PROVE  Register!RegisterNext \/ UNCHANGED <<pondRuns, answered>>
    <3>1. HasTurn(h) /\ pondRuns[RunOf(h)] = NoRun
      BY <2>3 DEF Read, ScanBusy, Execute
    <3>2. handler[h].body \in Body /\ RunOf(h) \in RunId
      BY <1>2, <3>1, TurnIsAlone
    <3>3. executions[RunOf(h)] + 1 \in Nat
      BY <1>2, <3>2 DEF PondInv, PondTypeOK
    <3>4. \E text \in {"completed", "already_running", "failed"} :
                Finish(h, text, executions[RunOf(h)] + 1)
      BY <2>3 DEF Read, ScanBusy
    <3> QED
      BY <1>2, <3>1, <3>2, <3>3, <3>4, FinishDecides
  <2>4. ASSUME NEW h \in Handler, ScanEnds(h)
        PROVE  Register!RegisterNext \/ UNCHANGED <<pondRuns, answered>>
    <3>1. /\ handler[h].at = "scanning"
          /\ \E text \in {"completed", "failed"} : Finish(h, text, executions[RunOf(h)])
      BY <2>4 DEF ScanEnds
    <3>2. handler[h].body \in Body /\ RunOf(h) \in RunId /\ pondRuns[RunOf(h)] = NoRun
      BY <1>2, <3>1, Serving DEF PondInv, LocksHeld
    <3>3. executions[RunOf(h)] \in Nat
      BY <1>2, <3>2 DEF PondInv, PondTypeOK
    <3> QED
      BY <1>2, <3>1, <3>2, <3>3, FinishDecides
  <2>5. ASSUME NEW h \in Handler, Replay(h)
        PROVE  Register!RegisterNext \/ UNCHANGED <<pondRuns, answered>>
    BY <1>2, <2>5, ReplayAnswers
  <2> QED
    BY <1>2, <2>1, <2>2, <2>3, <2>4, <2>5 DEF PondNext, Serve
<1> QED
  BY <1>1, <1>2, PondInvariant, PTL DEF PondSpec, RunsDecidedOnce, Register!RegisterSpec
=============================================================================
