---------------------------- MODULE RadarProofs ----------------------------
(***************************************************************************)
(* Proofs about Radar.  The engine's part of the state has an inductive    *)
(* invariant of its own, EngineInv: it types the engine's variables, and   *)
(* says that a post which is announced was just inserted (and so has its   *)
(* company key) and that reconciliation looks at open ghosts only.  From   *)
(* it follow the history of a signal's status, and that every step of the  *)
(* engine is one the outbox allows; what OutboxProofs proves about the     *)
(* outbox then holds for the whole service.                                *)
(*                                                                         *)
(* On OutboxInv and EngineInv stands AlertInv, which ties the rows of the  *)
(* signals to the rows of the outbox and those to the channel: every ghost *)
(* and every confirmation is enqueued unless its handler is still at it or *)
(* was cut, and what follows an EARLY alert is behind it in the queue.     *)
(* ReconcileInv does the same for what reconciliation has looked at.       *)
(***************************************************************************)
EXTENDS Radar, OutboxRefinement

\* A verdict is one of the four, and what a new row is given for it is a status.
LEMMA VerdictTyped ==
    ASSUME NEW s \in Signal
    PROVE  /\ Verdict(s) \in VerdictName
           /\ Verdict(s) # "suppressed" =>
                InitialStatus(Verdict(s)) \in {"ghost", "possible", "already_official"}
  BY DEF Verdict, VerdictName, InitialStatus

\* The handler's record stays one when the handler stops or another begins.
LEMMA IdleTyped == Idle \in Work
  BY DEF Idle, Work

-----------------------------------------------------------------------------
(* ingest_official keeps the invariant *)

\* The upsert of a crawl keeps it: work starts on rows the crawl returned.
LEMMA IngestOfficialKeeps ==
    ASSUME EngineInv, NEW c \in Crawls, IngestOfficial(c[1], c[2])
    PROVE  EngineInv'
<1> USE DEF EngineInv, EngineTypeOK, history
<1>1. c[1] \subseteq Official
  BY RadarAssumption DEF RadarAssumption
<1>2. companies' \in [Official -> {"unknown", "listed", "stale"}]
  BY DEF IngestOfficial
<1>3. /\ work' \in Work
      /\ work'.task = "official"
  <2> DEFINE step == IF c[2] /\ c[1] # {} THEN "prune" ELSE "additions"
             todo == {o \in c[1] : companies[o] = "unknown"}
             alertNew == \E o \in Official : companies[o] # "unknown"
  <2>1. work' = [Idle EXCEPT !.task = "official", !.step = step, !.todo = todo,
                             !.alertNew = alertNew, !.seen = c[1]]
    BY DEF IngestOfficial
  <2>2. step \in {"prune", "additions"} /\ todo \subseteq Official /\ alertNew \in BOOLEAN
    BY <1>1
  <2> HIDE DEF step, todo, alertNew
  <2> QED
    BY <1>1, <2>1, <2>2 DEF Idle, Work
<1> QED
  BY <1>2, <1>3 DEF IngestOfficial, LegacyStored, InsertedIsNew, ReconcilesGhosts

\* What list_ghosts returns are open ghosts, and one it leaves out scores no more than any.
LEMMA ListedGhosts ==
    ASSUME NEW ghosts \in ListGhosts
    PROVE  /\ ghosts \subseteq Ghosts
           /\ ghosts \subseteq Signal
           /\ \A g \in Ghosts \ ghosts :
                /\ Cardinality(ghosts) = GhostLimit
                /\ \A h \in ghosts : Rank[h] >= Rank[g]
  BY DEF ListGhosts, Ghosts

\* So do the prune, the timeline and the alerts of ingest_official, and record_snapshot.
LEMMA OfficialStepKeeps ==
    ASSUME EngineInv, OfficialStep
    PROVE  EngineInv'
<1> USE DEF EngineInv, EngineTypeOK, history
<1> SUFFICES /\ companies' \in [Official -> {"unknown", "listed", "stale"}]
             /\ work' \in Work
             /\ work'.task \in {"idle", "official"}
             /\ fresh' \in BOOLEAN
             /\ withheld' \subseteq Signal \X Official
             /\ UNCHANGED <<status, ledger, usable, cut>>
  BY DEF LegacyStored, InsertedIsNew, ReconcilesGhosts
<1>1. CASE PruneAbsent
  BY <1>1 DEF PruneAbsent, Work
<1>2. CASE RecordAdditions
  <2>1. work.task = "official" /\ work \in Work
    BY <1>2 DEF RecordAdditions
  <2>2. CASE work' = [work EXCEPT !.step = "announce", !.todo = {}]
    BY <1>2, <2>1, <2>2 DEF RecordAdditions, Work
  <2>3. ASSUME NEW ghosts \in ListGhosts,
               work' = [work EXCEPT !.step = "announce", !.ghosts = ghosts]
        PROVE  work' \in Work /\ work'.task = "official"
    <3>1. ghosts \subseteq Signal
      BY ListedGhosts
    <3> QED
      BY <2>1, <2>3, <3>1 DEF Work
  <2> QED
    BY <1>2, <2>1, <2>2, <2>3 DEF RecordAdditions
<1>3. ASSUME NEW o \in Official, AnnounceOfficial(o)
      PROVE  /\ work' \in Work /\ work'.task = "official"
             /\ withheld' \subseteq Signal \X Official
             /\ UNCHANGED <<companies, status, ledger, usable, fresh, cut>>
  <2>1. work.ghosts \subseteq Signal
    BY DEF Work
  <2> QED
    BY <1>3, <2>1 DEF AnnounceOfficial, Work, MatchingGhosts
<1>4. CASE RecordSnapshot
  BY <1>4, IdleTyped DEF RecordSnapshot, Idle
<1> QED
  BY <1>1, <1>2, <1>3, <1>4 DEF OfficialStep

-----------------------------------------------------------------------------
(* ingest_social *)

\* Starting on a batch of posts keeps the invariant.
LEMMA IngestSocialKeeps ==
    ASSUME EngineInv, NEW b \in Batches, IngestSocial(b)
    PROVE  EngineInv'
<1> USE DEF EngineInv, EngineTypeOK, history
<1>1. b \subseteq Signal
  BY RadarAssumption DEF RadarAssumption
<1>2. work' \in Work /\ work'.task = "social" /\ work'.step = "next"
  BY <1>1 DEF IngestSocial, Idle, Work
<1> QED
  BY <1>2 DEF IngestSocial, LegacyStored, InsertedIsNew, ReconcilesGhosts

\* Inserting a row keeps it: a migrated row is stored already, so the post at work is new.
LEMMA AdjudicateKeeps ==
    ASSUME EngineInv, NEW s \in Signal, Adjudicate(s)
    PROVE  EngineInv'
<1> USE DEF EngineInv, EngineTypeOK, history
<1> DEFINE isNew == Verdict(s) # "suppressed" /\ status[s] = "new"
<1>1. /\ status' = IF isNew THEN [status EXCEPT ![s] = InitialStatus(Verdict(s))] ELSE status
      /\ work' = [work EXCEPT
                    !.todo = work.todo \ {s},
                    !.entries = work.entries \union {<<s, Verdict(s)>>},
                    !.at = IF isNew THEN s ELSE Null,
                    !.step = IF isNew THEN "timeline" ELSE "next"]
      /\ work.task = "social"
      /\ UNCHANGED <<companies, ledger, usable, fresh, cut, withheld>>
  BY DEF Adjudicate
<1>2. Verdict(s) \in VerdictName
  BY VerdictTyped
<1>3. status' \in [Signal -> Status] /\ LegacyStored'
  BY <1>1, VerdictTyped DEF Status, LegacyStored
<1>4. /\ work' \in Work
      /\ work'.task = "social"
      /\ work'.at = IF isNew THEN s ELSE Null
      /\ work'.step = IF isNew THEN "timeline" ELSE "next"
  <2> DEFINE todo == work.todo \ {s}
             entries == work.entries \union {<<s, Verdict(s)>>}
             at == IF isNew THEN s ELSE Null
             step == IF isNew THEN "timeline" ELSE "next"
  <2>1. work' = [work EXCEPT !.todo = todo, !.entries = entries, !.at = at, !.step = step]
    BY <1>1
  <2>2. /\ todo \subseteq Signal \union Official
        /\ entries \subseteq Signal \X VerdictName
        /\ at \in Signal \union {Null}
        /\ step \in {"timeline", "next"}
    BY <1>2 DEF Work
  <2>3. /\ work' \in Work /\ work'.task = work.task
        /\ work'.at = at /\ work'.step = step
    <3> HIDE DEF todo, entries, at, step
    <3> QED
      BY <2>1, <2>2 DEF Work
  <2> QED
    BY <1>1, <2>3
<1>5. isNew => s \in Signal \ Legacy
  BY DEF LegacyStored
<1> QED
  BY <1>1, <1>3, <1>4, <1>5 DEF InsertedIsNew, ReconcilesGhosts

\* So do the timeline events, the alert and the ledger that follow the insertion.
LEMMA SocialStepKeeps ==
    ASSUME EngineInv, SocialStep
    PROVE  EngineInv'
<1> USE DEF EngineInv, EngineTypeOK, history
<1>1. ASSUME NEW s \in Signal, Adjudicate(s) PROVE EngineInv'
  BY <1>1, AdjudicateKeeps
<1>2. ASSUME RecordDetection PROVE EngineInv'
  <2>1. /\ work' \in Work /\ work'.task = "social"
        /\ work'.step = "next" \/ work'.at = work.at
    BY <1>2 DEF RecordDetection, Work
  <2> QED
    BY <1>2, <2>1 DEF RecordDetection, LegacyStored, InsertedIsNew, ReconcilesGhosts
<1>3. ASSUME RecordClassification PROVE EngineInv'
  <2>1. /\ work' \in Work /\ work'.task = "social"
        /\ work'.step = "next" \/ work'.at = work.at
    BY <1>3 DEF RecordClassification, Work
  <2> QED
    BY <1>3, <2>1 DEF RecordClassification, LegacyStored, InsertedIsNew, ReconcilesGhosts
<1>4. ASSUME AnnounceGhost PROVE EngineInv'
  <2>1. KeyOf[work.at] \in Company
    BY <1>4, OutboxAssumption DEF AnnounceGhost, InsertedIsNew, OutboxAssumption
  <2>2. work' \in Work /\ work'.task = "social" /\ work'.step = "next"
    BY <1>4, <2>1 DEF AnnounceGhost, Work
  <2> QED
    BY <1>4, <2>2 DEF AnnounceGhost, LegacyStored, InsertedIsNew, ReconcilesGhosts
<1>5. ASSUME RecordCandidates PROVE EngineInv'
  <2>1. ledger' \in [Signal -> VerdictName \union {"none"}]
    BY <1>5 DEF RecordCandidates
  <2>2. work' = Idle /\ UNCHANGED <<companies, status, usable, fresh, cut, withheld>>
    BY <1>5 DEF RecordCandidates
  <2> QED
    BY <2>1, <2>2, IdleTyped DEF Idle, LegacyStored, InsertedIsNew, ReconcilesGhosts
<1> QED
  BY <1>1, <1>2, <1>3, <1>4, <1>5 DEF SocialStep

-----------------------------------------------------------------------------
(* reconcile_ghosts *)

\* reconcile_ghosts starts on open ghosts.
LEMMA ReconcileGhostsKeeps ==
    ASSUME EngineInv, ReconcileGhosts
    PROVE  EngineInv'
<1> USE DEF EngineInv, EngineTypeOK, history
<1>1. PICK ghosts \in ListGhosts :
            work' = [Idle EXCEPT !.task = "reconcile", !.step = "next", !.todo = ghosts,
                                 !.ghosts = ghosts]
  BY DEF ReconcileGhosts
<1>2. work' \in Work /\ work'.task = "reconcile" /\ work'.todo \subseteq Ghosts
  BY <1>1, ListedGhosts DEF Idle, Work
<1> QED
  BY <1>2 DEF ReconcileGhosts, LegacyStored, InsertedIsNew, ReconcilesGhosts, Ghosts

\* A ghost that is decided leaves the list of those still to look at.
LEMMA DecideKeeps ==
    ASSUME EngineInv, NEW g \in Signal, RetireGhost(g) \/ ConfirmGhost(g)
    PROVE  EngineInv'
<1> USE DEF EngineInv, EngineTypeOK, history
<1>1. PICK fate \in {"suppressed", "confirmed"} : status' = [status EXCEPT ![g] = fate]
  BY DEF RetireGhost, ConfirmGhost
<1>2. /\ work' \in Work /\ work'.task = "reconcile" /\ work'.todo = work.todo \ {g}
      /\ work.todo \subseteq Ghosts
  <2>1. work.task = "reconcile" /\ work.todo \subseteq Ghosts
    BY DEF RetireGhost, ConfirmGhost, ReconcilesGhosts
  <2>2. ASSUME NEW step \in {"retired", "confirmed"},
               work' = [work EXCEPT !.todo = work.todo \ {g}, !.at = g, !.step = step]
        PROVE  work' \in Work /\ work'.task = work.task /\ work'.todo = work.todo \ {g}
    <3> DEFINE todo == work.todo \ {g}
    <3>1. todo \subseteq Signal \union Official
      BY DEF Work
    <3> HIDE DEF todo
    <3> QED
      BY <2>2, <3>1 DEF Work
  <2> QED
    BY <2>1, <2>2 DEF RetireGhost, ConfirmGhost
<1>3. UNCHANGED <<companies, ledger, usable, fresh, cut, withheld>>
  BY DEF RetireGhost, ConfirmGhost
<1>4. status' \in [Signal -> Status] /\ LegacyStored'
  BY <1>1 DEF Status, LegacyStored
<1>5. work'.todo \subseteq Ghosts'
  BY <1>1, <1>2 DEF Ghosts
<1> QED
  BY <1>2, <1>3, <1>4, <1>5 DEF InsertedIsNew, ReconcilesGhosts

\* Deciding one ghost leaves the others open: each is on the list once.
LEMMA ReconcileStepKeeps ==
    ASSUME EngineInv, ReconcileStep
    PROVE  EngineInv'
<1> USE DEF EngineInv, EngineTypeOK, history
<1>1. ASSUME NEW g \in Signal, RetireGhost(g) \/ ConfirmGhost(g) PROVE EngineInv'
  BY <1>1, DecideKeeps
<1>2. ASSUME /\ work.task = "reconcile"
             /\ work' \in Work /\ work'.task = "reconcile"
             /\ work'.todo \subseteq work.todo
             /\ UNCHANGED <<companies, status, ledger, usable, fresh, cut, withheld>>
      PROVE  EngineInv'
  BY <1>2 DEF LegacyStored, InsertedIsNew, ReconcilesGhosts, Ghosts
<1>3. ASSUME NEW g \in Signal, KeepGhost(g) PROVE EngineInv'
  BY <1>2, <1>3 DEF KeepGhost, Work
<1>4. ASSUME RecordRetirement PROVE EngineInv'
  BY <1>2, <1>4 DEF RecordRetirement, Work
<1>5. ASSUME RecordConfirmation PROVE EngineInv'
  BY <1>2, <1>5 DEF RecordConfirmation, Work
<1>6. ASSUME NEW o \in Official, AnnounceConfirmed(o) PROVE EngineInv'
  BY <1>2, <1>6 DEF AnnounceConfirmed, Work
<1>7. ASSUME ReconcileDone PROVE EngineInv'
  BY <1>7, IdleTyped DEF ReconcileDone, Idle, LegacyStored, InsertedIsNew, ReconcilesGhosts
<1> QED
  BY <1>1, <1>3, <1>4, <1>5, <1>6, <1>7 DEF ReconcileStep

-----------------------------------------------------------------------------
(* The engine's invariant *)

\* A migrated database has its ghosts, and no handler runs.
LEMMA EngineInit == RadarInit => EngineInv
<1> SUFFICES ASSUME RadarInit PROVE EngineInv
  OBVIOUS
<1>1. EngineTypeOK
  BY IdleTyped DEF RadarInit, EngineTypeOK, Status
<1>2. LegacyStored
  BY OutboxAssumption DEF RadarInit, LegacyStored, OutboxAssumption
<1>3. InsertedIsNew /\ ReconcilesGhosts
  BY DEF RadarInit, Idle, InsertedIsNew, ReconcilesGhosts
<1> QED
  BY <1>1, <1>2, <1>3 DEF EngineInv

\* Every step of the service keeps it.
LEMMA EngineNext == EngineInv /\ [RadarNext]_radarVars => EngineInv'
<1> SUFFICES ASSUME EngineInv, [RadarNext]_radarVars PROVE EngineInv'
  OBVIOUS
<1>1. ASSUME UNCHANGED engineVars PROVE EngineInv'
  BY <1>1 DEF engineVars, EngineInv, EngineTypeOK, LegacyStored, InsertedIsNew,
              ReconcilesGhosts, Ghosts
<1>2. ASSUME HandlerStep PROVE EngineInv'
  BY <1>2, OfficialStepKeeps, SocialStepKeeps, ReconcileStepKeeps DEF HandlerStep
<1>3. ASSUME SnapshotAges PROVE EngineInv'
  BY <1>3 DEF SnapshotAges, history, EngineInv, EngineTypeOK, LegacyStored, InsertedIsNew,
              ReconcilesGhosts, Ghosts
<1>4. ASSUME NEW s \in Signal, RulesImprove(s) PROVE EngineInv'
  BY <1>4 DEF RulesImprove, history, EngineInv, EngineTypeOK, LegacyStored, InsertedIsNew,
              ReconcilesGhosts, Ghosts
<1>5. ASSUME HandlerStops PROVE EngineInv'
  <2>1. Unannounced \subseteq Signal
    BY DEF EngineInv, EngineTypeOK, Work, Unannounced
  <2> QED
    BY <1>5, <2>1, IdleTyped DEF HandlerStops, Idle, EngineInv, EngineTypeOK, LegacyStored,
                                 InsertedIsNew, ReconcilesGhosts
<1>6. CASE UNCHANGED radarVars
  BY <1>1, <1>6 DEF radarVars
<1> QED
  BY <1>1, <1>2, <1>3, <1>4, <1>5, <1>6, IngestOfficialKeeps, IngestSocialKeeps,
     ReconcileGhostsKeeps DEF RadarNext, Flush

\* The invariant holds in every behaviour of the service.
THEOREM EngineInvariant == RadarSpec => []EngineInv
  BY EngineInit, EngineNext, PTL DEF RadarSpec

-----------------------------------------------------------------------------
(* What follows from it *)

\* Whatever the engine asks the outbox for is a request the outbox knows; everything
\* else it leaves alone.
LEMMA EngineUsesOutbox ==
    EngineInv /\ [RadarNext]_radarVars => [OutboxNext]_outboxVars
<1> SUFFICES ASSUME EngineInv, RadarNext PROVE [OutboxNext]_outboxVars
  BY DEF radarVars
<1>1. ASSUME NEW r \in EngineRequest, Enqueue(r) PROVE OutboxNext
  BY <1>1, RadarAssumption DEF RadarAssumption, OutboxNext
<1>2. ASSUME NEW t \in Task, Flush(t) PROVE OutboxNext
  BY <1>2 DEF Flush, OutboxNext
<1>3. ASSUME OfficialStep PROVE [OutboxNext]_outboxVars
  <2>1. ASSUME NEW o \in Official, AnnounceOfficial(o) PROVE [OutboxNext]_outboxVars
    <3>1. OfficialRequest(o) \in EngineRequest
      BY DEF EngineRequest
    <3> QED
      BY <1>1, <2>1, <3>1 DEF AnnounceOfficial
  <2> QED
    BY <1>3, <2>1 DEF OfficialStep, PruneAbsent, RecordAdditions, RecordSnapshot
<1>4. ASSUME SocialStep PROVE [OutboxNext]_outboxVars
  <2>1. ASSUME AnnounceGhost PROVE [OutboxNext]_outboxVars
    <3>1. work.at \in Signal \ Legacy
      BY <2>1 DEF AnnounceGhost, EngineInv, InsertedIsNew
    <3>2. GhostRequest(work.at) \in EngineRequest /\ CorroborationRequest(work.at) \in EngineRequest
      BY <3>1 DEF EngineRequest
    <3> QED
      BY <1>1, <2>1, <3>2 DEF AnnounceGhost
  <2> QED
    BY <1>4, <2>1 DEF SocialStep, Adjudicate, RecordDetection, RecordClassification,
                      RecordCandidates
<1>5. ASSUME ReconcileStep PROVE [OutboxNext]_outboxVars
  <2>1. ASSUME NEW o \in Official, AnnounceConfirmed(o) PROVE [OutboxNext]_outboxVars
    <3>1. work.at \in Signal
      BY <2>1, RadarAssumption DEF AnnounceConfirmed, RadarAssumption
    <3>2. ConfirmedRequest(work.at, o) \in EngineRequest
      BY <3>1 DEF EngineRequest
    <3> QED
      BY <1>1, <2>1, <3>2 DEF AnnounceConfirmed
  <2> QED
    BY <1>5, <2>1 DEF ReconcileStep, RetireGhost, KeepGhost, ConfirmGhost, RecordRetirement,
                      RecordConfirmation, ReconcileDone
<1> QED
  BY <1>2, <1>3, <1>4, <1>5
     DEF RadarNext, HandlerStep, IngestOfficial, IngestSocial, ReconcileGhosts, SnapshotAges,
         RulesImprove, HandlerStops

\* The service is a client of the outbox: its behaviours are behaviours of OutboxSpec.
THEOREM RadarIsOutboxClient == RadarSpec => RadarUsesOutbox
<1>1. RadarInit => OutboxInit
  BY DEF RadarInit
<1>2. EngineInv /\ [RadarNext]_radarVars => [OutboxNext]_outboxVars
  BY EngineUsesOutbox
<1> QED
  BY <1>1, <1>2, EngineInvariant, PTL DEF RadarSpec, OutboxSpec, RadarUsesOutbox

\* Type correctness of the whole service.
THEOREM RadarTypeCorrect == RadarSpec => []RadarTypeOK
<1>1. EngineInv /\ OutboxTypeOK => RadarTypeOK
  BY DEF EngineInv, RadarTypeOK
<1> QED
  BY <1>1, EngineInvariant, RadarIsOutboxClient, OutboxTypeCorrect, PTL DEF RadarUsesOutbox

\* While the engine enqueues, fails and reconciles, no alert is delivered again once the
\* outbox has learnt of its delivery, and a reply is in its own company's thread.
THEOREM RadarDeliversOnce == RadarSpec => [](NoDoubleDelivery /\ ThreadsMatchCompany)
  BY RadarIsOutboxClient, OutboxDeliversOnce, OutboxThreadsMatch, PTL DEF RadarUsesOutbox

\* What the engine announces goes through a first-in first-out queue that delivers at
\* least once, whatever handlers stop half way and whatever flushes fail.
THEOREM RadarDelivers == RadarSpec => OutboxDelivers
  BY RadarIsOutboxClient, OutboxImplementsDelivery, PTL DEF RadarUsesOutbox

\* One step of a signal's life is one the history allows.
LEMMA StatusStep ==
    EngineInv /\ [RadarNext]_radarVars =>
        \A s \in Signal :
            status'[s] # status[s] =>
                \/ status[s] = "new" /\ status'[s] \in {"ghost", "possible", "already_official"}
                \/ status[s] = "ghost" /\ status'[s] \in {"confirmed", "suppressed"}
<1> SUFFICES ASSUME EngineInv, [RadarNext]_radarVars, NEW s \in Signal, status'[s] # status[s]
             PROVE  \/ /\ status[s] = "new"
                       /\ status'[s] \in {"ghost", "possible", "already_official"}
                    \/ status[s] = "ghost" /\ status'[s] \in {"confirmed", "suppressed"}
  OBVIOUS
<1> USE DEF EngineInv, EngineTypeOK
<1>1. CASE UNCHANGED status
  BY <1>1
<1>2. ASSUME NEW a \in Signal, Adjudicate(a)
      PROVE  status[s] = "new" /\ status'[s] \in {"ghost", "possible", "already_official"}
  BY <1>2, VerdictTyped DEF Adjudicate
<1>3. ASSUME NEW g \in Signal, RetireGhost(g) \/ ConfirmGhost(g)
      PROVE  status[s] = "ghost" /\ status'[s] \in {"confirmed", "suppressed"}
  BY <1>3 DEF RetireGhost, ConfirmGhost, ReconcilesGhosts, Ghosts
<1> QED
  BY <1>1, <1>2, <1>3
     DEF RadarNext, HandlerStep, OfficialStep, PruneAbsent, RecordAdditions, AnnounceOfficial,
         RecordSnapshot, SocialStep, RecordDetection, RecordClassification, AnnounceGhost,
         RecordCandidates, ReconcileStep, KeepGhost, RecordRetirement, RecordConfirmation,
         AnnounceConfirmed, ReconcileDone, IngestOfficial, IngestSocial, ReconcileGhosts,
         SnapshotAges, RulesImprove, HandlerStops, Flush, engineVars, radarVars

\* A post is adjudicated once, and only a ghost is ever decided again.
THEOREM SignalHistory == RadarSpec => StatusHistory
  BY EngineInvariant, StatusStep, PTL DEF RadarSpec, StatusHistory

-----------------------------------------------------------------------------
(* What a step of the outbox leaves as it was *)

\* The rows stay where they are and announce what they did; a finished one is finished.
RowsKept ==
    \A i \in DOMAIN outbox :
        /\ i \in DOMAIN outbox'
        /\ outbox'[i].dedupe = outbox[i].dedupe
        /\ outbox'[i].signal = outbox[i].signal
        /\ outbox[i].status # "pending" => outbox'[i].status = outbox[i].status

\* What the delivery of the holder's row leaves in company_alerts.
Remembers(t) ==
    /\ flushLock = t
    /\ ~KeyMissing(Current(t))
    /\ companyAlert' = CompanyAlertAfter(Current(t), NextTs)

\* A row becomes sent only with its delivery remembered.
SentBy(t) ==
    \A i \in DOMAIN outbox :
        outbox[i].status = "pending" /\ outbox'[i].status = "sent" =>
            outbox[i] = Current(t) /\ Remembers(t)

\* The loop ends, or has just looked up the thread of the message it goes on with.
GoesOn(t) ==
    \/ flushLock' = Null
    \/ flushLock' = t /\ flush'[t].thread = ParentThread(flush'[t].at, companyAlert')

\* Updating the row of the holder keeps all rows.
LEMMA UpdateKeepsRows ==
    ASSUME OutboxInv, NEW t \in Task, flushLock = t, RowUpdated(flush[t].at)
    PROVE  RowsKept /\ DOMAIN outbox' = DOMAIN outbox
<1>1. outbox[flush[t].at].status = "pending"
  BY HolderFacts
<1> QED
  BY <1>1 DEF RowUpdated, RowsKept

\* The two ways in which an action leaves the loop.
LEMMA LoopGoesOn ==
    ASSUME OutboxInv, NEW t \in Task,
           \/ Release(t)
           \/ \E b : Deliver(t, b, companyAlert')
    PROVE  GoesOn(t)
<1>1. flush \in [Task -> FlushState]
  BY DEF OutboxInv, OutboxTypeOK, FlushState
<1>2. CASE Release(t)
  BY <1>2 DEF Release, GoesOn
<1>3. ASSUME NEW b, Deliver(t, b, companyAlert') PROVE GoesOn(t)
  <2>1. CASE b = {}
    BY <1>3, <2>1 DEF Deliver, Release, GoesOn
  <2>2. CASE b # {}
    <3>1. PICK i \in b :
            /\ flushLock' = t
            /\ flush' = [flush EXCEPT ![t] =
                            [at |-> i, rest |-> b \ {i},
                             thread |-> ParentThread(i, companyAlert')]]
      BY <1>3, <2>2 DEF Deliver
    <3>2. flush'[t] = [at |-> i, rest |-> b \ {i}, thread |-> ParentThread(i, companyAlert')]
      BY <1>1, <3>1
    <3> QED
      BY <3>1, <3>2 DEF GoesOn
  <2> QED
    BY <2>1, <2>2
<1> QED
  BY <1>2, <1>3

\* One step of a flush: what happens to rows, channel, memory and loop.
LEMMA FlushEffects ==
    ASSUME OutboxInv, NEW t \in Task, FlushStep(t)
    PROVE  /\ RowsKept /\ DOMAIN outbox' = DOMAIN outbox
           /\ channel' = channel \/ (flushLock = t /\ channel' = Append(channel, Message(t)))
           /\ companyAlert' = companyAlert \/ Remembers(t)
           /\ SentBy(t)
           /\ GoesOn(t)
<1>1. CASE FlushAlerts(t)
  <2>1. GoesOn(t)
    BY <1>1, LoopGoesOn DEF FlushAlerts
  <2> QED
    BY <1>1, <2>1 DEF FlushAlerts, RowsKept, SentBy
<1>2. CASE InterruptBefore(t) \/ InterruptAfter(t)
  <2>1. GoesOn(t) /\ flushLock = t
    BY <1>2, LoopGoesOn, HolderInLoop DEF InterruptBefore, InterruptAfter
  <2>2. outbox' = outbox
    BY <1>2 DEF InterruptBefore, InterruptAfter
  <2> QED
    BY <1>2, <2>1, <2>2
       DEF InterruptBefore, InterruptAfter, Recorded, RowsKept, SentBy, Remembers
<1>3. CASE SendSucceeds(t) \/ InterruptUnreceipted(t)
  <2>1. /\ flushLock = t /\ GoesOn(t) /\ Remembers(t)
        /\ channel' = Append(channel, Message(t))
        /\ outbox' = [outbox EXCEPT ![flush[t].at] = Sent(outbox[flush[t].at])]
    BY <1>3, LoopGoesOn, HolderInLoop DEF SendSucceeds, InterruptUnreceipted, Remembers
  <2>2. RowUpdated(flush[t].at)
    BY <2>1, SentUpdates
  <2>3. SentBy(t)
    BY <2>1, <2>2 DEF RowUpdated, SentBy, Current
  <2> QED
    BY <2>1, <2>2, <2>3, UpdateKeepsRows
<1>4. ASSUME flushLock = t, NEW failure \in Failure,
             \/ Fail(t, Current(t), failure)
             \/ outbox' = [outbox EXCEPT ![flush[t].at] = Failed(Current(t), failure)]
      PROVE  RowsKept /\ DOMAIN outbox' = DOMAIN outbox /\ SentBy(t)
  <2>1. RowUpdated(flush[t].at) /\ outbox'[flush[t].at].status # "sent"
    BY <1>4, FailUpdates
  <2> QED
    BY <1>4, <2>1, UpdateKeepsRows DEF RowUpdated, SentBy
<1>5. ASSUME NEW failure \in Failure, NEW row, Fail(t, row, failure)
      PROVE  GoesOn(t)
  BY <1>5, LoopGoesOn DEF Fail
<1>6. CASE SendFails(t)
  BY <1>4, <1>5, <1>6, HolderInLoop DEF SendFails
<1>7. CASE ReplyLost(t) \/ KeyRefused(t)
  <2>1. "global" \in Failure
    BY DEF Failure
  <2> QED
    BY <1>4, <1>5, <1>7, <2>1, HolderInLoop DEF ReplyLost, KeyRefused, Recorded, Remembers
<1>8. CASE InterruptUndead(t)
  <2>1. flushLock = t /\ GoesOn(t) /\ UNCHANGED <<companyAlert, channel>>
    BY <1>8, LoopGoesOn, HolderInLoop DEF InterruptUndead
  <2>2. PICK failure \in Failure :
            outbox' = [outbox EXCEPT ![flush[t].at] = Failed(Current(t), failure)]
    BY <1>8 DEF InterruptUndead, Current
  <2> QED
    BY <1>4, <2>1, <2>2
<1>9. CASE TimelineFails(t)
  <2>1. /\ flushLock = t /\ Remembers(t)
        /\ channel' = Append(channel, Message(t))
        /\ Fail(t, Sent(Current(t)), "global") /\ "global" \in Failure
    BY <1>9, HolderInLoop DEF TimelineFails, Remembers, Failure
  <2>2. RowUpdated(flush[t].at) /\ GoesOn(t)
    BY <1>5, <2>1, FailUpdates
  <2>3. SentBy(t)
    BY <2>1, <2>2 DEF RowUpdated, SentBy, Current
  <2> QED
    BY <2>1, <2>2, <2>3, UpdateKeepsRows
<1> QED
  BY <1>1, <1>2, <1>3, <1>6, <1>7, <1>8, <1>9 DEF FlushStep, SendCompletes

\* Enqueueing keeps all rows; the alert is in the table afterwards.
LEMMA EnqueueEffects ==
    ASSUME OutboxInv, NEW r \in EngineRequest, Enqueue(r)
    PROVE  /\ RowsKept
           /\ Enqueued(r.dedupe)'
           /\ \A i \in DOMAIN outbox' \ DOMAIN outbox :
                /\ outbox'[i].status = "pending"
                /\ outbox'[i].dedupe = r.dedupe /\ outbox'[i].signal = r.signal
                /\ \A j \in DOMAIN outbox : j < i
           /\ UNCHANGED <<companyAlert, flushLock, flush, channel>>
<1>1. OutboxTypeOK /\ EnqueueAlert(r) /\ UNCHANGED <<companyAlert, flushLock, flush, channel>>
  BY DEF OutboxInv, Enqueue
<1>2. CASE outbox' = outbox
  <2>1. \E i \in DOMAIN outbox : outbox[i].dedupe = r.dedupe
    <3> SUFFICES ASSUME \A i \in DOMAIN outbox : outbox[i].dedupe # r.dedupe PROVE FALSE
      OBVIOUS
    <3> DEFINE new == [dedupe |-> r.dedupe, signal |-> r.signal, official |-> r.official,
                       attempts |-> 0, error |-> "none", status |-> "pending"]
    <3>1. outbox \in Seq(Row) /\ new \in Row
      BY <1>1, RequestsTyped DEF OutboxTypeOK, Request, Row
    <3>2. outbox' = Append(outbox, new)
      BY <1>1 DEF EnqueueAlert
    <3> HIDE DEF new
    <3>3. Len(outbox') = Len(outbox) + 1 /\ Len(outbox) \in Nat
      BY <3>1, <3>2, AppendProperties, LenProperties
    <3> QED
      BY <1>2, <3>3
  <2> QED
    BY <1>1, <1>2, <2>1 DEF RowsKept, Enqueued
<1>3. ASSUME NEW n \in Nat,
             DOMAIN outbox = 1..n,
             DOMAIN outbox' = 1..(n + 1),
             \A i \in 1..n : outbox'[i] = outbox[i],
             outbox'[n + 1] =
                [dedupe |-> r.dedupe, signal |-> r.signal, official |-> r.official,
                 attempts |-> 0, error |-> "none", status |-> "pending"]
      PROVE  /\ RowsKept
             /\ Enqueued(r.dedupe)'
             /\ \A i \in DOMAIN outbox' \ DOMAIN outbox :
                  /\ outbox'[i].status = "pending"
                  /\ outbox'[i].dedupe = r.dedupe /\ outbox'[i].signal = r.signal
                  /\ \A j \in DOMAIN outbox : j < i
  <2>1. /\ outbox'[n + 1].status = "pending" /\ outbox'[n + 1].dedupe = r.dedupe
        /\ outbox'[n + 1].signal = r.signal /\ n + 1 \in DOMAIN outbox'
    BY <1>3
  <2>2. DOMAIN outbox' \ DOMAIN outbox = {n + 1}
    BY <1>3
  <2>3. RowsKept
    BY <1>3 DEF RowsKept
  <2>4. Enqueued(r.dedupe)'
    BY <2>1 DEF Enqueued
  <2> QED
    BY <1>3, <2>1, <2>2, <2>3, <2>4
<1> QED
  BY <1>1, <1>2, <1>3, InsertRow

-----------------------------------------------------------------------------
(* Alerts behind the EARLY alert of their company *)

\* Every step of the service is one of the outbox: it keeps the rows and the messages.
LEMMA StepKeepsOutbox ==
    ASSUME OutboxInv, [OutboxNext]_outboxVars
    PROVE  RowsKept /\ ChannelGrows
<1>1. CASE UNCHANGED outboxVars
  BY <1>1 DEF outboxVars, RowsKept, ChannelGrows
<1>2. ASSUME NEW r \in Offered, Enqueue(r) PROVE RowsKept /\ ChannelGrows
  BY <1>2, EnqueueEffects, OutboxAssumption DEF OutboxAssumption, ChannelGrows
<1>3. ASSUME NEW t \in Task, FlushStep(t) PROVE RowsKept /\ ChannelGrows
  <2>1. OutboxTypeOK /\ RowsAreRequests /\ FlushInOrder
    BY DEF OutboxInv
  <2> QED
    BY <1>3, <2>1, FlushEffects, Posting DEF ChannelGrows
<1> QED
  BY <1>1, <1>2, <1>3 DEF OutboxNext

\* EarlyDead in the next state, of a company that may itself be found there.
DeadAfter(c) ==
    \E i \in DOMAIN outbox' : outbox'[i].dedupe = <<"ghost", c>> /\ outbox'[i].status = "dead"

\* What was enqueued stays so, and what was given up stays given up.
LEMMA EnqueuedStays ==
    ASSUME RowsKept
    PROVE  /\ \A d : Enqueued(d) => Enqueued(d)'
           /\ \A c : EarlyDead(c) => DeadAfter(c)
  BY DEF RowsKept, Enqueued, EarlyDead, DeadAfter

\* Remembering a delivery: the timestamp of an EARLY alert is kept under its company, and
\* no other entry for an EARLY alert is touched.
LEMMA EarlyRemembered ==
    ASSUME OutboxInv, NEW t \in Task, Remembers(t), NEW c \in Company
    PROVE  /\ Current(t).dedupe = <<"ghost", c>> => companyAlert'[<<c, "ghost">>] > 0
           /\ Current(t).dedupe # <<"ghost", c>> =>
                companyAlert'[<<c, "ghost">>] = companyAlert[<<c, "ghost">>]
<1> DEFINE row == Current(t)
           ts == IF KindOf(row) = "ghost" THEN NextTs ELSE NoThread
<1>1. /\ flush[t].at \in DOMAIN outbox /\ row = outbox[flush[t].at] /\ RowsAreRequests
      /\ companyAlert \in [Company \X Stage -> Nat \union {NoRow}]
      /\ channel \in Seq(ChannelMessage)
  BY HolderFacts DEF Remembers
<1>2. NextTs \in Nat /\ NextTs > 0
  BY <1>1, LenProperties DEF NextTs
<1>3. <<c, "ghost">> \in Company \X Stage
  BY DEF Stage
<1>4. CASE ~RecordsCompany(row)
  <2>1. row.dedupe # <<"ghost", c>>
    BY <1>4 DEF RecordsCompany, KindOf, Stage
  <2> QED
    BY <1>4, <2>1 DEF Remembers, CompanyAlertAfter
<1>5. CASE RecordsCompany(row)
  <2>1. /\ row.signal \in Signal /\ KindOf(row) \in Stage
        /\ row.dedupe = <<KindOf(row), KeyOf[row.signal]>>
    BY <1>1, <1>5, RowShape DEF RecordsCompany, Stage
  <2>2. CompanyKey(row.signal) = KeyOf[row.signal]
    BY <1>5 DEF Remembers, KeyMissing, CompanyKey
  <2>3. companyAlert' = [companyAlert EXCEPT ![<<KeyOf[row.signal], KindOf(row)>>] = ts]
    BY <1>5, <2>2 DEF Remembers, CompanyAlertAfter
  <2>4. CASE row.dedupe = <<"ghost", c>>
    <3>1. KindOf(row) = "ghost" /\ KeyOf[row.signal] = c
      BY <2>1, <2>4
    <3>2. companyAlert'[<<c, "ghost">>] = NextTs
      BY <1>1, <1>3, <2>3, <3>1
    <3> QED
      BY <1>2, <2>4, <3>2
  <2>5. CASE row.dedupe # <<"ghost", c>>
    <3>1. <<c, "ghost">> # <<KeyOf[row.signal], KindOf(row)>>
      BY <2>1, <2>5
    <3>2. companyAlert'[<<c, "ghost">>] = companyAlert[<<c, "ghost">>]
      BY <1>1, <1>3, <2>3, <3>1
    <3> QED
      BY <2>5, <3>2
  <2> QED
    BY <2>4, <2>5
<1> QED
  BY <1>4, <1>5

\* A row of the EARLY kind is keyed by a company, a corroboration by its signal.
LEMMA EarlyKey ==
    ASSUME OutboxInv, NEW i \in DOMAIN outbox
    PROVE  /\ outbox[i].dedupe[1] = "ghost" =>
                /\ outbox[i].dedupe[2] \in Company
                /\ outbox[i].dedupe = <<"ghost", outbox[i].dedupe[2]>>
           /\ outbox[i].dedupe[1] = "corroboration" =>
                /\ outbox[i].signal \in Signal \ Legacy
                /\ outbox[i].dedupe = <<"corroboration", outbox[i].signal>>
<1> DEFINE q == [dedupe |-> outbox[i].dedupe, signal |-> outbox[i].signal,
                 official |-> outbox[i].official]
<1>1. q \in EngineRequest
  BY DEF OutboxInv, RowsAreRequests
<1>2. KeyOf \in [Signal -> Company]
  BY OutboxAssumption DEF OutboxAssumption
<1>3. CASE \E s \in Signal \ Legacy : q = GhostRequest(s)
  BY <1>2, <1>3 DEF GhostRequest
<1>4. CASE \E s \in Signal \ Legacy : q = CorroborationRequest(s)
  BY <1>4 DEF CorroborationRequest
<1>5. CASE \E s \in Signal, o \in Official : q = ConfirmedRequest(s, o)
  BY <1>5 DEF ConfirmedRequest
<1>6. CASE \E o \in Official : q = OfficialRequest(o)
  BY <1>6 DEF OfficialRequest
<1> QED
  BY <1>1, <1>3, <1>4, <1>5, <1>6 DEF EngineRequest

\* An EARLY alert that is sent is remembered, and what is remembered was enqueued.
LEMMA MemoryKept ==
    ASSUME OutboxInv, OutboxInv', [OutboxNext]_outboxVars, SentRemembered,
           \A c \in Company : companyAlert[<<c, "ghost">>] # NoRow => Enqueued(<<"ghost", c>>)
    PROVE  /\ SentRemembered'
           /\ \A c \in Company :
                companyAlert'[<<c, "ghost">>] # NoRow => Enqueued(<<"ghost", c>>)'
<1>1. RowsKept
  BY StepKeepsOutbox
<1>2. ASSUME companyAlert' = companyAlert,
             \A i \in DOMAIN outbox' : outbox'[i].status = "sent" =>
                i \in DOMAIN outbox /\ outbox[i].status = "sent"
      PROVE  /\ SentRemembered'
             /\ \A c \in Company :
                  companyAlert'[<<c, "ghost">>] # NoRow => Enqueued(<<"ghost", c>>)'
  BY <1>1, <1>2, EnqueuedStays DEF SentRemembered, RowsKept
<1>3. CASE UNCHANGED outboxVars
  BY <1>2, <1>3 DEF outboxVars
<1>4. ASSUME NEW r \in Offered, Enqueue(r)
      PROVE  /\ SentRemembered'
             /\ \A c \in Company :
                  companyAlert'[<<c, "ghost">>] # NoRow => Enqueued(<<"ghost", c>>)'
  <2>1. r \in EngineRequest
    BY OutboxAssumption DEF OutboxAssumption
  <2>2. /\ companyAlert' = companyAlert
        /\ \A i \in DOMAIN outbox' \ DOMAIN outbox : outbox'[i].status = "pending"
    BY <1>4, <2>1, EnqueueEffects
  <2>3. outbox' = outbox \/ (\A i \in DOMAIN outbox : outbox'[i] = outbox[i])
    BY <1>4, <2>1, InsertRow DEF OutboxInv, Enqueue
  <2> QED
    BY <1>2, <2>2, <2>3
<1>5. ASSUME NEW t \in Task, FlushStep(t)
      PROVE  /\ SentRemembered'
             /\ \A c \in Company :
                  companyAlert'[<<c, "ghost">>] # NoRow => Enqueued(<<"ghost", c>>)'
  <2>1. /\ DOMAIN outbox' = DOMAIN outbox
        /\ companyAlert' = companyAlert \/ Remembers(t)
        /\ SentBy(t)
    BY <1>5, FlushEffects
  <2>2. \A i \in DOMAIN outbox : outbox[i] \in Row
    BY RowsTyped DEF OutboxInv
  <2>3. ASSUME NEW i \in DOMAIN outbox', outbox'[i].dedupe[1] = "ghost",
               outbox'[i].status = "sent"
        PROVE  companyAlert'[<<outbox'[i].dedupe[2], "ghost">>] > 0
    <3>1. PICK c \in Company : outbox[i].dedupe = <<"ghost", c>> /\ outbox'[i].dedupe = <<"ghost", c>>
      BY <1>1, <2>1, <2>3, EarlyKey DEF RowsKept
    <3>2. CASE outbox[i].status = "sent"
      <4>1. companyAlert[<<c, "ghost">>] > 0
        BY <2>1, <3>1, <3>2 DEF SentRemembered
      <4> QED
        BY <2>1, <3>1, <4>1, EarlyRemembered
    <3>3. CASE outbox[i].status # "sent"
      <4>1. outbox[i].status = "pending"
        BY <1>1, <2>1, <2>2, <2>3, <3>3 DEF RowsKept, Row
      <4>2. outbox[i] = Current(t) /\ Remembers(t)
        BY <2>1, <2>3, <4>1 DEF SentBy
      <4> QED
        BY <3>1, <4>2, EarlyRemembered
    <3> QED
      BY <3>2, <3>3
  <2>4. ASSUME NEW c \in Company, companyAlert'[<<c, "ghost">>] # NoRow
        PROVE  Enqueued(<<"ghost", c>>)'
    <3>1. CASE companyAlert'[<<c, "ghost">>] = companyAlert[<<c, "ghost">>]
      BY <1>1, <2>4, <3>1, EnqueuedStays
    <3>2. CASE Remembers(t) /\ Current(t).dedupe = <<"ghost", c>>
      <4>1. flush[t].at \in DOMAIN outbox /\ Current(t) = outbox[flush[t].at]
        BY <3>2, HolderFacts DEF Remembers
      <4>2. Enqueued(<<"ghost", c>>)
        BY <3>2, <4>1 DEF Enqueued
      <4> QED
        BY <1>1, <4>2, EnqueuedStays
    <3> QED
      BY <2>1, <3>1, <3>2, EarlyRemembered
  <2> QED
    BY <2>3, <2>4 DEF SentRemembered
<1> QED
  BY <1>3, <1>4, <1>5 DEF OutboxNext

\* A step that enqueues nothing leaves every alert behind the EARLY one of its company.
LEMMA BehindEarlyKept ==
    ASSUME OutboxInv, BehindEarly, RowsKept, DOMAIN outbox' = DOMAIN outbox, cut \subseteq cut'
    PROVE  BehindEarly'
<1>1. DOMAIN outbox = 1..Len(outbox) /\ Len(outbox) \in Nat
  BY LenProperties DEF OutboxInv, OutboxTypeOK
<1> SUFFICES ASSUME NEW i \in DOMAIN outbox',
                    \/ outbox'[i].dedupe[1] = "corroboration"
                    \/ /\ outbox'[i].dedupe[1] = "confirmed"
                       /\ outbox'[i].signal \notin Legacy \union cut'
             PROVE  \E j \in 1..(i - 1) :
                        outbox'[j].dedupe = <<"ghost", KeyOf[outbox'[i].signal]>>
  BY DEF BehindEarly
<1>2. i \in DOMAIN outbox /\ outbox'[i].dedupe = outbox[i].dedupe
      /\ outbox'[i].signal = outbox[i].signal
  BY DEF RowsKept
<1>3. PICK j \in 1..(i - 1) : outbox[j].dedupe = <<"ghost", KeyOf[outbox[i].signal]>>
  BY <1>2 DEF BehindEarly
<1>4. j \in DOMAIN outbox
  BY <1>1, <1>2, <1>3
<1> QED
  BY <1>2, <1>3, <1>4 DEF RowsKept

\* A new alert comes behind all others: what it follows need only be there already.
LEMMA BehindEarlyEnqueued ==
    ASSUME OutboxInv, BehindEarly, NEW r \in EngineRequest, Enqueue(r), cut \subseteq cut',
           \/ r.dedupe[1] = "corroboration"
           \/ r.dedupe[1] = "confirmed" /\ r.signal \notin Legacy \union cut
           => Enqueued(<<"ghost", KeyOf[r.signal]>>)
    PROVE  BehindEarly'
<1>1. DOMAIN outbox = 1..Len(outbox) /\ Len(outbox) \in Nat
  BY LenProperties DEF OutboxInv, OutboxTypeOK
<1>2. /\ RowsKept
      /\ \A i \in DOMAIN outbox' \ DOMAIN outbox :
           /\ outbox'[i].dedupe = r.dedupe /\ outbox'[i].signal = r.signal
           /\ \A j \in DOMAIN outbox : j < i
  BY EnqueueEffects
<1>3. outbox' \in Seq(Row)
  BY InsertRow DEF OutboxInv, Enqueue
<1>4. DOMAIN outbox' \subseteq Nat
  BY <1>3, LenProperties
<1> SUFFICES ASSUME NEW i \in DOMAIN outbox',
                    \/ outbox'[i].dedupe[1] = "corroboration"
                    \/ /\ outbox'[i].dedupe[1] = "confirmed"
                       /\ outbox'[i].signal \notin Legacy \union cut'
             PROVE  \E j \in 1..(i - 1) :
                        outbox'[j].dedupe = <<"ghost", KeyOf[outbox'[i].signal]>>
  BY DEF BehindEarly
<1>5. CASE i \in DOMAIN outbox
  <2>1. outbox'[i].dedupe = outbox[i].dedupe /\ outbox'[i].signal = outbox[i].signal
    BY <1>2, <1>5 DEF RowsKept
  <2>2. PICK j \in 1..(i - 1) : outbox[j].dedupe = <<"ghost", KeyOf[outbox[i].signal]>>
    BY <1>5, <2>1 DEF BehindEarly
  <2>3. j \in DOMAIN outbox
    BY <1>1, <1>5, <2>2
  <2> QED
    BY <1>2, <2>1, <2>2, <2>3 DEF RowsKept
<1>6. CASE i \notin DOMAIN outbox
  <2>1. outbox'[i].dedupe = r.dedupe /\ outbox'[i].signal = r.signal
    BY <1>2, <1>6
  <2>2. PICK j \in DOMAIN outbox : outbox[j].dedupe = <<"ghost", KeyOf[r.signal]>>
    BY <2>1 DEF Enqueued
  <2>3. j \in 1..(i - 1)
    BY <1>1, <1>2, <1>4, <1>6, <2>2
  <2> QED
    BY <1>2, <2>1, <2>2, <2>3 DEF RowsKept
<1> QED
  BY <1>5, <1>6

\* A row before the oldest pending one was sent or given up.
LEMMA OlderSettled ==
    ASSUME NEW table \in Seq(Row), NEW a \in DOMAIN table, NEW j \in 1..(a - 1),
           \A i \in DOMAIN table : table[i].status = "pending" => a <= i
    PROVE  j \in DOMAIN table /\ table[j].status \in {"sent", "dead"}
<1>1. DOMAIN table = 1..Len(table) /\ Len(table) \in Nat
  BY LenProperties
<1>2. j \in DOMAIN table /\ j < a
  BY <1>1
<1>3. table[j] \in Row
  BY <1>1, <1>2, ElementOfSeq
<1> QED
  BY <1>1, <1>2, <1>3 DEF Row

\* A corroboration that the loop goes on with has a thread, or its company has none.
LEMMA FlushThreadedKept ==
    ASSUME OutboxInv, OutboxInv', [OutboxNext]_outboxVars, FlushThreaded, BehindEarly',
           SentRemembered'
    PROVE  FlushThreaded'
<1>1. RowsKept
  BY StepKeepsOutbox
<1>2. ASSUME UNCHANGED <<flushLock, flush>> PROVE FlushThreaded'
  <2> SUFFICES ASSUME NEW u \in Task, flushLock' = u,
                      outbox'[flush'[u].at].dedupe[1] = "corroboration",
                      flush'[u].thread = NoThread
               PROVE  DeadAfter(KeyOf[outbox'[flush'[u].at].signal])
    BY DEF FlushThreaded, KindOf, Current, EarlyDead, DeadAfter
  <2>1. flushLock = u /\ flush[u].at \in DOMAIN outbox
    BY <1>2, HolderFacts
  <2>2. /\ outbox'[flush'[u].at].dedupe = Current(u).dedupe
        /\ outbox'[flush'[u].at].signal = Current(u).signal
    BY <1>1, <1>2, <2>1 DEF Current, RowsKept
  <2>3. EarlyDead(KeyOf[Current(u).signal])
    BY <1>2, <2>1, <2>2 DEF FlushThreaded, KindOf
  <2> QED
    BY <1>1, <2>2, <2>3, EnqueuedStays
<1>3. CASE UNCHANGED outboxVars
  BY <1>2, <1>3 DEF outboxVars
<1>4. ASSUME NEW r \in Offered, Enqueue(r) PROVE FlushThreaded'
  BY <1>2, <1>4 DEF Enqueue
<1>5. ASSUME NEW t \in Task, FlushStep(t) PROVE FlushThreaded'
  <2> SUFFICES ASSUME NEW u \in Task, flushLock' = u,
                      outbox'[flush'[u].at].dedupe[1] = "corroboration",
                      flush'[u].thread = NoThread
               PROVE  DeadAfter(KeyOf[outbox'[flush'[u].at].signal])
    BY DEF FlushThreaded, KindOf, Current, EarlyDead, DeadAfter
  <2> DEFINE i == flush'[u].at
             c == KeyOf[outbox'[i].signal]
  <2>1. u = t /\ flush'[t].thread = ParentThread(i, companyAlert')
    BY <1>5, FlushEffects, OutboxAssumption DEF GoesOn, OutboxAssumption
  <2>2. /\ i \in DOMAIN outbox' /\ DOMAIN outbox' = DOMAIN outbox
        /\ outbox' \in Seq(Row)
        /\ \A j \in DOMAIN outbox' : outbox'[j].status = "pending" => i <= j
    BY <1>5, FlushEffects DEF OutboxInv, OutboxTypeOK, FlushInOrder, Pending
  <2>3. /\ outbox'[i].dedupe[1] = "corroboration"
        /\ outbox'[i].dedupe = outbox[i].dedupe /\ outbox'[i].signal = outbox[i].signal
        /\ outbox[i].signal \in Signal \ Legacy
    BY <1>1, <2>2, EarlyKey DEF RowsKept
  <2>4. PICK j \in 1..(i - 1) : outbox'[j].dedupe = <<"ghost", c>>
    BY <2>2, <2>3 DEF BehindEarly
  <2>5. j \in DOMAIN outbox' /\ outbox'[j].status \in {"sent", "dead"}
    BY <2>2, <2>4, OlderSettled
  <2>6. CASE outbox'[j].status = "sent"
    <3>1. outbox'[j].dedupe[1] = "ghost" /\ outbox'[j].dedupe[2] = c
      BY <2>4
    <3>2. companyAlert'[<<c, "ghost">>] > 0
      BY <2>5, <2>6, <3>1 DEF SentRemembered
    <3>3. CompanyKey(outbox[i].signal) = c /\ c # Null
      BY <2>3, OutboxAssumption DEF CompanyKey, OutboxAssumption
    <3>4. ParentThread(i, companyAlert') = companyAlert'[<<c, "ghost">>]
      BY <2>3, <3>2, <3>3 DEF ParentThread, NoRow
    <3> QED
      BY <2>1, <3>2, <3>4 DEF NoThread
  <2>7. CASE outbox'[j].status = "dead"
    BY <2>4, <2>5, <2>7 DEF DeadAfter
  <2> QED
    BY <2>5, <2>6, <2>7
<1> QED
  BY <1>3, <1>4, <1>5 DEF OutboxNext

\* A step that posts appends one message of the holder's row; any other posts nothing.
LEMMA MessagePosted ==
    ASSUME OutboxInv, [OutboxNext]_outboxVars
    PROVE  \/ channel' = channel
           \/ \E t \in Task :
                /\ flushLock = t
                /\ DOMAIN channel' = DOMAIN channel \union {NextTs}
                /\ DOMAIN channel = 1..(NextTs - 1)
                /\ channel'[NextTs].dedupe = Current(t).dedupe
                /\ channel'[NextTs].signal = Current(t).signal
                /\ channel'[NextTs].thread = flush[t].thread
                /\ NextTs \in Nat
<1>1. CASE UNCHANGED outboxVars
  BY <1>1 DEF outboxVars
<1>2. ASSUME NEW r \in Offered, Enqueue(r) PROVE channel' = channel
  BY <1>2 DEF Enqueue
<1>3. ASSUME NEW t \in Task, FlushStep(t), channel' # channel
      PROVE  /\ flushLock = t
             /\ DOMAIN channel' = DOMAIN channel \union {NextTs}
             /\ DOMAIN channel = 1..(NextTs - 1)
             /\ channel'[NextTs].dedupe = Current(t).dedupe
             /\ channel'[NextTs].signal = Current(t).signal
             /\ channel'[NextTs].thread = flush[t].thread
             /\ NextTs \in Nat
  <2>1. flushLock = t /\ channel' = Append(channel, Message(t))
    BY <1>3, FlushEffects
  <2>2. OutboxTypeOK /\ RowsAreRequests /\ FlushInOrder
    BY DEF OutboxInv
  <2>3. /\ DOMAIN channel' = 1..NextTs /\ DOMAIN channel = 1..(NextTs - 1)
        /\ NextTs \in Nat \ {0}
        /\ channel'[NextTs].dedupe = Current(t).dedupe
        /\ channel'[NextTs].signal = Current(t).signal
        /\ channel'[NextTs].thread = flush[t].thread
    BY <2>1, <2>2, Posting
  <2> QED
    BY <2>1, <2>3
<1> QED
  BY <1>1, <1>2, <1>3 DEF OutboxNext

\* What stands in the channel: a corroboration without a thread is one of a company whose
\* EARLY alert was given up.
LEMMA ThreadedKept ==
    ASSUME OutboxInv, [OutboxNext]_outboxVars, FlushThreaded, CorroborationsThreaded
    PROVE  CorroborationsThreaded'
<1>1. RowsKept /\ ChannelGrows
  BY StepKeepsOutbox
<1> SUFFICES ASSUME NEW k \in DOMAIN channel', channel'[k].dedupe[1] = "corroboration",
                    channel'[k].thread = NoThread
             PROVE  DeadAfter(KeyOf[channel'[k].signal])
  BY DEF CorroborationsThreaded, DeadAfter
<1>2. CASE k \in DOMAIN channel
  <2>1. channel'[k] = channel[k]
    BY <1>1, <1>2 DEF ChannelGrows
  <2>2. EarlyDead(KeyOf[channel[k].signal])
    BY <1>2, <2>1 DEF CorroborationsThreaded, EarlyDead
  <2> QED
    BY <1>1, <2>1, <2>2, EnqueuedStays
<1>3. CASE k \notin DOMAIN channel
  <2>1. PICK t \in Task :
            /\ flushLock = t
            /\ k = NextTs
            /\ channel'[NextTs].dedupe = Current(t).dedupe
            /\ channel'[NextTs].signal = Current(t).signal
            /\ channel'[NextTs].thread = flush[t].thread
    BY <1>3, MessagePosted
  <2>2. EarlyDead(KeyOf[Current(t).signal])
    BY <2>1 DEF FlushThreaded, KindOf
  <2> QED
    BY <1>1, <2>1, <2>2, EnqueuedStays
<1> QED
  BY <1>2, <1>3

\* And a confirmation stands after the EARLY alert of its company, unless that was given up.
LEMMA FollowsKept ==
    ASSUME OutboxInv, [OutboxNext]_outboxVars, BehindEarly, ConfirmedFollowsEarly,
           cut \subseteq cut'
    PROVE  ConfirmedFollowsEarly'
<1>1. RowsKept /\ ChannelGrows
  BY StepKeepsOutbox
<1>2. DOMAIN channel = 1..Len(channel) /\ Len(channel) \in Nat /\ NextTs = Len(channel) + 1
  BY LenProperties DEF OutboxInv, OutboxTypeOK, NextTs
<1> SUFFICES ASSUME NEW k \in DOMAIN channel', channel'[k].dedupe[1] = "confirmed",
                    channel'[k].signal \notin Legacy \union cut'
             PROVE  \/ \E j \in 1..(k - 1) :
                            channel'[j].dedupe = <<"ghost", KeyOf[channel'[k].signal]>>
                    \/ DeadAfter(KeyOf[channel'[k].signal])
  BY DEF ConfirmedFollowsEarly, DeadAfter
<1>3. CASE k \in DOMAIN channel
  <2>1. channel'[k] = channel[k]
    BY <1>1, <1>3 DEF ChannelGrows
  <2>2. CASE EarlyDead(KeyOf[channel[k].signal])
    BY <1>1, <2>1, <2>2, EnqueuedStays
  <2>3. ASSUME NEW j \in 1..(k - 1), channel[j].dedupe = <<"ghost", KeyOf[channel[k].signal]>>
        PROVE  channel'[j].dedupe = <<"ghost", KeyOf[channel'[k].signal]>>
    <3>1. j \in DOMAIN channel
      BY <1>2, <1>3
    <3> QED
      BY <1>1, <2>1, <2>3, <3>1 DEF ChannelGrows
  <2>4. \/ \E j \in 1..(k - 1) : channel[j].dedupe = <<"ghost", KeyOf[channel[k].signal]>>
        \/ EarlyDead(KeyOf[channel[k].signal])
    BY <1>3, <2>1 DEF ConfirmedFollowsEarly, EarlyDead
  <2> QED
    BY <2>2, <2>3, <2>4
<1>4. CASE k \notin DOMAIN channel
  <2>1. PICK t \in Task :
            /\ flushLock = t
            /\ k = NextTs
            /\ channel'[NextTs].dedupe = Current(t).dedupe
            /\ channel'[NextTs].signal = Current(t).signal
    BY <1>4, MessagePosted
  <2> DEFINE a == flush[t].at
             c == KeyOf[Current(t).signal]
  <2>2. /\ a \in DOMAIN outbox /\ Current(t) = outbox[a] /\ outbox \in Seq(Row)
        /\ \A i \in DOMAIN outbox : outbox[i].status = "pending" => a <= i
        /\ SentMeansDelivered
    BY <2>1, HolderFacts DEF FlushInOrder, Pending, DeliveryInv
  <2>3. PICK j \in 1..(a - 1) : outbox[j].dedupe = <<"ghost", c>>
    BY <2>1, <2>2 DEF BehindEarly
  <2>4. j \in DOMAIN outbox /\ outbox[j].status \in {"sent", "dead"}
    BY <2>2, <2>3, OlderSettled
  <2>5. CASE outbox[j].status = "dead"
    <3>1. EarlyDead(c)
      BY <2>3, <2>4, <2>5 DEF EarlyDead
    <3> QED
      BY <1>1, <2>1, <3>1, EnqueuedStays
  <2>6. CASE outbox[j].status = "sent"
    <3>1. PICK m \in DOMAIN channel \ lost : channel[m].dedupe = <<"ghost", c>>
      BY <2>2, <2>3, <2>4, <2>6 DEF SentMeansDelivered
    <3>2. m \in 1..(k - 1) /\ channel'[m] = channel[m]
      BY <1>1, <1>2, <2>1 DEF ChannelGrows
    <3> QED
      BY <2>1, <3>1, <3>2
  <2> QED
    BY <2>4, <2>5, <2>6
<1> QED
  BY <1>3, <1>4

-----------------------------------------------------------------------------
(* The handlers and their alerts *)

\* What the handlers keep between the signals and the outbox.
EngineAlerts ==
    /\ AtDecided
    /\ DetectedEnqueued
    /\ ConfirmedEnqueued
    /\ \A c \in work.announced : Enqueued(<<"ghost", c>>)
    /\ BehindEarly

\* Steps that leave signals, and the signal at work, as they are.
LEMMA QuietKeeps ==
    ASSUME EngineAlerts, RowsKept, BehindEarly', UNCHANGED status, cut \subseteq cut',
           work'.announced \subseteq work.announced,
           Detecting' = Detecting, Confirming' = Confirming
    PROVE  EngineAlerts'
<1> USE EnqueuedStays DEF EngineAlerts
<1>1. AtDecided'
  BY DEF AtDecided
<1>2. DetectedEnqueued'
  BY DEF DetectedEnqueued
<1>3. ConfirmedEnqueued'
  BY DEF ConfirmedEnqueued
<1> QED
  BY <1>1, <1>2, <1>3

\* Steps that enqueue nothing.
LEMMA SilentKeeps ==
    ASSUME OutboxInv, EngineAlerts, UNCHANGED <<outboxVars, cut>>
    PROVE  RowsKept /\ BehindEarly'
<1>1. RowsKept /\ outbox' = outbox
  BY DEF outboxVars, RowsKept
<1> QED
  BY <1>1, BehindEarlyKept DEF EngineAlerts

\* Nothing is at work when no handler is.
LEMMA NothingAtWork ==
    /\ work = Idle => Detecting = {} /\ Confirming = {}
    /\ work.task \in {"idle", "official"} \/ work.step = "next" =>
            Detecting = {} /\ Confirming = {}
  BY DEF Idle, Detecting, Confirming

\* Handlers begin with nothing at work.
LEMMA BeginKeeps ==
    ASSUME OutboxInv, EngineInv, EngineAlerts,
           \/ \E c \in Crawls : IngestOfficial(c[1], c[2])
           \/ \E b \in Batches : IngestSocial(b)
           \/ ReconcileGhosts
    PROVE  EngineAlerts'
<1>1. /\ work = Idle /\ UNCHANGED <<outboxVars, status, cut>>
      /\ work'.announced = {}
      /\ work'.task = "official" \/ work'.step = "next"
  BY DEF IngestOfficial, IngestSocial, ReconcileGhosts, Idle, history
<1>2. RowsKept /\ BehindEarly'
  BY <1>1, SilentKeeps
<1>3. Detecting = {} /\ Confirming = {} /\ Detecting' = {} /\ Confirming' = {}
  BY <1>1, NothingAtWork DEF Detecting, Confirming
<1> QED
  BY <1>1, <1>2, <1>3, QuietKeeps

\* ingest_official enqueues only alerts that follow nothing.
LEMMA OfficialKeeps ==
    ASSUME OutboxInv, EngineInv, EngineAlerts, OfficialStep
    PROVE  EngineAlerts'
<1>1. work \in Work /\ work.task = "official"
  BY DEF EngineInv, EngineTypeOK, OfficialStep, PruneAbsent, RecordAdditions, AnnounceOfficial,
         RecordSnapshot
<1>2. /\ work'.task \in {"official", "idle"} /\ work'.announced \subseteq work.announced
      /\ UNCHANGED <<status, cut>>
  <2>1. CASE PruneAbsent
    BY <1>1, <2>1 DEF Work, PruneAbsent, history
  <2>2. CASE RecordAdditions
    BY <1>1, <2>2 DEF Work, RecordAdditions, history
  <2>3. ASSUME NEW o \in Official, AnnounceOfficial(o)
        PROVE  work'.task = "official" /\ work'.announced = work.announced
               /\ UNCHANGED <<status, cut>>
    BY <1>1, <2>3 DEF Work, AnnounceOfficial
  <2>4. CASE RecordSnapshot
    BY <2>4 DEF RecordSnapshot, history, Idle
  <2> QED
    BY <2>1, <2>2, <2>3, <2>4 DEF OfficialStep
<1>3. Detecting' = Detecting /\ Confirming' = Confirming
  BY <1>1, <1>2 DEF Detecting, Confirming
<1>4. ASSUME UNCHANGED outboxVars PROVE EngineAlerts'
  BY <1>2, <1>3, <1>4, SilentKeeps, QuietKeeps
<1>5. ASSUME NEW o \in Official, Enqueue(OfficialRequest(o)) PROVE EngineAlerts'
  <2>1. OfficialRequest(o) \in EngineRequest /\ OfficialRequest(o).dedupe[1] = "official"
    BY DEF EngineRequest, OfficialRequest
  <2>2. RowsKept /\ BehindEarly'
    BY <1>2, <1>5, <2>1, EnqueueEffects, BehindEarlyEnqueued DEF EngineAlerts
  <2> QED
    BY <1>2, <1>3, <2>2, QuietKeeps
<1> QED
  BY <1>4, <1>5 DEF OfficialStep, PruneAbsent, RecordAdditions, AnnounceOfficial, RecordSnapshot

\* A row is inserted: if it is a ghost's, its alert is to come.
LEMMA AdjudicateAlerts ==
    ASSUME OutboxInv, EngineInv, EngineAlerts, NEW s \in Signal, Adjudicate(s)
    PROVE  EngineAlerts'
<1> DEFINE isNew == Verdict(s) # "suppressed" /\ status[s] = "new"
<1>1. /\ work \in Work /\ work.task = "social" /\ work.step = "next"
      /\ status \in [Signal -> Status]
      /\ status' = IF isNew THEN [status EXCEPT ![s] = InitialStatus(Verdict(s))] ELSE status
      /\ work' = [work EXCEPT
                    !.todo = work.todo \ {s},
                    !.entries = work.entries \union {<<s, Verdict(s)>>},
                    !.at = IF isNew THEN s ELSE Null,
                    !.step = IF isNew THEN "timeline" ELSE "next"]
      /\ UNCHANGED <<outboxVars, cut>>
  BY DEF Adjudicate, EngineInv, EngineTypeOK, history
<1>2. /\ work'.task = "social" /\ work'.announced = work.announced
      /\ work'.at = IF isNew THEN s ELSE Null
      /\ work'.step = IF isNew THEN "timeline" ELSE "next"
  BY <1>1 DEF Work
<1>3. RowsKept /\ BehindEarly'
  BY <1>1, SilentKeeps
<1>4. Detecting = {} /\ Confirming = {} /\ Confirming' = {}
      /\ Detecting' = IF isNew THEN {s} ELSE {}
  BY <1>1, <1>2 DEF Detecting, Confirming
<1>5. CASE ~isNew
  BY <1>1, <1>2, <1>3, <1>4, <1>5, QuietKeeps
<1>6. CASE isNew
  <2>1. status' = [status EXCEPT ![s] = InitialStatus(Verdict(s))]
        /\ InitialStatus(Verdict(s)) \in {"ghost", "possible", "already_official"}
    BY <1>1, <1>6, VerdictTyped
  <2>2. AtDecided'
    BY <1>1, <1>4, <2>1 DEF AtDecided
  <2>3. DetectedEnqueued'
    BY <1>1, <1>3, <1>4, <1>6, <2>1, EnqueuedStays DEF EngineAlerts, DetectedEnqueued
  <2>4. ConfirmedEnqueued'
    BY <1>1, <1>3, <1>4, <2>1, EnqueuedStays DEF EngineAlerts, ConfirmedEnqueued
  <2> QED
    BY <1>2, <1>3, <2>2, <2>3, <2>4, EnqueuedStays DEF EngineAlerts
<1> QED
  BY <1>5, <1>6

\* The events of an inserted row: only a ghost goes on to its alert.
LEMMA RecordKeeps ==
    ASSUME OutboxInv, EngineInv, EngineAlerts, RecordDetection \/ RecordClassification
    PROVE  EngineAlerts'
<1>1. /\ work \in Work /\ work.task = "social" /\ work.step \in {"timeline", "classify"}
      /\ UNCHANGED <<outboxVars, status, cut>>
      /\ \/ work' = [work EXCEPT !.step = "next", !.at = Null] /\ status[work.at] # "ghost"
         \/ work' = [work EXCEPT !.step = "classify"]
         \/ work' = [work EXCEPT !.step = "announce"]
  BY DEF RecordDetection, RecordClassification, EngineInv, EngineTypeOK, history
<1>2. RowsKept /\ BehindEarly'
  BY <1>1, SilentKeeps
<1>3. Confirming = {} /\ Detecting = {work.at}
  BY <1>1 DEF Detecting, Confirming
<1>4. CASE work' = [work EXCEPT !.step = "next", !.at = Null] /\ status[work.at] # "ghost"
  <2>1. work'.announced = work.announced /\ work'.task = "social" /\ work'.step = "next"
    BY <1>1, <1>4 DEF Work
  <2>2. Confirming' = {} /\ Detecting' = {}
    BY <2>1 DEF Detecting, Confirming
  <2>3. status[work.at] \in {"possible", "already_official"}
    BY <1>3, <1>4 DEF EngineAlerts, AtDecided
  <2>4. DetectedEnqueued'
    BY <1>1, <1>2, <1>3, <2>2, <2>3, EnqueuedStays DEF EngineAlerts, DetectedEnqueued
  <2>5. AtDecided' /\ ConfirmedEnqueued'
    BY <1>1, <1>2, <1>3, <2>2, EnqueuedStays DEF EngineAlerts, AtDecided, ConfirmedEnqueued
  <2> QED
    BY <1>2, <2>1, <2>4, <2>5, EnqueuedStays DEF EngineAlerts
<1>5. CASE work' = [work EXCEPT !.step = "classify"] \/ work' = [work EXCEPT !.step = "announce"]
  <2>1. /\ work'.announced = work.announced /\ work'.task = "social" /\ work'.at = work.at
        /\ work'.step \in {"classify", "announce"}
    BY <1>1, <1>5 DEF Work
  <2>2. Detecting' = Detecting /\ Confirming' = Confirming
    BY <1>3, <2>1 DEF Detecting, Confirming
  <2> QED
    BY <1>1, <1>2, <2>1, <2>2, QuietKeeps
<1> QED
  BY <1>1, <1>4, <1>5

\* A ghost is announced, or corroborates an EARLY alert that is in the outbox already.
LEMMA AnnounceGhostAlerts ==
    ASSUME OutboxInv, EngineInv, EngineAlerts, AnnounceGhost,
           \A c \in Company : companyAlert[<<c, "ghost">>] # NoRow => Enqueued(<<"ghost", c>>)
    PROVE  EngineAlerts'
<1>1. PICK s \in Signal \ Legacy : work.at = s
  BY DEF AnnounceGhost, EngineInv, InsertedIsNew
<1>2. KeyOf[s] \in Company
  BY OutboxAssumption DEF OutboxAssumption
<1>3. AlreadyAnnounced(s) => Enqueued(<<"ghost", KeyOf[s]>>)
  BY <1>2 DEF EngineAlerts, AlreadyAnnounced
<1>4. PICK r \in EngineRequest :
        /\ Enqueue(r)
        /\ r.signal = s
        /\ \/ r.dedupe = <<"corroboration", s>> /\ Enqueued(<<"ghost", KeyOf[s]>>)
           \/ r.dedupe = <<"ghost", KeyOf[s]>>
  BY <1>1, <1>3 DEF AnnounceGhost, EngineRequest, CorroborationRequest, GhostRequest
<1>5. /\ work \in Work /\ work.task = "social" /\ work.step = "announce"
      /\ work' = [work EXCEPT !.step = "next", !.at = Null,
                              !.announced = work.announced \union {KeyOf[s]}]
      /\ UNCHANGED <<status, cut>>
  BY <1>1 DEF AnnounceGhost, EngineInv, EngineTypeOK, history
<1>6. /\ work'.task = "social" /\ work'.step = "next"
      /\ work'.announced = work.announced \union {KeyOf[s]}
  BY <1>5 DEF Work
<1>7. Confirming = {} /\ Confirming' = {} /\ Detecting = {s} /\ Detecting' = {}
  BY <1>1, <1>5, <1>6 DEF Detecting, Confirming
<1>8. RowsKept /\ Enqueued(r.dedupe)'
  BY <1>4, EnqueueEffects
<1>9. BehindEarly'
  <2>1. r.dedupe[1] \in {"corroboration", "ghost"}
        /\ (r.dedupe[1] = "corroboration" => Enqueued(<<"ghost", KeyOf[r.signal]>>))
    BY <1>4
  <2> QED
    BY <1>4, <1>5, <2>1, BehindEarlyEnqueued DEF EngineAlerts
<1>10. Enqueued(<<"ghost", KeyOf[s]>>)'
  BY <1>4, <1>8, EnqueuedStays
<1>11. AtDecided'
  BY <1>7 DEF AtDecided
<1>12. DetectedEnqueued'
  <2> SUFFICES ASSUME NEW x \in Signal \ (Legacy \union cut), status[x] \in {"ghost", "confirmed"}
               PROVE  Enqueued(<<"ghost", KeyOf[x]>>)' \/ Enqueued(<<"corroboration", x>>)'
    BY <1>5 DEF DetectedEnqueued
  <2>1. CASE x = s
    BY <1>10, <2>1
  <2>2. CASE x # s
    BY <1>7, <1>8, <2>2, EnqueuedStays DEF EngineAlerts, DetectedEnqueued
  <2> QED
    BY <2>1, <2>2
<1>13. ConfirmedEnqueued'
  BY <1>5, <1>7, <1>8, EnqueuedStays DEF EngineAlerts, ConfirmedEnqueued
<1>14. \A c \in work'.announced : Enqueued(<<"ghost", c>>)'
  BY <1>6, <1>8, <1>10, EnqueuedStays DEF EngineAlerts
<1> QED
  BY <1>9, <1>11, <1>12, <1>13, <1>14 DEF EngineAlerts

\* An open ghost is retired or confirmed: if confirmed, its confirmation is to come.
LEMMA DecideAlerts ==
    ASSUME OutboxInv, EngineInv, EngineAlerts, NEW g \in Signal,
           RetireGhost(g) \/ ConfirmGhost(g)
    PROVE  EngineAlerts'
<1>1. /\ work \in Work /\ work.task = "reconcile" /\ work.step = "next"
      /\ status \in [Signal -> Status] /\ status[g] = "ghost"
      /\ UNCHANGED <<outboxVars, cut>>
  BY DEF RetireGhost, ConfirmGhost, EngineInv, EngineTypeOK, ReconcilesGhosts, Ghosts, history
<1>2. PICK fate \in {"suppressed", "confirmed"}, step \in {"retired", "confirmed"} :
        /\ status' = [status EXCEPT ![g] = fate]
        /\ work' = [work EXCEPT !.todo = work.todo \ {g}, !.at = g, !.step = step]
        /\ fate = "confirmed" <=> step = "confirmed"
  BY DEF RetireGhost, ConfirmGhost
<1>3. /\ work'.task = "reconcile" /\ work'.announced = work.announced
      /\ work'.at = g /\ work'.step = step
  BY <1>1, <1>2 DEF Work
<1>4. RowsKept /\ BehindEarly'
  BY <1>1, SilentKeeps
<1>5. /\ Detecting = {} /\ Detecting' = {} /\ Confirming = {}
      /\ Confirming' = IF fate = "confirmed" THEN {g} ELSE {}
  BY <1>1, <1>2, <1>3 DEF Detecting, Confirming
<1>6. /\ status'[g] = fate
      /\ \A s \in Signal : s # g => status'[s] = status[s]
      /\ UNCHANGED cut
  BY <1>1, <1>2
<1>7. AtDecided'
  BY <1>5, <1>6 DEF AtDecided
<1>8. DetectedEnqueued'
  BY <1>1, <1>4, <1>5, <1>6, EnqueuedStays DEF EngineAlerts, DetectedEnqueued
<1>9. ConfirmedEnqueued'
  BY <1>1, <1>4, <1>5, <1>6, EnqueuedStays DEF EngineAlerts, ConfirmedEnqueued
<1> QED
  BY <1>3, <1>4, <1>7, <1>8, <1>9, EnqueuedStays DEF EngineAlerts

\* A confirmation is enqueued behind the EARLY alert of its company, unless the handler
\* that inserted the ghost never came to its alert.
LEMMA AnnounceConfirmedAlerts ==
    ASSUME OutboxInv, EngineInv, EngineAlerts, NEW o \in Official, AnnounceConfirmed(o)
    PROVE  EngineAlerts'
<1>1. PICK s \in Signal : work.at = s
  BY RadarAssumption DEF AnnounceConfirmed, RadarAssumption
<1>2. PICK r \in EngineRequest :
        /\ Enqueue(r)
        /\ r.signal = s
        /\ r.dedupe = <<"confirmed", KeyOf[s]>>
  BY <1>1 DEF AnnounceConfirmed, EngineRequest, ConfirmedRequest
<1>3. /\ work \in Work /\ work.task = "reconcile" /\ work.step = "announce"
      /\ work' = [work EXCEPT !.at = Null, !.step = "next"]
      /\ UNCHANGED <<status, cut>>
  BY <1>1 DEF AnnounceConfirmed, EngineInv, EngineTypeOK, history
<1>4. /\ work'.task = "reconcile" /\ work'.step = "next"
      /\ work'.announced = work.announced
  BY <1>3 DEF Work
<1>5. Confirming = {s} /\ Confirming' = {} /\ Detecting = {} /\ Detecting' = {}
  BY <1>1, <1>3, <1>4 DEF Detecting, Confirming
<1>6. status[s] = "confirmed"
  BY <1>5 DEF EngineAlerts, AtDecided
<1>7. ASSUME s \notin Legacy \union cut PROVE Enqueued(<<"ghost", KeyOf[s]>>)
  <2>1. CASE Enqueued(<<"corroboration", s>>)
    <3>1. PICK i \in DOMAIN outbox : outbox[i].dedupe = <<"corroboration", s>>
      BY <2>1 DEF Enqueued
    <3>2. outbox[i].dedupe[1] = "corroboration" /\ outbox[i].signal = s
      BY <3>1, EarlyKey
    <3>3. PICK j \in 1..(i - 1) : outbox[j].dedupe = <<"ghost", KeyOf[s]>>
      BY <3>2 DEF EngineAlerts, BehindEarly
    <3>4. j \in DOMAIN outbox
      BY <3>3, LenProperties DEF OutboxInv, OutboxTypeOK
    <3> QED
      BY <3>3, <3>4 DEF Enqueued
  <2> QED
    BY <1>5, <1>6, <1>7, <2>1 DEF EngineAlerts, DetectedEnqueued
<1>8. RowsKept /\ Enqueued(r.dedupe)'
  BY <1>2, EnqueueEffects
<1>9. BehindEarly'
  BY <1>2, <1>3, <1>7, BehindEarlyEnqueued DEF EngineAlerts
<1>10. AtDecided'
  BY <1>5 DEF AtDecided
<1>11. DetectedEnqueued'
  BY <1>3, <1>5, <1>8, EnqueuedStays DEF EngineAlerts, DetectedEnqueued
<1>12. ConfirmedEnqueued'
  <2> SUFFICES ASSUME NEW x \in Signal \ cut, status[x] = "confirmed"
               PROVE  Enqueued(<<"confirmed", KeyOf[x]>>)'
    BY <1>3 DEF ConfirmedEnqueued
  <2>1. CASE x = s
    BY <1>2, <1>8, <2>1
  <2>2. CASE x # s
    BY <1>5, <1>8, <2>2, EnqueuedStays DEF EngineAlerts, ConfirmedEnqueued
  <2> QED
    BY <2>1, <2>2
<1> QED
  BY <1>4, <1>8, <1>9, <1>10, <1>11, <1>12, EnqueuedStays DEF EngineAlerts

\* The other steps of the handlers enqueue nothing and decide nothing.
LEMMA HandlerKeepsQuiet ==
    ASSUME OutboxInv, EngineInv, EngineAlerts,
           \/ RecordCandidates \/ RecordRetirement \/ RecordConfirmation \/ ReconcileDone
           \/ \E g \in Signal : KeepGhost(g)
    PROVE  EngineAlerts'
<1>1. work \in Work /\ UNCHANGED <<outboxVars, status, cut>>
  BY DEF RecordCandidates, RecordRetirement, RecordConfirmation, ReconcileDone, KeepGhost,
         EngineInv, EngineTypeOK, history
<1>2. RowsKept /\ BehindEarly'
  BY <1>1, SilentKeeps
<1>3. ASSUME work'.announced \subseteq work.announced,
             Detecting' = Detecting, Confirming' = Confirming
      PROVE  EngineAlerts'
  BY <1>1, <1>2, <1>3, QuietKeeps
<1>4. CASE RecordCandidates \/ ReconcileDone
  <2>1. work' = Idle /\ work.step = "next"
    BY <1>4 DEF RecordCandidates, ReconcileDone
  <2>2. Detecting = {} /\ Confirming = {} /\ Detecting' = {} /\ Confirming' = {}
        /\ work'.announced = {}
    BY <2>1, NothingAtWork DEF Idle, Detecting, Confirming
  <2> QED
    BY <1>3, <2>2
<1>5. ASSUME NEW g \in Signal, KeepGhost(g) PROVE EngineAlerts'
  <2>1. /\ work'.task = "reconcile" /\ work'.step = "next" /\ work'.announced = work.announced
        /\ work.step = "next"
    BY <1>1, <1>5 DEF KeepGhost, Work
  <2>2. Detecting = {} /\ Confirming = {} /\ Detecting' = {} /\ Confirming' = {}
    BY <2>1 DEF Detecting, Confirming
  <2> QED
    BY <1>3, <2>1, <2>2
<1>6. CASE RecordRetirement
  <2>1. /\ work'.task = "reconcile" /\ work'.step = "next" /\ work'.announced = work.announced
        /\ work.task = "reconcile" /\ work.step = "retired"
    BY <1>1, <1>6 DEF RecordRetirement, Work
  <2>2. Detecting = {} /\ Confirming = {} /\ Detecting' = {} /\ Confirming' = {}
    BY <2>1 DEF Detecting, Confirming
  <2> QED
    BY <1>3, <2>1, <2>2
<1>7. CASE RecordConfirmation
  <2>1. /\ work'.task = "reconcile" /\ work'.step = "announce" /\ work'.at = work.at
        /\ work'.announced = work.announced
        /\ work.task = "reconcile" /\ work.step = "confirmed"
    BY <1>1, <1>7 DEF RecordConfirmation, Work
  <2>2. Detecting = {} /\ Detecting' = {} /\ Confirming' = Confirming
    BY <2>1 DEF Detecting, Confirming
  <2> QED
    BY <1>3, <2>1, <2>2
<1> QED
  BY <1>4, <1>5, <1>6, <1>7

\* A handler that stops leaves its signal to the exceptions: whatever is still at work
\* is cut.
LEMMA HandlerStopsAlerts ==
    ASSUME OutboxInv, EngineInv, EngineAlerts, HandlerStops
    PROVE  EngineAlerts'
<1>1. /\ work' = Idle /\ cut' = cut \union Unannounced
      /\ UNCHANGED <<outboxVars, status>>
      /\ work \in Work
  BY DEF HandlerStops, EngineInv, EngineTypeOK
<1>2. RowsKept /\ BehindEarly'
  <2>1. RowsKept /\ outbox' = outbox
    BY <1>1 DEF outboxVars, RowsKept
  <2> QED
    BY <1>1, <2>1, BehindEarlyKept DEF EngineAlerts
<1>3. Detecting' = {} /\ Confirming' = {} /\ work'.announced = {}
  BY <1>1 DEF Idle, Detecting, Confirming
<1>4. \A s \in Signal \ cut' : status[s] \in {"ghost", "confirmed"} =>
            s \notin Detecting \union Confirming
  <2> SUFFICES ASSUME NEW s \in Signal, s \in Detecting \union Confirming,
                      status[s] \in {"ghost", "confirmed"}
               PROVE  s \in Unannounced
    BY <1>1
  <2>1. work.at = s /\ s # Null
    BY OutboxAssumption DEF Detecting, Confirming, OutboxAssumption
  <2> QED
    BY <2>1 DEF Unannounced
<1>5. AtDecided'
  BY <1>3 DEF AtDecided
<1>6. DetectedEnqueued'
  BY <1>1, <1>2, <1>4, EnqueuedStays DEF EngineAlerts, DetectedEnqueued
<1>7. ConfirmedEnqueued'
  BY <1>1, <1>2, <1>4, EnqueuedStays DEF EngineAlerts, ConfirmedEnqueued
<1> QED
  BY <1>2, <1>3, <1>5, <1>6, <1>7 DEF EngineAlerts

\* Neither the world around the handlers nor a flush touches what they keep.
LEMMA WorldKeepsAlerts ==
    ASSUME OutboxInv, EngineInv, EngineAlerts,
           \/ SnapshotAges
           \/ \E s \in Signal : RulesImprove(s)
           \/ \E t \in Task : Flush(t)
           \/ UNCHANGED radarVars
    PROVE  EngineAlerts'
<1>1. UNCHANGED <<status, cut, work>>
  BY DEF SnapshotAges, RulesImprove, Flush, engineVars, radarVars, history
<1>2. Detecting' = Detecting /\ Confirming' = Confirming
  BY <1>1 DEF Detecting, Confirming
<1>3. RowsKept /\ BehindEarly'
  <2>1. CASE UNCHANGED outboxVars
    BY <1>1, <2>1, SilentKeeps
  <2>2. ASSUME NEW t \in Task, Flush(t) PROVE RowsKept /\ BehindEarly'
    <3>1. RowsKept /\ DOMAIN outbox' = DOMAIN outbox
      BY <2>2, FlushEffects DEF Flush
    <3> QED
      BY <1>1, <3>1, BehindEarlyKept DEF EngineAlerts
  <2> QED
    BY <2>1, <2>2 DEF SnapshotAges, RulesImprove, radarVars
<1> QED
  BY <1>1, <1>2, <1>3, QuietKeeps

\* Every step of the service keeps what the handlers keep.
LEMMA EngineAlertsNext ==
    ASSUME OutboxInv, EngineInv, EngineAlerts, [RadarNext]_radarVars,
           \A c \in Company : companyAlert[<<c, "ghost">>] # NoRow => Enqueued(<<"ghost", c>>)
    PROVE  EngineAlerts'
<1>1. CASE SocialStep
  BY <1>1, AdjudicateAlerts, RecordKeeps, AnnounceGhostAlerts, HandlerKeepsQuiet DEF SocialStep
<1>2. CASE ReconcileStep
  BY <1>2, DecideAlerts, AnnounceConfirmedAlerts, HandlerKeepsQuiet DEF ReconcileStep
<1> QED
  BY <1>1, <1>2, OfficialKeeps, BeginKeeps, HandlerStopsAlerts, WorldKeepsAlerts
     DEF RadarNext, HandlerStep

-----------------------------------------------------------------------------
(* The invariant of the alerts *)

\* A migrated database has ghosts, no alert and no message.
LEMMA AlertInit == RadarInit => AlertInv
<1> SUFFICES ASSUME RadarInit PROVE AlertInv
  OBVIOUS
<1>1. /\ outbox = <<>> /\ channel = <<>> /\ flushLock = Null /\ work = Idle
      /\ companyAlert = [p \in Company \X Stage |-> NoRow]
      /\ status = [s \in Signal |-> IF s \in Legacy THEN "ghost" ELSE "new"]
  BY DEF RadarInit, OutboxInit
<1>2. Detecting = {} /\ Confirming = {} /\ work.announced = {}
  BY <1>1, NothingAtWork DEF Idle
<1>3. AtDecided /\ DetectedEnqueued /\ ConfirmedEnqueued
  BY <1>1, <1>2 DEF AtDecided, DetectedEnqueued, ConfirmedEnqueued
<1>4. AnnouncedEnqueued
  BY <1>1, <1>2 DEF AnnouncedEnqueued, Stage
<1>5. SentRemembered /\ BehindEarly
  BY <1>1 DEF SentRemembered, BehindEarly
<1>6. FlushThreaded
  BY <1>1, OutboxAssumption DEF FlushThreaded, OutboxAssumption
<1>7. CorroborationsThreaded /\ ConfirmedFollowsEarly
  BY <1>1 DEF CorroborationsThreaded, ConfirmedFollowsEarly
<1> QED
  BY <1>3, <1>4, <1>5, <1>6, <1>7 DEF AlertInv

\* History only grows.
LEMMA CutGrows ==
    ASSUME [RadarNext]_radarVars
    PROVE  cut \subseteq cut'
  BY DEF RadarNext, HandlerStep, OfficialStep, PruneAbsent, RecordAdditions, AnnounceOfficial,
         RecordSnapshot, SocialStep, Adjudicate, RecordDetection, RecordClassification,
         AnnounceGhost, RecordCandidates, ReconcileStep, RetireGhost, KeepGhost, ConfirmGhost,
         RecordRetirement, RecordConfirmation, AnnounceConfirmed, ReconcileDone, IngestOfficial,
         IngestSocial, ReconcileGhosts, SnapshotAges, RulesImprove, HandlerStops, Flush,
         history, engineVars, radarVars

\* Every step of the service keeps the alerts in order.
LEMMA AlertNext ==
    OutboxInv /\ OutboxInv' /\ EngineInv /\ AlertInv /\ [RadarNext]_radarVars => AlertInv'
<1> SUFFICES ASSUME OutboxInv, OutboxInv', EngineInv, AlertInv, [RadarNext]_radarVars
             PROVE  AlertInv'
  OBVIOUS
<1>1. [OutboxNext]_outboxVars /\ cut \subseteq cut'
  BY EngineUsesOutbox, CutGrows
<1>2. EngineAlerts
      /\ \A c \in Company : companyAlert[<<c, "ghost">>] # NoRow => Enqueued(<<"ghost", c>>)
  BY DEF AlertInv, EngineAlerts, AnnouncedEnqueued
<1>3. EngineAlerts'
  BY <1>2, EngineAlertsNext
<1>4. SentRemembered' /\ AnnouncedEnqueued'
  BY <1>1, <1>2, <1>3, MemoryKept DEF AlertInv, EngineAlerts, AnnouncedEnqueued
<1>5. FlushThreaded'
  BY <1>1, <1>3, <1>4, FlushThreadedKept DEF AlertInv, EngineAlerts
<1>6. CorroborationsThreaded' /\ ConfirmedFollowsEarly'
  BY <1>1, ThreadedKept, FollowsKept DEF AlertInv
<1> QED
  BY <1>3, <1>4, <1>5, <1>6 DEF AlertInv, EngineAlerts

\* The signals and their alerts stay in order in every behaviour of the service.
THEOREM AlertInvariant == RadarSpec => []AlertInv
<1>1. RadarSpec => []OutboxInv
  BY RadarIsOutboxClient, OutboxInvariant DEF RadarUsesOutbox
<1> QED
  BY <1>1, EngineInvariant, AlertInit, AlertNext, PTL DEF RadarSpec

\* A corroboration outside a thread belongs to a company whose EARLY alert was given up.
THEOREM CorroborationsStandInThreads == RadarSpec => []CorroborationsThreaded
<1>1. AlertInv => CorroborationsThreaded
  BY DEF AlertInv
<1> QED
  BY <1>1, AlertInvariant, PTL

\* A confirmation stands behind the EARLY alert of its company, whatever failed or stopped.
THEOREM ConfirmationsFollowEarly == RadarSpec => []ConfirmedFollowsEarly
<1>1. AlertInv => ConfirmedFollowsEarly
  BY DEF AlertInv
<1> QED
  BY <1>1, AlertInvariant, PTL

\* No ghost is left without an alert when the handlers rest, unless one was cut.
THEOREM EveryGhostAnnounced == RadarSpec => []GhostsAnnounced
<1>1. AlertInv => GhostsAnnounced
  <2> SUFFICES ASSUME AlertInv, work = Idle, NEW s \in Ghosts \ (Legacy \union cut)
               PROVE  \E i \in DOMAIN outbox :
                        outbox[i].dedupe \in {<<"ghost", KeyOf[s]>>, <<"corroboration", s>>}
    BY DEF GhostsAnnounced
  <2>1. Detecting = {}
    BY NothingAtWork
  <2>2. Enqueued(<<"ghost", KeyOf[s]>>) \/ Enqueued(<<"corroboration", s>>)
    BY <2>1 DEF AlertInv, DetectedEnqueued, Ghosts
  <2> QED
    BY <2>2 DEF Enqueued
<1> QED
  BY <1>1, AlertInvariant, PTL

\* No confirmed signal is left without the confirmation of its company.
THEOREM EveryConfirmationAnnounced == RadarSpec => []ConfirmationsAnnounced
<1>1. AlertInv => ConfirmationsAnnounced
  <2> SUFFICES ASSUME AlertInv, work = Idle, NEW s \in Signal \ cut, status[s] = "confirmed"
               PROVE  \E i \in DOMAIN outbox : outbox[i].dedupe = <<"confirmed", KeyOf[s]>>
    BY DEF ConfirmationsAnnounced
  <2>1. Confirming = {}
    BY NothingAtWork
  <2> QED
    BY <2>1 DEF AlertInv, ConfirmedEnqueued, Enqueued
<1> QED
  BY <1>1, AlertInvariant, PTL

-----------------------------------------------------------------------------
(* Reconciliation *)

\* Nothing is withheld, and nothing reconciled, at first.
LEMMA ReconcileInit == RadarInit => ReconcileInv
  BY DEF RadarInit, Idle, ReconcileInv, OpenGhostsChecked, WithheldForGhosts, ListWasGhosts

\* A handler that rests, and any but reconciliation, has no ghosts to look at.
LEMMA OnlyReconcileReconciles ==
    ASSUME EngineInv, [RadarNext]_radarVars, work'.task = "reconcile"
    PROVE  ReconcileGhosts \/ ReconcileStep \/ UNCHANGED radarVars
<1>1. Idle.task = "idle" /\ work \in Work
  BY DEF Idle, EngineInv, EngineTypeOK
<1>2. ASSUME NEW c \in Crawls, IngestOfficial(c[1], c[2]) PROVE FALSE
  BY <1>2 DEF IngestOfficial, Idle
<1>3. ASSUME NEW b \in Batches, IngestSocial(b) PROVE FALSE
  BY <1>3 DEF IngestSocial, Idle
<1>4. ASSUME OfficialStep PROVE FALSE
  <2>1. CASE PruneAbsent
    BY <1>1, <2>1 DEF PruneAbsent, Work
  <2>2. CASE RecordAdditions
    <3>1. work.task = "official" /\ work'.task = work.task
      BY <1>1, <2>2 DEF RecordAdditions, Work
    <3> QED
      BY <3>1
  <2>3. ASSUME NEW o \in Official, AnnounceOfficial(o) PROVE FALSE
    BY <1>1, <2>3 DEF AnnounceOfficial, Work
  <2>4. CASE RecordSnapshot
    BY <1>1, <2>4 DEF RecordSnapshot
  <2> QED
    BY <1>4, <2>1, <2>2, <2>3, <2>4 DEF OfficialStep
<1>5. ASSUME SocialStep PROVE FALSE
  <2>1. ASSUME NEW s \in Signal, Adjudicate(s) PROVE FALSE
    BY <1>1, <2>1 DEF Adjudicate, Work
  <2>2. CASE RecordDetection
    BY <1>1, <2>2 DEF RecordDetection, Work
  <2>3. CASE RecordClassification
    BY <1>1, <2>3 DEF RecordClassification, Work
  <2>4. CASE AnnounceGhost
    BY <1>1, <2>4 DEF AnnounceGhost, Work
  <2>5. CASE RecordCandidates
    BY <1>1, <2>5 DEF RecordCandidates
  <2> QED
    BY <1>5, <2>1, <2>2, <2>3, <2>4, <2>5 DEF SocialStep
<1> QED
  BY <1>1, <1>2, <1>3, <1>4, <1>5
     DEF RadarNext, HandlerStep, SnapshotAges, RulesImprove, HandlerStops, Flush, engineVars

\* The ghosts that reconciliation leaves behind stay checked, and those it overlooked stay
\* behind its list: it decides the others, and nothing else moves the directory or the
\* rules meanwhile.
LEMMA CheckedKept ==
    ASSUME EngineInv, OpenGhostsChecked, [RadarNext]_radarVars
    PROVE  OpenGhostsChecked'
<1> DEFINE Checked(g) == g \in usable /\ ~OfficialMatch(g)
           CheckedAfter(g) ==
                g \in usable' /\ ~(\E o \in Official : companies'[o] = "listed" /\ <<g, o>> \in Scoped)
           Behind(g, ghosts) ==
                /\ g \notin ghosts
                /\ Cardinality(ghosts) = GhostLimit
                /\ \A h \in ghosts : Rank[h] >= Rank[g]
<1> SUFFICES ASSUME work'.task = "reconcile", NEW g \in Signal, status'[g] = "ghost",
                    g \notin work'.todo
             PROVE  Behind(g, work'.ghosts) \/ CheckedAfter(g)
  BY DEF OpenGhostsChecked, Ghosts, OfficialMatch, Listed, Overlooked
<1>1. work \in Work /\ status \in [Signal -> Status]
  BY DEF EngineInv, EngineTypeOK
<1>2. ASSUME work.task = "reconcile", status[g] = "ghost", g \notin work.todo
      PROVE  Behind(g, work.ghosts) \/ Checked(g)
  BY <1>2 DEF OpenGhostsChecked, Ghosts, Overlooked
<1>3. ASSUME UNCHANGED <<companies, usable>>, Checked(g) PROVE CheckedAfter(g)
  BY <1>3 DEF OfficialMatch, Listed
<1> HIDE DEF Checked, CheckedAfter, Behind
<1>4. CASE UNCHANGED radarVars
  BY <1>2, <1>3, <1>4 DEF radarVars, engineVars
<1>5. CASE ReconcileGhosts
  <2>1. PICK ghosts \in ListGhosts :
            work' = [Idle EXCEPT !.task = "reconcile", !.step = "next", !.todo = ghosts,
                                 !.ghosts = ghosts]
    BY <1>5 DEF ReconcileGhosts
  <2>2. g \in Ghosts /\ work'.todo = ghosts /\ work'.ghosts = ghosts
    BY <1>5, <2>1 DEF ReconcileGhosts, Idle, Ghosts
  <2> QED
    BY <2>2, ListedGhosts DEF Behind
<1>6. CASE ReconcileStep
  <2>1. work.task = "reconcile" /\ UNCHANGED <<companies, usable>>
    BY <1>6 DEF ReconcileStep, RetireGhost, ConfirmGhost, KeepGhost, RecordRetirement,
                RecordConfirmation, AnnounceConfirmed, ReconcileDone
  <2>2. /\ status[g] = "ghost" /\ work'.ghosts = work.ghosts
        /\ g \in work.todo => Checked(g)
    <3>1. ASSUME NEW h \in Signal, RetireGhost(h) \/ ConfirmGhost(h)
          PROVE  /\ status[g] = "ghost" /\ work'.ghosts = work.ghosts
                 /\ g \notin work.todo
      <4>1. /\ h # g /\ status'[g] = status[g]
        BY <1>1, <3>1 DEF RetireGhost, ConfirmGhost
      <4>2. work'.todo = work.todo \ {h} /\ work'.ghosts = work.ghosts
        BY <1>1, <3>1 DEF RetireGhost, ConfirmGhost, Work
      <4> QED
        BY <4>1, <4>2
    <3>2. ASSUME NEW h \in Signal, KeepGhost(h)
          PROVE  /\ status[g] = "ghost" /\ work'.ghosts = work.ghosts
                 /\ g \in work.todo => Checked(g)
      <4>1. work'.todo = work.todo \ {h} /\ work'.ghosts = work.ghosts /\ UNCHANGED status
        BY <1>1, <3>2 DEF KeepGhost, Work
      <4> QED
        BY <3>2, <4>1 DEF KeepGhost, Checked
    <3>3. CASE RecordRetirement \/ RecordConfirmation \/ \E o \in Official : AnnounceConfirmed(o)
      <4>1. work'.todo = work.todo /\ work'.ghosts = work.ghosts /\ UNCHANGED status
        BY <1>1, <3>3 DEF RecordRetirement, RecordConfirmation, AnnounceConfirmed, Work
      <4> QED
        BY <4>1
    <3>4. ASSUME ReconcileDone PROVE FALSE
      BY <3>4 DEF ReconcileDone, Idle
    <3> QED
      BY <1>6, <3>1, <3>2, <3>3, <3>4 DEF ReconcileStep
  <2> QED
    BY <1>2, <1>3, <2>1, <2>2
<1> QED
  BY <1>4, <1>5, <1>6, OnlyReconcileReconciles

\* A handler reads open ghosts, and what was one is only decided afterwards.
LEMMA ListKept ==
    ASSUME EngineInv, ListWasGhosts, [RadarNext]_radarVars
    PROVE  ListWasGhosts'
<1> DEFINE Detected == {"ghost", "confirmed", "suppressed"}
<1>1. \A s \in Signal : status[s] \in Detected => status'[s] \in Detected
  BY StatusStep
<1>2. work \in Work /\ Idle.ghosts = {}
  BY DEF EngineInv, EngineTypeOK, Idle
<1>3. ASSUME NEW ghosts \in ListGhosts, work'.ghosts = ghosts
      PROVE  ListWasGhosts'
  BY <1>1, <1>3, ListedGhosts DEF ListWasGhosts, Ghosts
<1>4. ASSUME work'.ghosts = work.ghosts \/ work'.ghosts = {}
      PROVE  ListWasGhosts'
  BY <1>1, <1>2, <1>4 DEF ListWasGhosts, Work
<1>5. CASE RecordAdditions
  <2>1. CASE work' = [work EXCEPT !.step = "announce", !.todo = {}]
    BY <1>2, <1>4, <2>1 DEF Work
  <2>2. ASSUME NEW ghosts \in ListGhosts,
               work' = [work EXCEPT !.step = "announce", !.ghosts = ghosts]
        PROVE  ListWasGhosts'
    BY <1>2, <1>3, <2>2 DEF Work
  <2> QED
    BY <1>5, <2>1, <2>2 DEF RecordAdditions
<1>6. CASE ReconcileGhosts
  BY <1>3, <1>6 DEF ReconcileGhosts, Idle
<1>7. ASSUME NEW c \in Crawls, IngestOfficial(c[1], c[2]) PROVE work'.ghosts = {}
  BY <1>7 DEF IngestOfficial, Idle
<1>8. ASSUME NEW b \in Batches, IngestSocial(b) PROVE work'.ghosts = {}
  BY <1>8 DEF IngestSocial, Idle
<1>9. CASE OfficialStep
  <2>1. CASE PruneAbsent
    BY <1>2, <1>4, <2>1 DEF PruneAbsent, Work
  <2>2. ASSUME NEW o \in Official, AnnounceOfficial(o) PROVE work'.ghosts = work.ghosts
    BY <1>2, <2>2 DEF AnnounceOfficial, Work
  <2>3. CASE RecordSnapshot
    BY <1>2, <1>4, <2>3 DEF RecordSnapshot
  <2> QED
    BY <1>4, <1>5, <1>9, <2>1, <2>2, <2>3 DEF OfficialStep
<1>10. CASE SocialStep
  <2>1. ASSUME NEW s \in Signal, Adjudicate(s) PROVE work'.ghosts = work.ghosts
    BY <1>2, <2>1 DEF Adjudicate, Work
  <2>2. CASE RecordDetection
    BY <1>2, <1>4, <2>2 DEF RecordDetection, Work
  <2>3. CASE RecordClassification
    BY <1>2, <1>4, <2>3 DEF RecordClassification, Work
  <2>4. CASE AnnounceGhost
    BY <1>2, <1>4, <2>4 DEF AnnounceGhost, Work
  <2>5. CASE RecordCandidates
    BY <1>2, <1>4, <2>5 DEF RecordCandidates
  <2> QED
    BY <1>4, <1>10, <2>1, <2>2, <2>3, <2>4, <2>5 DEF SocialStep
<1>11. CASE ReconcileStep
  <2>1. ASSUME NEW g \in Signal, RetireGhost(g) \/ KeepGhost(g) \/ ConfirmGhost(g)
        PROVE  work'.ghosts = work.ghosts
    BY <1>2, <2>1 DEF RetireGhost, KeepGhost, ConfirmGhost, Work
  <2>2. ASSUME \/ RecordRetirement \/ RecordConfirmation
               \/ \E o \in Official : AnnounceConfirmed(o)
        PROVE  work'.ghosts = work.ghosts
    BY <1>2, <2>2 DEF RecordRetirement, RecordConfirmation, AnnounceConfirmed, Work
  <2>3. CASE ReconcileDone
    BY <1>2, <1>4, <2>3 DEF ReconcileDone
  <2> QED
    BY <1>4, <1>11, <2>1, <2>2, <2>3 DEF ReconcileStep
<1>12. ASSUME NEW s \in Signal, RulesImprove(s) PROVE work' = work
  BY <1>12 DEF RulesImprove
<1>13. ASSUME NEW t \in Task, Flush(t) PROVE work' = work
  BY <1>13 DEF Flush, engineVars
<1>14. CASE SnapshotAges \/ HandlerStops \/ UNCHANGED radarVars
  BY <1>2, <1>4, <1>14 DEF SnapshotAges, HandlerStops, radarVars, engineVars
<1> QED
  BY <1>4, <1>6, <1>7, <1>8, <1>9, <1>10, <1>11, <1>12, <1>13, <1>14
     DEF RadarNext, HandlerStep
\* What an addition was left to is a ghost at that moment, and only decided afterwards.
LEMMA WithheldKept ==
    ASSUME EngineInv, WithheldForGhosts, ListWasGhosts, [RadarNext]_radarVars
    PROVE  WithheldForGhosts'
<1> DEFINE Detected == {"ghost", "confirmed", "suppressed"}
<1>1. withheld \subseteq Signal \X Official
  BY DEF EngineInv, EngineTypeOK
<1>2. \A s \in Signal : status[s] \in Detected => status'[s] \in Detected
  BY StatusStep
<1>3. \A p \in withheld : status'[p[1]] \in Detected
  BY <1>1, <1>2 DEF WithheldForGhosts
<1>4. ASSUME NEW o \in Official, AnnounceOfficial(o)
      PROVE  \A p \in withheld' : status'[p[1]] \in Detected
  <2>1. UNCHANGED status /\ withheld' = withheld \union (MatchingGhosts(o) \X {o})
    BY <1>4 DEF AnnounceOfficial
  <2>2. \A p \in MatchingGhosts(o) \X {o} : status[p[1]] \in Detected
    BY DEF MatchingGhosts, ListWasGhosts
  <2> QED
    BY <1>3, <2>1, <2>2
<1>5. \/ \E o \in Official : AnnounceOfficial(o)
      \/ UNCHANGED withheld
  BY DEF RadarNext, HandlerStep, OfficialStep, PruneAbsent, RecordAdditions,
         RecordSnapshot, SocialStep, Adjudicate, RecordDetection, RecordClassification,
         AnnounceGhost, RecordCandidates, ReconcileStep, RetireGhost, KeepGhost, ConfirmGhost,
         RecordRetirement, RecordConfirmation, AnnounceConfirmed, ReconcileDone, IngestOfficial,
         IngestSocial, ReconcileGhosts, SnapshotAges, RulesImprove, HandlerStops, Flush,
         history, engineVars, radarVars
<1> QED
  BY <1>3, <1>4, <1>5 DEF WithheldForGhosts

\* Reconciliation keeps its invariant in every behaviour of the service.
THEOREM ReconcileInvariant == RadarSpec => []ReconcileInv
<1>1. EngineInv /\ ReconcileInv /\ [RadarNext]_radarVars => ReconcileInv'
  BY CheckedKept, WithheldKept, ListKept DEF ReconcileInv
<1> QED
  BY <1>1, EngineInvariant, ReconcileInit, PTL DEF RadarSpec

\* When reconcile_ghosts has done its last ghost, every open one that it should have retired
\* or confirmed stands behind a full list of ghosts that score no less: whatever limit
\* list_ghosts is called with, the limit is all that keeps a mistake open.
THEOREM ReconciliationComplete == RadarSpec => []ReconcileComplete
<1>1. ReconcileInv => ReconcileComplete
  BY DEF ReconcileInv, OpenGhostsChecked, ReconcileComplete, ReconcileEnds
<1> QED
  BY <1>1, ReconcileInvariant, PTL

\* Then every listed addition that was left to a ghost of its batch has its answer, unless
\* the ghost has since been pushed from the list by others that score no less.
THEOREM WithheldIsAnswered == RadarSpec => []WithheldAnswered
<1>1. EngineInv /\ ReconcileInv => WithheldAnswered
  <2> SUFFICES ASSUME EngineInv, ReconcileInv, ReconcileEnds, NEW g \in Signal, NEW o \in Listed,
                      <<g, o>> \in withheld, <<g, o>> \in Scoped
               PROVE  status[g] \in {"confirmed", "suppressed"} \/ Overlooked(g)
    BY DEF WithheldAnswered
  <2>1. status[g] \in {"ghost", "confirmed", "suppressed"}
    BY DEF ReconcileInv, WithheldForGhosts
  <2>2. OfficialMatch(g)
    BY DEF OfficialMatch
  <2>3. status[g] # "ghost" \/ Overlooked(g)
    BY <2>2 DEF ReconcileInv, OpenGhostsChecked, ReconcileEnds, Ghosts
  <2> QED
    BY <2>1, <2>3
<1> QED
  BY <1>1, EngineInvariant, ReconcileInvariant, PTL

-----------------------------------------------------------------------------
(* The timeline and the ledger *)

LEMMA StatusAfterEvents ==
    /\ DOMAIN StatusAfter =
        {"social_detected", "ghost", "already_official", "official_confirmed", "retired"}
    /\ StatusAfter["social_detected"] = Status \ {"new"}
    /\ StatusAfter["ghost"] = {"ghost", "confirmed", "suppressed"}
    /\ StatusAfter["already_official"] = {"already_official"}
    /\ StatusAfter["official_confirmed"] = {"confirmed"}
    /\ StatusAfter["retired"] = {"suppressed"}
  BY DEF StatusAfter

\* What was true of a signal after an event stays true: of the decisions only that for a
\* ghost is open.
LEMMA StatusAfterStays ==
    ASSUME EngineInv, [RadarNext]_radarVars, NEW s \in Signal, NEW e \in DOMAIN StatusAfter,
           status[s] \in StatusAfter[e]
    PROVE  status'[s] \in StatusAfter[e]
<1>1. CASE status'[s] = status[s]
  BY <1>1
<1>2. CASE status'[s] # status[s]
  <2>1. \/ status[s] = "new" /\ status'[s] \in {"ghost", "possible", "already_official"}
        \/ status[s] = "ghost" /\ status'[s] \in {"confirmed", "suppressed"}
    BY <1>2, StatusStep
  <2> QED
    BY <2>1, StatusAfterEvents DEF Status
<1> QED
  BY <1>1, <1>2

\* Nothing is told at first, of a migrated row either.
LEMMA RecordsInit == RadarInit => RecordsInv
  BY DEF RadarInit, Idle, RecordsInv, TimelineTruthful, LedgerHasSignal, VerdictsHaveSignal,
         TellsStatus

\* Who tells something, and who writes the ledger.
LEMMA TellersOnly ==
    ASSUME [RadarNext]_radarVars
    PROVE  /\ \/ RecordAdditions \/ RecordDetection \/ RecordClassification
              \/ RecordRetirement \/ RecordConfirmation
              \/ UNCHANGED timeline
           /\ RecordCandidates \/ UNCHANGED ledger
<1>1. ASSUME NEW o \in Official, AnnounceOfficial(o) \/ AnnounceConfirmed(o)
      PROVE  UNCHANGED <<timeline, ledger>>
  BY <1>1 DEF AnnounceOfficial, AnnounceConfirmed
<1>2. ASSUME NEW s \in Signal,
             \/ Adjudicate(s) \/ RetireGhost(s) \/ KeepGhost(s) \/ ConfirmGhost(s)
             \/ RulesImprove(s)
      PROVE  UNCHANGED <<timeline, ledger>>
  BY <1>2 DEF Adjudicate, RetireGhost, KeepGhost, ConfirmGhost, RulesImprove
<1>3. ASSUME PruneAbsent \/ RecordSnapshot \/ AnnounceGhost \/ ReconcileDone
      PROVE  UNCHANGED <<timeline, ledger>>
  BY <1>3 DEF PruneAbsent, RecordSnapshot, AnnounceGhost, ReconcileDone
<1>4. ASSUME \/ RecordAdditions \/ RecordDetection \/ RecordClassification
             \/ RecordRetirement \/ RecordConfirmation
      PROVE  UNCHANGED ledger
  BY <1>4 DEF RecordAdditions, RecordDetection, RecordClassification, RecordRetirement,
              RecordConfirmation
<1>5. ASSUME RecordCandidates PROVE UNCHANGED timeline
  BY <1>5 DEF RecordCandidates
<1>6. ASSUME NEW c \in Crawls, IngestOfficial(c[1], c[2]) PROVE UNCHANGED <<timeline, ledger>>
  BY <1>6 DEF IngestOfficial
<1>7. ASSUME NEW b \in Batches, IngestSocial(b) PROVE UNCHANGED <<timeline, ledger>>
  BY <1>7 DEF IngestSocial
<1>8. ASSUME ReconcileGhosts \/ SnapshotAges \/ HandlerStops
      PROVE  UNCHANGED <<timeline, ledger>>
  BY <1>8 DEF ReconcileGhosts, SnapshotAges, HandlerStops
<1>9. ASSUME NEW t \in Task, Flush(t) PROVE UNCHANGED <<timeline, ledger>>
  BY <1>9 DEF Flush, engineVars
<1>10. ASSUME UNCHANGED radarVars PROVE UNCHANGED <<timeline, ledger>>
  BY <1>10 DEF radarVars, engineVars
<1> QED
  BY <1>1, <1>2, <1>3, <1>4, <1>5, <1>6, <1>7, <1>8, <1>9, <1>10
     DEF RadarNext, HandlerStep, OfficialStep, SocialStep, ReconcileStep

\* What is told of the signal at work is its status.
LEMMA TimelineKept ==
    ASSUME EngineInv, TimelineTruthful, TellsStatus, [RadarNext]_radarVars
    PROVE  TimelineTruthful'
<1> SUFFICES ASSUME NEW s \in Signal, NEW e \in DOMAIN StatusAfter, <<e, s>> \in timeline'
             PROVE  status'[s] \in StatusAfter[e]
  BY DEF TimelineTruthful
<1>1. CASE <<e, s>> \in timeline
  BY <1>1, StatusAfterStays DEF TimelineTruthful
<1>2. CASE <<e, s>> \notin timeline
  <2>1. ASSUME RecordAdditions PROVE FALSE
    BY <1>2, <2>1, StatusAfterEvents DEF RecordAdditions, RecordTimeline
  <2>2. ASSUME RecordDetection \/ RecordClassification PROVE status[s] \in StatusAfter[e]
    BY <1>2, <2>2, StatusAfterEvents
       DEF RecordDetection, RecordClassification, RecordTimeline, TellsStatus, Status
  <2>3. ASSUME RecordRetirement \/ RecordConfirmation PROVE status[s] \in StatusAfter[e]
    BY <1>2, <2>3, StatusAfterEvents
       DEF RecordRetirement, RecordConfirmation, RecordTimeline, TellsStatus
  <2> QED
    BY <1>2, <2>1, <2>2, <2>3, TellersOnly, StatusAfterStays
<1> QED
  BY <1>1, <1>2

\* A signal is never lost.
LEMMA SignalStays ==
    ASSUME EngineInv, [RadarNext]_radarVars, NEW s \in Signal, status[s] # "new"
    PROVE  status'[s] # "new"
  BY StatusStep

\* A verdict other than a refusal is noted with its signal in the table.
LEMMA VerdictsKept ==
    ASSUME EngineInv, VerdictsHaveSignal, [RadarNext]_radarVars
    PROVE  VerdictsHaveSignal'
<1> SUFFICES ASSUME NEW s \in Signal, NEW v \in VerdictName \ {"suppressed"},
                    <<s, v>> \in work'.entries
             PROVE  status'[s] # "new"
  BY DEF VerdictsHaveSignal
<1>1. work \in Work /\ Idle.entries = {} /\ status \in [Signal -> Status]
  BY DEF EngineInv, EngineTypeOK, Idle
<1>2. CASE <<s, v>> \in work.entries
  BY <1>2, SignalStays DEF VerdictsHaveSignal
<1>3. CASE <<s, v>> \notin work.entries
  <2>1. ASSUME NEW a \in Signal, Adjudicate(a) PROVE status'[s] # "new"
    <3>1. work'.entries = work.entries \union {<<a, Verdict(a)>>}
      BY <1>1, <2>1 DEF Adjudicate, Work
    <3>2. a = s /\ v = Verdict(s)
      BY <1>3, <3>1
    <3> QED
      BY <1>1, <2>1, <3>2, VerdictTyped DEF Adjudicate
  <2>2. \/ \E a \in Signal : Adjudicate(a)
        \/ work'.entries = work.entries
        \/ work'.entries = {}
    <3>1. ASSUME OfficialStep PROVE work'.entries = work.entries \/ work'.entries = {}
      BY <1>1, <3>1 DEF OfficialStep, PruneAbsent, RecordAdditions, AnnounceOfficial,
                        RecordSnapshot, Work
    <3>2. ASSUME SocialStep
          PROVE  \/ \E a \in Signal : Adjudicate(a)
                 \/ work'.entries = work.entries
                 \/ work'.entries = {}
      BY <1>1, <3>2 DEF SocialStep, RecordDetection, RecordClassification, AnnounceGhost,
                        RecordCandidates, Work
    <3>3. ASSUME ReconcileStep PROVE work'.entries = work.entries \/ work'.entries = {}
      <4>1. ASSUME NEW g \in Signal, RetireGhost(g) \/ KeepGhost(g) \/ ConfirmGhost(g)
            PROVE  work'.entries = work.entries
        BY <1>1, <4>1 DEF RetireGhost, KeepGhost, ConfirmGhost, Work
      <4>2. ASSUME \/ RecordRetirement \/ RecordConfirmation
                   \/ \E o \in Official : AnnounceConfirmed(o)
            PROVE  work'.entries = work.entries
        BY <1>1, <4>2 DEF RecordRetirement, RecordConfirmation, AnnounceConfirmed, Work
      <4> QED
        BY <1>1, <3>3, <4>1, <4>2 DEF ReconcileStep, ReconcileDone
    <3>4. ASSUME NEW c \in Crawls, IngestOfficial(c[1], c[2]) PROVE work'.entries = {}
      BY <3>4 DEF IngestOfficial, Idle
    <3>5. ASSUME NEW b \in Batches, IngestSocial(b) PROVE work'.entries = {}
      BY <3>5 DEF IngestSocial, Idle
    <3>6. ASSUME ReconcileGhosts PROVE work'.entries = {}
      BY <3>6 DEF ReconcileGhosts, Idle
    <3> QED
      BY <1>1, <3>1, <3>2, <3>3, <3>4, <3>5, <3>6
         DEF RadarNext, HandlerStep, SnapshotAges, RulesImprove, HandlerStops, Flush,
             engineVars, radarVars
  <2> QED
    BY <1>3, <2>1, <2>2
<1> QED
  BY <1>2, <1>3

\* The ledger takes its verdicts from the batch at work.
LEMMA LedgerKept ==
    ASSUME EngineInv, LedgerHasSignal, VerdictsHaveSignal, [RadarNext]_radarVars
    PROVE  LedgerHasSignal'
<1> SUFFICES ASSUME NEW s \in Signal, ledger'[s] \notin {"none", "suppressed"}
             PROVE  status'[s] # "new"
  BY DEF LedgerHasSignal
<1>1. CASE ledger'[s] = ledger[s]
  BY <1>1, SignalStays DEF LedgerHasSignal
<1>2. CASE ledger'[s] # ledger[s]
  <2>1. RecordCandidates
    BY <1>2, TellersOnly
  <2>2. PICK v \in VerdictName : <<s, v>> \in work.entries /\ ledger'[s] = v
    <3>1. \E v \in VerdictName : <<s, v>> \in work.entries
      BY <1>2, <2>1 DEF RecordCandidates
    <3>2. ledger'[s] = CHOOSE v \in VerdictName : <<s, v>> \in work.entries
      BY <2>1, <3>1 DEF RecordCandidates
    <3> QED
      BY <3>1, <3>2
  <2> QED
    BY <2>2, SignalStays DEF VerdictsHaveSignal
<1> QED
  BY <1>1, <1>2

\* The signal at work was given the status that its next event tells.
LEMMA TellsKept ==
    ASSUME EngineInv, TellsStatus, [RadarNext]_radarVars
    PROVE  TellsStatus'
<1>1. work \in Work /\ status \in [Signal -> Status] /\ Idle.task = "idle"
  BY DEF EngineInv, EngineTypeOK, Idle
<1>2. ASSUME NEW a \in Signal, Adjudicate(a) PROVE TellsStatus'
  <2>1. /\ work'.task = "social"
        /\ work'.step = "timeline" =>
            work'.at = a /\ status'[a] \in {"ghost", "possible", "already_official"}
        /\ work'.step \in {"timeline", "next"}
    BY <1>1, <1>2, VerdictTyped DEF Adjudicate, Work
  <2> QED
    BY <2>1 DEF TellsStatus
<1>3. CASE RecordDetection
  <2>1. work'.task = "social" /\ status' = status
    BY <1>1, <1>3 DEF RecordDetection, Work
  <2>2. \/ work'.step = "next"
        \/ work'.step = "classify" /\ work'.at = work.at /\ status[work.at] # "possible"
    BY <1>1, <1>3 DEF RecordDetection, Work
  <2> QED
    BY <1>3, <2>1, <2>2 DEF RecordDetection, TellsStatus
<1>4. ASSUME NEW g \in Signal, RetireGhost(g) \/ ConfirmGhost(g) PROVE TellsStatus'
  <2>1. /\ work'.task = "reconcile" /\ work'.at = g
        /\ \/ work'.step = "retired" /\ status'[g] = "suppressed"
           \/ work'.step = "confirmed" /\ status'[g] = "confirmed"
    BY <1>1, <1>4 DEF RetireGhost, ConfirmGhost, Work
  <2> QED
    BY <2>1 DEF TellsStatus
<1>5. CASE \/ RecordClassification \/ AnnounceGhost \/ RecordRetirement \/ RecordConfirmation
           \/ \E o \in Official : AnnounceConfirmed(o)
  <2>1. work'.step \in {"next", "announce"}
    BY <1>1, <1>5 DEF RecordClassification, AnnounceGhost, RecordRetirement,
                      RecordConfirmation, AnnounceConfirmed, Work
  <2> QED
    BY <2>1 DEF TellsStatus
<1>6. ASSUME NEW g \in Signal, KeepGhost(g) PROVE TellsStatus'
  BY <1>1, <1>6 DEF KeepGhost, TellsStatus, Work
<1>7. CASE OfficialStep
  <2>1. work'.task \in {"official", "idle"}
    BY <1>1, <1>7 DEF OfficialStep, PruneAbsent, RecordAdditions, AnnounceOfficial,
                      RecordSnapshot, Work
  <2> QED
    BY <2>1 DEF TellsStatus
<1>8. CASE RecordCandidates \/ ReconcileDone \/ HandlerStops
  BY <1>1, <1>8 DEF RecordCandidates, ReconcileDone, HandlerStops, TellsStatus
<1>9. ASSUME NEW c \in Crawls, IngestOfficial(c[1], c[2]) PROVE TellsStatus'
  BY <1>9 DEF IngestOfficial, Idle, TellsStatus
<1>10. ASSUME NEW b \in Batches, IngestSocial(b) PROVE TellsStatus'
  BY <1>10 DEF IngestSocial, Idle, TellsStatus
<1>11. CASE ReconcileGhosts
  BY <1>11 DEF ReconcileGhosts, Idle, TellsStatus
<1>12. CASE UNCHANGED <<work, status>>
  BY <1>12 DEF TellsStatus
<1> QED
  BY <1>2, <1>3, <1>4, <1>5, <1>6, <1>7, <1>8, <1>9, <1>10, <1>11, <1>12
     DEF RadarNext, HandlerStep, SocialStep, ReconcileStep, SnapshotAges, RulesImprove, Flush,
         engineVars, radarVars

\* Whatever is interrupted where: an event of the timeline is never taken back by what
\* follows, and a verdict of the ledger that is no refusal has its signal (engine.py:230-248,
\* db.py:729-762).
THEOREM RecordsAreTruthful == RadarSpec => [](TimelineTruthful /\ LedgerHasSignal)
<1>1. EngineInv /\ RecordsInv /\ [RadarNext]_radarVars => RecordsInv'
  BY TimelineKept, LedgerKept, VerdictsKept, TellsKept DEF RecordsInv
<1>2. RecordsInv => TimelineTruthful /\ LedgerHasSignal
  BY DEF RecordsInv
<1> QED
  BY <1>1, <1>2, EngineInvariant, RecordsInit, PTL DEF RadarSpec
=============================================================================
