------------------------------- MODULE Outbox -------------------------------
(***************************************************************************)
(* The persistent Slack outbox: table alert_outbox with the methods of     *)
(* app/db.py that write it, and RadarEngine.flush_alerts of app/engine.py. *)
(*                                                                         *)
(* The process runs one asyncio event loop.  flush_alerts awaits only the  *)
(* notifier, so what it does between two awaits is one action here; other  *)
(* tasks run while a message is on its way.  Every method of Database      *)
(* commits a transaction of its own, so a process that dies leaves a       *)
(* prefix of an action's writes behind: Interrupt.                         *)
(*                                                                         *)
(* Slack is external: it accepts a message and answers, rejects it, or     *)
(* accepts it and the answer never arrives.  A message's Slack timestamp   *)
(* is its position in the channel.                                         *)
(***************************************************************************)
EXTENDS Integers, Sequences, FiniteSets

CONSTANTS
    Signal,         \* rows of social_signals
    Official,       \* rows of official_companies
    Company,        \* company keys, what matcher.company_key returns
    KeyOf,          \* [Signal -> Company], the key computed from a signal
    Legacy,         \* signals stored before the column company_key existed
    Task,           \* the asyncio tasks that call flush_alerts
    Null,           \* SQL NULL, Python None
    Offered,        \* the calls of enqueue_alert that may come
    MaxAttempts,    \* MAX_ALERT_ATTEMPTS
    PendingLimit,   \* the limit of pending_alerts
    MaxLost,        \* bound: how many accepted messages may go unanswered
    MaxTries        \* bound: attempts counted by rows a crash kept from dying

\* The column company_key: NULL in the rows a migrated database brought along.
CompanyKey(s) == IF s \in Legacy THEN Null ELSE KeyOf[s]

\* The dedupe keys.  The key of a corroboration names its company and its post;
\* the post alone determines both.
Dedupe ==
    ({"ghost", "confirmed"} \X Company)
        \union ({"corroboration"} \X Signal)
        \union ({"official"} \X Official)

\* The calls of enqueue_alert: what each kind of alert is keyed by and points at.
Request ==
    [dedupe : Dedupe, signal : Signal \union {Null}, official : Official \union {Null}]

GhostRequest(s) ==
    [dedupe |-> <<"ghost", KeyOf[s]>>, signal |-> s, official |-> Null]
CorroborationRequest(s) ==
    [dedupe |-> <<"corroboration", s>>, signal |-> s, official |-> Null]
ConfirmedRequest(s, o) ==
    [dedupe |-> <<"confirmed", KeyOf[s]>>, signal |-> s, official |-> o]
OfficialRequest(o) ==
    [dedupe |-> <<"official", o>>, signal |-> Null, official |-> o]

\* The requests the engine makes: a new signal always has its company key.
EngineRequest ==
    {GhostRequest(s) : s \in Signal \ Legacy}
        \union {CorroborationRequest(s) : s \in Signal \ Legacy}
        \union {ConfirmedRequest(s, o) : s \in Signal, o \in Official}
        \union {OfficialRequest(o) : o \in Official}

ASSUME OutboxAssumption ==
    /\ KeyOf \in [Signal -> Company]
    /\ Legacy \subseteq Signal
    /\ Null \notin Signal \union Official \union Company \union Task
    /\ Offered \subseteq EngineRequest
    /\ MaxAttempts \in Nat \ {0}
    /\ PendingLimit \in Nat \ {0}
    /\ MaxLost \in Nat
    /\ MaxTries \in Nat

\* last_error, reduced to how flush_alerts classifies it.
Failure == {"alert", "global"}

Row ==
    [dedupe : Dedupe, signal : Signal \union {Null}, official : Official \union {Null},
     attempts : Nat, error : Failure \union {"none"},
     status : {"pending", "sent", "dead"}]

Stage == {"ghost", "confirmed"}
NoRow == -1        \* company_alerts has no row for this company and stage
NoThread == 0      \* slack_ts is NULL

VARIABLES
    outbox,         \* alert_outbox; a row's id is its position
    companyAlert,   \* company_alerts: [Company \X Stage -> slack_ts]
    alerted,        \* alerted_ghost_at and alerted_confirmed_at, as pairs
    receipts,       \* the timeline events alert:<dedupe key>:sent
    flushLock,      \* RadarEngine._flush_lock: the task that holds it, or Null
    flush,          \* per task, its place in the loop of flush_alerts
    channel,        \* external: the messages in the Slack channel
    lost            \* history: messages accepted without a row becoming sent

dbVars == <<outbox, companyAlert, alerted, receipts>>
outboxVars == <<outbox, companyAlert, alerted, receipts, flushLock, flush, channel, lost>>

IdleFlush == [at |-> 0, rest |-> {}, thread |-> NoThread]

OutboxInit ==
    /\ outbox = <<>>
    /\ companyAlert = [p \in Company \X Stage |-> NoRow]
    /\ alerted = {}
    /\ receipts = {}
    /\ flushLock = Null
    /\ flush = [t \in Task |-> IdleFlush]
    /\ channel = <<>>
    /\ lost = {}

-----------------------------------------------------------------------------
(* Enqueueing *)

\* Faulty: an upsert instead of INSERT OR IGNORE reopens a finished alert.
EnqueueAlertReplacing(r) ==
    outbox' =
        IF \E i \in DOMAIN outbox : outbox[i].dedupe = r.dedupe
        THEN [i \in DOMAIN outbox |->
                IF outbox[i].dedupe = r.dedupe
                THEN [outbox[i] EXCEPT !.status = "pending"]
                ELSE outbox[i]]
        ELSE Append(outbox,
                    [dedupe |-> r.dedupe, signal |-> r.signal, official |-> r.official,
                     attempts |-> 0, error |-> "none", status |-> "pending"])

\* INSERT OR IGNORE on the unique dedupe key.
EnqueueAlert(r) ==
    outbox' =
        IF \E i \in DOMAIN outbox : outbox[i].dedupe = r.dedupe
        THEN outbox
        ELSE Append(outbox,
                    [dedupe |-> r.dedupe, signal |-> r.signal, official |-> r.official,
                     attempts |-> 0, error |-> "none", status |-> "pending"])

\* Any task of the engine adds an alert, also while a flush waits for Slack.
Enqueue(r) ==
    /\ EnqueueAlert(r)
    /\ UNCHANGED <<companyAlert, alerted, receipts, flushLock, flush, channel, lost>>

-----------------------------------------------------------------------------
(* Flushing *)

\* Faulty: the query leaves out what has had its attempts.
PendingBelowLimit ==
    {i \in DOMAIN outbox : outbox[i].status = "pending" /\ outbox[i].attempts < MaxAttempts}

Pending == {i \in DOMAIN outbox : outbox[i].status = "pending"}

\* The rows pending_alerts(limit) returns: the oldest of the pending ones.
PendingAlerts ==
    {b \in SUBSET Pending :
        /\ Cardinality(b) <= PendingLimit
        /\ b # Pending => Cardinality(b) = PendingLimit
        /\ \A i \in b, j \in Pending \ b : i < j}

\* The thread a corroboration replies in, looked up just before it is sent.
ParentThread(i, alerts) ==
    LET key == CompanyKey(outbox[i].signal)
    IN  IF /\ outbox[i].dedupe[1] = "corroboration"
           /\ key # Null
           /\ alerts[<<key, "ghost">>] # NoRow
        THEN alerts[<<key, "ghost">>]
        ELSE NoThread

Release(t) ==
    /\ flushLock' = Null
    /\ flush' = [flush EXCEPT ![t] = IdleFlush]

\* The loop goes on with the alerts b of its snapshot: it hands the oldest to the
\* notifier, or ends.
Deliver(t, b, alerts) ==
    IF b = {}
    THEN Release(t)
    ELSE \E i \in b :
            /\ \A j \in b : i <= j
            /\ flushLock' = t
            /\ flush' = [flush EXCEPT ![t] =
                            [at |-> i, rest |-> b \ {i},
                             thread |-> ParentThread(i, alerts)]]

\* Faulty: nobody asks whether the lock is taken.
FlushAlertsUnlocked(t) ==
    /\ flush[t].at = 0
    /\ Pending # {}
    /\ \E b \in PendingAlerts : Deliver(t, b, companyAlert)
    /\ UNCHANGED <<outbox, companyAlert, alerted, receipts, channel, lost>>

\* A caller that finds the lock taken, or nothing pending, returns at once.
FlushAlerts(t) ==
    /\ flushLock = Null
    /\ Pending # {}
    /\ \E b \in PendingAlerts : Deliver(t, b, companyAlert)
    /\ UNCHANGED <<outbox, companyAlert, alerted, receipts, channel, lost>>

\* The task is in the loop, and what it handed to the notifier is not answered yet.
InLoop(t) == flush[t].at # 0

Current(t) == outbox[flush[t].at]
KindOf(row) == row.dedupe[1]

\* Faulty: every kind of alert is a stage.
StageOfKind(row) == KindOf(row)

\* A corroboration counts as the EARLY stage of its signal.
StageOf(row) == IF KindOf(row) = "confirmed" THEN "confirmed" ELSE "ghost"
Message(t) ==
    [dedupe |-> Current(t).dedupe, signal |-> Current(t).signal,
     thread |-> flush[t].thread]
NextTs == Len(channel) + 1

\* mark_alerted; an official alert has no signal to mark.
MarkAlerted(row) ==
    alerted' = IF row.signal = Null THEN alerted
               ELSE alerted \union {<<row.signal, StageOf(row)>>}

\* Kinds whose delivery is remembered in company_alerts.
RecordsCompany(row) == KindOf(row) \in Stage

\* Faulty: the thread of a company moves on to whatever was last said about it.
CompanyAlertLatest(row, ts) ==
    IF KindOf(row) # "official" /\ CompanyKey(row.signal) # Null
    THEN [companyAlert EXCEPT ![<<CompanyKey(row.signal), "ghost">>] = ts]
    ELSE companyAlert

\* company_alerts after record_company_alert: only a ghost keeps its timestamp.
CompanyAlertAfter(row, ts) ==
    IF RecordsCompany(row)
    THEN [companyAlert EXCEPT ![<<CompanyKey(row.signal), KindOf(row)>>] =
            IF KindOf(row) = "ghost" THEN ts ELSE NoThread]
    ELSE companyAlert

\* record_company_alert violates company_key NOT NULL for a migrated row.
KeyMissing(row) == RecordsCompany(row) /\ CompanyKey(row.signal) = Null

\* mark_alert_sent
Sent(row) == [row EXCEPT !.status = "sent", !.attempts = @ + 1, !.error = "none"]

\* The message is accepted and every write after the answer is made.
SendSucceeds(t) ==
    /\ InLoop(t)
    /\ ~KeyMissing(Current(t))
    /\ channel' = Append(channel, Message(t))
    /\ MarkAlerted(Current(t))
    /\ companyAlert' = CompanyAlertAfter(Current(t), NextTs)
    /\ outbox' = [outbox EXCEPT ![flush[t].at] = Sent(@)]
    /\ receipts' = receipts \union {Current(t).dedupe}
    /\ Deliver(t, flush[t].rest, companyAlert')
    /\ UNCHANGED lost

\* mark_alert_error
Failed(row, failure) == [row EXCEPT !.attempts = @ + 1, !.error = failure]

\* Faulty: a retired alert is closed as if it had been sent.
DeadAsSent(row) == [row EXCEPT !.status = "sent"]

\* mark_alert_dead
Dead(row) == [row EXCEPT !.status = "dead"]

\* The failure is the message's own, or this was its last attempt.
GivesUp(row, failure) == failure = "alert" \/ row.attempts + 1 >= MaxAttempts

\* Faulty: the loop goes on to the next alert after every failure.
FailAndContinue(t, row, failure) ==
    LET failed == Failed(row, failure)
    IN  /\ outbox' = [outbox EXCEPT ![flush[t].at] =
                        IF GivesUp(Current(t), failure) THEN Dead(failed) ELSE failed]
        /\ Deliver(t, flush[t].rest, companyAlert')

\* The except branch, which finds the row as the try block left it: the attempt is
\* charged; then the row is dead-lettered and the loop goes on, or the failure is taken
\* to be global and the flush ends.  The attempts are those read with the queue.
Fail(t, row, failure) ==
    \/ /\ GivesUp(Current(t), failure)
       /\ outbox' = [outbox EXCEPT ![flush[t].at] = Dead(Failed(row, failure))]
       /\ Deliver(t, flush[t].rest, companyAlert')
    \/ /\ ~GivesUp(Current(t), failure)
       /\ outbox' = [outbox EXCEPT ![flush[t].at] = Failed(row, failure)]
       /\ Release(t)

\* Slack refuses the message (PER_ALERT_FAILURES), or cannot be reached or asked
\* at all (token, network, rate limit, not configured): nothing is posted.
SendFails(t) ==
    /\ InLoop(t)
    /\ UNCHANGED <<companyAlert, alerted, receipts, channel, lost>>
    /\ \E failure \in Failure : Fail(t, Current(t), failure)

\* How far the writes behind the answer may get before the row is marked sent: not even
\* the signal is marked, or it is, or the company is remembered, too.
Recorded(t) ==
    \/ UNCHANGED <<alerted, companyAlert>>
    \/ MarkAlerted(Current(t)) /\ UNCHANGED companyAlert
    \/ /\ ~KeyMissing(Current(t))
       /\ MarkAlerted(Current(t))
       /\ companyAlert' = CompanyAlertAfter(Current(t), NextTs)

\* Slack accepts the message and the answer is lost (a timeout, a reset), or a call of
\* the database raises before the row is marked sent: a global failure, both.
ReplyLost(t) ==
    /\ InLoop(t)
    /\ Cardinality(lost) < MaxLost
    /\ channel' = Append(channel, Message(t))
    /\ lost' = lost \union {NextTs}
    /\ Recorded(t)
    /\ Fail(t, Current(t), "global")
    /\ UNCHANGED receipts

\* Slack accepts the message, and company_alerts refuses the row of a signal
\* without a company key: the IntegrityError counts as a global failure.
KeyRefused(t) ==
    /\ InLoop(t)
    /\ KeyMissing(Current(t))
    /\ channel' = Append(channel, Message(t))
    /\ lost' = lost \union {NextTs}
    /\ MarkAlerted(Current(t))
    /\ UNCHANGED <<companyAlert, receipts>>
    /\ Fail(t, Current(t), "global")

\* Every write is made but the timeline event, whose call raises: the row that was just
\* marked sent is charged with a global failure, and may even be dead-lettered.
TimelineFails(t) ==
    /\ InLoop(t)
    /\ ~KeyMissing(Current(t))
    /\ channel' = Append(channel, Message(t))
    /\ MarkAlerted(Current(t))
    /\ companyAlert' = CompanyAlertAfter(Current(t), NextTs)
    /\ Fail(t, Sent(Current(t)), "global")
    /\ UNCHANGED <<receipts, lost>>

\* The task is cancelled while it awaits Slack (shutdown, the run deadline), or
\* the process dies there, or mark_alert_error itself raises: nothing was accepted, the
\* row is as it was.
InterruptBefore(t) ==
    /\ InLoop(t)
    /\ Release(t)
    /\ UNCHANGED <<outbox, companyAlert, alerted, receipts, channel, lost>>

\* The same after Slack accepted the message.  A cancellation leaves no write, a crash
\* any of those before mark_alert_sent.
InterruptAfter(t) ==
    /\ InLoop(t)
    /\ Cardinality(lost) < MaxLost
    /\ channel' = Append(channel, Message(t))
    /\ lost' = lost \union {NextTs}
    /\ Recorded(t)
    /\ Release(t)
    /\ UNCHANGED <<outbox, receipts>>

\* A crash between mark_alert_sent and its timeline event.
InterruptUnreceipted(t) ==
    /\ InLoop(t)
    /\ ~KeyMissing(Current(t))
    /\ channel' = Append(channel, Message(t))
    /\ MarkAlerted(Current(t))
    /\ companyAlert' = CompanyAlertAfter(Current(t), NextTs)
    /\ outbox' = [outbox EXCEPT ![flush[t].at] = Sent(@)]
    /\ Release(t)
    /\ UNCHANGED <<receipts, lost>>

\* A crash between mark_alert_error and mark_alert_dead: the row stays pending.
InterruptUndead(t) ==
    /\ InLoop(t)
    /\ Current(t).attempts < MaxTries
    /\ \E failure \in Failure :
            /\ GivesUp(Current(t), failure)
            /\ outbox' = [outbox EXCEPT ![flush[t].at] = Failed(@, failure)]
    /\ Release(t)
    /\ UNCHANGED <<companyAlert, alerted, receipts, channel, lost>>

-----------------------------------------------------------------------------

SendCompletes(t) == SendSucceeds(t) \/ SendFails(t) \/ KeyRefused(t)

FlushStep(t) ==
    \/ FlushAlerts(t)
    \/ SendCompletes(t)
    \/ ReplyLost(t)
    \/ TimelineFails(t)
    \/ InterruptBefore(t)
    \/ InterruptAfter(t)
    \/ InterruptUnreceipted(t)
    \/ InterruptUndead(t)

OutboxNext ==
    \/ \E r \in Offered : Enqueue(r)
    \/ \E t \in Task : FlushStep(t)

OutboxSpec == OutboxInit /\ [][OutboxNext]_outboxVars

\* The scheduler calls flush_alerts again and again (WF); the HTTP client's timeout
\* ends every send, and not every send is cut off by a crash or a cancellation (SF).
OutboxFairness ==
    /\ WF_outboxVars(\E t \in Task : FlushAlerts(t))
    /\ SF_outboxVars(\E t \in Task : SendCompletes(t))

OutboxLiveSpec == OutboxSpec /\ OutboxFairness

-----------------------------------------------------------------------------
(* Properties *)

OutboxTypeOK ==
    /\ outbox \in Seq(Row)
    /\ companyAlert \in [Company \X Stage -> Nat \union {NoRow}]
    /\ alerted \subseteq Signal \X Stage
    /\ receipts \subseteq Dedupe
    /\ flushLock \in Task \union {Null}
    /\ flush \in [Task -> [at : Nat, rest : SUBSET Nat, thread : Nat]]
    /\ channel \in Seq([dedupe : Dedupe, signal : Signal \union {Null}, thread : Nat])
    /\ lost \subseteq 1..Len(channel)

\* "serialised by a lock so the same alert is never delivered twice" (engine.py,
\* flush_alerts), as far as it is true: of two copies of one alert, the outbox never
\* learnt that the earlier one had been accepted.
NoDoubleDelivery ==
    \A i, j \in DOMAIN channel :
        i < j /\ channel[i].dedupe = channel[j].dedupe => i \in lost

\* A row is marked sent, and has its timeline event, only if Slack accepted it.
SentMeansDelivered ==
    \A i \in DOMAIN outbox :
        outbox[i].status = "sent" \/ outbox[i].dedupe \in receipts =>
            \E k \in DOMAIN channel \ lost : channel[k].dedupe = outbox[i].dedupe

\* "retry the ordered queue on the next flush": no alert is finished while an older
\* one is still pending, whatever fails, is cancelled or crashes.
InOrder ==
    \A i, j \in DOMAIN outbox :
        i < j /\ outbox[j].status # "pending" => outbox[i].status # "pending"

\* A failure "pauses the flush": of the pending alerts only the oldest has ever
\* been charged with an attempt.
OnlyOldestCharged ==
    \A i, j \in DOMAIN outbox :
        /\ i < j
        /\ outbox[j].status = "pending"
        /\ outbox[j].attempts > 0
        => outbox[i].status # "pending"

\* A corroboration "becomes corroboration in the same Slack thread": the message it
\* replies to is the EARLY alert of its own company.
ThreadsMatchCompany ==
    \A k \in DOMAIN channel :
        channel[k].thread # NoThread =>
            /\ channel[k].thread < k
            /\ channel[channel[k].thread].dedupe = <<"ghost", KeyOf[channel[k].signal]>>

-----------------------------------------------------------------------------
(* The inductive invariant behind them *)

\* Every row was asked for by the engine, and no dedupe key has two.
RowsAreRequests ==
    \A i \in DOMAIN outbox :
        [dedupe |-> outbox[i].dedupe, signal |-> outbox[i].signal,
         official |-> outbox[i].official] \in EngineRequest

DedupeUnique ==
    \A i, j \in DOMAIN outbox : outbox[i].dedupe = outbox[j].dedupe => i = j

\* Only the holder of the lock is in the loop; it works on the oldest pending row,
\* and what is left of its snapshot follows without a gap.
FlushInOrder ==
    \A t \in Task :
        /\ flushLock # t => flush[t] = IdleFlush
        /\ flushLock = t =>
            /\ flush[t].at \in Pending
            /\ flush[t].rest \subseteq Pending
            /\ \A i \in Pending : flush[t].at <= i
            /\ \A i \in flush[t].rest : flush[t].at # i
            /\ \A i \in flush[t].rest, j \in Pending :
                    j < i => j = flush[t].at \/ j \in flush[t].rest

\* What the outbox remembers as a company's thread is that company's EARLY alert,
\* and so is the thread of the message that is on its way.
CompanyThreads ==
    \A c \in Company :
        companyAlert[<<c, "ghost">>] > 0 =>
            /\ companyAlert[<<c, "ghost">>] \in DOMAIN channel
            /\ channel[companyAlert[<<c, "ghost">>]].dedupe = <<"ghost", c>>

FlushThreads ==
    \A t \in Task :
        flushLock = t /\ flush[t].thread # NoThread =>
            /\ flush[t].thread \in DOMAIN channel
            /\ channel[flush[t].thread].dedupe = <<"ghost", KeyOf[Current(t).signal]>>

\* A message whose acceptance was noticed belongs to a row that is not pending.
NoticedMeansDone ==
    \A k \in DOMAIN channel \ lost :
        \E i \in DOMAIN outbox :
            outbox[i].dedupe = channel[k].dedupe /\ outbox[i].status # "pending"

ReceiptsNoticed ==
    \A d \in receipts : \E k \in DOMAIN channel \ lost : channel[k].dedupe = d

OutboxInv ==
    /\ OutboxTypeOK
    /\ RowsAreRequests
    /\ DedupeUnique
    /\ FlushInOrder
    /\ InOrder
    /\ OnlyOldestCharged
    /\ NoticedMeansDone
    /\ ReceiptsNoticed
    /\ SentMeansDelivered
    /\ NoDoubleDelivery
    /\ CompanyThreads
    /\ FlushThreads
    /\ ThreadsMatchCompany

-----------------------------------------------------------------------------
(* The abstract specification, and what must happen in the end *)

\* The outbox is a first-in first-out queue that delivers at least once.
Delivery ==
    INSTANCE AlertDelivery WITH
        Alert <- Dedupe,
        entries <- [i \in DOMAIN outbox |->
                        [alert |-> outbox[i].dedupe, fate |-> outbox[i].status]],
        delivered <- {channel[k].dedupe : k \in DOMAIN channel}

OutboxDelivers == Delivery!AbstractSafety

\* Every alert is sent or retired in the end: no message mutes those behind it.
EveryAlertSettles ==
    \A i \in 1..Cardinality(Dedupe) :
        i \in DOMAIN outbox ~> i \in DOMAIN outbox /\ outbox[i].status # "pending"
=============================================================================
