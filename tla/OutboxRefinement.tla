-------------------------- MODULE OutboxRefinement --------------------------
(***************************************************************************)
(* The outbox is the queue of AlertDelivery, for every instance: a row is  *)
(* an entry, its status the entry's fate, and what Slack accepted is what  *)
(* was delivered.                                                          *)
(*                                                                         *)
(* Only the holder of the flush lock touches a row that exists, and only   *)
(* the oldest pending one (FlushInOrder): that is what lets a step of any  *)
(* task be a step of a queue.  The rest is which fate the row came to, and *)
(* whether Slack had accepted its message.                                 *)
(***************************************************************************)
EXTENDS OutboxProofs

\* The refinement mapping of Delivery.
Entries ==
    [i \in DOMAIN outbox |-> [alert |-> outbox[i].dedupe, fate |-> outbox[i].status]]
Delivered == {channel[k].dedupe : k \in DOMAIN channel}

\* A step of the queue, or none.
QueueStep == Delivery!AbstractNext \/ UNCHANGED <<Entries, Delivered>>

\* The oldest pending row is the entry that the queue may work on.
LEMMA OldestEntry ==
    ASSUME OutboxTypeOK, NEW a \in Pending, \A i \in Pending : a <= i
    PROVE  a \in DOMAIN Entries /\ Delivery!IsOldestPending(a)
<1>1. outbox \in Seq(Row) /\ Len(outbox) \in Nat /\ DOMAIN outbox = 1..Len(outbox)
  BY LenProperties DEF OutboxTypeOK
<1>2. a \in 1..Len(outbox) /\ outbox[a].status = "pending"
  BY <1>1 DEF Pending
<1>3. ASSUME NEW j \in 1..(a - 1) PROVE j \in DOMAIN outbox /\ outbox[j].status # "pending"
  <2>1. j \in 1..Len(outbox) /\ j < a
    BY <1>2
  <2> QED
    BY <1>1, <1>2, <2>1 DEF Pending
<1>4. \A j \in DOMAIN outbox : Entries[j].fate = outbox[j].status
  BY DEF Entries
<1>5. Entries[a].fate = "pending" /\ \A j \in 1..(a - 1) : Entries[j].fate # "pending"
  BY <1>1, <1>2, <1>3, <1>4
<1> QED
  BY <1>1, <1>2, <1>5 DEF Entries, Delivery!IsOldestPending

\* A row that is updated is an entry that comes to its fate, or keeps it.
LEMMA EntryUpdated ==
    ASSUME NEW a, RowUpdated(a)
    PROVE  Entries' = [Entries EXCEPT ![a] = [@ EXCEPT !.fate = outbox'[a].status]]
<1>1. a \in DOMAIN outbox /\ DOMAIN outbox' = DOMAIN outbox
  BY DEF RowUpdated
<1>2. ASSUME NEW i \in DOMAIN outbox
      PROVE  [alert |-> outbox'[i].dedupe, fate |-> outbox'[i].status] =
                IF i = a THEN [Entries[a] EXCEPT !.fate = outbox'[a].status] ELSE Entries[i]
  <2>1. CASE i = a
    <3>1. Entries[a] = [alert |-> outbox[a].dedupe, fate |-> outbox[a].status]
      BY <1>1 DEF Entries
    <3>2. outbox'[a].dedupe = outbox[a].dedupe
      BY DEF RowUpdated
    <3> QED
      BY <2>1, <3>1, <3>2
  <2>2. CASE i # a
    BY <2>2 DEF Entries, RowUpdated
  <2> QED
    BY <2>1, <2>2
<1>3. DOMAIN Entries = DOMAIN outbox
  BY DEF Entries
<1>4. Entries' = [i \in DOMAIN outbox |->
                    IF i = a THEN [Entries[a] EXCEPT !.fate = outbox'[a].status]
                    ELSE Entries[i]]
  BY <1>1, <1>2 DEF Entries
<1> QED
  BY <1>3, <1>4

\* A message that Slack accepts is delivered from then on.
LEMMA MessageDelivered ==
    ASSUME OutboxInv, NEW t \in Task, flushLock = t, channel' = Append(channel, Message(t))
    PROVE  Delivered' = Delivered \union {Current(t).dedupe}
<1>1. /\ NextTs \in Nat \ {0}
      /\ DOMAIN channel = 1..(NextTs - 1) /\ DOMAIN channel' = 1..NextTs
      /\ channel'[NextTs].dedupe = Current(t).dedupe
      /\ \A k \in DOMAIN channel : channel'[k] = channel[k]
  BY HolderFacts, Posting DEF ChannelGrows
<1>2. DOMAIN channel' = DOMAIN channel \union {NextTs}
  BY <1>1
<1> QED
  BY <1>1, <1>2 DEF Delivered

\* Whatever the holder of the lock writes into its row and whether or not its message was
\* accepted: the queue finishes its oldest entry, gives it up, posts it, or stands still.
LEMMA HolderStep ==
    ASSUME OutboxInv, NEW t \in Task, flushLock = t, RowUpdated(flush[t].at),
           \/ channel' = channel /\ outbox'[flush[t].at].status # "sent"
           \/ channel' = Append(channel, Message(t))
    PROVE  QueueStep
<1>0. PICK a : a = flush[t].at
  OBVIOUS
<1> DEFINE fate == outbox'[a].status
<1>1. /\ a \in Pending /\ a \in DOMAIN outbox /\ OutboxTypeOK
      /\ Current(t) = outbox[a] /\ Current(t).status = "pending"
      /\ \A i \in Pending : a <= i
  BY <1>0, HolderFacts, HolderAtOldest
<1>2. a \in DOMAIN Entries /\ Delivery!IsOldestPending(a)
  BY <1>1, OldestEntry
<1>3. Entries' = [Entries EXCEPT ![a] = [@ EXCEPT !.fate = fate]]
  BY <1>0, EntryUpdated
<1>4. /\ Entries[a] = [alert |-> Current(t).dedupe, fate |-> "pending"]
      /\ Entries[a].alert = Current(t).dedupe
  BY <1>1 DEF Entries
<1>5. fate \in {"pending", "sent", "dead"}
  <2>1. outbox'[a] \in Row
    BY <1>0, <1>1, ElementOfSeq, LenProperties DEF RowUpdated
  <2> QED
    BY <2>1 DEF Row
<1>6. \/ Delivered' = Delivered /\ fate # "sent"
      \/ Delivered' = Delivered \union {Entries[a].alert}
  BY <1>0, <1>4, MessageDelivered DEF Delivered
<1> HIDE DEF fate
<1>7. CASE fate = "sent"
  <2>1. Delivery!Finish(a)
    BY <1>2, <1>3, <1>6, <1>7 DEF Delivery!Finish, Entries, Delivered
  <2> QED
    BY <1>2, <2>1 DEF QueueStep, Delivery!AbstractNext, Entries
<1>8. CASE fate = "dead"
  <2>1. Delivery!Abandon(a)
    BY <1>2, <1>3, <1>6, <1>8 DEF Delivery!Abandon, Entries, Delivered
  <2> QED
    BY <1>2, <2>1 DEF QueueStep, Delivery!AbstractNext, Entries
<1>9. CASE fate = "pending"
  <2>1. [Entries[a] EXCEPT !.fate = "pending"] = Entries[a]
    BY <1>4
  <2>2. Entries' = Entries
    BY <1>3, <1>9, <2>1 DEF Entries
  <2>3. CASE Delivered' = Delivered
    BY <2>2, <2>3 DEF QueueStep
  <2>4. CASE Delivered' = Delivered \union {Entries[a].alert}
    <3>1. Delivery!Post(a)
      BY <1>2, <2>2, <2>4 DEF Delivery!Post, Entries, Delivered
    <3> QED
      BY <1>2, <3>1 DEF QueueStep, Delivery!AbstractNext, Entries
  <2> QED
    BY <1>6, <2>3, <2>4
<1> QED
  BY <1>5, <1>7, <1>8, <1>9

\* The row is as it was.
LEMMA RowKept ==
    ASSUME OutboxInv, NEW t \in Task, flushLock = t, outbox' = outbox
    PROVE  RowUpdated(flush[t].at) /\ outbox'[flush[t].at].status # "sent"
BY HolderFacts DEF RowUpdated

\* The except branch charges the row, and gives it up or leaves its status as it was.
LEMMA FailUpdates ==
    ASSUME OutboxInv, NEW t \in Task, flushLock = t, NEW failure \in Failure,
           NEW row \in {Current(t), Sent(Current(t))},
           \/ Fail(t, row, failure)
           \/ outbox' = [outbox EXCEPT ![flush[t].at] = Failed(row, failure)]
    PROVE  /\ RowUpdated(flush[t].at)
           /\ row = Current(t) => outbox'[flush[t].at].status # "sent"
<1> DEFINE a == flush[t].at
<1>1. /\ OutboxTypeOK /\ a \in DOMAIN outbox
      /\ outbox[a] \in Row /\ outbox[a].status = "pending"
      /\ Current(t) = outbox[a]
  BY HolderFacts
<1>2. row \in Row /\ row \in {outbox[a], Sent(outbox[a])}
  BY <1>1, RowMethods
<1>3. CASE outbox' = [outbox EXCEPT ![a] = Dead(Failed(row, failure))]
  BY <1>1, <1>2, <1>3, MethodUpdates, MethodStatus
<1>4. CASE outbox' = [outbox EXCEPT ![a] = Failed(row, failure)]
  <2>1. RowUpdated(a) /\ outbox'[a] = Failed(row, failure)
    BY <1>1, <1>2, <1>4, MethodUpdates
  <2>2. outbox'[a].status = row.status
    BY <1>2, <2>1, MethodStatus
  <2> QED
    BY <1>1, <2>1, <2>2
<1> QED
  BY <1>3, <1>4 DEF Fail

\* A row that is sent.
LEMMA SentUpdates ==
    ASSUME OutboxInv, NEW t \in Task, flushLock = t,
           outbox' = [outbox EXCEPT ![flush[t].at] = Sent(outbox[flush[t].at])]
    PROVE  RowUpdated(flush[t].at)
<1>1. "global" \in Failure
  BY DEF Failure
<1> QED
  BY <1>1, HolderFacts, MethodUpdates

\* An alert with a new dedupe key is accepted; one with a known key is ignored.
LEMMA EnqueueStep ==
    ASSUME OutboxInv, NEW r \in Offered, Enqueue(r)
    PROVE  QueueStep
<1>1. r \in EngineRequest /\ OutboxTypeOK /\ Delivered' = Delivered /\ EnqueueAlert(r)
  BY OutboxAssumption DEF OutboxAssumption, OutboxInv, Enqueue, Delivered
<1>2. CASE outbox' = outbox
  BY <1>1, <1>2 DEF QueueStep, Entries
<1>3. ASSUME NEW n \in Nat,
             \A i \in DOMAIN outbox : outbox[i].dedupe # r.dedupe,
             DOMAIN outbox = 1..n,
             DOMAIN outbox' = 1..(n + 1),
             \A i \in 1..n : outbox'[i] = outbox[i],
             outbox'[n + 1] =
                [dedupe |-> r.dedupe, signal |-> r.signal, official |-> r.official,
                 attempts |-> 0, error |-> "none", status |-> "pending"]
      PROVE  QueueStep
  <2> DEFINE new == [alert |-> r.dedupe, fate |-> "pending"]
             E == [alert : Dedupe, fate : Delivery!Fate]
  <2>1. r.dedupe \in Dedupe
    BY <1>1, RequestsTyped DEF Request
  <2>2. Entries \in [1..n -> E]
    BY <1>1, <1>3, RowsTyped DEF Entries, Row, Delivery!Fate
  <2>3. new \in E
    BY <2>1 DEF Delivery!Fate
  <2>4. \A i \in DOMAIN Entries : Entries[i].alert # r.dedupe
    BY <1>3 DEF Entries
  <2>5. Entries' = [i \in 1..(n + 1) |-> IF i = n + 1 THEN new ELSE Entries[i]]
    <3>1. ASSUME NEW i \in 1..(n + 1)
          PROVE  [alert |-> outbox'[i].dedupe, fate |-> outbox'[i].status] =
                    IF i = n + 1 THEN new ELSE Entries[i]
      <4>1. CASE i = n + 1
        BY <1>3, <4>1
      <4>2. CASE i \in 1..n
        BY <1>3, <4>2 DEF Entries
      <4> QED
        BY <4>1, <4>2
    <3> QED
      BY <1>3, <3>1 DEF Entries
  <2> HIDE DEF new, E
  <2>6. Entries' = Append(Entries, new)
    <3>1. Entries \in Seq(E) /\ Len(Entries) = n
      BY <2>2
    <3>2. /\ Append(Entries, new) \in Seq(E)
          /\ Len(Append(Entries, new)) = n + 1
          /\ \A i \in 1..n : Append(Entries, new)[i] = Entries[i]
          /\ Append(Entries, new)[n + 1] = new
      BY <2>3, <3>1, AppendProperties
    <3>3. Append(Entries, new) \in [1..(n + 1) -> E]
      BY <3>2, LenProperties
    <3> DEFINE seq == Append(Entries, new)
    <3>4. \A i \in 1..(n + 1) : seq[i] = IF i = n + 1 THEN new ELSE Entries[i]
      BY <3>2
    <3> HIDE DEF seq
    <3> QED
      BY <2>5, <3>3, <3>4 DEF seq
  <2>7. Delivery!Accept(r.dedupe)
    BY <1>1, <2>4, <2>6 DEF Delivery!Accept, Entries, Delivered, new
  <2> QED
    BY <2>1, <2>7 DEF QueueStep, Delivery!AbstractNext
<1> QED
  BY <1>1, <1>2, <1>3, InsertRow

\* A step of a flush.
LEMMA FlushStepStep ==
    ASSUME OutboxInv, NEW t \in Task, FlushStep(t)
    PROVE  QueueStep
<1>1. CASE UNCHANGED <<outbox, channel>>
  BY <1>1 DEF QueueStep, Entries, Delivered
<1>2. CASE FlushAlerts(t) \/ InterruptBefore(t)
  BY <1>1, <1>2 DEF FlushAlerts, InterruptBefore
<1>3. CASE SendSucceeds(t) \/ InterruptUnreceipted(t)
  <2>1. /\ flushLock = t
        /\ channel' = Append(channel, Message(t))
        /\ outbox' = [outbox EXCEPT ![flush[t].at] = Sent(outbox[flush[t].at])]
    BY <1>3, HolderInLoop DEF SendSucceeds, InterruptUnreceipted
  <2> QED
    BY <2>1, SentUpdates, HolderStep
<1>4. CASE SendFails(t) \/ InterruptUndead(t)
  <2>1. flushLock = t /\ channel' = channel
    BY <1>4, HolderInLoop DEF SendFails, InterruptUndead
  <2>2. PICK failure \in Failure :
            \/ Fail(t, Current(t), failure)
            \/ outbox' = [outbox EXCEPT ![flush[t].at] = Failed(Current(t), failure)]
    BY <1>4 DEF SendFails, InterruptUndead, Current
  <2> QED
    BY <2>1, <2>2, FailUpdates, HolderStep
<1>5. CASE ReplyLost(t) \/ KeyRefused(t) \/ TimelineFails(t)
  <2>1. /\ flushLock = t /\ channel' = Append(channel, Message(t))
        /\ \/ Fail(t, Current(t), "global")
           \/ Fail(t, Sent(Current(t)), "global")
        /\ "global" \in Failure
    BY <1>5, HolderInLoop DEF ReplyLost, KeyRefused, TimelineFails, Failure
  <2>2. RowUpdated(flush[t].at)
    BY <2>1, FailUpdates
  <2> QED
    BY <2>1, <2>2, HolderStep
<1>6. CASE InterruptAfter(t)
  <2>1. flushLock = t /\ channel' = Append(channel, Message(t)) /\ outbox' = outbox
    BY <1>6, HolderInLoop DEF InterruptAfter
  <2> QED
    BY <2>1, RowKept, HolderStep
<1> QED
  BY <1>2, <1>3, <1>4, <1>5, <1>6 DEF FlushStep, SendCompletes

\* The outbox is a first-in first-out queue that delivers at least once: whatever tasks
\* flush it and whatever fails, is cut off or comes twice, an alert is accepted once,
\* and is finished in its turn.
THEOREM OutboxImplementsDelivery == OutboxSpec => OutboxDelivers
<1>1. OutboxInit => Delivery!AbstractInit
  <2> SUFFICES ASSUME OutboxInit PROVE Delivery!AbstractInit
    OBVIOUS
  <2>1. DOMAIN outbox = {} /\ DOMAIN channel = {}
    BY DEF OutboxInit
  <2>2. Entries = <<>> /\ Delivered = {}
    BY <2>1 DEF Entries, Delivered
  <2> QED
    BY <2>2 DEF Delivery!AbstractInit, Entries, Delivered
<1>2. ASSUME OutboxInv, [OutboxNext]_outboxVars
      PROVE  [Delivery!AbstractNext]_(Delivery!abstractVars)
  <2>1. CASE UNCHANGED outboxVars
    BY <2>1 DEF outboxVars, QueueStep, Entries, Delivered, Delivery!abstractVars
  <2>2. CASE OutboxNext
    <3>1. QueueStep
      BY <1>2, <2>2, EnqueueStep, FlushStepStep DEF OutboxNext
    <3> QED
      BY <3>1 DEF QueueStep, Entries, Delivered, Delivery!abstractVars
  <2> QED
    BY <1>2, <2>1, <2>2
<1> QED
  BY <1>1, <1>2, OutboxInvariant, PTL
     DEF OutboxSpec, OutboxDelivers, Delivery!AbstractSafety
=============================================================================
