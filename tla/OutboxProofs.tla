---------------------------- MODULE OutboxProofs ----------------------------
(***************************************************************************)
(* Proofs about Outbox, for every set of signals, companies and tasks, any *)
(* number of attempts and any bound on the messages that go unanswered.    *)
(*                                                                         *)
(* OutboxInv is inductive.  Its step is proved action by action; the       *)
(* actions share their pieces (one row updated, one message appended, the  *)
(* loop going on or ending), and each piece has a lemma.                   *)
(***************************************************************************)
EXTENDS Outbox, SequenceTheorems, TLAPS

-----------------------------------------------------------------------------
(* The data *)

\* A request has the type of its columns.
LEMMA RequestsTyped == EngineRequest \subseteq Request
BY OutboxAssumption
   DEF OutboxAssumption, EngineRequest, Request, Dedupe, GhostRequest,
       CorroborationRequest, ConfirmedRequest, OfficialRequest

\* The row methods of the database keep a row's type and what it announces.
LEMMA RowMethods ==
    ASSUME NEW row \in Row, NEW failure \in Failure
    PROVE  \A r \in {Sent(row), Failed(row, failure), Dead(Failed(row, failure))} :
                /\ r \in Row
                /\ r.dedupe = row.dedupe
                /\ r.signal = row.signal
                /\ r.official = row.official
<1> DEFINE SameTarget(r) ==
        r.dedupe = row.dedupe /\ r.signal = row.signal /\ r.official = row.official
           charged == [row EXCEPT !.attempts = row.attempts + 1]
           closed == [row EXCEPT !.status = "sent"]
           closedCharged == [closed EXCEPT !.attempts = row.attempts + 1]
<1>1. row.attempts + 1 \in Nat
  BY DEF Row
<1>2. charged \in Row /\ SameTarget(charged)
  BY <1>1 DEF Row
<1>3. closed \in Row /\ SameTarget(closed)
  BY DEF Row
<1>4. closedCharged \in Row /\ SameTarget(closedCharged)
  <2> HIDE DEF closed
  <2> QED
    BY <1>1, <1>3 DEF Row
<1>5. Sent(row) \in Row /\ SameTarget(Sent(row))
  <2>1. Sent(row) = [closedCharged EXCEPT !.error = "none"]
    BY Zenon DEF Sent
  <2> HIDE DEF closedCharged
  <2> QED
    BY <1>4, <2>1 DEF Row
<1>6. Failed(row, failure) \in Row /\ SameTarget(Failed(row, failure))
  <2>1. Failed(row, failure) = [charged EXCEPT !.error = failure]
    BY Zenon DEF Failed
  <2> HIDE DEF charged
  <2> QED
    BY <1>2, <2>1 DEF Row
<1>7. Dead(Failed(row, failure)) \in Row /\ SameTarget(Dead(Failed(row, failure)))
  BY <1>6 DEF Row, Dead
<1> QED
  BY <1>5, <1>6, <1>7

\* UPDATE ... WHERE id=?: one row changes, and nothing else of the table.
LEMMA UpdateRow ==
    ASSUME OutboxTypeOK, NEW a \in DOMAIN outbox, NEW r \in Row,
           outbox' = [outbox EXCEPT ![a] = r]
    PROVE  /\ outbox' \in Seq(Row)
           /\ DOMAIN outbox' = DOMAIN outbox
           /\ outbox'[a] = r
           /\ \A i \in DOMAIN outbox : i # a => outbox'[i] = outbox[i]
<1>1. outbox \in Seq(Row) /\ a \in 1..Len(outbox) /\ DOMAIN outbox = 1..Len(outbox)
  BY LenProperties DEF OutboxTypeOK
<1>2. /\ outbox' \in Seq(Row)
      /\ Len(outbox') = Len(outbox)
      /\ \A j \in 1..Len(outbox) : outbox'[j] = IF j = a THEN r ELSE outbox[j]
  BY <1>1, ExceptSeq
<1>3. DOMAIN outbox' = 1..Len(outbox)
  BY <1>2, LenProperties
<1> QED
  BY <1>1, <1>2, <1>3

\* A new row, if there is one, is pending, uncharged, and the last of the table.
LEMMA InsertRow ==
    ASSUME OutboxTypeOK, NEW r \in EngineRequest, EnqueueAlert(r)
    PROVE  /\ outbox' \in Seq(Row)
           /\ \/ outbox' = outbox
              \/ /\ \A i \in DOMAIN outbox : outbox[i].dedupe # r.dedupe
                 /\ \E n \in Nat :
                        /\ DOMAIN outbox = 1..n
                        /\ DOMAIN outbox' = 1..(n + 1)
                        /\ \A i \in 1..n : outbox'[i] = outbox[i]
                        /\ outbox'[n + 1] =
                             [dedupe |-> r.dedupe, signal |-> r.signal,
                              official |-> r.official, attempts |-> 0,
                              error |-> "none", status |-> "pending"]
<1> DEFINE new == [dedupe |-> r.dedupe, signal |-> r.signal, official |-> r.official,
                   attempts |-> 0, error |-> "none", status |-> "pending"]
<1>1. outbox \in Seq(Row) /\ Len(outbox) \in Nat /\ DOMAIN outbox = 1..Len(outbox)
  BY LenProperties DEF OutboxTypeOK
<1>2. r \in Request
  BY RequestsTyped
<1>3. new \in Row
  BY <1>2 DEF Request, Row
<1>4. CASE \E i \in DOMAIN outbox : outbox[i].dedupe = r.dedupe
  BY <1>1, <1>4 DEF EnqueueAlert
<1>5. CASE \A i \in DOMAIN outbox : outbox[i].dedupe # r.dedupe
  <2>1. outbox' = Append(outbox, new)
    BY <1>5 DEF EnqueueAlert
  <2> HIDE DEF new
  <2>2. /\ outbox' \in Seq(Row)
        /\ Len(outbox') = Len(outbox) + 1
        /\ \A i \in 1..Len(outbox) : outbox'[i] = outbox[i]
        /\ outbox'[Len(outbox) + 1] = new
    BY <1>1, <1>3, <2>1, AppendProperties
  <2>3. DOMAIN outbox' = 1..(Len(outbox) + 1)
    BY <2>2, LenProperties
  <2> QED
    BY <1>1, <1>5, <2>2, <2>3 DEF new
<1> QED
  BY <1>4, <1>5

\* Slack appends one message, and its timestamp is the next position.
LEMMA AppendMessage ==
    ASSUME OutboxTypeOK,
           NEW m \in [dedupe : Dedupe, signal : Signal \union {Null}, thread : Nat],
           channel' = Append(channel, m)
    PROVE  /\ channel' \in Seq([dedupe : Dedupe, signal : Signal \union {Null},
                                thread : Nat])
           /\ NextTs \in Nat \ {0}
           /\ NextTs = Len(channel')
           /\ DOMAIN channel = 1..(NextTs - 1)
           /\ DOMAIN channel' = 1..NextTs
           /\ channel'[NextTs] = m
           /\ \A k \in DOMAIN channel : channel'[k] = channel[k]
<1> DEFINE M == [dedupe : Dedupe, signal : Signal \union {Null}, thread : Nat]
<1>1. channel \in Seq(M) /\ Len(channel) \in Nat /\ DOMAIN channel = 1..Len(channel)
  BY LenProperties DEF OutboxTypeOK
<1> HIDE DEF M
<1>2. /\ channel' \in Seq(M)
      /\ Len(channel') = Len(channel) + 1
      /\ \A i \in 1..Len(channel) : channel'[i] = channel[i]
      /\ channel'[Len(channel) + 1] = m
  BY <1>1, AppendProperties DEF M
<1>3. DOMAIN channel' = 1..(Len(channel) + 1)
  BY <1>2, LenProperties
<1> QED
  BY <1>1, <1>2, <1>3 DEF NextTs, M

-----------------------------------------------------------------------------
(* The rows *)

\* One row was updated in place; what it announces is as it was.
RowUpdated(a) ==
    /\ a \in DOMAIN outbox
    /\ outbox' \in Seq(Row)
    /\ DOMAIN outbox' = DOMAIN outbox
    /\ \A i \in DOMAIN outbox : i # a => outbox'[i] = outbox[i]
    /\ outbox'[a].dedupe = outbox[a].dedupe
    /\ outbox'[a].signal = outbox[a].signal
    /\ outbox'[a].official = outbox[a].official

\* The positions of the table are natural numbers, and its rows are typed.
LEMMA RowsTyped ==
    ASSUME OutboxTypeOK
    PROVE  /\ DOMAIN outbox \subseteq Nat \ {0}
           /\ Pending \subseteq DOMAIN outbox
           /\ \A i \in DOMAIN outbox : outbox[i] \in Row
<1>1. outbox \in Seq(Row) /\ Len(outbox) \in Nat /\ DOMAIN outbox = 1..Len(outbox)
  BY LenProperties DEF OutboxTypeOK
<1>2. \A i \in DOMAIN outbox : outbox[i] \in Row
  BY <1>1, ElementOfSeq
<1> QED
  BY <1>1, <1>2 DEF Pending

\* Each of the three methods updates its row in the sense above, also when the row was
\* marked sent a moment before.
LEMMA MethodUpdates ==
    ASSUME OutboxTypeOK, NEW a \in DOMAIN outbox, NEW failure \in Failure,
           NEW row \in {outbox[a], Sent(outbox[a])},
           NEW r \in {Sent(row), Failed(row, failure), Dead(Failed(row, failure))},
           outbox' = [outbox EXCEPT ![a] = r]
    PROVE  RowUpdated(a) /\ outbox'[a] = r
<1>1. /\ outbox[a] \in Row
      /\ row \in Row
      /\ row.dedupe = outbox[a].dedupe
      /\ row.signal = outbox[a].signal
      /\ row.official = outbox[a].official
  BY RowsTyped, RowMethods
<1>2. /\ r \in Row
      /\ r.dedupe = outbox[a].dedupe
      /\ r.signal = outbox[a].signal
      /\ r.official = outbox[a].official
  BY <1>1, RowMethods
<1> QED
  BY <1>2, UpdateRow DEF RowUpdated

\* What the methods do to the status of the row.
LEMMA MethodStatus ==
    ASSUME NEW row \in Row, NEW failure \in Failure
    PROVE  /\ Sent(row).status = "sent"
           /\ Failed(row, failure).status = row.status
           /\ Dead(Failed(row, failure)).status = "dead"
<1>1. Sent(row).status = "sent"
  BY DEF Row, Sent
<1>2. Failed(row, failure).status = row.status
  BY DEF Row, Failed
<1>3. Dead(Failed(row, failure)).status = "dead"
  BY RowMethods DEF Row, Dead
<1> QED
  BY <1>1, <1>2, <1>3

\* An update leaves every row a request of its own.
LEMMA RowsAfterUpdate ==
    ASSUME RowsAreRequests, DedupeUnique, NEW a, RowUpdated(a)
    PROVE  RowsAreRequests' /\ DedupeUnique'
<1>1. \A i \in DOMAIN outbox :
        /\ outbox'[i].dedupe = outbox[i].dedupe
        /\ outbox'[i].signal = outbox[i].signal
        /\ outbox'[i].official = outbox[i].official
  BY DEF RowUpdated
<1>2. DOMAIN outbox' = DOMAIN outbox
  BY DEF RowUpdated
<1> QED
  BY <1>1, <1>2 DEF RowsAreRequests, DedupeUnique

\* Updating the oldest pending row keeps the order and charges nobody else.
LEMMA OrderAfterUpdate ==
    ASSUME OutboxTypeOK, InOrder, OnlyOldestCharged,
           NEW a \in Pending, \A i \in Pending : a <= i, RowUpdated(a)
    PROVE  InOrder' /\ OnlyOldestCharged'
<1>1. DOMAIN outbox \subseteq Nat
  BY RowsTyped
<1>2. InOrder'
  BY <1>1 DEF InOrder, RowUpdated, Pending
<1>3. OnlyOldestCharged'
  BY <1>1 DEF OnlyOldestCharged, RowUpdated, Pending
<1> QED
  BY <1>2, <1>3

\* Enqueueing, with what the row invariants say of the table after it.
LEMMA RowsAfterInsert ==
    ASSUME OutboxTypeOK, RowsAreRequests, DedupeUnique, InOrder, OnlyOldestCharged,
           NEW r \in EngineRequest, EnqueueAlert(r)
    PROVE  /\ outbox' \in Seq(Row)
           /\ DOMAIN outbox \subseteq DOMAIN outbox'
           /\ \A i \in DOMAIN outbox : outbox'[i] = outbox[i]
           /\ \A i \in DOMAIN outbox' \ DOMAIN outbox :
                /\ outbox'[i].status = "pending"
                /\ outbox'[i].dedupe = r.dedupe
                /\ \A j \in DOMAIN outbox : j < i
           /\ RowsAreRequests' /\ DedupeUnique' /\ InOrder' /\ OnlyOldestCharged'
<1>1. outbox' \in Seq(Row)
  BY InsertRow
<1>2. CASE outbox' = outbox
  <2>1. RowsAreRequests' /\ DedupeUnique' /\ InOrder' /\ OnlyOldestCharged'
    BY <1>2 DEF RowsAreRequests, DedupeUnique, InOrder, OnlyOldestCharged
  <2> QED
    BY <1>1, <1>2, <2>1
<1>3. ASSUME NEW n \in Nat,
             \A i \in DOMAIN outbox : outbox[i].dedupe # r.dedupe,
             DOMAIN outbox = 1..n,
             DOMAIN outbox' = 1..(n + 1),
             \A i \in 1..n : outbox'[i] = outbox[i],
             outbox'[n + 1] =
                [dedupe |-> r.dedupe, signal |-> r.signal, official |-> r.official,
                 attempts |-> 0, error |-> "none", status |-> "pending"]
      PROVE  /\ DOMAIN outbox \subseteq DOMAIN outbox'
             /\ \A i \in DOMAIN outbox : outbox'[i] = outbox[i]
             /\ \A i \in DOMAIN outbox' \ DOMAIN outbox :
                  /\ outbox'[i].status = "pending"
                  /\ outbox'[i].dedupe = r.dedupe
                  /\ \A j \in DOMAIN outbox : j < i
             /\ RowsAreRequests' /\ DedupeUnique' /\ InOrder' /\ OnlyOldestCharged'
  <2>1. /\ outbox'[n + 1].status = "pending"
        /\ outbox'[n + 1].attempts = 0
        /\ outbox'[n + 1].dedupe = r.dedupe
    BY <1>3
  <2>2. [dedupe |-> outbox'[n + 1].dedupe, signal |-> outbox'[n + 1].signal,
         official |-> outbox'[n + 1].official] = r
    <3>1. r = [dedupe |-> r.dedupe, signal |-> r.signal, official |-> r.official]
      BY RequestsTyped DEF Request
    <3> QED
      BY <1>3, <3>1
  <2>3. \A i \in DOMAIN outbox' : i \in 1..n \/ i = n + 1
    BY <1>3
  <2>4. RowsAreRequests'
    BY <1>3, <2>2, <2>3 DEF RowsAreRequests
  <2>5. DedupeUnique'
    BY <1>3, <2>1, <2>3 DEF DedupeUnique
  <2>6. InOrder'
    BY <1>3, <2>1, <2>3 DEF InOrder
  <2>7. OnlyOldestCharged'
    BY <1>3, <2>1, <2>3 DEF OnlyOldestCharged
  <2> QED
    BY <1>3, <2>1, <2>3, <2>4, <2>5, <2>6, <2>7
<1> QED
  BY <1>1, <1>2, <1>3, InsertRow

-----------------------------------------------------------------------------
(* The loop of flush_alerts *)

FlushState == [at : Nat, rest : SUBSET Nat, thread : Nat]

\* The shape of a row decides what its signal is.
LEMMA RowShape ==
    ASSUME RowsAreRequests, NEW i \in DOMAIN outbox
    PROVE  /\ KindOf(outbox[i]) \in {"ghost", "corroboration"} =>
                outbox[i].signal \in Signal \ Legacy
           /\ KindOf(outbox[i]) = "confirmed" => outbox[i].signal \in Signal
           /\ KindOf(outbox[i]) \in Stage =>
                outbox[i].dedupe = <<KindOf(outbox[i]), KeyOf[outbox[i].signal]>>
           /\ outbox[i].signal \in Signal \union {Null}
           /\ outbox[i].dedupe \in Dedupe
<1> DEFINE q == [dedupe |-> outbox[i].dedupe, signal |-> outbox[i].signal,
                 official |-> outbox[i].official]
<1>1. q \in EngineRequest
  BY DEF RowsAreRequests
<1>2. q \in Request
  BY <1>1, RequestsTyped
<1>3. CASE \E s \in Signal \ Legacy : q = GhostRequest(s)
  BY <1>3, <1>2 DEF GhostRequest, KindOf, Stage, Request
<1>4. CASE \E s \in Signal \ Legacy : q = CorroborationRequest(s)
  BY <1>4, <1>2 DEF CorroborationRequest, KindOf, Stage, Request
<1>5. CASE \E s \in Signal, o \in Official : q = ConfirmedRequest(s, o)
  BY <1>5, <1>2 DEF ConfirmedRequest, KindOf, Stage, Request
<1>6. CASE \E o \in Official : q = OfficialRequest(o)
  BY <1>6, <1>2 DEF OfficialRequest, KindOf, Stage, Request
<1> QED
  BY <1>1, <1>3, <1>4, <1>5, <1>6 DEF EngineRequest

\* The thread a message is sent to is a timestamp, and only a corroboration has one.
LEMMA ParentThreadTyped ==
    ASSUME RowsAreRequests, NEW i \in DOMAIN outbox,
           NEW alerts \in [Company \X Stage -> Nat \union {NoRow}]
    PROVE  /\ ParentThread(i, alerts) \in Nat
           /\ ParentThread(i, alerts) # NoThread =>
                /\ KeyOf[outbox[i].signal] \in Company
                /\ ParentThread(i, alerts) = alerts[<<KeyOf[outbox[i].signal], "ghost">>]
<1>1. CASE /\ outbox[i].dedupe[1] = "corroboration"
           /\ alerts[<<KeyOf[outbox[i].signal], "ghost">>] # NoRow
  <2>1. outbox[i].signal \in Signal \ Legacy
    BY <1>1, RowShape DEF KindOf
  <2>2. /\ KeyOf[outbox[i].signal] \in Company
        /\ CompanyKey(outbox[i].signal) = KeyOf[outbox[i].signal]
    BY <2>1, OutboxAssumption DEF OutboxAssumption, CompanyKey
  <2>3. alerts[<<KeyOf[outbox[i].signal], "ghost">>] \in Nat
    BY <1>1, <2>2 DEF Stage
  <2> QED
    BY <1>1, <2>2, <2>3 DEF ParentThread, NoThread
<1>2. CASE ParentThread(i, alerts) = NoThread
  BY <1>2 DEF NoThread
<1>3. ASSUME outbox[i].dedupe[1] = "corroboration"
      PROVE  CompanyKey(outbox[i].signal) = KeyOf[outbox[i].signal]
  BY <1>3, RowShape DEF KindOf, CompanyKey
<1> QED
  BY <1>1, <1>2, <1>3 DEF ParentThread

\* Ending the loop leaves no task in it.
LEMMA ReleaseInOrder ==
    ASSUME NEW t \in Task, flush \in [Task -> FlushState],
           \A u \in Task : u # t => flush[u] = IdleFlush,
           Release(t)
    PROVE  /\ flushLock' = Null
           /\ flush' \in [Task -> FlushState]
           /\ FlushInOrder'
<1>1. IdleFlush \in FlushState
  BY DEF IdleFlush, FlushState, NoThread
<1>2. /\ flushLock' = Null
      /\ flush' \in [Task -> FlushState]
      /\ \A u \in Task : flush'[u] = IdleFlush
  BY <1>1 DEF Release
<1>3. \A u \in Task : flushLock' # u
  BY <1>2, OutboxAssumption DEF OutboxAssumption
<1> QED
  BY <1>2, <1>3 DEF FlushInOrder

\* The loop goes on with the oldest of a set of pending rows that has no gap.
LEMMA DeliverInOrder ==
    ASSUME NEW t \in Task, flush \in [Task -> FlushState],
           \A u \in Task : u # t => flush[u] = IdleFlush,
           RowsAreRequests, DOMAIN outbox \subseteq Nat,
           NEW alerts \in [Company \X Stage -> Nat \union {NoRow}],
           NEW b, b \subseteq Pending', Pending' \subseteq DOMAIN outbox,
           \A i \in b, j \in Pending' : j < i => j \in b,
           Deliver(t, b, alerts)
    PROVE  /\ flushLock' \in {t, Null}
           /\ flush' \in [Task -> FlushState]
           /\ FlushInOrder'
           /\ flushLock' = t =>
                /\ flush'[t].at \in DOMAIN outbox
                /\ flush'[t].thread = ParentThread(flush'[t].at, alerts)
<1>1. CASE b = {}
  <2>1. Release(t)
    BY <1>1 DEF Deliver
  <2>2. Null # t
    BY OutboxAssumption DEF OutboxAssumption
  <2> QED
    BY <2>1, <2>2, ReleaseInOrder
<1>2. CASE b # {}
  <2>1. PICK i \in b :
            /\ \A j \in b : i <= j
            /\ flushLock' = t
            /\ flush' = [flush EXCEPT ![t] =
                            [at |-> i, rest |-> b \ {i},
                             thread |-> ParentThread(i, alerts)]]
    BY <1>2 DEF Deliver
  <2> DEFINE place == [at |-> i, rest |-> b \ {i}, thread |-> ParentThread(i, alerts)]
  <2>2. i \in DOMAIN outbox /\ b \subseteq Nat /\ Pending' \subseteq Nat
    OBVIOUS
  <2>3. place \in FlushState
    BY <2>2, ParentThreadTyped DEF FlushState
  <2>4. /\ flush' \in [Task -> FlushState]
        /\ flush'[t] = place
        /\ \A u \in Task : u # t => flush'[u] = IdleFlush
    BY <2>1, <2>3
  <2>5. \A u \in Task : flushLock' # u => flush'[u] = IdleFlush
    BY <2>1, <2>4
  <2>6. /\ i \in Pending'
        /\ b \ {i} \subseteq Pending'
        /\ \A j \in b \ {i} : i # j
    OBVIOUS
  <2>7. \A j \in Pending' : i <= j
    BY <2>1, <2>2
  <2>8. \A k \in b \ {i}, j \in Pending' : j < k => j = i \/ j \in b \ {i}
    OBVIOUS
  <2>9. FlushInOrder'
    BY <2>1, <2>4, <2>5, <2>6, <2>7, <2>8 DEF FlushInOrder
  <2> QED
    BY <2>1, <2>2, <2>4, <2>9
<1> QED
  BY <1>1, <1>2

\* The row at hand is settled and the loop goes on with the rest of its snapshot.
LEMMA AdvanceInOrder ==
    ASSUME OutboxTypeOK, RowsAreRequests, FlushInOrder,
           NEW t \in Task, flushLock = t,
           RowUpdated(flush[t].at), outbox'[flush[t].at].status # "pending",
           NEW alerts \in [Company \X Stage -> Nat \union {NoRow}],
           Deliver(t, flush[t].rest, alerts)
    PROVE  /\ flushLock' \in {t, Null}
           /\ flush' \in [Task -> FlushState]
           /\ FlushInOrder'
           /\ flushLock' = t =>
                /\ flush'[t].at \in DOMAIN outbox
                /\ flush'[t].thread = ParentThread(flush'[t].at, alerts)
<1> DEFINE a == flush[t].at
           b == flush[t].rest
<1>1. flush \in [Task -> FlushState] /\ DOMAIN outbox \subseteq Nat
  BY RowsTyped DEF OutboxTypeOK, FlushState
<1>2. \A u \in Task : u # t => flush[u] = IdleFlush
  BY DEF FlushInOrder
<1>3. /\ a \in Pending /\ b \subseteq Pending
      /\ \A i \in b : a # i
      /\ \A i \in b, j \in Pending : j < i => j = a \/ j \in b
  BY DEF FlushInOrder
<1>4. Pending' = Pending \ {a}
  BY <1>3 DEF RowUpdated, Pending
<1>5. Pending' \subseteq DOMAIN outbox
  BY <1>4 DEF Pending
<1>6. b \subseteq Pending' /\ \A i \in b, j \in Pending' : j < i => j \in b
  BY <1>3, <1>4
<1> HIDE DEF b
<1>7. Deliver(t, b, alerts)
  BY DEF b
<1> QED
  BY <1>1, <1>2, <1>5, <1>6, <1>7, DeliverInOrder

\* What the holder of the lock works on.
LEMMA HolderAtOldest ==
    ASSUME OutboxTypeOK, FlushInOrder, NEW t \in Task, flushLock = t
    PROVE  /\ flush \in [Task -> FlushState]
           /\ flush[t].at \in Pending
           /\ flush[t].at \in DOMAIN outbox
           /\ Current(t) \in Row
           /\ Current(t).status = "pending"
           /\ \A i \in Pending : flush[t].at <= i
           /\ \A u \in Task : u # t => flush[u] = IdleFlush
<1>1. flush \in [Task -> FlushState]
  BY DEF OutboxTypeOK, FlushState
<1>2. flush[t].at \in Pending
  BY DEF FlushInOrder
<1> QED
  BY <1>1, <1>2, RowsTyped DEF FlushInOrder, Pending, Current

-----------------------------------------------------------------------------
(* The channel *)

ChannelMessage == [dedupe : Dedupe, signal : Signal \union {Null}, thread : Nat]

\* The channel only grows.
ChannelGrows ==
    /\ DOMAIN channel \subseteq DOMAIN channel'
    /\ \A k \in DOMAIN channel : channel'[k] = channel[k]

\* The message on its way becomes the next of the channel.
LEMMA Posting ==
    ASSUME OutboxTypeOK, RowsAreRequests, FlushInOrder,
           NEW t \in Task, flushLock = t, channel' = Append(channel, Message(t))
    PROVE  /\ channel' \in Seq(ChannelMessage)
           /\ ChannelGrows
           /\ NextTs \in Nat \ {0}
           /\ DOMAIN channel = 1..(NextTs - 1)
           /\ DOMAIN channel' = 1..NextTs
           /\ NextTs = Len(channel')
           /\ channel'[NextTs].dedupe = Current(t).dedupe
           /\ channel'[NextTs].signal = Current(t).signal
           /\ channel'[NextTs].thread = flush[t].thread
           /\ lost \subseteq DOMAIN channel
<1>1. flush[t].thread \in Nat
  BY DEF OutboxTypeOK
<1>2. Message(t) \in ChannelMessage
  BY <1>1, HolderAtOldest, RowShape DEF Message, ChannelMessage, Current
<1>3. /\ channel' \in Seq(ChannelMessage)
      /\ NextTs \in Nat \ {0}
      /\ NextTs = Len(channel')
      /\ DOMAIN channel = 1..(NextTs - 1)
      /\ DOMAIN channel' = 1..NextTs
      /\ channel'[NextTs] = Message(t)
      /\ \A k \in DOMAIN channel : channel'[k] = channel[k]
  BY <1>2, AppendMessage DEF ChannelMessage
<1>4. lost \subseteq 1..Len(channel) /\ DOMAIN channel = 1..Len(channel)
  BY LenProperties DEF OutboxTypeOK
<1> QED
  BY <1>3, <1>4 DEF Message, ChannelGrows

\* The rows that are done stay as they are, and no row becomes sent.
SentRowsKept ==
    /\ \A i \in DOMAIN outbox :
            outbox[i].status # "pending" => i \in DOMAIN outbox' /\ outbox'[i] = outbox[i]
    /\ \A i \in DOMAIN outbox' :
            outbox'[i].status = "sent" => i \in DOMAIN outbox /\ outbox'[i] = outbox[i]

\* An update of a pending row that does not send it is such a step.
LEMMA UpdateKeepsSent ==
    ASSUME NEW a \in Pending, RowUpdated(a), outbox'[a].status # "sent"
    PROVE  SentRowsKept
BY DEF SentRowsKept, RowUpdated, Pending

DeliveryInv == NoticedMeansDone /\ ReceiptsNoticed /\ SentMeansDelivered /\ NoDoubleDelivery

\* Nothing is posted, and no row becomes sent.
LEMMA DeliveryKept ==
    ASSUME DeliveryInv, SentRowsKept, UNCHANGED <<channel, lost, receipts>>
    PROVE  DeliveryInv'
<1>1. NoticedMeansDone'
  BY DEF DeliveryInv, NoticedMeansDone, SentRowsKept
<1>2. ReceiptsNoticed'
  BY DEF DeliveryInv, ReceiptsNoticed
<1>3. SentMeansDelivered'
  BY <1>2 DEF DeliveryInv, SentMeansDelivered, SentRowsKept, ReceiptsNoticed
<1>4. NoDoubleDelivery'
  BY DEF DeliveryInv, NoDoubleDelivery
<1> QED
  BY <1>1, <1>2, <1>3, <1>4 DEF DeliveryInv

\* A message of a row that is still pending repeats none that was noticed.
LEMMA PostedFirst ==
    ASSUME OutboxTypeOK, RowsAreRequests, DedupeUnique, FlushInOrder,
           DeliveryInv, NEW t \in Task, flushLock = t,
           channel' = Append(channel, Message(t))
    PROVE  /\ \A k \in DOMAIN channel : channel[k].dedupe = Current(t).dedupe => k \in lost
           /\ \A i, j \in DOMAIN channel' :
                i < j /\ channel'[i].dedupe = channel'[j].dedupe => i \in lost
<1>1. \A k \in DOMAIN channel : channel[k].dedupe = Current(t).dedupe => k \in lost
  BY HolderAtOldest DEF DeliveryInv, NoticedMeansDone, DedupeUnique, Current, Pending
<1>2. \A i \in DOMAIN channel' : i \in DOMAIN channel \/ i = NextTs
  BY Posting
<1>3. ASSUME NEW i \in DOMAIN channel', NEW j \in DOMAIN channel',
             i < j, channel'[i].dedupe = channel'[j].dedupe
      PROVE  i \in lost
  <2>1. i \in DOMAIN channel /\ channel'[i] = channel[i]
    BY <1>3, Posting DEF ChannelGrows
  <2>2. CASE j = NextTs
    BY <1>1, <1>3, <2>1, <2>2, Posting
  <2>3. CASE j \in DOMAIN channel
    BY <1>3, <2>1, <2>3, Posting DEF ChannelGrows, DeliveryInv, NoDoubleDelivery
  <2> QED
    BY <1>2, <2>2, <2>3
<1> QED
  BY <1>1, <1>3

\* A message is posted, and the outbox does not learn of it.
LEMMA DeliveryLost ==
    ASSUME OutboxTypeOK, RowsAreRequests, DedupeUnique, FlushInOrder,
           DeliveryInv, NEW t \in Task, flushLock = t,
           channel' = Append(channel, Message(t)), lost' = lost \union {NextTs},
           receipts' = receipts, SentRowsKept
    PROVE  DeliveryInv'
<1>1. /\ DOMAIN channel' \ lost' = DOMAIN channel \ lost
      /\ \A k \in DOMAIN channel : channel'[k] = channel[k]
  BY Posting DEF ChannelGrows
<1>2. NoticedMeansDone'
  BY <1>1 DEF DeliveryInv, NoticedMeansDone, SentRowsKept
<1>3. ReceiptsNoticed'
  BY <1>1 DEF DeliveryInv, ReceiptsNoticed
<1>4. SentMeansDelivered'
  BY <1>1, <1>3 DEF DeliveryInv, SentMeansDelivered, SentRowsKept, ReceiptsNoticed
<1>5. NoDoubleDelivery'
  BY PostedFirst DEF NoDoubleDelivery
<1> QED
  BY <1>2, <1>3, <1>4, <1>5 DEF DeliveryInv

\* A message is posted, and its row is marked sent, whatever becomes of it then.
LEMMA DeliveryNoticed ==
    ASSUME OutboxTypeOK, RowsAreRequests, DedupeUnique, FlushInOrder,
           DeliveryInv, NEW t \in Task, flushLock = t,
           channel' = Append(channel, Message(t)), lost' = lost,
           receipts' \subseteq receipts \union {Current(t).dedupe},
           RowUpdated(flush[t].at), outbox'[flush[t].at].status # "pending"
    PROVE  DeliveryInv'
<1> DEFINE a == flush[t].at
<1>1. /\ DOMAIN channel' \ lost' = (DOMAIN channel \ lost) \union {NextTs}
      /\ \A k \in DOMAIN channel : channel'[k] = channel[k]
      /\ channel'[NextTs].dedupe = Current(t).dedupe
  BY Posting DEF ChannelGrows
<1>2. a \in DOMAIN outbox /\ outbox[a].status = "pending"
  BY HolderAtOldest DEF Current
<1>3. /\ DOMAIN outbox' = DOMAIN outbox
      /\ \A i \in DOMAIN outbox : i # a => outbox'[i] = outbox[i]
      /\ outbox'[a].dedupe = Current(t).dedupe
  BY DEF RowUpdated, Current
<1>4. NoticedMeansDone'
  BY <1>1, <1>2, <1>3 DEF DeliveryInv, NoticedMeansDone
<1>5. ReceiptsNoticed'
  BY <1>1 DEF DeliveryInv, ReceiptsNoticed
<1>6. SentMeansDelivered'
  BY <1>1, <1>3, <1>5 DEF DeliveryInv, SentMeansDelivered, ReceiptsNoticed
<1>7. NoDoubleDelivery'
  BY PostedFirst DEF NoDoubleDelivery
<1> QED
  BY <1>4, <1>5, <1>6, <1>7 DEF DeliveryInv

-----------------------------------------------------------------------------
(* The threads *)

\* The remembered threads stay what they are while the channel grows.
LEMMA CompanyThreadsKept ==
    ASSUME CompanyThreads, ChannelGrows, companyAlert' = companyAlert
    PROVE  CompanyThreads'
BY DEF CompanyThreads, ChannelGrows

\* Remembering the message just posted: only a ghost's position is kept.
LEMMA CompanyThreadsRecorded ==
    ASSUME OutboxTypeOK, RowsAreRequests, FlushInOrder, CompanyThreads,
           NEW t \in Task, flushLock = t, ~KeyMissing(Current(t)),
           channel' = Append(channel, Message(t)),
           companyAlert' = CompanyAlertAfter(Current(t), NextTs)
    PROVE  /\ companyAlert' \in [Company \X Stage -> Nat \union {NoRow}]
           /\ CompanyThreads'
<1> DEFINE row == Current(t)
           ts == IF KindOf(row) = "ghost" THEN NextTs ELSE NoThread
           key == <<KeyOf[row.signal], KindOf(row)>>
<1>1. flush[t].at \in DOMAIN outbox
  BY HolderAtOldest
<1>2. NextTs \in Nat
  BY Posting
<1>3. CASE ~RecordsCompany(row)
  <2>1. companyAlert' = companyAlert
    BY <1>3 DEF CompanyAlertAfter
  <2> QED
    BY <2>1, CompanyThreadsKept, Posting DEF OutboxTypeOK
<1>4. CASE RecordsCompany(row)
  <2>1. /\ row.signal \in Signal
        /\ KindOf(row) \in Stage
        /\ row.dedupe = <<KindOf(row), KeyOf[row.signal]>>
    BY <1>1, <1>4, RowShape DEF RecordsCompany, Current, Stage
  <2>2. CompanyKey(row.signal) = KeyOf[row.signal] /\ KeyOf[row.signal] \in Company
    BY <1>4, <2>1, OutboxAssumption DEF OutboxAssumption, KeyMissing, CompanyKey
  <2>3. key \in Company \X Stage
    BY <2>1, <2>2
  <2>4. companyAlert' = [companyAlert EXCEPT ![key] = ts]
    BY <1>4, <2>2 DEF CompanyAlertAfter
  <2>5. ts \in Nat
    BY <1>2 DEF NoThread
  <2>6. companyAlert' \in [Company \X Stage -> Nat \union {NoRow}]
    BY <2>3, <2>4, <2>5 DEF OutboxTypeOK
  <2>7. ASSUME NEW c \in Company, companyAlert'[<<c, "ghost">>] > 0
        PROVE  /\ companyAlert'[<<c, "ghost">>] \in DOMAIN channel'
               /\ channel'[companyAlert'[<<c, "ghost">>]].dedupe = <<"ghost", c>>
    <3>1. <<c, "ghost">> \in Company \X Stage
      BY DEF Stage
    <3>2. CASE <<c, "ghost">> = key
      <4>1. KindOf(row) = "ghost" /\ KeyOf[row.signal] = c
        BY <3>2
      <4>2. companyAlert'[<<c, "ghost">>] = NextTs
        BY <2>4, <3>1, <3>2, <4>1 DEF OutboxTypeOK
      <4>3. row.dedupe = <<"ghost", c>>
        BY <1>1, <4>1, RowShape DEF Current, Stage
      <4> QED
        BY <4>2, <4>3, Posting
    <3>3. CASE <<c, "ghost">> # key
      <4>1. companyAlert'[<<c, "ghost">>] = companyAlert[<<c, "ghost">>]
        BY <2>4, <3>1, <3>3 DEF OutboxTypeOK
      <4> QED
        BY <2>7, <4>1, Posting DEF CompanyThreads, ChannelGrows
    <3> QED
      BY <3>2, <3>3
  <2> QED
    BY <2>6, <2>7 DEF CompanyThreads
<1> QED
  BY <1>3, <1>4

\* Nobody is in the loop: nothing is on its way.
LEMMA FlushThreadsReleased ==
    ASSUME flushLock' = Null
    PROVE  FlushThreads'
BY OutboxAssumption DEF FlushThreads, OutboxAssumption

\* The loop goes on: the thread of the next message was just looked up.
LEMMA FlushThreadsDelivered ==
    ASSUME RowsAreRequests, NEW t \in Task, flushLock' \in {t, Null},
           companyAlert' \in [Company \X Stage -> Nat \union {NoRow}], CompanyThreads',
           flushLock' = t =>
                /\ flush'[t].at \in DOMAIN outbox
                /\ flush'[t].thread = ParentThread(flush'[t].at, companyAlert')
                /\ outbox'[flush'[t].at].signal = outbox[flush'[t].at].signal
    PROVE  FlushThreads'
<1> SUFFICES ASSUME NEW u \in Task, flushLock' = u, flush'[u].thread # NoThread
             PROVE  /\ flush'[u].thread \in DOMAIN channel'
                    /\ channel'[flush'[u].thread].dedupe =
                            <<"ghost", KeyOf[Current(u)'.signal]>>
  BY DEF FlushThreads
<1>1. u = t
  BY OutboxAssumption DEF OutboxAssumption
<1> DEFINE c == KeyOf[outbox[flush'[t].at].signal]
<1>2. /\ c \in Company
      /\ flush'[t].thread \in Nat
      /\ flush'[t].thread = companyAlert'[<<c, "ghost">>]
  BY <1>1, ParentThreadTyped
<1>3. companyAlert'[<<c, "ghost">>] > 0
  BY <1>1, <1>2 DEF NoThread
<1>4. /\ flush'[t].thread \in DOMAIN channel'
      /\ channel'[flush'[t].thread].dedupe = <<"ghost", c>>
  BY <1>2, <1>3 DEF CompanyThreads
<1>5. Current(u)'.signal = outbox[flush'[t].at].signal
  BY <1>1 DEF Current
<1> QED
  BY <1>1, <1>4, <1>5

\* A posted message replies where FlushThreads says it does.
LEMMA ThreadsMatchAfterPost ==
    ASSUME OutboxTypeOK, RowsAreRequests, FlushInOrder, FlushThreads,
           ThreadsMatchCompany, NEW t \in Task, flushLock = t,
           channel' = Append(channel, Message(t))
    PROVE  ThreadsMatchCompany'
<1> SUFFICES ASSUME NEW k \in DOMAIN channel', channel'[k].thread # NoThread
             PROVE  /\ channel'[k].thread < k
                    /\ channel'[channel'[k].thread].dedupe =
                            <<"ghost", KeyOf[channel'[k].signal]>>
  BY DEF ThreadsMatchCompany
<1>1. CASE k = NextTs
  <2>1. /\ flush[t].thread \in DOMAIN channel
        /\ channel[flush[t].thread].dedupe = <<"ghost", KeyOf[Current(t).signal]>>
    BY <1>1, Posting DEF FlushThreads
  <2> QED
    BY <1>1, <2>1, Posting DEF ChannelGrows
<1>2. CASE k \in DOMAIN channel
  <2>1. /\ channel[k].thread < k
        /\ channel[channel[k].thread].dedupe = <<"ghost", KeyOf[channel[k].signal]>>
    BY <1>2, Posting DEF ThreadsMatchCompany, ChannelGrows
  <2>2. channel[k].thread \in Nat
    <3>1. channel \in Seq(ChannelMessage) /\ DOMAIN channel = 1..Len(channel)
      BY LenProperties DEF OutboxTypeOK, ChannelMessage
    <3>2. channel[k] \in ChannelMessage
      BY <1>2, <3>1, ElementOfSeq
    <3> QED
      BY <3>2 DEF ChannelMessage
  <2>3. channel[k].thread \in DOMAIN channel
    BY <1>2, <2>1, <2>2, Posting DEF NoThread, ChannelGrows
  <2> QED
    BY <1>2, <2>1, <2>3, Posting DEF ChannelGrows
<1>3. k \in DOMAIN channel \/ k = NextTs
  BY Posting
<1> QED
  BY <1>1, <1>2, <1>3

-----------------------------------------------------------------------------
(* The actions *)

\* Marking a signal alerted keeps the column's type.
LEMMA MarkAlertedTyped ==
    ASSUME OutboxTypeOK, RowsAreRequests, NEW i \in DOMAIN outbox, MarkAlerted(outbox[i])
    PROVE  alerted' \subseteq Signal \X Stage
<1>1. outbox[i].signal \in Signal \union {Null}
  BY RowShape
<1>2. StageOf(outbox[i]) \in Stage
  BY DEF StageOf, Stage
<1> QED
  BY <1>1, <1>2 DEF MarkAlerted, OutboxTypeOK

\* Adding an alert disturbs neither the loop nor the channel.
LEMMA EnqueueKeepsInv ==
    ASSUME OutboxInv, NEW r \in EngineRequest, Enqueue(r)
    PROVE  OutboxInv'
<1> USE DEF OutboxInv
<1>1. EnqueueAlert(r)
      /\ UNCHANGED <<companyAlert, alerted, receipts, flushLock, flush, channel, lost>>
  BY DEF Enqueue
<1>2. /\ outbox' \in Seq(Row)
      /\ DOMAIN outbox \subseteq DOMAIN outbox'
      /\ \A i \in DOMAIN outbox : outbox'[i] = outbox[i]
      /\ \A i \in DOMAIN outbox' \ DOMAIN outbox :
            /\ outbox'[i].status = "pending"
            /\ \A j \in DOMAIN outbox : j < i
  BY <1>1, RowsAfterInsert
<1>3. RowsAreRequests' /\ DedupeUnique' /\ InOrder' /\ OnlyOldestCharged'
  BY <1>1, RowsAfterInsert
<1>4. OutboxTypeOK'
  BY <1>1, <1>2 DEF OutboxTypeOK
<1>5. FlushInOrder'
  <2>1. Pending \subseteq Pending'
    BY <1>2 DEF Pending
  <2>2. \A i \in Pending' \ Pending : \A j \in Pending : j < i
    BY <1>2 DEF Pending
  <2>3. Pending \subseteq Nat /\ Pending' \subseteq Nat
    <3>1. DOMAIN outbox' \subseteq Nat
      BY <1>2, LenProperties
    <3> QED
      BY <3>1, RowsTyped DEF Pending
  <2>4. ASSUME NEW t \in Task, flushLock = t
        PROVE  /\ flush[t].at \in Pending'
               /\ flush[t].rest \subseteq Pending'
               /\ \A i \in Pending' : flush[t].at <= i
               /\ \A i \in flush[t].rest : flush[t].at # i
               /\ \A i \in flush[t].rest, j \in Pending' :
                        j < i => j = flush[t].at \/ j \in flush[t].rest
    <3>1. /\ flush[t].at \in Pending
          /\ flush[t].rest \subseteq Pending
          /\ \A i \in Pending : flush[t].at <= i
          /\ \A i \in flush[t].rest : flush[t].at # i
          /\ \A i \in flush[t].rest, j \in Pending :
                j < i => j = flush[t].at \/ j \in flush[t].rest
      BY <2>4 DEF FlushInOrder
    <3>2. \A i \in Pending' : flush[t].at <= i
      <4>1. \A i \in Pending' \ Pending : flush[t].at < i
        BY <2>2, <3>1
      <4> TAKE i \in Pending'
      <4>2. CASE i \in Pending
        BY <3>1, <4>2
      <4>3. CASE i \notin Pending
        <5>1. flush[t].at \in Nat /\ i \in Nat
          BY <2>3, <3>1
        <5>2. flush[t].at < i
          BY <4>1, <4>3
        <5> QED
          BY <5>1, <5>2
      <4> QED
        BY <4>2, <4>3
    <3>3. ASSUME NEW i \in flush[t].rest, NEW j \in Pending', j < i
          PROVE  j = flush[t].at \/ j \in flush[t].rest
      <4>1. i \in Pending
        BY <3>1
      <4>2. j \in Pending
        BY <2>2, <2>3, <3>3, <4>1
      <4> QED
        BY <3>1, <3>3, <4>2
    <3> QED
      BY <2>1, <3>1, <3>2, <3>3
  <2>5. \A t \in Task : flushLock # t => flush[t] = IdleFlush
    BY DEF FlushInOrder
  <2> HIDE DEF OutboxInv
  <2> QED
    BY <1>1, <2>4, <2>5 DEF FlushInOrder
<1>6. DeliveryInv'
  <2>1. SentRowsKept
    BY <1>2 DEF SentRowsKept
  <2> QED
    BY <1>1, <2>1, DeliveryKept DEF DeliveryInv
<1>7. CompanyThreads' /\ ThreadsMatchCompany'
  BY <1>1 DEF CompanyThreads, ThreadsMatchCompany
<1>8. FlushThreads'
  <2>1. \A t \in Task : flushLock = t => outbox'[flush[t].at] = outbox[flush[t].at]
    BY <1>2, HolderAtOldest
  <2> QED
    BY <1>1, <2>1 DEF FlushThreads, Current
<1> QED
  BY <1>3, <1>4, <1>5, <1>6, <1>7, <1>8 DEF DeliveryInv

RowInv == RowsAreRequests /\ DedupeUnique /\ InOrder /\ OnlyOldestCharged

\* Whatever the holder of the lock writes into its row, the table stays in order.
LEMMA HolderKeepsRows ==
    ASSUME OutboxInv, NEW t \in Task, flushLock = t, RowUpdated(flush[t].at)
    PROVE  RowInv'
BY HolderAtOldest, RowsAfterUpdate, OrderAfterUpdate DEF OutboxInv, RowInv

\* The except branch, whether the loop goes on after it or ends, and whether or not the
\* row was marked sent before the failure.
LEMMA FailStep ==
    ASSUME OutboxInv, NEW t \in Task, flushLock = t, NEW failure \in Failure,
           NEW row \in {Current(t), Sent(Current(t))}, Fail(t, row, failure),
           companyAlert' \in [Company \X Stage -> Nat \union {NoRow}], CompanyThreads'
    PROVE  /\ outbox' \in Seq(Row) /\ RowInv' /\ RowUpdated(flush[t].at)
           /\ row = Current(t) => SentRowsKept
           /\ row = Sent(Current(t)) => outbox'[flush[t].at].status # "pending"
           /\ flushLock' \in Task \union {Null}
           /\ flush' \in [Task -> FlushState]
           /\ FlushInOrder' /\ FlushThreads'
<1> DEFINE a == flush[t].at
<1>1. OutboxTypeOK /\ RowsAreRequests /\ FlushInOrder
  BY DEF OutboxInv
<1>2. /\ a \in Pending /\ a \in DOMAIN outbox
      /\ Current(t) = outbox[a]
      /\ outbox[a] \in Row /\ outbox[a].status = "pending"
      /\ flush \in [Task -> FlushState]
      /\ \A u \in Task : u # t => flush[u] = IdleFlush
  BY <1>1, HolderAtOldest DEF Current
<1>3. row \in Row /\ row \in {outbox[a], Sent(outbox[a])}
  BY <1>2, RowMethods
<1>4. row = Sent(Current(t)) => row.status = "sent"
  BY <1>2, MethodStatus
<1>5. CASE /\ outbox' = [outbox EXCEPT ![a] = Dead(Failed(row, failure))]
           /\ Deliver(t, flush[t].rest, companyAlert')
  <2>1. RowUpdated(a) /\ outbox'[a].status = "dead"
    BY <1>1, <1>2, <1>3, <1>5, MethodUpdates, MethodStatus
  <2>2. /\ flushLock' \in {t, Null}
        /\ flush' \in [Task -> FlushState]
        /\ FlushInOrder'
        /\ flushLock' = t =>
             /\ flush'[t].at \in DOMAIN outbox
             /\ flush'[t].thread = ParentThread(flush'[t].at, companyAlert')
    BY <1>1, <1>5, <2>1, AdvanceInOrder
  <2>3. \A i \in DOMAIN outbox : outbox'[i].signal = outbox[i].signal
    BY <2>1 DEF RowUpdated
  <2>4. FlushThreads'
    BY <1>1, <2>2, <2>3, FlushThreadsDelivered
  <2>5. RowInv'
    BY <2>1, HolderKeepsRows
  <2>6. SentRowsKept
    BY <1>2, <2>1, UpdateKeepsSent
  <2> QED
    BY <2>1, <2>2, <2>4, <2>5, <2>6 DEF RowUpdated
<1>6. CASE /\ outbox' = [outbox EXCEPT ![a] = Failed(row, failure)]
           /\ Release(t)
  <2>1. RowUpdated(a) /\ outbox'[a].status = row.status
    BY <1>1, <1>2, <1>3, <1>6, MethodUpdates, MethodStatus
  <2>2. flushLock' = Null /\ flush' \in [Task -> FlushState] /\ FlushInOrder'
    BY <1>2, <1>6, ReleaseInOrder
  <2>3. RowInv'
    BY <2>1, HolderKeepsRows
  <2>4. row = Current(t) => SentRowsKept
    BY <1>2, <2>1, UpdateKeepsSent
  <2> QED
    BY <1>4, <2>1, <2>2, <2>3, <2>4, FlushThreadsReleased DEF RowUpdated
<1> QED
  BY <1>5, <1>6 DEF Fail

\* The typing of the parts a failed or interrupted send may touch.
LEMMA TypeAfter ==
    ASSUME OutboxInv, outbox' \in Seq(Row),
           companyAlert' \in [Company \X Stage -> Nat \union {NoRow}],
           alerted' \subseteq Signal \X Stage, receipts' \subseteq Dedupe,
           flushLock' \in Task \union {Null}, flush' \in [Task -> FlushState],
           channel' \in Seq(ChannelMessage), lost' \subseteq 1..Len(channel')
    PROVE  OutboxTypeOK'
BY DEF OutboxTypeOK, FlushState, ChannelMessage

\* A flush begins with the oldest pending row.
LEMMA FlushAlertsKeepsInv ==
    ASSUME OutboxInv, NEW t \in Task, FlushAlerts(t)
    PROVE  OutboxInv'
<1>1. /\ OutboxTypeOK /\ RowsAreRequests /\ DOMAIN outbox \subseteq Nat
      /\ companyAlert \in [Company \X Stage -> Nat \union {NoRow}]
      /\ flush \in [Task -> FlushState]
  BY RowsTyped DEF OutboxInv, OutboxTypeOK, FlushState
<1>2. /\ flushLock = Null
      /\ UNCHANGED <<outbox, companyAlert, alerted, receipts, channel, lost>>
  BY DEF FlushAlerts
<1>3. \A u \in Task : flush[u] = IdleFlush
  BY <1>2, OutboxAssumption DEF OutboxInv, FlushInOrder, OutboxAssumption
<1>4. PICK b \in PendingAlerts : Deliver(t, b, companyAlert)
  BY DEF FlushAlerts
<1>5. Pending' = Pending /\ Pending \subseteq DOMAIN outbox
  BY <1>2 DEF Pending
<1>6. b \subseteq Pending /\ \A i \in b, j \in Pending : j < i => j \in b
  <2>1. b \subseteq Pending /\ \A i \in b, j \in Pending \ b : i < j
    BY DEF PendingAlerts
  <2> QED
    BY <1>1, <1>5, <2>1
<1>7. /\ flushLock' \in {t, Null}
      /\ flush' \in [Task -> FlushState]
      /\ FlushInOrder'
      /\ flushLock' = t =>
            /\ flush'[t].at \in DOMAIN outbox
            /\ flush'[t].thread = ParentThread(flush'[t].at, companyAlert)
  BY <1>1, <1>3, <1>4, <1>5, <1>6, DeliverInOrder
<1>8. OutboxTypeOK'
  BY <1>2, <1>7 DEF OutboxInv, OutboxTypeOK, FlushState
<1>9. CompanyThreads' /\ ThreadsMatchCompany'
  BY <1>2 DEF OutboxInv, CompanyThreads, ThreadsMatchCompany
<1>10. FlushThreads'
  BY <1>1, <1>2, <1>7, <1>9, FlushThreadsDelivered
<1>11. RowInv'
  BY <1>2 DEF OutboxInv, RowInv, RowsAreRequests, DedupeUnique, InOrder, OnlyOldestCharged
<1>12. DeliveryInv'
  BY <1>2 DEF OutboxInv, DeliveryInv, NoticedMeansDone, ReceiptsNoticed,
              SentMeansDelivered, NoDoubleDelivery
<1> QED
  BY <1>7, <1>8, <1>9, <1>10, <1>11, <1>12 DEF OutboxInv, RowInv, DeliveryInv

\* Only the holder of the lock is in the loop.
LEMMA HolderInLoop ==
    ASSUME OutboxInv, NEW t \in Task, InLoop(t)
    PROVE  flushLock = t
<1>1. flushLock # t => flush[t] = IdleFlush
  BY DEF OutboxInv, FlushInOrder
<1>2. IdleFlush.at = 0
  BY DEF IdleFlush
<1> QED
  BY <1>1, <1>2 DEF InLoop

\* The parts of the invariant that every step of the holder starts from.
LEMMA HolderFacts ==
    ASSUME OutboxInv, NEW t \in Task, flushLock = t
    PROVE  /\ OutboxTypeOK /\ RowsAreRequests /\ DedupeUnique /\ FlushInOrder
           /\ DeliveryInv /\ CompanyThreads /\ FlushThreads /\ ThreadsMatchCompany
           /\ companyAlert \in [Company \X Stage -> Nat \union {NoRow}]
           /\ alerted \subseteq Signal \X Stage
           /\ receipts \subseteq Dedupe
           /\ channel \in Seq(ChannelMessage) /\ lost \subseteq 1..Len(channel)
           /\ outbox \in Seq(Row)
           /\ flush[t].at \in Pending /\ flush[t].at \in DOMAIN outbox
           /\ Current(t) = outbox[flush[t].at]
           /\ Current(t) \in Row /\ Current(t).status = "pending"
           /\ flush \in [Task -> FlushState]
           /\ \A u \in Task : u # t => flush[u] = IdleFlush
<1>1. /\ OutboxTypeOK /\ RowsAreRequests /\ DedupeUnique /\ FlushInOrder
      /\ DeliveryInv /\ CompanyThreads /\ FlushThreads /\ ThreadsMatchCompany
  BY DEF OutboxInv, DeliveryInv
<1>2. /\ companyAlert \in [Company \X Stage -> Nat \union {NoRow}]
      /\ alerted \subseteq Signal \X Stage
      /\ receipts \subseteq Dedupe
      /\ channel \in Seq(ChannelMessage) /\ lost \subseteq 1..Len(channel)
      /\ outbox \in Seq(Row)
  BY <1>1 DEF OutboxTypeOK, ChannelMessage
<1> QED
  BY <1>1, <1>2, HolderAtOldest DEF Current

\* A message that went out unnoticed keeps the history's type.
LEMMA LostTyped ==
    ASSUME OutboxInv, NEW t \in Task, flushLock = t,
           channel' = Append(channel, Message(t)), lost' = lost \union {NextTs}
    PROVE  /\ channel' \in Seq(ChannelMessage)
           /\ lost' \subseteq 1..Len(channel')
           /\ ChannelGrows
<1>1. OutboxTypeOK /\ RowsAreRequests /\ FlushInOrder
  BY HolderFacts
<1>2. /\ channel' \in Seq(ChannelMessage) /\ ChannelGrows
      /\ NextTs \in Nat \ {0} /\ NextTs = Len(channel')
      /\ lost \subseteq 1..(NextTs - 1)
  BY <1>1, Posting
<1>3. ASSUME NEW k \in lost' PROVE k \in 1..NextTs
  <2>1. k \in 1..(NextTs - 1) \/ k = NextTs
    BY <1>2
  <2> QED
    BY <1>2, <2>1
<1>4. lost' \subseteq 1..Len(channel')
  BY <1>2, <1>3
<1> QED
  BY <1>2, <1>4

\* However far the writes behind the answer got, what is remembered is typed and true.
LEMMA RecordedTyped ==
    ASSUME OutboxInv, NEW t \in Task, flushLock = t,
           channel' = Append(channel, Message(t)), Recorded(t)
    PROVE  /\ companyAlert' \in [Company \X Stage -> Nat \union {NoRow}]
           /\ CompanyThreads'
           /\ alerted' \subseteq Signal \X Stage
<1>1. ChannelGrows
  BY HolderFacts, Posting
<1>2. /\ companyAlert' \in [Company \X Stage -> Nat \union {NoRow}]
      /\ CompanyThreads'
  <2>1. CASE UNCHANGED companyAlert
    BY <1>1, <2>1, HolderFacts, CompanyThreadsKept
  <2>2. CASE /\ ~KeyMissing(Current(t))
             /\ companyAlert' = CompanyAlertAfter(Current(t), NextTs)
    BY <2>2, HolderFacts, CompanyThreadsRecorded
  <2> QED
    BY <2>1, <2>2 DEF Recorded
<1>3. alerted' \subseteq Signal \X Stage
  <2>1. CASE UNCHANGED alerted
    BY <2>1, HolderFacts
  <2>2. CASE MarkAlerted(Current(t))
    BY <2>2, HolderFacts, MarkAlertedTyped
  <2> QED
    BY <2>1, <2>2 DEF Recorded
<1> QED
  BY <1>2, <1>3

\* The holder's own row is sent, its message posted and remembered.
LEMMA SendSucceedsKeepsInv ==
    ASSUME OutboxInv, NEW t \in Task, SendSucceeds(t)
    PROVE  OutboxInv'
<1> DEFINE a == flush[t].at
<1>1. /\ flushLock = t
      /\ ~KeyMissing(Current(t))
      /\ channel' = Append(channel, Message(t))
      /\ MarkAlerted(Current(t))
      /\ companyAlert' = CompanyAlertAfter(Current(t), NextTs)
      /\ outbox' = [outbox EXCEPT ![a] = Sent(outbox[a])]
      /\ receipts' = receipts \union {Current(t).dedupe}
      /\ Deliver(t, flush[t].rest, companyAlert')
      /\ lost' = lost
  BY HolderInLoop DEF SendSucceeds
<1>2. RowUpdated(a) /\ outbox'[a].status = "sent"
  <2>1. "global" \in Failure
    BY DEF Failure
  <2> QED
    BY <1>1, <2>1, HolderFacts, MethodUpdates, MethodStatus
<1>3. /\ companyAlert' \in [Company \X Stage -> Nat \union {NoRow}]
      /\ CompanyThreads'
  BY <1>1, HolderFacts, CompanyThreadsRecorded
<1>4. /\ flushLock' \in {t, Null}
      /\ flush' \in [Task -> FlushState]
      /\ FlushInOrder'
      /\ flushLock' = t =>
            /\ flush'[t].at \in DOMAIN outbox
            /\ flush'[t].thread = ParentThread(flush'[t].at, companyAlert')
  BY <1>1, <1>2, <1>3, HolderFacts, AdvanceInOrder
<1>5. FlushThreads'
  <2>1. \A i \in DOMAIN outbox : outbox'[i].signal = outbox[i].signal
    BY <1>2 DEF RowUpdated
  <2> QED
    BY <1>1, <1>3, <1>4, <2>1, HolderFacts, FlushThreadsDelivered
<1>6. ThreadsMatchCompany'
  BY <1>1, HolderFacts, ThreadsMatchAfterPost
<1>7. DeliveryInv'
  BY <1>1, <1>2, HolderFacts, DeliveryNoticed
<1>8. RowInv'
  BY <1>1, <1>2, HolderKeepsRows
<1>9. OutboxTypeOK'
  <2>1. alerted' \subseteq Signal \X Stage
    BY <1>1, HolderFacts, MarkAlertedTyped
  <2>2. receipts' \subseteq Dedupe
    BY <1>1, HolderFacts DEF Row
  <2>3. channel' \in Seq(ChannelMessage) /\ lost' \subseteq 1..Len(channel')
    <3>1. /\ channel' \in Seq(ChannelMessage)
          /\ NextTs \in Nat \ {0} /\ NextTs = Len(channel')
          /\ lost \subseteq 1..(NextTs - 1)
      BY <1>1, HolderFacts, Posting
    <3> QED
      BY <1>1, <3>1
  <2> QED
    BY <1>2, <1>3, <1>4, <2>1, <2>2, <2>3, TypeAfter DEF RowUpdated
<1> QED
  BY <1>3, <1>4, <1>5, <1>6, <1>7, <1>8, <1>9 DEF OutboxInv, RowInv, DeliveryInv

\* The holder's row is charged, and nothing is posted.
LEMMA SendFailsKeepsInv ==
    ASSUME OutboxInv, NEW t \in Task, SendFails(t)
    PROVE  OutboxInv'
<1>1. PICK failure \in Failure : Fail(t, Current(t), failure)
  BY DEF SendFails
<1>2. /\ flushLock = t
      /\ UNCHANGED <<companyAlert, alerted, receipts, channel, lost>>
  BY HolderInLoop DEF SendFails
<1>3. CompanyThreads' /\ ThreadsMatchCompany'
  BY <1>2, HolderFacts DEF CompanyThreads, ThreadsMatchCompany
<1>4. /\ outbox' \in Seq(Row) /\ SentRowsKept /\ RowInv'
      /\ flushLock' \in Task \union {Null}
      /\ flush' \in [Task -> FlushState]
      /\ FlushInOrder' /\ FlushThreads'
  BY <1>1, <1>2, <1>3, HolderFacts, FailStep
<1>5. DeliveryInv'
  BY <1>2, <1>4, HolderFacts, DeliveryKept
<1>6. OutboxTypeOK'
  BY <1>2, <1>4, HolderFacts, TypeAfter
<1> QED
  BY <1>3, <1>4, <1>5, <1>6 DEF OutboxInv, RowInv, DeliveryInv

\* The holder's row is charged for a message that was posted.
LEMMA ReplyLostKeepsInv ==
    ASSUME OutboxInv, NEW t \in Task, ReplyLost(t)
    PROVE  OutboxInv'
<1>1. /\ flushLock = t
      /\ channel' = Append(channel, Message(t))
      /\ lost' = lost \union {NextTs}
      /\ Recorded(t)
      /\ Fail(t, Current(t), "global")
      /\ receipts' = receipts
  BY HolderInLoop DEF ReplyLost
<1>2. /\ channel' \in Seq(ChannelMessage)
      /\ lost' \subseteq 1..Len(channel')
  BY <1>1, LostTyped
<1>3. /\ companyAlert' \in [Company \X Stage -> Nat \union {NoRow}]
      /\ CompanyThreads'
      /\ alerted' \subseteq Signal \X Stage
  BY <1>1, RecordedTyped
<1>4. ThreadsMatchCompany'
  BY <1>1, HolderFacts, ThreadsMatchAfterPost
<1>5. /\ outbox' \in Seq(Row) /\ SentRowsKept /\ RowInv'
      /\ flushLock' \in Task \union {Null}
      /\ flush' \in [Task -> FlushState]
      /\ FlushInOrder' /\ FlushThreads'
  <2>1. "global" \in Failure
    BY DEF Failure
  <2> QED
    BY <1>1, <1>3, <2>1, FailStep
<1>6. DeliveryInv'
  BY <1>1, <1>5, HolderFacts, DeliveryLost
<1>7. OutboxTypeOK'
  BY <1>1, <1>2, <1>3, <1>5, HolderFacts, TypeAfter
<1> QED
  BY <1>3, <1>4, <1>5, <1>6, <1>7 DEF OutboxInv, RowInv, DeliveryInv

\* The same, when company_alerts refuses the row.
LEMMA KeyRefusedKeepsInv ==
    ASSUME OutboxInv, NEW t \in Task, KeyRefused(t)
    PROVE  OutboxInv'
<1>1. /\ flushLock = t
      /\ channel' = Append(channel, Message(t))
      /\ lost' = lost \union {NextTs}
      /\ MarkAlerted(Current(t))
      /\ Fail(t, Current(t), "global")
      /\ UNCHANGED <<companyAlert, receipts>>
  BY HolderInLoop DEF KeyRefused
<1>2. /\ channel' \in Seq(ChannelMessage)
      /\ lost' \subseteq 1..Len(channel')
      /\ ChannelGrows
  BY <1>1, LostTyped
<1>3. CompanyThreads'
  BY <1>1, <1>2, HolderFacts, CompanyThreadsKept
<1>4. ThreadsMatchCompany'
  BY <1>1, HolderFacts, ThreadsMatchAfterPost
<1>5. /\ outbox' \in Seq(Row) /\ SentRowsKept /\ RowInv'
      /\ flushLock' \in Task \union {Null}
      /\ flush' \in [Task -> FlushState]
      /\ FlushInOrder' /\ FlushThreads'
  <2>1. "global" \in Failure
    BY DEF Failure
  <2> QED
    BY <1>1, <1>3, <2>1, HolderFacts, FailStep
<1>6. DeliveryInv'
  BY <1>1, <1>5, HolderFacts, DeliveryLost
<1>7. alerted' \subseteq Signal \X Stage
  BY <1>1, HolderFacts, MarkAlertedTyped
<1>8. OutboxTypeOK'
  BY <1>1, <1>2, <1>5, <1>7, HolderFacts, TypeAfter
<1> QED
  BY <1>3, <1>4, <1>5, <1>6, <1>8 DEF OutboxInv, RowInv, DeliveryInv

\* The row is marked sent, and charged for the timeline event that could not be written.
LEMMA TimelineFailsKeepsInv ==
    ASSUME OutboxInv, NEW t \in Task, TimelineFails(t)
    PROVE  OutboxInv'
<1> DEFINE a == flush[t].at
<1>1. /\ flushLock = t
      /\ ~KeyMissing(Current(t))
      /\ channel' = Append(channel, Message(t))
      /\ MarkAlerted(Current(t))
      /\ companyAlert' = CompanyAlertAfter(Current(t), NextTs)
      /\ Fail(t, Sent(Current(t)), "global")
      /\ UNCHANGED <<receipts, lost>>
  BY HolderInLoop DEF TimelineFails
<1>2. /\ companyAlert' \in [Company \X Stage -> Nat \union {NoRow}]
      /\ CompanyThreads'
  BY <1>1, HolderFacts, CompanyThreadsRecorded
<1>3. ThreadsMatchCompany'
  BY <1>1, HolderFacts, ThreadsMatchAfterPost
<1>4. /\ outbox' \in Seq(Row) /\ RowInv'
      /\ RowUpdated(a) /\ outbox'[a].status # "pending"
      /\ flushLock' \in Task \union {Null}
      /\ flush' \in [Task -> FlushState]
      /\ FlushInOrder' /\ FlushThreads'
  <2>1. "global" \in Failure
    BY DEF Failure
  <2> QED
    BY <1>1, <1>2, <2>1, FailStep
<1>5. DeliveryInv'
  BY <1>1, <1>4, HolderFacts, DeliveryNoticed
<1>6. OutboxTypeOK'
  <2>1. alerted' \subseteq Signal \X Stage
    BY <1>1, HolderFacts, MarkAlertedTyped
  <2>2. channel' \in Seq(ChannelMessage) /\ lost' \subseteq 1..Len(channel')
    <3>1. /\ channel' \in Seq(ChannelMessage)
          /\ NextTs \in Nat \ {0} /\ NextTs = Len(channel')
          /\ lost \subseteq 1..(NextTs - 1)
      BY <1>1, HolderFacts, Posting
    <3> QED
      BY <1>1, <3>1
  <2> QED
    BY <1>1, <1>2, <1>4, <2>1, <2>2, HolderFacts, TypeAfter
<1> QED
  BY <1>2, <1>3, <1>4, <1>5, <1>6 DEF OutboxInv, RowInv, DeliveryInv

\* The holder leaves the loop and nothing was accepted.
LEMMA InterruptBeforeKeepsInv ==
    ASSUME OutboxInv, NEW t \in Task, InterruptBefore(t)
    PROVE  OutboxInv'
<1>1. /\ flushLock = t /\ Release(t)
      /\ UNCHANGED <<outbox, companyAlert, alerted, receipts, channel, lost>>
  BY HolderInLoop DEF InterruptBefore
<1>2. flushLock' = Null /\ flush' \in [Task -> FlushState] /\ FlushInOrder'
  BY <1>1, HolderFacts, ReleaseInOrder
<1>3. FlushThreads'
  BY <1>2, FlushThreadsReleased
<1>4. OutboxTypeOK'
  BY <1>1, <1>2, HolderFacts, TypeAfter
<1>5. RowInv'
  BY <1>1 DEF OutboxInv, RowInv, RowsAreRequests, DedupeUnique, InOrder, OnlyOldestCharged
<1>6. DeliveryInv'
  BY <1>1, HolderFacts DEF DeliveryInv, NoticedMeansDone, ReceiptsNoticed,
                           SentMeansDelivered, NoDoubleDelivery
<1>7. CompanyThreads' /\ ThreadsMatchCompany'
  BY <1>1, HolderFacts DEF CompanyThreads, ThreadsMatchCompany
<1> QED
  BY <1>2, <1>3, <1>4, <1>5, <1>6, <1>7 DEF OutboxInv, RowInv, DeliveryInv

\* The message was accepted, and at most the signal and the thread were written.
LEMMA InterruptAfterKeepsInv ==
    ASSUME OutboxInv, NEW t \in Task, InterruptAfter(t)
    PROVE  OutboxInv'
<1>1. /\ flushLock = t /\ Release(t)
      /\ channel' = Append(channel, Message(t))
      /\ lost' = lost \union {NextTs}
      /\ Recorded(t)
      /\ UNCHANGED <<outbox, receipts>>
  BY HolderInLoop DEF InterruptAfter
<1>2. flushLock' = Null /\ flush' \in [Task -> FlushState] /\ FlushInOrder'
  BY <1>1, HolderFacts, ReleaseInOrder
<1>3. FlushThreads'
  BY <1>2, FlushThreadsReleased
<1>4. /\ channel' \in Seq(ChannelMessage)
      /\ lost' \subseteq 1..Len(channel')
  BY <1>1, LostTyped
<1>5. ThreadsMatchCompany'
  BY <1>1, HolderFacts, ThreadsMatchAfterPost
<1>6. /\ companyAlert' \in [Company \X Stage -> Nat \union {NoRow}]
      /\ CompanyThreads'
      /\ alerted' \subseteq Signal \X Stage
  BY <1>1, RecordedTyped
<1>7. OutboxTypeOK'
  BY <1>1, <1>2, <1>4, <1>6, HolderFacts, TypeAfter
<1>8. RowInv'
  BY <1>1 DEF OutboxInv, RowInv, RowsAreRequests, DedupeUnique, InOrder, OnlyOldestCharged
<1>9. DeliveryInv'
  <2>1. SentRowsKept
    BY <1>1 DEF SentRowsKept
  <2> QED
    BY <1>1, <2>1, HolderFacts, DeliveryLost
<1> QED
  BY <1>2, <1>3, <1>5, <1>6, <1>7, <1>8, <1>9 DEF OutboxInv, RowInv, DeliveryInv

\* Everything is written except the timeline event.
LEMMA InterruptUnreceiptedKeepsInv ==
    ASSUME OutboxInv, NEW t \in Task, InterruptUnreceipted(t)
    PROVE  OutboxInv'
<1> DEFINE a == flush[t].at
<1>1. /\ flushLock = t
      /\ ~KeyMissing(Current(t))
      /\ channel' = Append(channel, Message(t))
      /\ MarkAlerted(Current(t))
      /\ companyAlert' = CompanyAlertAfter(Current(t), NextTs)
      /\ outbox' = [outbox EXCEPT ![a] = Sent(outbox[a])]
      /\ Release(t)
      /\ UNCHANGED <<receipts, lost>>
  BY HolderInLoop DEF InterruptUnreceipted
<1>2. RowUpdated(a) /\ outbox'[a].status = "sent"
  <2>1. "global" \in Failure
    BY DEF Failure
  <2> QED
    BY <1>1, <2>1, HolderFacts, MethodUpdates, MethodStatus
<1>3. /\ companyAlert' \in [Company \X Stage -> Nat \union {NoRow}]
      /\ CompanyThreads'
  BY <1>1, HolderFacts, CompanyThreadsRecorded
<1>4. flushLock' = Null /\ flush' \in [Task -> FlushState] /\ FlushInOrder'
  BY <1>1, HolderFacts, ReleaseInOrder
<1>5. FlushThreads'
  BY <1>4, FlushThreadsReleased
<1>6. ThreadsMatchCompany'
  BY <1>1, HolderFacts, ThreadsMatchAfterPost
<1>7. DeliveryInv'
  BY <1>1, <1>2, HolderFacts, DeliveryNoticed
<1>8. RowInv'
  BY <1>1, <1>2, HolderKeepsRows
<1>9. OutboxTypeOK'
  <2>1. alerted' \subseteq Signal \X Stage
    BY <1>1, HolderFacts, MarkAlertedTyped
  <2>2. channel' \in Seq(ChannelMessage) /\ lost' \subseteq 1..Len(channel')
    <3>1. /\ channel' \in Seq(ChannelMessage)
          /\ NextTs \in Nat \ {0} /\ NextTs = Len(channel')
          /\ lost \subseteq 1..(NextTs - 1)
      BY <1>1, HolderFacts, Posting
    <3> QED
      BY <1>1, <3>1
  <2> QED
    BY <1>1, <1>2, <1>3, <1>4, <2>1, <2>2, HolderFacts, TypeAfter DEF RowUpdated
<1> QED
  BY <1>3, <1>4, <1>5, <1>6, <1>7, <1>8, <1>9 DEF OutboxInv, RowInv, DeliveryInv

\* The attempt is charged, and the row escapes the dead-lettering.
LEMMA InterruptUndeadKeepsInv ==
    ASSUME OutboxInv, NEW t \in Task, InterruptUndead(t)
    PROVE  OutboxInv'
<1> DEFINE a == flush[t].at
<1>1. /\ flushLock = t /\ Release(t)
      /\ UNCHANGED <<companyAlert, alerted, receipts, channel, lost>>
  BY HolderInLoop DEF InterruptUndead
<1>2. PICK failure \in Failure : outbox' = [outbox EXCEPT ![a] = Failed(outbox[a], failure)]
  BY DEF InterruptUndead
<1>3. RowUpdated(a) /\ outbox'[a].status = "pending"
  <2>1. /\ OutboxTypeOK /\ a \in DOMAIN outbox
        /\ outbox[a] \in Row /\ outbox[a].status = "pending"
    BY <1>1, HolderFacts
  <2>2. RowUpdated(a) /\ outbox'[a] = Failed(outbox[a], failure)
    BY <1>2, <2>1, MethodUpdates
  <2> QED
    BY <2>1, <2>2, MethodStatus
<1>4. flushLock' = Null /\ flush' \in [Task -> FlushState] /\ FlushInOrder'
  BY <1>1, HolderFacts, ReleaseInOrder
<1>5. FlushThreads'
  BY <1>4, FlushThreadsReleased
<1>6. RowInv'
  BY <1>1, <1>3, HolderKeepsRows
<1>7. DeliveryInv'
  <2>1. SentRowsKept
    BY <1>1, <1>3, HolderFacts, UpdateKeepsSent
  <2> QED
    BY <1>1, <2>1, HolderFacts, DeliveryKept
<1>8. CompanyThreads' /\ ThreadsMatchCompany'
  BY <1>1, HolderFacts DEF CompanyThreads, ThreadsMatchCompany
<1>9. OutboxTypeOK'
  BY <1>1, <1>3, <1>4, HolderFacts, TypeAfter DEF RowUpdated
<1> QED
  BY <1>4, <1>5, <1>6, <1>7, <1>8, <1>9 DEF OutboxInv, RowInv, DeliveryInv

-----------------------------------------------------------------------------
(* The theorems *)

\* The empty outbox of a new database satisfies the invariant.
LEMMA InitInv == OutboxInit => OutboxInv
<1> SUFFICES ASSUME OutboxInit PROVE OutboxInv
  OBVIOUS
<1> USE DEF OutboxInit
<1>1. OutboxTypeOK
  <2>1. outbox \in Seq(Row) /\ channel \in Seq(ChannelMessage)
    BY EmptySeq
  <2>2. companyAlert \in [Company \X Stage -> Nat \union {NoRow}]
    OBVIOUS
  <2>3. flush \in [Task -> FlushState]
    BY DEF IdleFlush, FlushState, NoThread
  <2> QED
    BY <2>1, <2>2, <2>3 DEF OutboxTypeOK, FlushState, ChannelMessage
<1>2. DOMAIN outbox = {} /\ DOMAIN channel = {}
  OBVIOUS
<1>3. RowsAreRequests /\ DedupeUnique /\ InOrder /\ OnlyOldestCharged
  BY <1>2 DEF RowsAreRequests, DedupeUnique, InOrder, OnlyOldestCharged
<1>4. FlushInOrder
  BY OutboxAssumption DEF OutboxAssumption, FlushInOrder
<1>5. /\ NoticedMeansDone /\ ReceiptsNoticed /\ SentMeansDelivered
      /\ NoDoubleDelivery /\ ThreadsMatchCompany
  BY <1>2 DEF NoticedMeansDone, ReceiptsNoticed, SentMeansDelivered,
              NoDoubleDelivery, ThreadsMatchCompany
<1>6. CompanyThreads
  BY DEF CompanyThreads, NoRow, Stage
<1>7. FlushThreads
  BY DEF FlushThreads, IdleFlush, NoThread
<1> QED
  BY <1>1, <1>3, <1>4, <1>5, <1>6, <1>7 DEF OutboxInv

\* Every step of the outbox, and every step that leaves it alone, keeps it.
LEMMA NextInv == OutboxInv /\ [OutboxNext]_outboxVars => OutboxInv'
<1> SUFFICES ASSUME OutboxInv, [OutboxNext]_outboxVars PROVE OutboxInv'
  OBVIOUS
<1>1. ASSUME NEW r \in Offered, Enqueue(r) PROVE OutboxInv'
  BY <1>1, EnqueueKeepsInv, OutboxAssumption DEF OutboxAssumption
<1>2. ASSUME NEW t \in Task, FlushStep(t) PROVE OutboxInv'
  BY <1>2, FlushAlertsKeepsInv, SendSucceedsKeepsInv, SendFailsKeepsInv,
     ReplyLostKeepsInv, KeyRefusedKeepsInv, TimelineFailsKeepsInv,
     InterruptBeforeKeepsInv, InterruptAfterKeepsInv, InterruptUnreceiptedKeepsInv,
     InterruptUndeadKeepsInv
     DEF FlushStep, SendCompletes
<1>3. CASE UNCHANGED outboxVars
  <2> USE <1>3 DEF outboxVars
  <2>1. OutboxTypeOK'
    BY DEF OutboxInv, OutboxTypeOK
  <2>2. RowInv'
    BY DEF OutboxInv, RowInv, RowsAreRequests, DedupeUnique, InOrder, OnlyOldestCharged
  <2>3. FlushInOrder' /\ FlushThreads'
    BY DEF OutboxInv, FlushInOrder, Pending, FlushThreads, Current
  <2>4. DeliveryInv'
    BY DEF OutboxInv, DeliveryInv, NoticedMeansDone, ReceiptsNoticed,
           SentMeansDelivered, NoDoubleDelivery
  <2>5. CompanyThreads' /\ ThreadsMatchCompany'
    BY DEF OutboxInv, CompanyThreads, ThreadsMatchCompany
  <2> QED
    BY <2>1, <2>2, <2>3, <2>4, <2>5 DEF OutboxInv, RowInv, DeliveryInv
<1> QED
  BY <1>1, <1>2, <1>3 DEF OutboxNext

\* The invariant holds in every behaviour of the outbox.
THEOREM OutboxInvariant == OutboxSpec => []OutboxInv
<1>1. OutboxInit => OutboxInv
  BY InitInv
<1>2. OutboxInv /\ [OutboxNext]_outboxVars => OutboxInv'
  BY NextInv
<1> QED
  BY <1>1, <1>2, PTL DEF OutboxSpec

\* Type correctness of the outbox, the flush loops and the channel.
THEOREM OutboxTypeCorrect == OutboxSpec => []OutboxTypeOK
<1>1. OutboxInv => OutboxTypeOK
  BY DEF OutboxInv
<1> QED
  BY <1>1, OutboxInvariant, PTL

\* Of two copies of one alert, the outbox never learnt that the earlier was accepted:
\* the lock, the dedupe key and the order of the writes leave no other way.
THEOREM OutboxDeliversOnce == OutboxSpec => []NoDoubleDelivery
<1>1. OutboxInv => NoDoubleDelivery
  BY DEF OutboxInv
<1> QED
  BY <1>1, OutboxInvariant, PTL

\* No alert is marked sent, or has its timeline event, without being in the channel.
THEOREM OutboxSentIsDelivered == OutboxSpec => []SentMeansDelivered
<1>1. OutboxInv => SentMeansDelivered
  BY DEF OutboxInv
<1> QED
  BY <1>1, OutboxInvariant, PTL

\* Alerts are finished in the order of the queue, whatever fails in between.
THEOREM OutboxFinishesInOrder == OutboxSpec => []InOrder
<1>1. OutboxInv => InOrder
  BY DEF OutboxInv
<1> QED
  BY <1>1, OutboxInvariant, PTL

\* A failure charges no pending alert but the oldest.
THEOREM OutboxChargesOldest == OutboxSpec => []OnlyOldestCharged
<1>1. OutboxInv => OnlyOldestCharged
  BY DEF OutboxInv
<1> QED
  BY <1>1, OutboxInvariant, PTL

\* Every threaded message replies to the EARLY alert of its own company.
THEOREM OutboxThreadsMatch == OutboxSpec => []ThreadsMatchCompany
<1>1. OutboxInv => ThreadsMatchCompany
  BY DEF OutboxInv
<1> QED
  BY <1>1, OutboxInvariant, PTL
=============================================================================
