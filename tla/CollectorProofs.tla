-------------------------- MODULE CollectorProofs --------------------------
(***************************************************************************)
(* Theorems about Collector: for any posts, queries, targets and numbers   *)
(* of runs and faults, no post gets lost behind a watermark without a      *)
(* failure or a full page that accounts for it.                            *)
(***************************************************************************)
EXTENDS Collector, FiniteSetTheorems, WellFoundedInduction, TLAPS

\* Only X is asked natively.
NativeIsX ==
    \A r \in Run : run[r].step \in {"native", "native_done"} => adapter = "x"

\* What a request does not ask for, because it is up to the watermark that was read
\* before, is accounted for as well; the watermark may have moved back since.
AskedSinceAccounted ==
    \A r \in Run : run[r].step = "native" =>
        \A p \in Matching(Head(run[r].asks)) : p <= run[r].since => Accounted(p)

\* The inductive invariant.
CollInv == CollTypeOK /\ NativeIsX /\ EveryPostAccounted /\ AskedSinceAccounted

-----------------------------------------------------------------------------
(* Posts, queries and pages *)

LEMMA PostsAreNumbers == Post \subseteq Nat /\ 0 \notin Post
<1>1. Cardinality(Post) \in Nat /\ Post = 1..Cardinality(Post)
  BY CollectorAssumption, FS_CardinalityType
<1> QED
  BY <1>1

\* A page has a newest post.
LEMMA NewestIsOnPage ==
    ASSUME NEW n \in Nat, NEW page \in SUBSET (1..n), page # {}
    PROVE  Max(page) \in page
<1> DEFINE R == OpToRel(<, Nat)
<1> DEFINE D == {k \in Nat : \E p \in page : k = n - p}
<1>1. D \subseteq Nat /\ D # {}
  <2>1. PICK p \in page : TRUE
    OBVIOUS
  <2>2. n - p \in Nat
    OBVIOUS
  <2>3. n - p \in D
    BY <2>2
  <2> QED
    BY <2>3
<1>2. IsWellFoundedOn(R, Nat)
  BY NatLessThanWellFounded
<1> HIDE DEF D
<1>3. PICK d \in D : \A e \in D : ~ (<<e, d>> \in R)
  <2> HIDE DEF R
  <2> QED
    BY <1>1, <1>2, WFMin
<1>4. \A e \in D : ~ (e < d)
  BY <1>1, <1>3 DEF OpToRel
<1>5. PICK p \in page : d = n - p
  BY DEF D
<1>6. \A x \in page : p >= x
  <2> TAKE x \in page
  <2>1. n - x \in Nat
    OBVIOUS
  <2>2. n - x \in D
    BY <2>1 DEF D
  <2> QED
    BY <1>4, <1>5, <2>2
<1> QED
  BY <1>6 DEF Max

\* What a hunt asks X for are queries that have a watermark.
LEMMA HuntsAskQueries ==
    ASSUME NEW t \in Targets
    PROVE  XQueries(t) \in Seq(Queries) \ {<<>>}
<1> DEFINE All == {Phrases(t.yc), YcClaims, YcBacking, Phrases(t.cohorts), SpeedrunClaims}
<1>1. ASSUME NEW labels, Phrases(labels) \in All
      PROVE  Grouped(labels) \in Seq(All)
  <2> HIDE DEF All
  <2> QED
    BY <1>1 DEF Grouped
<1>2. XQueries(t) \in Seq(All) \ {<<>>}
  <2>1. <<YcClaims, YcBacking>> \in Seq(All) /\ <<SpeedrunClaims>> \in Seq(All)
    OBVIOUS
  <2>2. Grouped(t.yc) \in Seq(All) /\ Grouped(t.cohorts) \in Seq(All)
    BY <1>1
  <2> HIDE DEF All
  <2> QED
    BY <2>1, <2>2 DEF XQueries
<1> HIDE DEF All
<1>3. \A i \in DOMAIN XQueries(t) : XQueries(t)[i] \in Queries
  BY DEF Queries, WordsOf
<1> QED
  BY <1>2, <1>3

LEMMA PostedAreNumbers ==
    ASSUME newest \in {0} \union Post
    PROVE  newest \in Nat /\ Posted \in SUBSET (1..newest)
<1>1. newest \in Nat
  BY PostsAreNumbers
<1>2. \A p \in Posted : p \in 1..newest
  BY <1>1, PostsAreNumbers DEF Posted
<1> QED
  BY <1>1, <1>2

-----------------------------------------------------------------------------
(* Types *)

LEMMA InitTypes == CollInit => CollTypeOK /\ NativeIsX
<1> SUFFICES ASSUME CollInit PROVE CollTypeOK /\ NativeIsX
  OBVIOUS
<1> USE CollectorAssumption DEF CollInit, Idle
<1>1. NativeIsX
  BY DEF NativeIsX
<1>2. 0 \in 0..MaxFaults
  OBVIOUS
<1> QED
  BY <1>1, <1>2 DEF CollTypeOK

LEMMA PublishTypes ==
    CollTypeOK /\ NativeIsX /\ Publish => CollTypeOK' /\ NativeIsX'
<1> SUFFICES ASSUME CollTypeOK, NativeIsX, Publish PROVE CollTypeOK' /\ NativeIsX'
  OBVIOUS
<1> USE DEF CollTypeOK, Publish, history
<1>1. Posted \subseteq Posted'
  BY PostsAreNumbers DEF Posted
<1>2. NativeIsX'
  BY DEF NativeIsX
<1> QED
  BY <1>1, <1>2

LEMMA RetargetTypes ==
    ASSUME NEW t \in Targets
    PROVE  CollTypeOK /\ NativeIsX /\ Retarget(t) => CollTypeOK' /\ NativeIsX'
BY DEF CollTypeOK, NativeIsX, Retarget, history, Posted

LEMMA RefuseTypes ==
    ASSUME NEW r \in Run
    PROVE  CollTypeOK /\ NativeIsX /\ Refuse(r) => CollTypeOK' /\ NativeIsX'
BY DEF CollTypeOK, NativeIsX, Refuse, history, Posted

\* The state of a run is replaced by one that fits.
LEMMA UpdateTypes ==
    ASSUME CollTypeOK, NativeIsX, NEW r \in Run, NEW new,
           run' = [run EXCEPT ![r] = new], UNCHANGED <<adapter, newest>>,
           new.step \in {"idle", "native", "native_done", "indexed", "indexed_done"},
           new.step = "native" => new.asks \in Seq(Queries) \ {<<>>},
           new.step \in {"native", "native_done"} => adapter = "x",
           new.since \in {0} \union Posted,
           new.found \subseteq Posted
    PROVE  /\ DOMAIN run' = Run
           /\ \A s \in Run :
               /\ run'[s].step \in {"idle", "native", "native_done", "indexed", "indexed_done"}
               /\ run'[s].step = "native" => run'[s].asks \in Seq(Queries) \ {<<>>}
               /\ run'[s].since \in {0} \union Posted'
               /\ run'[s].found \subseteq Posted'
           /\ NativeIsX'
<1>1. DOMAIN run' = Run
  BY DEF CollTypeOK
<1>2. Posted' = Posted
  BY DEF Posted
<1>3. ASSUME NEW s \in Run
      PROVE  run'[s] = IF s = r THEN new ELSE run[s]
  BY DEF CollTypeOK
<1>4. NativeIsX'
  BY <1>3 DEF NativeIsX
<1>5. ASSUME NEW s \in Run
      PROVE  /\ run'[s].step \in {"idle", "native", "native_done", "indexed", "indexed_done"}
             /\ run'[s].step = "native" => run'[s].asks \in Seq(Queries) \ {<<>>}
             /\ run'[s].since \in {0} \union Posted'
             /\ run'[s].found \subseteq Posted'
  <2>1. CASE s = r
    BY <1>2, <1>3, <2>1
  <2>2. CASE s # r
    <3>1. run'[s] = run[s]
      BY <1>3, <2>2
    <3> QED
      BY <1>2, <3>1 DEF CollTypeOK
  <2> QED
    BY <2>1, <2>2
<1> QED
  BY <1>1, <1>4, <1>5

LEMMA StartTypes ==
    ASSUME NEW r \in Run
    PROVE  CollTypeOK /\ NativeIsX /\ Start(r) => CollTypeOK' /\ NativeIsX'
<1> SUFFICES ASSUME CollTypeOK, NativeIsX, Start(r) PROVE CollTypeOK' /\ NativeIsX'
  OBVIOUS
<1> DEFINE Q == XQueries(targets)
<1> DEFINE new == IF adapter = "x" THEN Asking(Q, Since(Head(Q)), {})
                  ELSE Indexed(LinkedInQueries(targets), {})
<1>1. run' = [run EXCEPT ![r] = new] /\ UNCHANGED <<adapter, newest, targets, stored>>
  BY DEF Start, Update
<1>2. Q \in Seq(Queries) \ {<<>>}
  BY HuntsAskQueries DEF CollTypeOK
<1>3. Since(Head(Q)) \in {0} \union Posted
  BY <1>2 DEF CollTypeOK, Since, WatermarkKey
<1>4. /\ new.step \in {"idle", "native", "native_done", "indexed", "indexed_done"}
      /\ new.step = "native" => new.asks \in Seq(Queries) \ {<<>>}
      /\ new.step \in {"native", "native_done"} => adapter = "x"
      /\ new.since \in {0} \union Posted
      /\ new.found \subseteq Posted
  <2> HIDE DEF Q
  <2> QED
    BY <1>2, <1>3 DEF Asking, Indexed
<1> HIDE DEF new
<1>5. UNCHANGED Posted
  BY <1>1 DEF Posted
<1> QED
  BY <1>1, <1>4, <1>5, UpdateTypes DEF CollTypeOK, Start, history

\* What a native request finds.
Hits(r) == {p \in Matching(Head(run[r].asks)) : p > run[r].since}

\* The answer to a native request moves the watermark of its query to a post that is up.
LEMMA AnswerMoves ==
    ASSUME CollTypeOK, NEW r \in Run, NativeAnswer(r)
    PROVE  /\ Head(run[r].asks) \in Queries
           /\ Page(Hits(r)) \subseteq Hits(r)
           /\ Hits(r) \subseteq Posted
           /\ \E n \in {0} \union Posted :
                watermark' = [watermark EXCEPT ![Head(run[r].asks)] = n]
<1> DEFINE query == Head(run[r].asks)
           page == Page(Hits(r))
<1>1. query \in Queries
  BY DEF CollTypeOK, NativeAnswer
<1>2. page \subseteq Hits(r) /\ Hits(r) \subseteq Posted
  BY DEF Page, Hits, Matching
<1>3. watermark' = Moved(query, page)
  BY DEF NativeAnswer, Hits
<1>4. page # {} => Max(page) \in Posted
  <2>1. newest \in Nat /\ page \in SUBSET (1..newest)
    BY <1>2, PostedAreNumbers DEF CollTypeOK
  <2> HIDE DEF page
  <2>2. page # {} => Max(page) \in page
    BY <2>1, NewestIsOnPage
  <2> QED
    BY <1>2, <2>2
<1> HIDE DEF query, page
<1>5. watermark[query] \in {0} \union Posted
  BY <1>1 DEF CollTypeOK
<1>6. watermark' = [watermark EXCEPT ![query] =
                        IF page = {} THEN watermark[query] ELSE Max(page)]
  BY <1>1, <1>3 DEF Moved, WatermarkKey, CollTypeOK
<1> QED
  BY <1>1, <1>2, <1>4, <1>5, <1>6 DEF query, page

LEMMA AnswerTypes ==
    ASSUME NEW r \in Run
    PROVE  CollTypeOK /\ NativeIsX /\ NativeAnswer(r) => CollTypeOK' /\ NativeIsX'
<1> SUFFICES ASSUME CollTypeOK, NativeIsX, NativeAnswer(r) PROVE CollTypeOK' /\ NativeIsX'
  OBVIOUS
<1> DEFINE rest == Tail(run[r].asks)
           got == run[r].found \union Page(Hits(r))
           next == watermark'[WatermarkKey(Head(rest))]
           new == IF rest = <<>> THEN [Idle EXCEPT !.step = "native_done", !.found = got]
                  ELSE Asking(rest, next, got)
<1>1. run' = [run EXCEPT ![r] = new] /\ UNCHANGED <<adapter, newest, targets, stored>>
  BY DEF NativeAnswer, Update, Hits
<1>2. watermark' \in [Queries -> {0} \union Posted]
  BY AnswerMoves DEF CollTypeOK
<1>3. rest \in Seq(Queries)
  BY DEF NativeAnswer, CollTypeOK
<1>4. rest # <<>> => next \in {0} \union Posted
  <2> HIDE DEF rest
  <2>1. rest # <<>> => Head(rest) \in Queries
    BY <1>3
  <2> QED
    BY <1>2, <2>1 DEF WatermarkKey
<1>5. got \subseteq Posted
  BY AnswerMoves DEF CollTypeOK
<1>6. adapter = "x"
  BY DEF NativeIsX, NativeAnswer
<1> HIDE DEF rest, got, next
<1>7. /\ new.step \in {"idle", "native", "native_done", "indexed", "indexed_done"}
      /\ new.step = "native" => new.asks \in Seq(Queries) \ {<<>>}
      /\ new.step \in {"native", "native_done"} => adapter = "x"
      /\ new.since \in {0} \union Posted
      /\ new.found \subseteq Posted
  <2>1. CASE rest = <<>>
    BY <1>5, <1>6, <2>1 DEF Idle
  <2>2. CASE rest # <<>>
    BY <1>3, <1>4, <1>5, <1>6, <2>2 DEF Asking
  <2> QED
    BY <2>1, <2>2
<1>8. beyond' \subseteq Posted
  BY AnswerMoves DEF NativeAnswer, Hits, CollTypeOK
<1> HIDE DEF new
<1>9. Posted' = Posted
  BY <1>1 DEF Posted
<1>10. UNCHANGED <<hunted, faults, dropped>>
  BY DEF NativeAnswer
<1> QED
  BY <1>1, <1>2, <1>6, <1>7, <1>8, <1>9, <1>10, UpdateTypes DEF CollTypeOK

LEMMA InHandPosted ==
    ASSUME CollTypeOK, NEW r \in Run
    PROVE  InHand(r) \subseteq Posted
BY DEF CollTypeOK, InHand

LEMMA CreditTypes ==
    ASSUME NEW r \in Run
    PROVE  CollTypeOK /\ NativeIsX /\ OutOfCredit(r) => CollTypeOK' /\ NativeIsX'
<1> SUFFICES ASSUME CollTypeOK, NativeIsX, OutOfCredit(r) PROVE CollTypeOK' /\ NativeIsX'
  OBVIOUS
<1> DEFINE new == IF HasIndexKey /\ ~IsEmpty(hunted)
                  THEN Indexed(XIndexedQueries(hunted), {}) ELSE Idle
<1>1. run' = [run EXCEPT ![r] = new] /\ UNCHANGED <<adapter, newest, targets, stored>>
  BY DEF OutOfCredit, Update
<1>2. /\ new.step \in {"idle", "native", "native_done", "indexed", "indexed_done"}
      /\ new.step = "native" => new.asks \in Seq(Queries) \ {<<>>}
      /\ new.step \in {"native", "native_done"} => adapter = "x"
      /\ new.since \in {0} \union Posted
      /\ new.found \subseteq Posted
  BY DEF Indexed, Idle
<1> HIDE DEF new
<1>3. Posted' = Posted
  BY <1>1 DEF Posted
<1>4. faults' \in 0..MaxFaults
  BY CollectorAssumption DEF OutOfCredit, Fault, CollTypeOK
<1>5. dropped' \subseteq Posted
  BY InHandPosted DEF OutOfCredit, CollTypeOK
<1>6. UNCHANGED <<hunted, watermark, beyond>>
  BY DEF OutOfCredit
<1> QED
  BY <1>1, <1>2, <1>3, <1>4, <1>5, <1>6, UpdateTypes DEF CollTypeOK

LEMMA RequestFailsTypes ==
    ASSUME NEW r \in Run
    PROVE  CollTypeOK /\ NativeIsX /\ RequestFails(r) => CollTypeOK' /\ NativeIsX'
<1> SUFFICES ASSUME CollTypeOK, NativeIsX, RequestFails(r) PROVE CollTypeOK' /\ NativeIsX'
  OBVIOUS
<1>1. run' = [run EXCEPT ![r] = Idle] /\ UNCHANGED <<adapter, newest, targets, stored>>
  BY DEF RequestFails, Update
<1>2. Idle.step = "idle" /\ Idle.since = 0 /\ Idle.found = {}
  BY DEF Idle
<1>3. Posted' = Posted
  BY <1>1 DEF Posted
<1>4. faults' \in 0..MaxFaults
  BY CollectorAssumption DEF RequestFails, Fault, CollTypeOK
<1>5. dropped' \subseteq Posted
  BY InHandPosted DEF RequestFails, CollTypeOK
<1>6. UNCHANGED <<hunted, watermark, beyond>>
  BY DEF RequestFails
<1> QED
  BY <1>1, <1>2, <1>3, <1>4, <1>5, <1>6, UpdateTypes DEF CollTypeOK

LEMMA IndexTypes ==
    ASSUME NEW r \in Run
    PROVE  CollTypeOK /\ NativeIsX /\ IndexAnswers(r) => CollTypeOK' /\ NativeIsX'
<1> SUFFICES ASSUME CollTypeOK, NativeIsX, IndexAnswers(r) PROVE CollTypeOK' /\ NativeIsX'
  OBVIOUS
<1>1. PICK hits \in IndexHits(Head(run[r].asks)) :
        LET rest == Tail(run[r].asks)
            got == run[r].found \union hits
        IN  Update(r, IF rest = <<>>
                      THEN [Idle EXCEPT !.step = "indexed_done", !.found = got]
                      ELSE Indexed(rest, got))
  BY DEF IndexAnswers
<1> DEFINE rest == Tail(run[r].asks)
           got == run[r].found \union hits
           new == IF rest = <<>> THEN [Idle EXCEPT !.step = "indexed_done", !.found = got]
                  ELSE Indexed(rest, got)
<1>2. run' = [run EXCEPT ![r] = new] /\ UNCHANGED <<adapter, newest, targets, stored>>
  BY <1>1 DEF Update
<1>3. got \subseteq Posted
  BY DEF IndexHits, Matching, CollTypeOK
<1> HIDE DEF rest, got
<1>4. /\ new.step \in {"idle", "native", "native_done", "indexed", "indexed_done"}
      /\ new.step = "native" => new.asks \in Seq(Queries) \ {<<>>}
      /\ new.step \in {"native", "native_done"} => adapter = "x"
      /\ new.since \in {0} \union Posted
      /\ new.found \subseteq Posted
  <2>1. CASE rest = <<>>
    BY <1>3, <2>1 DEF Idle
  <2>2. CASE rest # <<>>
    BY <1>3, <2>2 DEF Indexed
  <2> QED
    BY <2>1, <2>2
<1> HIDE DEF new
<1>5. Posted' = Posted
  BY <1>2 DEF Posted
<1>6. UNCHANGED <<hunted, watermark, faults, dropped, beyond>>
  BY DEF IndexAnswers, history
<1> QED
  BY <1>2, <1>4, <1>5, <1>6, UpdateTypes DEF CollTypeOK

LEMMA HandTypes ==
    ASSUME CollTypeOK, NEW r \in Run, NEW posts, Hand(r, posts)
    PROVE  stored' \in [Post -> {"no", "native", "indexed_fallback", "none"}]
BY DEF CollTypeOK, Hand, ModeOf

LEMMA IngestTypes ==
    ASSUME NEW r \in Run
    PROVE  CollTypeOK /\ NativeIsX /\ Ingest(r) => CollTypeOK' /\ NativeIsX'
<1> SUFFICES ASSUME CollTypeOK, NativeIsX, Ingest(r) PROVE CollTypeOK' /\ NativeIsX'
  OBVIOUS
<1>1. Idle.step = "idle" /\ Idle.since = 0 /\ Idle.found = {}
  BY DEF Idle
<1>2. stored' \in [Post -> {"no", "native", "indexed_fallback", "none"}]
  BY HandTypes DEF Ingest
<1>3. /\ run' = [run EXCEPT ![r] = Idle]
      /\ UNCHANGED <<adapter, newest, targets, hunted, watermark, faults, dropped, beyond>>
  BY DEF Ingest, history
<1>4. Posted' = Posted
  BY <1>3 DEF Posted
<1> QED
  BY <1>1, <1>2, <1>3, <1>4, UpdateTypes DEF CollTypeOK

LEMMA IngestFailsTypes ==
    ASSUME NEW r \in Run, NEW posts \in SUBSET run[r].found
    PROVE  CollTypeOK /\ NativeIsX /\ IngestFails(r, posts) => CollTypeOK' /\ NativeIsX'
<1> SUFFICES ASSUME CollTypeOK, NativeIsX, IngestFails(r, posts)
             PROVE  CollTypeOK' /\ NativeIsX'
  OBVIOUS
<1>1. Idle.step = "idle" /\ Idle.since = 0 /\ Idle.found = {}
  BY DEF Idle
<1>2. stored' \in [Post -> {"no", "native", "indexed_fallback", "none"}]
  BY HandTypes DEF IngestFails
<1>3. /\ run' = [run EXCEPT ![r] = Idle]
      /\ UNCHANGED <<adapter, newest, targets, hunted, watermark, beyond>>
  BY DEF IngestFails
<1>4. Posted' = Posted
  BY <1>3 DEF Posted
<1>5. faults' \in 0..MaxFaults
  BY CollectorAssumption DEF IngestFails, Fault, CollTypeOK
<1>6. dropped' \subseteq Posted
  BY InHandPosted DEF IngestFails, CollTypeOK
<1> QED
  BY <1>1, <1>2, <1>3, <1>4, <1>5, <1>6, UpdateTypes DEF CollTypeOK

LEMMA RestartTypes == CollTypeOK /\ NativeIsX /\ Restart => CollTypeOK' /\ NativeIsX'
<1> SUFFICES ASSUME CollTypeOK, NativeIsX, Restart PROVE CollTypeOK' /\ NativeIsX'
  OBVIOUS
<1>1. Idle.step = "idle" /\ Idle.since = 0 /\ Idle.found = {}
  BY DEF Idle
<1>2. faults' \in 0..MaxFaults
  BY CollectorAssumption DEF Restart, Fault, CollTypeOK
<1>3. dropped' \subseteq Posted
  BY InHandPosted DEF Restart, CollTypeOK
<1>4. /\ run' = [r \in Run |-> Idle]
      /\ UNCHANGED <<adapter, newest, targets, hunted, watermark, stored, beyond>>
  BY DEF Restart
<1>5. Posted' = Posted
  BY <1>4 DEF Posted
<1> QED
  BY <1>1, <1>2, <1>3, <1>4, <1>5 DEF CollTypeOK, NativeIsX

LEMMA StutterTypes ==
    CollTypeOK /\ NativeIsX /\ UNCHANGED collVars => CollTypeOK' /\ NativeIsX'
BY DEF CollTypeOK, NativeIsX, collVars, history, Posted

LEMMA StepTypes ==
    CollTypeOK /\ NativeIsX /\ [CollNext]_collVars => CollTypeOK' /\ NativeIsX'
BY PublishTypes, RetargetTypes, RefuseTypes, StartTypes, AnswerTypes, CreditTypes, RequestFailsTypes,
   IndexTypes, IngestTypes, IngestFailsTypes, RestartTypes, StutterTypes
   DEF CollNext, Progress, Failure

-----------------------------------------------------------------------------
(* Posts that are accounted for *)

\* A post that is accounted for stays so when the tables only grow and what a run lets
\* go of is stored or was in the hands of a run that failed.
LEMMA StaysAccounted ==
    ASSUME NEW p, Accounted(p),
           stored[p] # "no" => stored'[p] # "no",
           dropped \subseteq dropped', beyond \subseteq beyond',
           \A r \in Run : p \in InHand(r) =>
                \/ p \in InHand(r)'
                \/ stored'[p] # "no"
                \/ p \in dropped'
    PROVE  Accounted(p)'
BY DEF Accounted

\* The two parts of the invariant at once, for a step that moves no watermark and
\* publishes nothing: a run starts or goes on asking only from a watermark.
LEMMA QuietStep ==
    ASSUME CollInv, UNCHANGED <<newest, watermark>>,
           \A p \in Posted : Accounted(p) => Accounted(p)',
           \A r \in Run : run'[r].step = "native" =>
                \/ run'[r] = run[r]
                \/ /\ Head(run'[r].asks) \in Queries
                   /\ run'[r].since = watermark[Head(run'[r].asks)]
    PROVE  EveryPostAccounted' /\ AskedSinceAccounted'
<1>1. Posted' = Posted /\ \A q : Matching(q)' = Matching(q) /\ Matching(q) \subseteq Posted
  BY DEF Posted, Matching
<1>2. EveryPostAccounted'
  BY <1>1 DEF CollInv, EveryPostAccounted, Since, WatermarkKey
<1>3. ASSUME NEW r \in Run, run'[r].step = "native"
      PROVE  \A p \in Matching(Head(run'[r].asks)) : p <= run'[r].since => Accounted(p)'
  <2>1. CASE run'[r] = run[r]
    BY <1>1, <1>3, <2>1 DEF CollInv, AskedSinceAccounted
  <2>2. CASE /\ Head(run'[r].asks) \in Queries
             /\ run'[r].since = watermark[Head(run'[r].asks)]
    BY <1>1, <2>2 DEF CollInv, EveryPostAccounted, Since, WatermarkKey
  <2> QED
    BY <1>3, <2>1, <2>2
<1>4. AskedSinceAccounted'
  BY <1>1, <1>3 DEF AskedSinceAccounted
<1> QED
  BY <1>2, <1>4

LEMMA InitAccounted == CollInit => EveryPostAccounted /\ AskedSinceAccounted
<1> SUFFICES ASSUME CollInit PROVE EveryPostAccounted /\ AskedSinceAccounted
  OBVIOUS
<1>1. Posted = {}
  BY PostedAreNumbers DEF CollInit
<1>2. \A q : Matching(q) = {}
  BY <1>1 DEF Matching
<1> QED
  BY <1>2 DEF EveryPostAccounted, AskedSinceAccounted

LEMMA PublishAccounted ==
    CollInv /\ Publish => EveryPostAccounted' /\ AskedSinceAccounted'
<1> SUFFICES ASSUME CollInv, Publish PROVE EveryPostAccounted' /\ AskedSinceAccounted'
  OBVIOUS
<1>1. UNCHANGED <<watermark, run, stored, dropped, beyond>>
  BY DEF Publish, history
<1>2. \A p : Accounted(p)' <=> Accounted(p)
  BY <1>1 DEF Accounted, InHand
<1>3. newest \in Nat /\ newest' = newest + 1
  BY PostedAreNumbers DEF CollInv, CollTypeOK, Publish
<1>4. \A n \in {0} \union Posted : n \in Nat /\ n <= newest
  BY <1>3, PostedAreNumbers DEF CollInv, CollTypeOK
<1>5. ASSUME NEW p \in Post, NEW n \in {0} \union Posted, p <= n
      PROVE  p \in Posted
  <2>1. p \in Nat
    BY PostsAreNumbers
  <2>2. p <= newest
    BY <1>3, <1>4, <1>5, <2>1
  <2> QED
    BY <2>2 DEF Posted
<1>6. EveryPostAccounted'
  <2> SUFFICES ASSUME NEW q \in Queries, NEW p \in Matching(q)', p <= Since(q)'
               PROVE  Accounted(p)'
    BY DEF EveryPostAccounted
  <2>1. Since(q)' = Since(q) /\ Since(q) \in {0} \union Posted
    BY <1>1 DEF CollInv, CollTypeOK, Since, WatermarkKey
  <2>2. p \in Post /\ Words[p] \intersect WordsOf(q) # {}
    BY DEF Matching, Posted
  <2>3. p \in Matching(q)
    BY <1>5, <2>1, <2>2 DEF Matching
  <2> QED
    BY <1>2, <2>1, <2>3 DEF CollInv, EveryPostAccounted
<1>7. AskedSinceAccounted'
  <2> SUFFICES ASSUME NEW r \in Run, run[r].step = "native",
                      NEW p \in Matching(Head(run[r].asks))', p <= run[r].since
               PROVE  Accounted(p)'
    BY <1>1 DEF AskedSinceAccounted
  <2>1. run[r].since \in {0} \union Posted
    BY DEF CollInv, CollTypeOK
  <2>2. p \in Post /\ Words[p] \intersect WordsOf(Head(run[r].asks)) # {}
    BY <1>1 DEF Matching, Posted
  <2>3. p \in Matching(Head(run[r].asks))
    BY <1>5, <2>1, <2>2 DEF Matching
  <2> QED
    BY <1>2, <2>3 DEF CollInv, AskedSinceAccounted
<1> QED
  BY <1>6, <1>7

\* What a run holds is what its state says.
LEMMA HandOf ==
    ASSUME CollTypeOK, NEW r \in Run, NEW new, run' = [run EXCEPT ![r] = new]
    PROVE  \A s \in Run :
             /\ run'[s] = IF s = r THEN new ELSE run[s]
             /\ s # r => InHand(s)' = InHand(s)
BY DEF CollTypeOK, InHand

\* A run with nothing in hand starts to ask, or goes to the index.
LEMMA StartAccounted ==
    ASSUME NEW r \in Run
    PROVE  CollInv /\ Start(r) => EveryPostAccounted' /\ AskedSinceAccounted'
<1> SUFFICES ASSUME CollInv, Start(r) PROVE EveryPostAccounted' /\ AskedSinceAccounted'
  OBVIOUS
<1> DEFINE Q == XQueries(targets)
<1> DEFINE new == IF adapter = "x" THEN Asking(Q, Since(Head(Q)), {})
                  ELSE Indexed(LinkedInQueries(targets), {})
<1>1. run' = [run EXCEPT ![r] = new] /\ UNCHANGED <<newest, watermark, stored, dropped, beyond>>
  BY DEF Start, Update, history
<1>2. Q \in Seq(Queries) \ {<<>>}
  BY HuntsAskQueries DEF CollInv, CollTypeOK
<1>3. new.step = "native" => new.asks = Q /\ new.since = watermark[Head(Q)]
  BY DEF Asking, Indexed, Since, WatermarkKey
<1>4. Head(Q) \in Queries
  <2> HIDE DEF Q
  <2> QED
    BY <1>2
<1>5. InHand(r) = {}
  BY DEF InHand, Start
<1> HIDE DEF new, Q
<1>6. \A s \in Run : /\ run'[s] = IF s = r THEN new ELSE run[s]
                     /\ s # r => InHand(s)' = InHand(s)
  BY <1>1, HandOf DEF CollInv
<1>7. ASSUME NEW p \in Posted, Accounted(p) PROVE Accounted(p)'
  BY <1>1, <1>5, <1>6, <1>7, StaysAccounted
<1> QED
  BY <1>1, <1>3, <1>4, <1>6, <1>7, QuietStep

\* The answer to a query: what it was asked for is on the page, which the run takes, or
\* did not fit; what it was not asked for was accounted for.
LEMMA AnswerAccounted ==
    ASSUME NEW r \in Run
    PROVE  CollInv /\ NativeAnswer(r) => EveryPostAccounted' /\ AskedSinceAccounted'
<1> SUFFICES ASSUME CollInv, NativeAnswer(r)
             PROVE  EveryPostAccounted' /\ AskedSinceAccounted'
  OBVIOUS
<1> DEFINE query == Head(run[r].asks)
           rest == Tail(run[r].asks)
           got == run[r].found \union Page(Hits(r))
           new == IF rest = <<>> THEN [Idle EXCEPT !.step = "native_done", !.found = got]
                  ELSE Asking(rest, watermark'[WatermarkKey(Head(rest))], got)
<1>1. /\ run' = [run EXCEPT ![r] = new]
      /\ UNCHANGED <<newest, stored, dropped>>
      /\ beyond' = beyond \union (Hits(r) \ Page(Hits(r)))
      /\ run[r].step = "native"
  BY DEF NativeAnswer, Update, Hits
<1>2. query \in Queries /\ rest \in Seq(Queries)
  BY DEF NativeAnswer, CollInv, CollTypeOK
<1>3. PICK n \in {0} \union Posted : watermark' = [watermark EXCEPT ![query] = n]
  BY AnswerMoves DEF CollInv
<1> HIDE DEF query, rest, got
<1>4. new.step \in {"native", "native_done"} /\ new.found = got
  BY DEF Idle, Asking
<1>5. new.step = "native" =>
        /\ rest # <<>> /\ new.asks = rest
        /\ new.since = watermark'[Head(rest)]
  BY DEF Idle, Asking, WatermarkKey
<1> HIDE DEF new
<1>6. \A s \in Run : /\ run'[s] = IF s = r THEN new ELSE run[s]
                     /\ s # r => InHand(s)' = InHand(s)
  BY <1>1, HandOf DEF CollInv
<1>7. InHand(r)' = got /\ InHand(r) = run[r].found
  BY <1>1, <1>4, <1>6 DEF InHand
<1>8. run[r].found \subseteq got /\ Page(Hits(r)) \subseteq got
  BY DEF got
<1>9. ASSUME NEW p \in Posted, Accounted(p) PROVE Accounted(p)'
  <2>1. \A s \in Run : p \in InHand(s) => p \in InHand(s)'
    BY <1>6, <1>7, <1>8
  <2> QED
    BY <1>1, <1>9, <2>1, StaysAccounted
<1>10. ASSUME NEW p \in Hits(r) PROVE Accounted(p)'
  <2>1. CASE p \in Page(Hits(r))
    BY <1>7, <1>8, <2>1 DEF Accounted
  <2>2. CASE p \notin Page(Hits(r))
    BY <1>1, <1>10, <2>2 DEF Accounted
  <2> QED
    BY <2>1, <2>2
<1>11. ASSUME NEW p \in Matching(query) PROVE Accounted(p)'
  <2>1. CASE p > run[r].since
    <3>1. p \in Hits(r)
      BY <1>11, <2>1 DEF Hits, query
    <3> QED
      BY <1>10, <3>1
  <2>2. CASE ~(p > run[r].since)
    <3>1. p \in Posted /\ p \in Nat /\ run[r].since \in Nat
      <4>1. Posted \subseteq Nat
        BY PostsAreNumbers DEF Posted
      <4>2. p \in Posted
        BY <1>11 DEF Matching
      <4>3. run[r].since \in {0} \union Posted
        BY DEF CollInv, CollTypeOK
      <4>4. \A x \in {0} \union Posted : x \in Nat
        BY <4>1
      <4> QED
        BY <4>2, <4>3, <4>4
    <3>2. p <= run[r].since
      BY <2>2, <3>1
    <3>3. Accounted(p)
      BY <1>1, <1>11, <3>2 DEF CollInv, AskedSinceAccounted, query
    <3> QED
      BY <1>9, <3>1, <3>3
  <2> QED
    BY <2>1, <2>2
<1>12. Posted' = Posted /\ \A q : Matching(q)' = Matching(q) /\ Matching(q) \subseteq Posted
  BY <1>1 DEF Posted, Matching
<1>13. EveryPostAccounted'
  <2> SUFFICES ASSUME NEW q \in Queries, NEW p \in Matching(q), p <= watermark'[q]
               PROVE  Accounted(p)'
    BY <1>12 DEF EveryPostAccounted, Since, WatermarkKey
  <2>1. CASE q = query
    BY <1>11, <2>1
  <2>2. CASE q # query
    <3>1. watermark'[q] = watermark[q]
      BY <1>3, <2>2 DEF CollInv, CollTypeOK
    <3>2. Accounted(p)
      BY <3>1 DEF CollInv, EveryPostAccounted, Since, WatermarkKey
    <3> QED
      BY <1>9, <1>12, <3>2
  <2> QED
    BY <2>1, <2>2
<1>14. ASSUME NEW s \in Run, run'[s].step = "native",
              NEW p \in Matching(Head(run'[s].asks)), p <= run'[s].since
       PROVE  Accounted(p)'
  <2>1. CASE s # r
    <3>1. run'[s] = run[s]
      BY <1>6, <2>1
    <3>2. Accounted(p)
      BY <1>14, <3>1 DEF CollInv, AskedSinceAccounted
    <3> QED
      BY <1>9, <1>12, <3>2
  <2>2. CASE s = r
    <3>1. /\ Head(run'[s].asks) = Head(rest) /\ Head(rest) \in Queries
          /\ run'[s].since = watermark'[Head(rest)]
      BY <1>2, <1>5, <1>6, <1>14, <2>2
    <3> QED
      BY <1>12, <1>13, <1>14, <3>1 DEF EveryPostAccounted, Since, WatermarkKey
  <2> QED
    BY <2>1, <2>2
<1>15. AskedSinceAccounted'
  BY <1>12, <1>14 DEF AskedSinceAccounted
<1> QED
  BY <1>13, <1>15

\* A run that fails leaves what it had in hand among the dropped.
LEMMA DropAccounted ==
    ASSUME CollInv, NEW r \in Run, NEW new, new.step # "native",
           run' = [run EXCEPT ![r] = new],
           dropped' = dropped \union InHand(r),
           UNCHANGED <<newest, watermark, stored, beyond>>
    PROVE  EveryPostAccounted' /\ AskedSinceAccounted'
<1>1. \A s \in Run : /\ run'[s] = IF s = r THEN new ELSE run[s]
                     /\ s # r => InHand(s)' = InHand(s)
  BY HandOf DEF CollInv
<1>2. ASSUME NEW p \in Posted, Accounted(p) PROVE Accounted(p)'
  BY <1>1, <1>2, StaysAccounted
<1> QED
  BY <1>1, <1>2, QuietStep

LEMMA CreditAccounted ==
    ASSUME NEW r \in Run
    PROVE  CollInv /\ OutOfCredit(r) => EveryPostAccounted' /\ AskedSinceAccounted'
<1> SUFFICES ASSUME CollInv, OutOfCredit(r)
             PROVE  EveryPostAccounted' /\ AskedSinceAccounted'
  OBVIOUS
<1> DEFINE new == IF HasIndexKey /\ ~IsEmpty(hunted)
                  THEN Indexed(XIndexedQueries(hunted), {}) ELSE Idle
<1>1. new.step # "native"
  BY DEF Indexed, Idle
<1>2. /\ run' = [run EXCEPT ![r] = new]
      /\ dropped' = dropped \union InHand(r)
      /\ UNCHANGED <<newest, watermark, stored, beyond>>
  BY DEF OutOfCredit, Update
<1> HIDE DEF new
<1> QED
  BY <1>1, <1>2, DropAccounted

LEMMA RequestFailsAccounted ==
    ASSUME NEW r \in Run
    PROVE  CollInv /\ RequestFails(r) => EveryPostAccounted' /\ AskedSinceAccounted'
<1>1. Idle.step # "native"
  BY DEF Idle
<1> QED
  BY <1>1, DropAccounted DEF RequestFails, Update

LEMMA IndexAccounted ==
    ASSUME NEW r \in Run
    PROVE  CollInv /\ IndexAnswers(r) => EveryPostAccounted' /\ AskedSinceAccounted'
<1> SUFFICES ASSUME CollInv, IndexAnswers(r)
             PROVE  EveryPostAccounted' /\ AskedSinceAccounted'
  OBVIOUS
<1>1. PICK hits \in IndexHits(Head(run[r].asks)) :
        LET rest == Tail(run[r].asks)
            got == run[r].found \union hits
        IN  Update(r, IF rest = <<>>
                      THEN [Idle EXCEPT !.step = "indexed_done", !.found = got]
                      ELSE Indexed(rest, got))
  BY DEF IndexAnswers
<1> DEFINE new == IF Tail(run[r].asks) = <<>>
                  THEN [Idle EXCEPT !.step = "indexed_done", !.found = run[r].found \union hits]
                  ELSE Indexed(Tail(run[r].asks), run[r].found \union hits)
<1>2. run' = [run EXCEPT ![r] = new]
  BY <1>1 DEF Update
<1>3. new.step # "native"
  BY DEF Idle, Indexed
<1> HIDE DEF new
<1>4. UNCHANGED <<newest, watermark, stored, dropped, beyond>>
  BY DEF IndexAnswers, Update, history
<1>5. \A s \in Run : /\ run'[s] = IF s = r THEN new ELSE run[s]
                     /\ s # r => InHand(s)' = InHand(s)
  BY <1>2, HandOf DEF CollInv
<1>6. InHand(r) = {}
  BY DEF InHand, IndexAnswers
<1>7. ASSUME NEW p \in Posted, Accounted(p) PROVE Accounted(p)'
  BY <1>4, <1>5, <1>6, <1>7, StaysAccounted
<1> QED
  BY <1>4, <1>5, <1>7, <1>3, QuietStep

\* Posts that are handed over are stored, and none is taken back.
LEMMA HandStores ==
    ASSUME CollTypeOK, NEW r \in Run, NEW posts, Hand(r, posts), NEW p \in Post
    PROVE  /\ stored[p] # "no" => stored'[p] # "no"
           /\ run[r].step \in {"native_done", "indexed_done"} /\ p \in posts
                => stored'[p] # "no"
BY DEF Hand, ModeOf

LEMMA IngestAccounted ==
    ASSUME NEW r \in Run
    PROVE  CollInv /\ Ingest(r) => EveryPostAccounted' /\ AskedSinceAccounted'
<1> SUFFICES ASSUME CollInv, Ingest(r) PROVE EveryPostAccounted' /\ AskedSinceAccounted'
  OBVIOUS
<1>1. Idle.step # "native"
  BY DEF Idle
<1>2. /\ run' = [run EXCEPT ![r] = Idle] /\ Hand(r, run[r].found)
      /\ run[r].step \in {"native_done", "indexed_done"}
      /\ UNCHANGED <<newest, watermark, dropped, beyond>>
  BY DEF Ingest, history
<1>3. \A s \in Run : /\ run'[s] = IF s = r THEN Idle ELSE run[s]
                     /\ s # r => InHand(s)' = InHand(s)
  BY <1>2, HandOf DEF CollInv
<1>4. InHand(r) \subseteq run[r].found
  BY DEF InHand
<1>5. ASSUME NEW p \in Posted, Accounted(p) PROVE Accounted(p)'
  <2>1. p \in Post
    BY DEF Posted
  <2>2. /\ stored[p] # "no" => stored'[p] # "no"
        /\ p \in run[r].found => stored'[p] # "no"
    BY <1>2, <2>1, HandStores DEF CollInv
  <2> QED
    BY <1>2, <1>3, <1>4, <1>5, <2>2, StaysAccounted
<1> QED
  BY <1>1, <1>2, <1>3, <1>5, QuietStep

LEMMA IngestFailsAccounted ==
    ASSUME NEW r \in Run, NEW posts \in SUBSET run[r].found
    PROVE  CollInv /\ IngestFails(r, posts) => EveryPostAccounted' /\ AskedSinceAccounted'
<1> SUFFICES ASSUME CollInv, IngestFails(r, posts)
             PROVE  EveryPostAccounted' /\ AskedSinceAccounted'
  OBVIOUS
<1>1. Idle.step # "native"
  BY DEF Idle
<1>2. /\ run' = [run EXCEPT ![r] = Idle] /\ Hand(r, posts)
      /\ run[r].step \in {"native_done", "indexed_done"}
      /\ dropped' = dropped \union (InHand(r) \ posts)
      /\ UNCHANGED <<newest, watermark, beyond>>
  BY DEF IngestFails
<1>3. \A s \in Run : /\ run'[s] = IF s = r THEN Idle ELSE run[s]
                     /\ s # r => InHand(s)' = InHand(s)
  BY <1>2, HandOf DEF CollInv
<1>4. ASSUME NEW p \in Posted, Accounted(p) PROVE Accounted(p)'
  <2>1. p \in Post
    BY DEF Posted
  <2>2. /\ stored[p] # "no" => stored'[p] # "no"
        /\ p \in posts => stored'[p] # "no"
    BY <1>2, <2>1, HandStores DEF CollInv
  <2> QED
    BY <1>2, <1>3, <1>4, <2>2, StaysAccounted
<1> QED
  BY <1>1, <1>2, <1>3, <1>4, QuietStep

LEMMA RestartAccounted ==
    CollInv /\ Restart => EveryPostAccounted' /\ AskedSinceAccounted'
<1> SUFFICES ASSUME CollInv, Restart PROVE EveryPostAccounted' /\ AskedSinceAccounted'
  OBVIOUS
<1>1. /\ run' = [r \in Run |-> Idle]
      /\ dropped' = dropped \union UNION {InHand(r) : r \in Run}
      /\ UNCHANGED <<newest, watermark, stored, beyond>>
  BY DEF Restart
<1>2. \A r \in Run : run'[r].step = "idle"
  BY <1>1 DEF Idle
<1>3. ASSUME NEW p \in Posted, Accounted(p) PROVE Accounted(p)'
  BY <1>1, <1>3, StaysAccounted
<1> QED
  BY <1>1, <1>2, <1>3, QuietStep

LEMMA CalmAccounted ==
    ASSUME CollInv, UNCHANGED <<newest, watermark, run, stored, history>>
    PROVE  EveryPostAccounted' /\ AskedSinceAccounted'
<1>1. \A p : Accounted(p)' <=> Accounted(p)
  BY DEF Accounted, InHand, history
<1> QED
  BY <1>1, QuietStep

LEMMA StepAccounted ==
    CollInv /\ [CollNext]_collVars => EveryPostAccounted' /\ AskedSinceAccounted'
<1> SUFFICES ASSUME CollInv, [CollNext]_collVars
             PROVE  EveryPostAccounted' /\ AskedSinceAccounted'
  OBVIOUS
<1>1. CASE \E t \in Targets : Retarget(t)
  BY <1>1, CalmAccounted DEF Retarget
<1>2. CASE UNCHANGED collVars
  BY <1>2, CalmAccounted DEF collVars
<1>3. ASSUME NEW r \in Run, Refuse(r)
      PROVE  EveryPostAccounted' /\ AskedSinceAccounted'
  BY <1>3, CalmAccounted DEF Refuse
<1>4. CASE \E r \in Run : Progress(r) \/ Failure(r)
  BY <1>3, <1>4, StartAccounted, AnswerAccounted, IndexAccounted, IngestAccounted,
     CreditAccounted, RequestFailsAccounted, IngestFailsAccounted DEF Progress, Failure
<1> QED
  BY <1>1, <1>2, <1>4, PublishAccounted, RestartAccounted DEF CollNext

-----------------------------------------------------------------------------
(* Theorems *)

THEOREM CollInductive == CollSpec => []CollInv
<1>1. CollInit => CollInv
  BY InitTypes, InitAccounted DEF CollInv
<1>2. CollInv /\ [CollNext]_collVars => CollInv'
  BY StepTypes, StepAccounted DEF CollInv
<1> QED
  BY <1>1, <1>2, PTL DEF CollSpec

\* The collector's tables, runs and watermarks have their types: a watermark is a post
\* that is up, and only X has any.
THEOREM CollTypeCorrect == CollSpec => []CollTypeOK
<1>1. CollInv => CollTypeOK
  BY DEF CollInv
<1> QED
  BY <1>1, CollInductive, PTL

\* Whatever runs overlap, in whatever order their pages come and however often requests,
\* ingestions and processes fail: a post behind a watermark is accounted for.
THEOREM NoPostSkipped == CollSpec => []EveryPostAccounted
<1>1. CollInv => EveryPostAccounted
  BY DEF CollInv
<1> QED
  BY <1>1, CollInductive, PTL
=============================================================================
