----------------------------- MODULE Collector -----------------------------
(***************************************************************************)
(* The hunt for posts: the adapters of app/sources/social.py, the queries  *)
(* of app/targeting.py and the watermarks of the database.  X is asked     *)
(* natively, once per query, for what is newer than the query's watermark; *)
(* an account without credit is answered through an index, as LinkedIn     *)
(* always is.                                                              *)
(*                                                                         *)
(* The targets come from the snapshots of the directories (Directory); a   *)
(* source without credentials refuses to run and changes nothing           *)
(* (Scheduler); one without targets refuses too, but its targets are set.  *)
(* What becomes of a post that was handed over is the subject of Radar.    *)
(* The scheduler and a manual scan may run the same source at the same     *)
(* time.                                                                   *)
(***************************************************************************)
EXTENDS Integers, Sequences, FiniteSets, FiniteSetsExt

CONSTANTS
    Post,           \* the numbers 1..n, in the order in which posts go up
    Words,          \* [Post -> sets of words]: the batch codes and claims of a text
    Code,           \* [label -> word]: what batch_code and cohort_code return
    NoCode,         \* what they return for a label they do not know
    Targets,        \* the pairs of label sequences that snapshots may name
    YcClaims,       \* YC_CLAIM_PHRASES, as a sequence of words
    YcBacking,      \* YC_BACKING_PHRASES
    SpeedrunClaims, \* SPEEDRUN_CLAIM_PHRASES
    Run,            \* runs of the source that may overlap
    PageSize,       \* x_max_results
    HasIndexKey,    \* SERPER_API_KEY is set
    Adapters,       \* a subset of {"x", "linkedin"}
    MaxFaults       \* bound: how many calls fail or processes die

ASSUME CollectorAssumption ==
    /\ IsFiniteSet(Post) /\ Post = 1..Cardinality(Post)
    /\ Targets # {}
    /\ \A t \in Targets : DOMAIN t = {"yc", "cohorts"}
    /\ IsFiniteSet(Run)
    /\ PageSize \in Nat \ {0} /\ MaxFaults \in Nat
    /\ HasIndexKey \in BOOLEAN
    /\ Adapters \subseteq {"x", "linkedin"} /\ Adapters # {}

VARIABLES
    adapter,        \* the adapter of this source
    newest,         \* the newest post that is up
    targets,        \* the batches and cohorts that the snapshots name as active
    hunted,         \* source.targets, which each run sets when it starts
    watermark,      \* the table watermarks, by the query its keys are hashes of
    run,            \* what each run is doing
    stored,         \* per post, how the row of its first adjudication was collected
    faults,         \* how many faults there were
    dropped,        \* history: posts that a failed run had in hand
    beyond          \* history: posts that did not fit on a page

history == <<dropped, beyond>>
collVars == <<adapter, newest, targets, hunted, watermark, run, stored, faults, history>>

-----------------------------------------------------------------------------
(* Queries *)

WordsOf(query) == {query[i] : i \in DOMAIN query}

IsKnown(label) == Code[label] # NoCode

\* yc_batch_phrases and speedrun_cohort_phrases: the codes of the labels they know.
Phrases(labels) ==
    LET known == SelectSeq(labels, IsKnown)
    IN  [i \in DOMAIN known |-> Code[known[i]]]

\* One query for these labels, none if there is nothing to ask for.
Grouped(labels) == IF Phrases(labels) = <<>> THEN <<>> ELSE <<Phrases(labels)>>

\* One query per label.
Single(label) == <<Code[label]>>
Split(labels) ==
    LET known == SelectSeq(labels, IsKnown)
    IN  [i \in DOMAIN known |-> Single(known[i])]

\* x_queries
XQueries(t) ==
    Grouped(t.yc) \o <<YcClaims, YcBacking>> \o Grouped(t.cohorts) \o <<SpeedrunClaims>>

\* x_indexed_queries
XIndexedQueries(t) ==
    Split(t.yc) \o <<YcClaims, YcBacking>> \o Split(t.cohorts) \o <<SpeedrunClaims>>

\* linkedin_queries: each batch is asked for among the posts and among the pages.
LinkedInQueries(t) ==
    Split(t.yc) \o Split(t.yc) \o <<YcClaims, YcBacking>> \o Split(t.cohorts)

\* SocialTargets.is_empty
IsEmpty(t) == Phrases(t.yc) = <<>> /\ Phrases(t.cohorts) = <<>>

Queries == UNION {WordsOf(XQueries(t)) : t \in Targets}

Posted == {p \in Post : p <= newest}

Matching(query) == {p \in Posted : Words[p] \intersect WordsOf(query) # {}}

\* Faulty: the watermark is one of the source.
WatermarkOfSource(query) == YcClaims

\* _watermark_key: a watermark belongs to the text of a query.
WatermarkKey(query) == query

Since(query) == watermark[WatermarkKey(query)]

-----------------------------------------------------------------------------
(* The world and the start of a run *)

Idle == [step |-> "idle", asks |-> <<>>, since |-> 0, found |-> {}]

CollInit ==
    /\ adapter \in Adapters
    /\ newest = 0
    /\ targets \in Targets
    /\ hunted = targets
    /\ watermark = [q \in Queries |-> 0]
    /\ run = [r \in Run |-> Idle]
    /\ stored = [p \in Post |-> "no"]
    /\ faults = 0
    /\ dropped = {} /\ beyond = {}

Publish ==
    /\ newest + 1 \in Post
    /\ newest' = newest + 1
    /\ UNCHANGED <<adapter, targets, hunted, watermark, run, stored, faults, history>>

\* A directory records a snapshot that names other batches.
Retarget(t) ==
    /\ t # targets
    /\ targets' = t
    /\ UNCHANGED <<adapter, newest, hunted, watermark, run, stored, faults, history>>

Update(r, new) ==
    /\ run' = [run EXCEPT ![r] = new]
    /\ UNCHANGED <<adapter, newest, targets, stored>>

\* The next request of a native run; the watermark is read just before it.
Asking(asks, since, found) ==
    [step |-> "native", asks |-> asks, since |-> since, found |-> found]

Indexed(asks, found) ==
    [step |-> "indexed", asks |-> asks, since |-> 0, found |-> found]

\* A run without targets: it has set those of the source before it refuses.
Refuse(r) ==
    /\ run[r].step = "idle"
    /\ IsEmpty(targets)
    /\ hunted' = targets
    /\ UNCHANGED <<adapter, newest, targets, watermark, run, stored, faults, history>>

\* collect() up to its first request; the queries are those of the targets of now.
Start(r) ==
    /\ run[r].step = "idle"
    /\ ~IsEmpty(targets)
    /\ Update(r, IF adapter = "x"
                 THEN Asking(XQueries(targets), Since(Head(XQueries(targets))), {})
                 ELSE Indexed(LinkedInQueries(targets), {}))
    /\ hunted' = targets
    /\ UNCHANGED <<watermark, faults, history>>

-----------------------------------------------------------------------------
(* The native search *)

\* The newest of the posts that are asked for, one page of them.
Page(hits) == {p \in hits : Cardinality({n \in hits : n > p}) < PageSize}

\* Faulty: the watermark is the next id, as if since_id were included.
MovedPast(query, page) ==
    [watermark EXCEPT ![WatermarkKey(query)] = IF page = {} THEN @ ELSE Max(page) + 1]

\* set_watermark with the newest id of the page; an empty page leaves it alone.
Moved(query, page) ==
    [watermark EXCEPT ![WatermarkKey(query)] = IF page = {} THEN @ ELSE Max(page)]

\* The answer to one query, and the request of the next.
NativeAnswer(r) ==
    LET query == Head(run[r].asks)
        rest == Tail(run[r].asks)
        hits == {p \in Matching(query) : p > run[r].since}
        found == run[r].found \union Page(hits)
    IN  /\ run[r].step = "native"
        /\ watermark' = Moved(query, Page(hits))
        /\ beyond' = beyond \union (hits \ Page(hits))
        /\ Update(r, IF rest = <<>>
                     THEN [Idle EXCEPT !.step = "native_done", !.found = found]
                     ELSE Asking(rest, watermark'[WatermarkKey(Head(rest))], found))
        /\ UNCHANGED <<hunted, faults, dropped>>

\* The posts a run has in hand that no later request asks for.
InHand(r) ==
    IF run[r].step \in {"native", "native_done"} THEN run[r].found ELSE {}

Fault ==
    /\ faults < MaxFaults
    /\ faults' = faults + 1

\* 402: the posts of the earlier queries are let go, and the index is asked instead;
\* an account without a token goes this way at its first request.  The fallback has
\* the targets of the run that started last, and refuses if that one found none.
OutOfCredit(r) ==
    /\ run[r].step = "native"
    /\ Fault
    /\ Update(r, IF HasIndexKey /\ ~IsEmpty(hunted)
                 THEN Indexed(XIndexedQueries(hunted), {}) ELSE Idle)
    /\ dropped' = dropped \union InHand(r)
    /\ UNCHANGED <<hunted, watermark, beyond>>

\* Any other failure of a request ends the run, with what it has in hand.
RequestFails(r) ==
    /\ run[r].step \in {"native", "indexed"}
    /\ Fault
    /\ Update(r, Idle)
    /\ dropped' = dropped \union InHand(r)
    /\ UNCHANGED <<hunted, watermark, beyond>>

-----------------------------------------------------------------------------
(* The indexed search *)

\* parse_response: the index ranks as it likes; some of the posts that match are left
\* when the pages that are no post are taken out.
IndexHits(query) == SUBSET Matching(query)

IndexAnswers(r) ==
    /\ run[r].step = "indexed"
    /\ \E hits \in IndexHits(Head(run[r].asks)) :
        LET rest == Tail(run[r].asks)
            found == run[r].found \union hits
        IN  Update(r, IF rest = <<>>
                      THEN [Idle EXCEPT !.step = "indexed_done", !.found = found]
                      ELSE Indexed(rest, found))
    /\ UNCHANGED <<hunted, watermark, faults, history>>

-----------------------------------------------------------------------------
(* Ingestion *)

\* collection_mode of the signals of a run.
ModeOf(r) ==
    IF run[r].step = "native_done" THEN "native"
    ELSE IF adapter = "x" THEN "indexed_fallback" ELSE "none"

\* ingest_social adjudicates the posts one by one and inserts those it does not know.
Hand(r, posts) ==
    stored' = [p \in Post |-> IF p \in posts /\ stored[p] = "no" THEN ModeOf(r) ELSE stored[p]]

Ingest(r) ==
    /\ run[r].step \in {"native_done", "indexed_done"}
    /\ Hand(r, run[r].found)
    /\ run' = [run EXCEPT ![r] = Idle]
    /\ UNCHANGED <<adapter, newest, targets, hunted, watermark, faults, history>>

\* It fails after some of them.
IngestFails(r, posts) ==
    /\ run[r].step \in {"native_done", "indexed_done"}
    /\ posts \subseteq run[r].found
    /\ Fault
    /\ Hand(r, posts)
    /\ run' = [run EXCEPT ![r] = Idle]
    /\ dropped' = dropped \union (InHand(r) \ posts)
    /\ UNCHANGED <<adapter, newest, targets, hunted, watermark, beyond>>

\* The process dies; only the tables are left.
Restart ==
    /\ Fault
    /\ run' = [r \in Run |-> Idle]
    /\ dropped' = dropped \union UNION {InHand(r) : r \in Run}
    /\ UNCHANGED <<adapter, newest, targets, hunted, watermark, stored, beyond>>

\* What a run does unless something fails.
Progress(r) ==
    \/ Refuse(r)
    \/ Start(r)
    \/ NativeAnswer(r)
    \/ IndexAnswers(r)
    \/ Ingest(r)

Failure(r) ==
    \/ OutOfCredit(r)
    \/ RequestFails(r)
    \/ \E posts \in SUBSET run[r].found : IngestFails(r, posts)

CollNext ==
    \/ Publish
    \/ \E t \in Targets : Retarget(t)
    \/ \E r \in Run : Progress(r) \/ Failure(r)
    \/ Restart

CollSpec == CollInit /\ [][CollNext]_collVars

\* The scheduler starts the source again and again, and requests are answered.
CollFairness == \A r \in Run : WF_collVars(Progress(r))

CollLiveSpec == CollSpec /\ CollFairness

-----------------------------------------------------------------------------
(* Properties *)

\* Every variable has its type; an adapter for LinkedIn keeps no watermarks.
CollTypeOK ==
    /\ adapter \in Adapters
    /\ newest \in {0} \union Post
    /\ targets \in Targets /\ hunted \in Targets
    /\ watermark \in [Queries -> {0} \union Posted]
    /\ adapter = "linkedin" => \A q \in Queries : watermark[q] = 0
    /\ DOMAIN run = Run
    /\ \A r \in Run :
        /\ run[r].step \in {"idle", "native", "native_done", "indexed", "indexed_done"}
        /\ run[r].step = "native" => run[r].asks \in Seq(Queries) \ {<<>>}
        /\ run[r].since \in {0} \union Posted
        /\ run[r].found \subseteq Posted
    /\ stored \in [Post -> {"no", "native", "indexed_fallback", "none"}]
    /\ faults \in 0..MaxFaults
    /\ dropped \subseteq Posted /\ beyond \subseteq Posted

\* A post is adjudicated, in the hands of a run, was in those of a failed one, or did not
\* fit on a page.
Accounted(p) ==
    \/ stored[p] # "no"
    \/ p \in dropped \union beyond
    \/ \E r \in Run : p \in InHand(r)

\* A post that a query will not ask for again, because its watermark is past it, was
\* adjudicated, is in the hands of a run, was in those of a failed one, or did not fit
\* on a page; however queries and runs overlap (social.py:174-193).
EveryPostAccounted ==
    \A q \in Queries : \A p \in Matching(q) : p <= Since(q) => Accounted(p)

\* A post with a phrase that every hunt asks X for is adjudicated in the end, unless a
\* failed run or a full page swallowed it, once the directories keep naming batches:
\* failures delay the hunt, they do not hide what they had not touched (social.py:59-68).
ClaimsFound ==
    <>[](~IsEmpty(targets)) =>
        \A p \in Post :
            (adapter = "x" /\ p \in Matching(YcClaims))
                ~> (stored[p] # "no" \/ p \in dropped \union beyond)
=============================================================================
