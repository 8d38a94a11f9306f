--------------------------- MODULE DirectoryProofs --------------------------
(***************************************************************************)
(* Theorems about Directory: for any companies, batches and number of      *)
(* overlapping crawls, a row is retired because the directory did not show *)
(* its company at some moment of the crawl or for one of the four reasons  *)
(* that RetiredWasGone names, every addition is announced, and the first   *)
(* rows are those of a full crawl.                                         *)
(***************************************************************************)
EXTENDS Directory, FiniteSetTheorems, TLAPS

\* What a run that copies the whole directory did not miss is still shown.
Witnessed(r) == run[r].mode \in {"full", "canonical"} => Company \ run[r].missed \subseteq live

\* A company that is not missed has its slice before it, or is found.
SlicesCover(r) ==
    run[r].step = "slices" =>
        \A c \in Company \ run[r].missed :
            BatchOf[c] \in Batch => BatchOf[c] \in run[r].left \/ <<c, "slug">> \in run[r].found

\* The rows of a complete crawl are those of the companies that are not missed, unless
\* they fill the page of the API.
CrawlComplete(r) ==
    run[r].step = "collected" /\ run[r].mode \in {"full", "canonical"} =>
        \A c \in Company \ run[r].missed :
            \/ <<c, "slug">> \in run[r].found
            \/ adapter = "yc_directory" /\ BatchOf[c] = NoBatch
            \/ adapter = "speedrun" /\ Cardinality(run[r].found) = ApiLimit

\* Which requests and modes belong together, and to which adapter.
StepsFit(r) ==
    /\ run[r].step \in {"facets", "slices"} => run[r].mode = "full"
    /\ run[r].step = "recent" => run[r].mode = "hot"
    /\ run[r].step = "api" => run[r].mode = "canonical"
    /\ run[r].step = "page" => run[r].mode = "fallback"
    /\ run[r].mode \in {"canonical", "fallback"} => adapter = "speedrun"
    /\ run[r].mode \in {"full", "hot"} => adapter = "yc_directory"

Crawls == \A r \in Run : Witnessed(r) /\ SlicesCover(r) /\ CrawlComplete(r) /\ StepsFit(r)

\* The rows that were announced or written first are known, and so are some rows
\* once a full crawl was ingested, which a hot crawl presupposes.
RowsKnown ==
    /\ \A i \in first \union announced : rows[i] # "unknown"
    /\ (~fullDue \/ \E r \in Run : run[r].mode = "hot") => HasOfficialSource \/ fullLost

\* The inductive invariant.
DirInv ==
    /\ DirTypeOK
    /\ Crawls
    /\ RowsKnown
    /\ AdditionsAnnounced
    /\ SnapshotCited
    /\ BaselineFull

-----------------------------------------------------------------------------
(* Companies and counts *)

\* Companies, and rows of companies, are finitely many.
LEMMA Finiteness ==
    /\ \A S \in SUBSET Company : IsFiniteSet(S) /\ Cardinality(S) \in Nat
    /\ \A S \in SUBSET Id : IsFiniteSet(S) /\ Cardinality(S) \in Nat
    /\ Cardinality(Id) \in Nat
<1>1. IsFiniteSet({"slug", "page"})
  <2>1. {"slug", "page"} = {"slug"} \union {"page"}
    OBVIOUS
  <2>2. IsFiniteSet({"slug"}) /\ IsFiniteSet({"page"})
    BY FS_Singleton
  <2> QED
    BY <2>1, <2>2, FS_Union
<1>2. IsFiniteSet(Id)
  BY <1>1, FS_Product, DirectoryAssumption DEF Id
<1>3. IsFiniteSet(Company)
  BY DirectoryAssumption
<1> QED
  BY <1>2, <1>3, FS_Subset, FS_CardinalityType

\* A batch with a company has a positive count.
LEMMA SomeInBatch ==
    ASSUME NEW S \in SUBSET Company, NEW c \in S
    PROVE  Cardinality(InBatch(S, BatchOf[c])) \in Nat \ {0}
<1>1. InBatch(S, BatchOf[c]) \in SUBSET Company /\ c \in InBatch(S, BatchOf[c])
  BY DEF InBatch
<1>2. InBatch(S, BatchOf[c]) # {}
  BY <1>1
<1> QED
  BY <1>1, <1>2, Finiteness, FS_EmptySet

\* A company without a batch is in none.
LEMMA BatchIsLabel ==
    ASSUME NEW c \in Company
    PROVE  /\ BatchOf[c] \in Batch \union {NoBatch}
           /\ BatchOf[c] \in Batch <=> BatchOf[c] # NoBatch
  BY DirectoryAssumption

\* The rows that name companies in one way.
LEMMA RowsOf ==
    ASSUME NEW S \in SUBSET Company, NEW kind \in {"slug", "page"}
    PROVE  /\ S \X {kind} \in SUBSET Id
           /\ \A c \in S : <<c, kind>> \in S \X {kind}
           /\ S # {} => S \X {kind} # {}
<1>1. \A c \in S : <<c, kind>> \in S \X {kind}
  OBVIOUS
<1>2. S # {} => S \X {kind} # {}
  BY <1>1
<1> QED
  BY <1>1, <1>2 DEF Id

-----------------------------------------------------------------------------
(* The steps of a crawl *)

\* What is asked of the new state of a run.
Fits(r) ==
    /\ \A b \in run[r].left : run[r].counts[b] > 0
    /\ run[r].step = "collected" => run[r].found # {}
    /\ Witnessed(r) /\ SlicesCover(r) /\ CrawlComplete(r) /\ StepsFit(r)

\* A step of one crawl keeps the invariant if the new state of that crawl fits, and a
\* crawl becomes hot only if no full one is due.
LEMMA MoveKeeps ==
    ASSUME DirInv, NEW r \in Run, NEW new \in RunState, Move(r, new), Fits(r)',
           new.mode = "hot" => run[r].mode = "hot" \/ ~fullDue,
           lastMode' \in Mode \union {None}, lastActive' \subseteq Batch
    PROVE  DirInv'
<1>1. /\ run' = [run EXCEPT ![r] = new]
      /\ UNCHANGED <<adapter, live, changes, fullDue, rows, snapshot, announced,
                     baseline, first, lost, fullLost, torn>>
  BY DEF Move, stored, history
<1>2. run' \in [Run -> RunState] /\ run'[r] = new /\ \A q \in Run : q # r => run'[q] = run[q]
  BY <1>1 DEF DirInv, DirTypeOK
<1>3. DirTypeOK'
  <2>1. ASSUME NEW q \in Run
        PROVE  /\ \A b \in run'[q].left : run'[q].counts[b] > 0
               /\ run'[q].step = "collected" => run'[q].found # {}
    BY <1>2 DEF DirInv, DirTypeOK, Fits
  <2> QED
    BY <1>1, <1>2, <2>1 DEF DirInv, DirTypeOK
<1>4. Crawls'
  <2>1. ASSUME NEW q \in Run, q # r
        PROVE  (Witnessed(q) /\ SlicesCover(q) /\ CrawlComplete(q) /\ StepsFit(q))'
    BY <1>1, <1>2, <2>1
    DEF DirInv, Crawls, Witnessed, SlicesCover, CrawlComplete, StepsFit
  <2> QED
    BY <2>1 DEF Crawls, Fits
<1>5. RowsKnown'
  <2>1. (~fullDue \/ \E q \in Run : run'[q].mode = "hot")
            => (~fullDue \/ \E q \in Run : run[q].mode = "hot")
    BY <1>2
  <2> QED
    BY <1>1, <2>1 DEF DirInv, RowsKnown, HasOfficialSource
<1>6. AdditionsAnnounced' /\ SnapshotCited' /\ BaselineFull'
  BY <1>1 DEF DirInv, AdditionsAnnounced, SnapshotCited, BaselineFull, ListedIn
<1> QED
  BY <1>3, <1>4, <1>5, <1>6 DEF DirInv

\* The same for a step that leaves alone what the runs share.
LEMMA UpdateKeeps ==
    ASSUME DirInv, NEW r \in Run, NEW new \in RunState, Update(r, new), Fits(r)',
           new.mode = "hot" => run[r].mode = "hot" \/ ~fullDue
    PROVE  DirInv'
<1>1. lastMode' \in Mode \union {None} /\ lastActive' \subseteq Batch
  BY DEF Update, shared, DirInv, DirTypeOK
<1>2. Move(r, new)
  BY DEF Update
<1> QED
  BY <1>1, <1>2, MoveKeeps

\* The state of a run that does nothing.
LEMMA IdleFits ==
    /\ Idle \in RunState
    /\ Idle.step = "idle" /\ Idle.mode = None /\ Idle.left = {} /\ Idle.found = {}
    /\ Idle.missed = {}
    /\ None \notin Mode
  BY DirectoryAssumption DEF Idle, RunState

\* A run that ends without rows.
LEMMA GiveUpKeeps ==
    ASSUME DirInv, NEW r \in Run, Update(r, Idle)
    PROVE  DirInv'
<1>1. run'[r] = Idle
  BY DEF DirInv, DirTypeOK, Update, Move
<1>2. Fits(r)'
  BY <1>1, IdleFits DEF Fits, Witnessed, SlicesCover, CrawlComplete, StepsFit, Mode
<1> QED
  BY <1>2, IdleFits, UpdateKeeps DEF Mode

\* The state of a run that turns to an index.
LEMMA RetrieveIs ==
    ASSUME NEW mode \in {"full", "hot"}, NEW primary \in BOOLEAN, NEW missed \in SUBSET Company
    PROVE  /\ Retrieve(mode, primary, missed) \in RunState
           /\ Retrieve(mode, primary, missed).step = IF mode = "full" THEN "facets" ELSE "recent"
           /\ Retrieve(mode, primary, missed).mode = mode
           /\ Retrieve(mode, primary, missed).missed = missed
           /\ Retrieve(mode, primary, missed).left = {}
  BY DEF Retrieve, Idle, RunState, Mode

\* A run turns to an index, having missed what the directory has not shown.
LEMMA RetrieveKeeps ==
    ASSUME DirInv, NEW r \in Run, NEW mode \in {"full", "hot"}, NEW primary \in BOOLEAN,
           NEW missed \in SUBSET Company,
           Update(r, Retrieve(mode, primary, missed)),
           adapter = "yc_directory",
           mode = "full" => Company \ missed \subseteq live,
           mode = "hot" => run[r].mode = "hot" \/ ~fullDue
    PROVE  DirInv'
<1>1. run'[r] = Retrieve(mode, primary, missed) /\ UNCHANGED <<adapter, live>>
  BY DEF DirInv, DirTypeOK, Update, Move
<1>2. Fits(r)'
  BY <1>1, RetrieveIs DEF Fits, Witnessed, SlicesCover, CrawlComplete, StepsFit
<1> QED
  BY <1>2, RetrieveIs, UpdateKeeps

\* A run sets out for what its adapter and the interval call for.
LEMMA StartKeeps ==
    ASSUME DirInv, NEW r \in Run, Start(r)
    PROVE  DirInv'
<1>1. Update(r, Collect) /\ adapter \in {"yc_directory", "speedrun"} /\ fullDue \in BOOLEAN
  BY DirectoryAssumption DEF Start, DirInv, DirTypeOK
<1>2. CASE adapter = "yc_directory" /\ fullDue
  <2>1. Update(r, Retrieve("full", TRUE, Company \ live))
    BY <1>1, <1>2 DEF Collect
  <2>2. Company \ (Company \ live) \subseteq live
    OBVIOUS
  <2> QED
    BY <1>2, <2>1, <2>2, RetrieveKeeps
<1>3. CASE adapter = "yc_directory" /\ ~fullDue
  <2>1. Update(r, Retrieve("hot", TRUE, {}))
    BY <1>1, <1>3 DEF Collect
  <2>2. {} \in SUBSET Company /\ TRUE \in BOOLEAN /\ "hot" \in {"full", "hot"} /\ "hot" # "full"
    OBVIOUS
  <2> QED
    BY <1>3, <2>1, <2>2, RetrieveKeeps
<1>4. CASE adapter = "speedrun"
  <2> DEFINE new == [Idle EXCEPT !.step = "api", !.mode = "canonical", !.missed = Company \ live]
  <2>1. new \in RunState
    BY DEF Idle, RunState, Mode
  <2>2. /\ new.step = "api" /\ new.mode = "canonical" /\ new.missed = Company \ live
        /\ new.left = {}
    BY DEF Idle
  <2>3. Update(r, new)
    BY <1>1, <1>4 DEF Collect
  <2> HIDE DEF new
  <2>4. run'[r] = new /\ UNCHANGED <<adapter, live>>
    BY <2>3 DEF DirInv, DirTypeOK, Update, Move
  <2>5. Fits(r)'
    BY <1>4, <2>2, <2>4 DEF Fits, Witnessed, SlicesCover, CrawlComplete, StepsFit
  <2> QED
    BY <2>1, <2>2, <2>3, <2>5, UpdateKeeps
<1> QED
  BY <1>1, <1>2, <1>3, <1>4

\* The other index is tried with the same mode, or the run ends.
LEMMA DegradeKeeps ==
    ASSUME DirInv, NEW r \in Run, run[r].step \in {"facets", "slices", "recent"}, Degrade(r)
    PROVE  DirInv'
<1>1. /\ run[r].mode \in {"full", "hot"} /\ run[r].missed \in SUBSET Company
      /\ adapter = "yc_directory"
      /\ run[r].mode = "full" => Company \ run[r].missed \subseteq live
  BY DEF DirInv, DirTypeOK, RunState, Crawls, StepsFit, Witnessed
<1>2. CASE run[r].primary
  <2>1. Update(r, Retrieve(run[r].mode, FALSE, run[r].missed))
    BY <1>2 DEF Degrade
  <2> QED
    BY <1>1, <2>1, RetrieveKeeps
<1>3. CASE ~run[r].primary
  BY <1>3, GiveUpKeeps DEF Degrade
<1> QED
  BY <1>2, <1>3

\* The state of a run that has its rows.
LEMMA CollectedIs ==
    ASSUME DirInv, NEW r \in Run, NEW found \in SUBSET Id
    PROVE  /\ Collected(r, found) \in RunState
           /\ Collected(r, found).step = "collected"
           /\ Collected(r, found).mode = run[r].mode
           /\ Collected(r, found).missed = run[r].missed
           /\ Collected(r, found).found = found
           /\ Collected(r, found).left = {}
<1>1. run[r].mode \in Mode \union {None} /\ run[r].missed \in SUBSET Company
  BY DEF DirInv, DirTypeOK, RunState
<1> QED
  BY <1>1 DEF Collected, Idle, RunState

\* A run has its rows, which are complete if its mode says so.
LEMMA CollectedKeeps ==
    ASSUME DirInv, NEW r \in Run, NEW found \in SUBSET Id, found # {},
           Move(r, Collected(r, found)),
           lastMode' \in Mode \union {None}, lastActive' \subseteq Batch,
           run[r].mode \in {"full", "canonical"} =>
                \A c \in Company \ run[r].missed :
                    \/ <<c, "slug">> \in found
                    \/ adapter = "yc_directory" /\ BatchOf[c] = NoBatch
                    \/ adapter = "speedrun" /\ Cardinality(found) = ApiLimit
    PROVE  DirInv'
<1>1. run'[r] = Collected(r, found) /\ UNCHANGED <<adapter, live>>
  BY DEF DirInv, DirTypeOK, Move
<1>2. Fits(r)'
  BY <1>1, CollectedIs
  DEF DirInv, Crawls, Fits, Witnessed, SlicesCover, CrawlComplete, StepsFit
<1> QED
  BY <1>2, CollectedIs, MoveKeeps

\* The same when what the runs share is left alone.
LEMMA YCCollectedKeeps ==
    ASSUME DirInv, NEW r \in Run, NEW found \in SUBSET Id, found # {},
           Update(r, Collected(r, found)),
           run[r].mode \in {"full", "canonical"} =>
                \A c \in Company \ run[r].missed :
                    \/ <<c, "slug">> \in found
                    \/ adapter = "yc_directory" /\ BatchOf[c] = NoBatch
    PROVE  DirInv'
<1>1. lastMode' \in Mode \union {None} /\ lastActive' \subseteq Batch
  BY DEF Update, shared, DirInv, DirTypeOK
<1>2. Move(r, Collected(r, found))
  BY DEF Update
<1> QED
  BY <1>1, <1>2, CollectedKeeps

\* The facets send for every batch that has a company.
LEMMA FacetsKeep ==
    ASSUME DirInv, NEW r \in Run, ReadFacets(r)
    PROVE  DirInv'
<1> DEFINE counts == [b \in Batch |-> Cardinality(InBatch(live, b))]
           new == [run[r] EXCEPT !.step = "slices", !.expected = Cardinality(live),
                                 !.counts = counts, !.left = {b \in Batch : counts[b] > 0}]
<1>1. run[r] \in RunState /\ live \in SUBSET Company /\ run[r].step = "facets"
  BY DEF ReadFacets, DirInv, DirTypeOK
<1>2. Degrade(r) \/ Update(r, new)
  BY DEF ReadFacets
<1>3. CASE Degrade(r)
  BY <1>1, <1>3, DegradeKeeps
<1>4. CASE Update(r, new)
  <2>1. counts \in [Batch -> Nat]
    <3>1. \A b \in Batch : InBatch(live, b) \in SUBSET Company
      BY <1>1 DEF InBatch
    <3> QED
      BY <3>1, Finiteness
  <2>2. Cardinality(live) \in Nat
    BY <1>1, Finiteness
  <2> HIDE DEF counts
  <2>3. /\ new \in RunState
        /\ new.step = "slices" /\ new.left = {b \in Batch : counts[b] > 0}
        /\ new.counts = counts /\ new.mode = run[r].mode /\ new.missed = run[r].missed
    BY <1>1, <2>1, <2>2 DEF RunState
  <2>4. /\ run[r].mode = "full"
        /\ adapter = "yc_directory"
        /\ Company \ run[r].missed \subseteq live
    BY <1>1 DEF DirInv, Crawls, StepsFit, Witnessed
  <2>5. \A c \in Company \ run[r].missed : BatchOf[c] \in Batch => counts[BatchOf[c]] > 0
    BY <1>1, <2>4, SomeInBatch DEF counts
  <2> HIDE DEF new
  <2>6. run'[r] = new /\ UNCHANGED <<adapter, live>>
    BY <1>4 DEF DirInv, DirTypeOK, Update, Move
  <2>7. Fits(r)'
    BY <2>3, <2>4, <2>5, <2>6
    DEF Fits, Witnessed, SlicesCover, CrawlComplete, StepsFit
  <2> QED
    BY <1>4, <2>3, <2>4, <2>7, UpdateKeeps
<1> QED
  BY <1>2, <1>3, <1>4

\* A slice brings the companies of its batch, and the last one completes the crawl.
LEMMA SliceKeeps ==
    ASSUME DirInv, NEW r \in Run, NEW b \in Batch, ReadSlice(r, b)
    PROVE  DirInv'
<1> DEFINE left == run[r].left \ {b}
           found == run[r].found \union Slugs(InBatch(live, b))
           new == [run[r] EXCEPT !.left = left, !.found = found, !.counts = [@ EXCEPT ![b] = 0]]
<1>1. /\ run[r] \in RunState /\ live \in SUBSET Company
      /\ run[r].step = "slices" /\ b \in run[r].left
  BY DEF ReadSlice, DirInv, DirTypeOK
<1>2. \/ Degrade(r)
      \/ /\ Cardinality(InBatch(live, b)) >= run[r].counts[b]
         /\ Update(r, IF left = {} THEN Collected(r, found) ELSE new)
  <2>1. Cardinality(InBatch(live, b)) \in Nat /\ run[r].counts[b] \in Nat
    BY <1>1, Finiteness DEF InBatch, RunState
  <2> QED
    BY <2>1 DEF ReadSlice
<1>3. /\ run[r].mode = "full" /\ adapter = "yc_directory"
      /\ Company \ run[r].missed \subseteq live
      /\ run[r].counts[b] > 0
  BY <1>1 DEF DirInv, DirTypeOK, Crawls, StepsFit, Witnessed
<1>4. found \in SUBSET Id
  BY <1>1 DEF RunState, Slugs, InBatch, Id
<1>5. \A c \in Company \ run[r].missed :
            BatchOf[c] \in Batch => BatchOf[c] \in left \/ <<c, "slug">> \in found
  BY <1>1, <1>3 DEF DirInv, Crawls, SlicesCover, Slugs, InBatch
<1>6. CASE Degrade(r)
  BY <1>1, <1>6, DegradeKeeps
<1>7. CASE Update(r, Collected(r, found)) /\ left = {}
          /\ Cardinality(InBatch(live, b)) >= run[r].counts[b]
  <2>1. InBatch(live, b) # {}
    <3>1. Cardinality(InBatch(live, b)) # 0
      BY <1>1, <1>3, <1>7, Finiteness DEF RunState, InBatch
    <3> QED
      BY <3>1, FS_EmptySet
  <2>2. found # {}
    <3>1. InBatch(live, b) \in SUBSET Company
      BY <1>1 DEF InBatch
    <3> QED
      BY <2>1, <3>1, RowsOf DEF Slugs
  <2> HIDE DEF found
  <2> QED
    BY <1>3, <1>4, <1>5, <1>7, <2>2, BatchIsLabel, YCCollectedKeeps
<1>8. CASE Update(r, new)
  <2> HIDE DEF left, found
  <2>1. left \in SUBSET Batch /\ \A d \in left : d # b /\ run[r].counts[d] > 0
    BY <1>1 DEF left, RunState, DirInv, DirTypeOK
  <2>2. [run[r].counts EXCEPT ![b] = 0] \in [Batch -> Nat]
    BY <1>1 DEF RunState
  <2>3. /\ new \in RunState
        /\ new.step = "slices" /\ new.left = left /\ new.found = found
        /\ new.counts = [run[r].counts EXCEPT ![b] = 0]
        /\ new.mode = run[r].mode /\ new.missed = run[r].missed
    BY <1>1, <1>4, <2>1, <2>2 DEF RunState
  <2> HIDE DEF new
  <2>4. run'[r] = new /\ UNCHANGED <<adapter, live>>
    BY <1>8 DEF DirInv, DirTypeOK, Update, Move
  <2>5. \A d \in new.left : new.counts[d] > 0
    BY <1>1, <2>1, <2>3 DEF RunState
  <2>6. Fits(r)'
    BY <1>3, <1>5, <2>3, <2>4, <2>5
    DEF Fits, Witnessed, SlicesCover, CrawlComplete, StepsFit
  <2> QED
    BY <1>3, <1>8, <2>3, <2>6, UpdateKeeps
<1> QED
  BY <1>2, <1>6, <1>7, <1>8

\* The recent window is a slice.
LEMMA RecentKeeps ==
    ASSUME DirInv, NEW r \in Run, ReadRecent(r)
    PROVE  DirInv'
<1>1. /\ run[r].step = "recent" /\ run[r].mode = "hot"
      /\ Recent \in SUBSET Company
  BY DEF ReadRecent, DirInv, DirTypeOK, Crawls, StepsFit, Recent
<1>2. CASE Update(r, Idle)
  BY <1>2, GiveUpKeeps
<1>3. CASE Recent # {} /\ Update(r, Collected(r, Slugs(Recent)))
  <2>1. Slugs(Recent) # {} /\ Slugs(Recent) \in SUBSET Id
    BY <1>1, <1>3, RowsOf DEF Slugs
  <2> QED
    BY <1>1, <1>3, <2>1, YCCollectedKeeps
<1> QED
  BY <1>2, <1>3 DEF ReadRecent

\* The page is a slice that takes the place of the API.
LEMMA PageKeeps ==
    ASSUME DirInv, NEW r \in Run, run[r].step = "api", Update(r, PageNext)
    PROVE  DirInv'
<1>1. /\ PageNext \in RunState
      /\ PageNext.step = "page" /\ PageNext.mode = "fallback" /\ PageNext.left = {}
  BY DEF PageNext, Idle, RunState, Mode
<1>2. run'[r] = PageNext /\ UNCHANGED <<adapter, live>>
  BY DEF DirInv, DirTypeOK, Update, Move
<1>3. run[r].mode = "canonical" /\ adapter = "speedrun"
  BY DEF DirInv, Crawls, StepsFit
<1>4. Fits(r)'
  BY <1>1, <1>2, <1>3 DEF Fits, Witnessed, SlicesCover, CrawlComplete, StepsFit
<1> QED
  BY <1>1, <1>4, UpdateKeeps

\* The cohorts that a run says are active are cohorts.
LEMMA ActiveAreBatches ==
    ASSUME NEW items \in SUBSET Id
    PROVE  RankByLaunch(items) \subseteq Batch /\ RankByLabel(items) \subseteq Batch
<1>1. \A i \in items : i[1] \in Company
  BY DEF Id
<1>2. \A b \in {BatchOf[i[1]] : i \in items} : b \in Batch \union {NoBatch}
  BY <1>1, DirectoryAssumption
<1> QED
  BY <1>2 DEF RankByLaunch, RankByLabel

\* One row for each company.
LEMMA SlugsCounted ==
    ASSUME NEW S \in SUBSET Company
    PROVE  Cardinality(Slugs(S)) = Cardinality(S)
<1>1. IsFiniteSet(S) /\ Cardinality(S) \in Nat
  BY Finiteness
<1>2. IsFiniteSet({"slug"}) /\ Cardinality({"slug"}) = 1
  BY FS_Singleton
<1>3. Cardinality(S \X {"slug"}) = Cardinality(S) * 1
  BY <1>1, <1>2, FS_Product
<1> QED
  BY <1>1, <1>3 DEF Slugs

\* The API shows all companies of the moment, or as many as it returns at once.
LEMMA ApiKeeps ==
    ASSUME DirInv, NEW r \in Run, NEW answer \in SUBSET Company, ReadApi(r, answer)
    PROVE  DirInv'
<1>1. CASE Update(r, PageNext)
  BY <1>1, PageKeeps DEF ReadApi
<1>2. CASE answer # {} /\ Answer(r, Slugs(answer))
  <2>1. /\ run[r].mode = "canonical" /\ Company \ run[r].missed \subseteq live
        /\ adapter = "speedrun"
    BY DEF ReadApi, DirInv, Crawls, StepsFit, Witnessed
  <2>2. Slugs(answer) \in SUBSET Id /\ Slugs(answer) # {}
    BY <1>2, RowsOf DEF Slugs
  <2>3. \/ \A c \in live : <<c, "slug">> \in Slugs(answer)
        \/ Cardinality(Slugs(answer)) = ApiLimit
    BY SlugsCounted DEF ReadApi, ApiAnswers, Slugs
  <2>4. Move(r, Collected(r, Slugs(answer))) /\ lastMode' = "canonical"
    BY <1>2, <2>1 DEF Answer
  <2>5. lastActive' \subseteq Batch
    BY <1>2, <2>2, ActiveAreBatches DEF Answer
  <2> QED
    BY <2>1, <2>2, <2>3, <2>4, <2>5, CollectedKeeps DEF Mode
<1> QED
  BY <1>1, <1>2 DEF ReadApi

\* The page shows some companies.
LEMMA PageReadKeeps ==
    ASSUME DirInv, NEW r \in Run, NEW shown \in SUBSET Company, ReadPage(r, shown)
    PROVE  DirInv'
<1>1. CASE Update(r, Idle)
  BY <1>1, GiveUpKeeps
<1>2. CASE shown # {} /\ Answer(r, shown \X {"page"})
  <2>1. run[r].mode = "fallback"
    BY DEF ReadPage, DirInv, Crawls, StepsFit
  <2>2. shown \X {"page"} # {} /\ shown \X {"page"} \in SUBSET Id
    BY <1>2, RowsOf
  <2>3. Move(r, Collected(r, shown \X {"page"})) /\ lastMode' = "fallback"
    BY <1>2, <2>1 DEF Answer
  <2>4. lastActive' \subseteq Batch
    BY <1>2, <2>2, ActiveAreBatches DEF Answer
  <2> QED
    BY <2>1, <2>2, <2>3, <2>4, CollectedKeeps DEF Mode
<1> QED
  BY <1>1, <1>2 DEF ReadPage

-----------------------------------------------------------------------------
(* The directory, time and restarts *)

\* A company that appears is missed by nobody.
LEMMA PublishKeeps ==
    ASSUME DirInv, NEW c \in Company, Publish(c)
    PROVE  DirInv'
<1>1. /\ live' = live \union {c} /\ changes' = changes + 1 /\ changes < MaxChanges
      /\ UNCHANGED <<adapter, fullDue, run, lastMode, lastActive, rows, snapshot, announced,
                     baseline, first, lost, fullLost, torn>>
  BY DEF Publish, shared, stored, history
<1>2. DirTypeOK'
  <2>1. changes' \in 0..MaxChanges
    BY <1>1, DirectoryAssumption DEF DirInv, DirTypeOK
  <2>2. live' \subseteq Company
    BY <1>1 DEF DirInv, DirTypeOK
  <2> QED
    BY <1>1, <2>1, <2>2 DEF DirInv, DirTypeOK
<1>3. Crawls'
  BY <1>1 DEF DirInv, Crawls, Witnessed, SlicesCover, CrawlComplete, StepsFit
<1>4. RowsKnown' /\ AdditionsAnnounced' /\ SnapshotCited' /\ BaselineFull'
  BY <1>1 DEF DirInv, RowsKnown, HasOfficialSource, AdditionsAnnounced, SnapshotCited,
              BaselineFull, ListedIn
<1> QED
  BY <1>2, <1>3, <1>4 DEF DirInv

\* A company that disappears is missed by every complete crawl under way.
LEMMA WithdrawKeeps ==
    ASSUME DirInv, NEW c \in Company, Withdraw(c)
    PROVE  DirInv'
<1>1. /\ live' = live \ {c} /\ changes' = changes + 1 /\ changes < MaxChanges
      /\ UNCHANGED <<adapter, fullDue, lastMode, lastActive, rows, snapshot, announced,
                     baseline, first, lost, fullLost, torn>>
  BY DEF Withdraw, shared, stored, history
<1>2. run \in [Run -> RunState]
  BY DEF DirInv, DirTypeOK
<1>3. ASSUME NEW r \in Run
      PROVE  /\ run'[r] \in RunState
             /\ run'[r].step = run[r].step /\ run'[r].mode = run[r].mode
             /\ run'[r].left = run[r].left /\ run'[r].found = run[r].found
             /\ run'[r].counts = run[r].counts
             /\ run'[r].missed = IF run[r].mode \in {"full", "canonical"}
                                 THEN run[r].missed \union {c} ELSE run[r].missed
  <2>1. run'[r] = IF run[r].mode \in {"full", "canonical"}
                  THEN [run[r] EXCEPT !.missed = @ \union {c}] ELSE run[r]
    BY DEF Withdraw
  <2>2. CASE run[r].mode \in {"full", "canonical"}
    <3>1. run[r].missed \union {c} \in SUBSET Company
      BY <1>2 DEF RunState
    <3> QED
      BY <1>2, <2>1, <2>2, <3>1 DEF RunState
  <2>3. CASE run[r].mode \notin {"full", "canonical"}
    BY <1>2, <2>1, <2>3
  <2> QED
    BY <2>2, <2>3
<1>4. run' \in [Run -> RunState]
  <2>1. run' = [r \in Run |-> run'[r]]
    BY DEF Withdraw
  <2> QED
    BY <1>3, <2>1
<1>5. DirTypeOK'
  <2>1. changes' \in 0..MaxChanges
    BY <1>1, DirectoryAssumption DEF DirInv, DirTypeOK
  <2>2. live' \subseteq Company
    BY <1>1 DEF DirInv, DirTypeOK
  <2>3. ASSUME NEW q \in Run
        PROVE  /\ \A b \in run'[q].left : run'[q].counts[b] > 0
               /\ run'[q].step = "collected" => run'[q].found # {}
    BY <1>3 DEF DirInv, DirTypeOK
  <2> QED
    BY <1>1, <1>4, <2>1, <2>2, <2>3 DEF DirInv, DirTypeOK
<1>6. Crawls'
  <2> SUFFICES ASSUME NEW r \in Run
               PROVE  (Witnessed(r) /\ SlicesCover(r) /\ CrawlComplete(r) /\ StepsFit(r))'
    BY DEF Crawls
  <2>1. Witnessed(r) /\ SlicesCover(r) /\ CrawlComplete(r) /\ StepsFit(r)
    BY DEF DirInv, Crawls
  <2> QED
    BY <1>1, <1>3, <2>1 DEF Witnessed, SlicesCover, CrawlComplete, StepsFit
<1>7. RowsKnown' /\ AdditionsAnnounced' /\ SnapshotCited' /\ BaselineFull'
  BY <1>1, <1>3 DEF DirInv, RowsKnown, HasOfficialSource, AdditionsAnnounced, SnapshotCited,
                    BaselineFull, ListedIn
<1> QED
  BY <1>5, <1>6, <1>7 DEF DirInv

\* When a full crawl is due, no new crawl is hot.
LEMMA ElapseKeeps ==
    ASSUME DirInv, Elapse
    PROVE  DirInv'
  BY DEF Elapse, shared, stored, history, DirInv, DirTypeOK, Crawls, Witnessed, SlicesCover,
         CrawlComplete, StepsFit, RowsKnown, HasOfficialSource, AdditionsAnnounced,
         SnapshotCited, BaselineFull, ListedIn

\* A new process has no crawl under way.
LEMMA RestartKeeps ==
    ASSUME DirInv, Restart
    PROVE  DirInv'
<1>1. /\ run' = [r \in Run |-> Idle] /\ fullDue' = TRUE /\ lastMode' = None /\ lastActive' = {}
      /\ UNCHANGED <<adapter, live, changes, rows, snapshot, announced, baseline, first, lost,
                     fullLost, torn>>
  BY DEF Restart, stored, history
<1>2. DirTypeOK'
  BY <1>1, IdleFits DEF DirInv, DirTypeOK
<1>3. Crawls'
  BY <1>1, IdleFits DEF Crawls, Witnessed, SlicesCover, CrawlComplete, StepsFit, Mode
<1>4. RowsKnown' /\ AdditionsAnnounced' /\ SnapshotCited' /\ BaselineFull'
  BY <1>1, IdleFits DEF DirInv, RowsKnown, HasOfficialSource, AdditionsAnnounced,
                        SnapshotCited, BaselineFull, ListedIn, Mode
<1> QED
  BY <1>2, <1>3, <1>4 DEF DirInv

-----------------------------------------------------------------------------
(* Ingestion *)

\* What an ingestion makes of the rows: what it found is listed, nothing is forgotten,
\* and only a crawl of the whole directory retires what it did not find.
LEMMA RowsAfterIs ==
    ASSUME DirInv, NEW items \in SUBSET Id, NEW mode, NEW reach \in Reach
    PROVE  /\ RowsAfter(items, mode, reach) \in [Id -> {"unknown", "listed", "stale"}]
           /\ reach = "nothing" => RowsAfter(items, mode, reach) = rows
           /\ reach # "nothing" => \A i \in items : RowsAfter(items, mode, reach)[i] = "listed"
           /\ \A i \in Id : RowsAfter(items, mode, reach)[i] = "unknown" <=>
                    rows[i] = "unknown" /\ (reach = "nothing" \/ i \notin items)
           /\ \A i \in Id : rows[i] = "listed" /\ RowsAfter(items, mode, reach)[i] = "stale" =>
                    mode \in CompleteSnapshotModes /\ i \notin items
<1>1. rows \in [Id -> {"unknown", "listed", "stale"}]
  BY DEF DirInv, DirTypeOK
<1>2. /\ Upserted(items) \in [Id -> {"unknown", "listed", "stale"}]
      /\ \A i \in Id : Upserted(items)[i] = IF i \in items THEN "listed" ELSE rows[i]
  BY <1>1 DEF Upserted
<1> HIDE DEF CompleteSnapshotModes
<1>3. CASE reach = "nothing"
  BY <1>1, <1>3 DEF RowsAfter
<1>4. CASE reach # "nothing" /\ (reach = "upsert" \/ mode \notin CompleteSnapshotModes)
  BY <1>1, <1>2, <1>4 DEF RowsAfter
<1>5. CASE reach # "nothing" /\ reach # "upsert" /\ mode \in CompleteSnapshotModes
  <2> DEFINE up == Upserted(items)
             table == RowsAfter(items, mode, reach)
  <2>1. table = Pruned(items, up)
    BY <1>5 DEF RowsAfter
  <2> HIDE DEF up, table
  <2>2. \/ table = up
        \/ table = [i \in Id |-> IF up[i] = "listed" /\ i \notin items THEN "stale" ELSE up[i]]
    BY <2>1 DEF Pruned
  <2> QED
    BY <1>1, <1>2, <1>5, <2>2 DEF up, table
<1> QED
  BY <1>3, <1>4, <1>5

\* An ingestion, as far as it gets.
LEMMA IngestKeeps ==
    ASSUME DirInv, NEW r \in Run, NEW reach \in Reach,
           NEW sent \in SUBSET Additions(run[r].found), Ingest(r, reach, sent)
    PROVE  DirInv'
<1> DEFINE items == run[r].found
           mode == SaidMode(r)
           table == RowsAfter(items, mode, reach)
<1>1. /\ run \in [Run -> RunState] /\ items \in SUBSET Id /\ items # {}
      /\ mode \in Mode \union {None} /\ run[r].mode \in Mode \union {None}
      /\ run[r].step = "collected"
  BY DEF Ingest, SaidMode, DirInv, DirTypeOK, RunState
<1>2. /\ rows' = table
      /\ announced' = announced \union sent
      /\ run' = [run EXCEPT ![r] = Idle]
      /\ fullDue' = (fullDue /\ run[r].mode # "full")
      /\ baseline' = IF reach # "nothing" /\ ~HasOfficialSource THEN run[r].mode ELSE baseline
      /\ first' = IF reach # "nothing" /\ ~HasOfficialSource THEN items ELSE first
      /\ lost' = IF reach # "nothing" /\ HasOfficialSource
                 THEN lost \union (Additions(items) \ sent) ELSE lost
      /\ fullLost' = (fullLost \/ (run[r].mode = "full" /\ reach = "nothing"))
      /\ torn' = (reach # "snapshot" /\ (torn \/ table # rows))
      /\ UNCHANGED <<adapter, live, changes>>
  BY DEF Ingest
<1>2a. lastMode' = mode /\ lastActive' = SaidActive(r)
  BY DEF Ingest
<1>3. snapshot' = IF reach = "snapshot"
                  THEN [size |-> CountOfficial(table), active |-> SaidActive(r)]
                  ELSE snapshot
  BY DEF Ingest
<1>4. reach = "nothing" \/ ~HasOfficialSource => sent = {}
  BY DEF Ingest
<1>5. /\ table \in [Id -> {"unknown", "listed", "stale"}]
      /\ reach = "nothing" => table = rows
      /\ reach # "nothing" => \A i \in items : table[i] = "listed"
      /\ \A i \in Id : table[i] = "unknown" <=>
            rows[i] = "unknown" /\ (reach = "nothing" \/ i \notin items)
  <2> HIDE DEF items, mode
  <2> QED
    BY <1>1, RowsAfterIs
<1>6. /\ sent \subseteq Additions(items)
      /\ \A i \in Additions(items) : i \in items /\ rows[i] = "unknown"
  BY DEF Additions
<1> HIDE DEF items, mode, table
<1>7. /\ run' \in [Run -> RunState] /\ run'[r] = Idle
      /\ \A q \in Run : q # r => run'[q] = run[q]
  BY <1>1, <1>2, IdleFits
<1>8. DirTypeOK'
  <2>1. ASSUME reach = "snapshot" PROVE snapshot'.size \in 1..Cardinality(Id)
    <3>1. ListedIn(table) \in SUBSET Id /\ ListedIn(table) # {}
      BY <1>1, <1>5, <2>1 DEF ListedIn
    <3>2. /\ Cardinality(ListedIn(table)) \in Nat \ {0} /\ Cardinality(Id) \in Nat
          /\ Cardinality(ListedIn(table)) <= Cardinality(Id)
      <4>1. IsFiniteSet(Id) /\ IsFiniteSet(ListedIn(table))
        BY <3>1, Finiteness
      <4> QED
        BY <3>1, <4>1, Finiteness, FS_Subset, FS_EmptySet
    <3> QED
      BY <1>3, <2>1, <3>2 DEF CountOfficial
  <2>0. SaidActive(r) \subseteq Batch
    BY <1>1, ActiveAreBatches DEF SaidActive, items, DirInv, DirTypeOK
  <2>2. reach = "snapshot" => snapshot'.active \subseteq Batch
    BY <1>3, <2>0
  <2>3. snapshot' = None \/ /\ snapshot'.size \in 1..Cardinality(Id)
                            /\ snapshot'.active \subseteq Batch
    BY <1>3, <2>1, <2>2 DEF DirInv, DirTypeOK
  <2>4. /\ announced' \subseteq Id /\ lost' \subseteq Id /\ first' \subseteq Id
        /\ baseline' \in Mode \union {None}
    BY <1>1, <1>2, <1>6 DEF DirInv, DirTypeOK
  <2>5. fullDue' \in BOOLEAN /\ fullLost' \in BOOLEAN /\ torn' \in BOOLEAN
    BY <1>2
  <2>6. ASSUME NEW q \in Run
        PROVE  /\ \A b \in run'[q].left : run'[q].counts[b] > 0
               /\ run'[q].step = "collected" => run'[q].found # {}
    BY <1>7, IdleFits DEF DirInv, DirTypeOK
  <2> QED
    BY <1>1, <1>2, <1>2a, <1>5, <1>7, <2>0, <2>3, <2>4, <2>5, <2>6 DEF DirInv, DirTypeOK
<1>9. Crawls'
  BY <1>2, <1>7, IdleFits
  DEF DirInv, Crawls, Witnessed, SlicesCover, CrawlComplete, StepsFit, Mode
<1>10. /\ HasOfficialSource => HasOfficialSource'
       /\ reach # "nothing" => HasOfficialSource'
  BY <1>1, <1>2, <1>5 DEF HasOfficialSource
<1>11. RowsKnown'
  <2>1. \A i \in first' \union announced' : rows'[i] # "unknown"
    BY <1>1, <1>2, <1>4, <1>5, <1>6 DEF DirInv, DirTypeOK, RowsKnown
  <2>2. (\E q \in Run : run'[q].mode = "hot") => \E q \in Run : run[q].mode = "hot"
    BY <1>7, IdleFits DEF Mode
  <2>3. (~fullDue' \/ \E q \in Run : run'[q].mode = "hot") => HasOfficialSource' \/ fullLost'
    BY <1>2, <1>10, <2>2 DEF DirInv, RowsKnown
  <2> QED
    BY <2>1, <2>3 DEF RowsKnown
<1>12. AdditionsAnnounced'
  <2>1. CASE reach = "nothing"
    BY <1>2, <1>4, <1>5, <2>1 DEF DirInv, AdditionsAnnounced
  <2>2. CASE reach # "nothing" /\ ~HasOfficialSource
    <3>1. announced' = {} /\ first' = items
      BY <1>2, <1>4, <2>2 DEF DirInv, DirTypeOK, RowsKnown, HasOfficialSource
    <3> QED
      BY <1>2, <1>5, <2>2, <3>1 DEF AdditionsAnnounced, HasOfficialSource
  <2>3. CASE reach # "nothing" /\ HasOfficialSource
    <3>1. announced' \intersect first' = {}
      BY <1>2, <1>6, <2>3 DEF DirInv, RowsKnown, AdditionsAnnounced
    <3>2. ASSUME NEW i \in Id, rows'[i] # "unknown"
          PROVE  i \in first' \union announced' \union lost'
      <4>1. CASE rows[i] # "unknown"
        BY <1>2, <2>3, <4>1 DEF DirInv, AdditionsAnnounced
      <4>2. CASE rows[i] = "unknown"
        <5>1. i \in Additions(items)
          BY <1>2, <1>5, <3>2, <4>2 DEF Additions
        <5> QED
          BY <1>2, <2>3, <5>1
      <4> QED
        BY <4>1, <4>2
    <3> QED
      BY <3>1, <3>2 DEF AdditionsAnnounced
  <2> QED
    BY <2>1, <2>2, <2>3
<1>13. SnapshotCited'
  <2>1. CASE reach = "snapshot"
    BY <1>2, <1>3, <2>1 DEF SnapshotCited, CountOfficial
  <2>2. CASE reach # "snapshot"
    BY <1>2, <1>3, <2>2 DEF DirInv, SnapshotCited, ListedIn
  <2> QED
    BY <2>1, <2>2
<1>14. BaselineFull'
  <2>1. run[r].mode = "hot" => HasOfficialSource \/ fullLost
    BY DEF DirInv, RowsKnown
  <2> QED
    BY <1>2, <2>1 DEF DirInv, BaselineFull
<1> QED
  BY <1>8, <1>9, <1>11, <1>12, <1>13, <1>14 DEF DirInv

-----------------------------------------------------------------------------
(* The invariant is inductive *)

\* The initial states satisfy the invariant.
LEMMA InitInv == DirInit => DirInv
<1> SUFFICES ASSUME DirInit PROVE DirInv
  OBVIOUS
<1>1. DirTypeOK
  <2>1. changes \in 0..MaxChanges /\ live \subseteq Company
    BY DirectoryAssumption DEF DirInit
  <2>2. run \in [Run -> RunState] /\ \A r \in Run : run[r] = Idle
    BY IdleFits DEF DirInit
  <2>3. rows \in [Id -> {"unknown", "listed", "stale"}]
    BY DEF DirInit
  <2> QED
    BY <2>1, <2>2, <2>3, IdleFits DEF DirInit, DirTypeOK
<1>2. Crawls
  BY IdleFits DEF DirInit, Crawls, Witnessed, SlicesCover, CrawlComplete, StepsFit, Mode
<1>3. RowsKnown /\ AdditionsAnnounced /\ SnapshotCited /\ BaselineFull
  BY IdleFits DEF DirInit, RowsKnown, AdditionsAnnounced, SnapshotCited, BaselineFull, Mode
<1> QED
  BY <1>1, <1>2, <1>3 DEF DirInv

\* Every step keeps the invariant.
LEMMA NextKeeps ==
    ASSUME DirInv, [DirNext]_dirVars
    PROVE  DirInv'
<1>1. ASSUME NEW c \in Company, Publish(c) \/ Withdraw(c) PROVE DirInv'
  BY <1>1, PublishKeeps, WithdrawKeeps
<1>2. CASE Elapse \/ Restart
  BY <1>2, ElapseKeeps, RestartKeeps
<1>3. ASSUME NEW r \in Run, Start(r) \/ ReadFacets(r) \/ ReadRecent(r)
      PROVE  DirInv'
  BY <1>3, StartKeeps, FacetsKeep, RecentKeeps
<1>4. ASSUME NEW r \in Run, NEW b \in Batch, ReadSlice(r, b) PROVE DirInv'
  BY <1>4, SliceKeeps
<1>5. ASSUME NEW r \in Run, Refused(r) \/ Unreachable(r) \/ ApiFails(r) PROVE DirInv'
  BY <1>5, DegradeKeeps, GiveUpKeeps, PageKeeps DEF Refused, Unreachable, ApiFails
<1>6. ASSUME NEW r \in Run, NEW shown \in SUBSET Company,
             ReadApi(r, shown) \/ ReadPage(r, shown)
      PROVE  DirInv'
  BY <1>6, ApiKeeps, PageReadKeeps
<1>7. ASSUME NEW r \in Run, NEW reach \in Reach, NEW sent \in SUBSET Additions(run[r].found),
             Ingest(r, reach, sent)
      PROVE  DirInv'
  BY <1>7, IngestKeeps
<1>8. CASE UNCHANGED dirVars
  BY <1>8 DEF dirVars, shared, stored, history, DirInv, DirTypeOK, Crawls, Witnessed, SlicesCover,
              CrawlComplete, StepsFit, RowsKnown, HasOfficialSource, AdditionsAnnounced,
              SnapshotCited, BaselineFull, ListedIn
<1> QED
  BY <1>1, <1>2, <1>3, <1>4, <1>5, <1>6, <1>7, <1>8 DEF DirNext

\* The invariant holds in every reachable state.
LEMMA Invariance == DirSpec => []DirInv
<1>1. DirInv /\ [DirNext]_dirVars => DirInv'
  BY NextKeeps
<1> QED
  BY InitInv, <1>1, PTL DEF DirSpec

-----------------------------------------------------------------------------
(* Theorems *)

\* Every variable has its type, and no run ends with no rows.
THEOREM DirTypeCorrect == DirSpec => []DirTypeOK
<1>1. DirInv => DirTypeOK
  BY DEF DirInv
<1> QED
  BY Invariance, <1>1, PTL

\* The first rows are never announced, and all others are (Scanner._run_source and
\* ingest_official), unless their own ingestion stopped first.
THEOREM EveryAdditionAnnounced == DirSpec => []AdditionsAnnounced
<1>1. DirInv => AdditionsAnnounced
  BY DEF DirInv
<1> QED
  BY Invariance, <1>1, PTL

\* The snapshot's size is the number of listed rows (count_official), unless an
\* ingestion stopped after it changed them.
THEOREM SnapshotsCount == DirSpec => []SnapshotCited
<1>1. DirInv => SnapshotCited
  BY DEF DirInv
<1> QED
  BY Invariance, <1>1, PTL

\* The first rows are those of a full crawl, unless the ingestion of one failed.
THEOREM BaselineIsFull == DirSpec => []BaselineFull
<1>1. DirInv => BaselineFull
  BY DEF DirInv
<1> QED
  BY Invariance, <1>1, PTL

\* A row is retired because its company was not shown at some moment of the crawl, because
\* no slice or request could show it, or because the crawl was taken for another
\* (mark_absent_as_stale, COMPLETE_SNAPSHOT_MODES, the shared last_mode).
THEOREM RetiredWasGoneThen == DirSpec => RetiredWasGone
<1> DEFINE Excused(i, r) ==
            \/ i[1] \in run[r].missed
            \/ adapter = "yc_directory" /\ BatchOf[i[1]] = NoBatch
            \/ i[2] = "page"
            \/ adapter = "speedrun" /\ \/ Cardinality(run[r].found) = ApiLimit
                                       \/ run[r].mode # lastMode
<1>1. ASSUME DirInv, [DirNext]_dirVars, NEW i \in Retired
      PROVE  \E r \in Ending : Excused(i, r)
  <2>0. i \in Id /\ rows[i] = "listed" /\ rows'[i] = "stale"
    BY DEF Retired
  <2>1. PICK r \in Run, reach \in Reach :
            \E sent \in SUBSET Additions(run[r].found) : Ingest(r, reach, sent)
    BY <1>1, <2>0
    DEF DirNext, dirVars, stored, history, Publish, Withdraw, Elapse, Restart, Start,
        ReadFacets, ReadSlice, ReadRecent, Refused, Unreachable, ReadApi, ApiFails,
        ReadPage, Degrade, Update, Answer, Move
  <2>2. /\ run[r].step = "collected" /\ run[r].found \in SUBSET Id
        /\ run' = [run EXCEPT ![r] = Idle] /\ run \in [Run -> RunState]
        /\ rows' = RowsAfter(run[r].found, SaidMode(r), reach)
    BY <1>1, <2>1 DEF Ingest, DirInv, DirTypeOK, RunState
  <2>3. r \in Ending
    BY <2>2, IdleFits DEF Ending
  <2>4. SaidMode(r) \in {"full", "canonical"} /\ i \notin run[r].found
    BY <1>1, <2>0, <2>2, RowsAfterIs DEF CompleteSnapshotModes
  <2>5. \/ run[r].mode \in {"full", "canonical"}
        \/ adapter = "speedrun" /\ run[r].mode # lastMode
    <3>1. adapter \in {"yc_directory", "speedrun"}
      BY <1>1, DirectoryAssumption DEF DirInv, DirTypeOK
    <3> QED
      BY <2>4, <3>1 DEF SaidMode
  <2>6. run[r].mode \in {"full", "canonical"} =>
            \A c \in Company \ run[r].missed :
                \/ <<c, "slug">> \in run[r].found
                \/ adapter = "yc_directory" /\ BatchOf[c] = NoBatch
                \/ adapter = "speedrun" /\ Cardinality(run[r].found) = ApiLimit
    BY <1>1, <2>2 DEF DirInv, Crawls, CrawlComplete
  <2>7. i[1] \in Company /\ (i = <<i[1], "slug">> \/ i[2] = "page")
    BY <2>0 DEF Id
  <2> QED
    BY <2>3, <2>4, <2>5, <2>6, <2>7
<1>2. DirInv /\ [DirNext]_dirVars
        => [\A i \in Retired : \E r \in Ending : Excused(i, r)]_dirVars
  BY <1>1
<1> QED
  BY Invariance, <1>2, PTL DEF DirSpec, RetiredWasGone
=============================================================================
