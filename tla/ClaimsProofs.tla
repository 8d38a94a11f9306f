---------------------------- MODULE ClaimsProofs ----------------------------
(***************************************************************************)
(* What holds of the posts about a company, for any companies, names,      *)
(* batches, websites, words and posts.                                     *)
(*                                                                         *)
(* resolve_official looks at rows one by one: it finds a row of a table    *)
(* exactly if some row would be found where it is alone, and ListedAs says *)
(* when that is.  The ledger only grows and the directory only grows, so   *)
(* an entry that was right about the rows of its time stays right          *)
(* (ClaimsInv).  Whether what the program read is what the post meant      *)
(* depends on the names themselves and stays with the model checker.       *)
(***************************************************************************)
EXTENDS Claims, SequenceTheorems, FiniteSetTheorems, WellFoundedInduction, TLAPS

-----------------------------------------------------------------------------
(* The least element, which is how rows are chosen *)

\* A set of numbers has a least one.
LEMMA LeastElement ==
    ASSUME NEW S, S \subseteq Nat, S # {}
    PROVE  Min(S) \in S /\ \A y \in S : Min(S) <= y
<1> DEFINE R == OpToRel(<, Nat)
<1>1. IsWellFoundedOn(R, Nat)
  BY NatLessThanWellFounded
<1>2. PICK x \in S : \A y \in S : ~ (<<y, x>> \in R)
  <2> HIDE DEF R
  <2> QED
    BY <1>1, WFMin
<1>3. \A y \in S : ~ (y < x)
  BY <1>2 DEF OpToRel
<1>4. \A y \in S : x <= y
  BY <1>3
<1> QED
  BY <1>4 DEF Min

-----------------------------------------------------------------------------
(* resolve_official looks at rows one by one *)

\* The first method that finds a row decides; without one there is no row.
LEMMA FirstHitRow ==
    ASSUME NEW domain, NEW named, NEW prefix, NEW handle,
           domain \union named \union prefix \union handle \subseteq Nat \ {0},
           NEW hit,
           hit = FirstHit(<<[method |-> "domain", rows |-> domain],
                            [method |-> "exact_name", rows |-> named],
                            [method |-> "batch_prefix", rows |-> prefix],
                            [method |-> "handle", rows |-> handle]>>)
    PROVE  /\ hit.row # 0 <=> domain \union named \union prefix \union handle # {}
           /\ hit.row # 0 => hit.row \in domain \union named \union prefix \union handle
<1> DEFINE tries == <<[method |-> "domain", rows |-> domain],
                      [method |-> "exact_name", rows |-> named],
                      [method |-> "batch_prefix", rows |-> prefix],
                      [method |-> "handle", rows |-> handle]>>
           hits == {i \in DOMAIN tries : tries[i].rows # {}}
           all == domain \union named \union prefix \union handle
<1>1. /\ DOMAIN tries = 1..4
      /\ tries[1].rows = domain /\ tries[2].rows = named
      /\ tries[3].rows = prefix /\ tries[4].rows = handle
  OBVIOUS
<1> HIDE DEF tries
<1>2. all # {} <=> hits # {}
  <2>1. hits = {i \in 1..4 : tries[i].rows # {}}
    BY <1>1
  <2>2. all # {} <=> \E i \in 1..4 : tries[i].rows # {}
    BY <1>1
  <2> QED
    BY <2>1, <2>2
<1>3. CASE hits = {}
  BY <1>2, <1>3 DEF FirstHit, tries
<1>4. CASE hits # {}
  <2>1. hits \subseteq 1..4 /\ hits \subseteq Nat
    BY <1>1
  <2> DEFINE first == Min(hits)
             found == tries[first].rows
  <2>2. FirstHit(tries) = [row |-> Min(found), method |-> tries[first].method]
    BY <1>4 DEF FirstHit
  <2>3. first \in hits
    <3> HIDE DEF hits
    <3> QED
      BY <1>4, <2>1, LeastElement
  <2>4. found # {}
    BY <2>3
  <2>5. found \subseteq all
    <3>1. first \in 1..4
      BY <2>1, <2>3
    <3> HIDE DEF first
    <3> QED
      BY <1>1, <3>1
  <2>6. all \subseteq Nat \ {0} /\ all \subseteq Nat
    OBVIOUS
  <2>7. Min(found) \in found
    <3> HIDE DEF found, all
    <3> QED
      BY <2>4, <2>5, <2>6, LeastElement
  <2>8. FirstHit(tries).row = Min(found)
    BY <2>2
  <2>9. FirstHit(tries).row \in all /\ FirstHit(tries).row # 0
    <3> HIDE DEF found, all
    <3> QED
      BY <2>5, <2>6, <2>7, <2>8
  <2> QED
    BY <1>2, <1>4, <2>9 DEF tries
<1> QED
  BY <1>3, <1>4

\* The rows that some method finds.
Found(found, table) ==
    LET scope == BatchIdentity(found.batch)
    IN  ByDomain(found.site, table) \union ByName(found.name, table, scope)
            \union ByPrefix(found.name, table, scope) \union ByHandle(found.name, table, scope)

\* resolve_official finds one of them, if there are any.
LEMMA ResolveFinds ==
    ASSUME NEW n \in Nat, NEW table, DOMAIN table = 1..n, NEW found
    PROVE  LET row == ResolveOfficial(found.name, found.site, table, found.batch).row
           IN  /\ row \in 0..n
               /\ row # 0 <=> Found(found, table) # {}
               /\ row # 0 => row \in Found(found, table)
<1> DEFINE scope == BatchIdentity(found.batch)
           domain == ByDomain(found.site, table)
           named == ByName(found.name, table, scope)
           prefix == ByPrefix(found.name, table, scope)
           handle == ByHandle(found.name, table, scope)
           hit == ResolveOfficial(found.name, found.site, table, found.batch)
<1>1. /\ domain \in SUBSET (1..n) /\ named \in SUBSET (1..n)
      /\ prefix \in SUBSET (1..n) /\ handle \in SUBSET (1..n)
  BY DEF ByDomain, ByName, ByPrefix, ByHandle
<1>2. hit = FirstHit(<<[method |-> "domain", rows |-> domain],
                       [method |-> "exact_name", rows |-> named],
                       [method |-> "batch_prefix", rows |-> prefix],
                       [method |-> "handle", rows |-> handle]>>)
  BY DEF ResolveOfficial
<1>3. Found(found, table) = domain \union named \union prefix \union handle
  BY DEF Found
<1> HIDE DEF domain, named, prefix, handle, hit
<1>4. domain \union named \union prefix \union handle \subseteq (1..n)
  BY <1>1
<1>5. domain \union named \union prefix \union handle \subseteq Nat \ {0}
  BY <1>4
<1>6. /\ hit.row # 0 <=> domain \union named \union prefix \union handle # {}
      /\ hit.row # 0 => hit.row \in domain \union named \union prefix \union handle
  BY <1>2, <1>5, FirstHitRow
<1> QED
  BY <1>3, <1>4, <1>6 DEF hit

\* Each method: what it finds in a table it finds where it is alone, and what it finds
\* where it is alone makes it find something in the table.
LEMMA MethodsRowwise ==
    ASSUME NEW S, NEW table \in Seq(S), NEW i \in DOMAIN table,
           NEW name, NEW site, NEW scope
    PROVE  LET row == <<table[i]>>
           IN  /\ i \in ByDomain(site, table) <=> 1 \in ByDomain(site, row)
               /\ i \in ByName(name, table, scope) => 1 \in ByName(name, row, scope)
               /\ 1 \in ByName(name, row, scope) => ByName(name, table, scope) # {}
               /\ i \in ByPrefix(name, table, scope) <=> 1 \in ByPrefix(name, row, scope)
               /\ i \in ByHandle(name, table, scope) <=> 1 \in ByHandle(name, row, scope)
<1> DEFINE row == <<table[i]>>
<1>1. DOMAIN row = {1} /\ row[1] = table[i]
  OBVIOUS
<1> HIDE DEF row
<1>2. i \in ByDomain(site, table) <=> 1 \in ByDomain(site, row)
  BY <1>1 DEF ByDomain
<1>3. i \in ByPrefix(name, table, scope) <=> 1 \in ByPrefix(name, row, scope)
  BY <1>1 DEF ByPrefix
<1>4. i \in ByHandle(name, table, scope) <=> 1 \in ByHandle(name, row, scope)
  BY <1>1 DEF ByHandle
<1>5. i \in ByName(name, table, scope) => 1 \in ByName(name, row, scope)
  BY <1>1 DEF ByName, BatchesMatch
<1>6. 1 \in ByName(name, row, scope) => ByName(name, table, scope) # {}
  BY <1>1 DEF ByName, BatchesMatch
<1> QED
  BY <1>2, <1>3, <1>4, <1>5, <1>6 DEF row

\* resolve_official finds a row exactly if one is accepted on its own, and the row it finds
\* is: which other companies are listed may change the row, never whether there is one.
THEOREM ResolveRowwise ==
    ASSUME NEW S, NEW table \in Seq(S), NEW found
    PROVE  LET row == ResolveOfficial(found.name, found.site, table, found.batch).row
           IN  /\ row \in 0..Len(table)
               /\ row # 0 => Accepts(found, table[row])
               /\ row = 0 => \A i \in DOMAIN table : ~Accepts(found, table[i])
<1> DEFINE hit == ResolveOfficial(found.name, found.site, table, found.batch)
<1>1. DOMAIN table = 1..Len(table) /\ Len(table) \in Nat
  BY LenProperties
<1>2. /\ hit.row \in 0..Len(table)
      /\ hit.row # 0 <=> Found(found, table) # {}
      /\ hit.row # 0 => hit.row \in Found(found, table)
  BY <1>1, ResolveFinds
<1>3. ASSUME NEW i \in DOMAIN table
      PROVE  Accepts(found, table[i]) <=> 1 \in Found(found, <<table[i]>>)
  <2> DEFINE row == <<table[i]>>
             alone == ResolveOfficial(found.name, found.site, row, found.batch)
  <2>1. DOMAIN row = 1..1
    OBVIOUS
  <2>2. alone.row # 0 <=> Found(found, row) # {}
    BY <2>1, ResolveFinds
  <2>3. Found(found, row) \subseteq {1}
    BY <2>1 DEF Found, ByDomain, ByName, ByPrefix, ByHandle
  <2>4. Accepts(found, table[i]) <=> alone.row # 0
    BY DEF Accepts
  <2> QED
    BY <2>2, <2>3, <2>4
<1>4. ASSUME NEW i \in DOMAIN table
      PROVE  /\ i \in Found(found, table) => 1 \in Found(found, <<table[i]>>)
             /\ 1 \in Found(found, <<table[i]>>) => Found(found, table) # {}
  <2> DEFINE row == <<table[i]>>
             scope == BatchIdentity(found.batch)
  <2>1. /\ i \in ByDomain(found.site, table) <=> 1 \in ByDomain(found.site, row)
        /\ i \in ByName(found.name, table, scope) => 1 \in ByName(found.name, row, scope)
        /\ 1 \in ByName(found.name, row, scope) => ByName(found.name, table, scope) # {}
        /\ i \in ByPrefix(found.name, table, scope) <=> 1 \in ByPrefix(found.name, row, scope)
        /\ i \in ByHandle(found.name, table, scope) <=> 1 \in ByHandle(found.name, row, scope)
    BY MethodsRowwise
  <2> HIDE DEF row
  <2>2. /\ i \in Found(found, table) => 1 \in Found(found, row)
        /\ 1 \in Found(found, row) => Found(found, table) # {}
    BY <2>1 DEF Found
  <2> QED
    BY <2>2 DEF row
<1>5. Found(found, table) \subseteq DOMAIN table
  BY <1>1 DEF Found, ByDomain, ByName, ByPrefix, ByHandle
<1> HIDE DEF hit
<1>6. /\ hit.row \in 0..Len(table)
      /\ hit.row # 0 => Accepts(found, table[hit.row])
      /\ hit.row = 0 => \A i \in DOMAIN table : ~Accepts(found, table[i])
  BY <1>2, <1>3, <1>4, <1>5
<1> QED
  BY <1>6 DEF hit

\* A row that stands alone is accepted exactly if it lists what was found: the four methods,
\* declared at once.
LEMMA AcceptsListed ==
    ASSUME NEW found, NEW row
    PROVE  Accepts(found, row) <=> ListedAs(found, row)
<1> DEFINE alone == <<row>>
           scope == BatchIdentity(found.batch)
<1>1. DOMAIN alone = 1..1 /\ alone[1] = row
  OBVIOUS
<1> HIDE DEF alone
<1>2. Accepts(found, row) <=> Found(found, alone) # {}
  BY <1>1, ResolveFinds DEF Accepts, alone
<1>3. Found(found, alone) # {} <=>
        \/ 1 \in ByDomain(found.site, alone) \/ 1 \in ByName(found.name, alone, scope)
        \/ 1 \in ByPrefix(found.name, alone, scope) \/ 1 \in ByHandle(found.name, alone, scope)
  BY <1>1 DEF Found, ByDomain, ByName, ByPrefix, ByHandle
<1>4. 1 \in ByDomain(found.site, alone) <=>
        /\ NormalizeDomain(found.site) # NoSite
        /\ NormalizeDomain(row.site) = NormalizeDomain(found.site)
  BY <1>1 DEF ByDomain
<1>5. 1 \in ByName(found.name, alone, scope) <=>
        /\ NormalizeName(found.name) # <<>> /\ NormalizeName(row.name) = NormalizeName(found.name)
        /\ BatchesMatch(row.batch, scope) \/ scope = {} \/ BatchIdentity(row.batch) = {}
  BY <1>1 DEF ByName
<1>6. 1 \in ByPrefix(found.name, alone, scope) <=>
        BatchesMatch(row.batch, scope) /\ IsTokenPrefix(found.name, row.name)
  BY <1>1 DEF ByPrefix
<1>7. 1 \in ByHandle(found.name, alone, scope) <=>
        /\ BatchesMatch(row.batch, scope)
        /\ HandleIdentity(found.name) # <<>>
        /\ \/ HandleIdentity(row.name) = HandleIdentity(found.name)
           \/ IsCorePrefix(HandleIdentity(found.name), row.name)
  BY <1>1 DEF ByHandle
<1> QED
  BY <1>2, <1>3, <1>4, <1>5, <1>6, <1>7 DEF ListedAs

\* What resolve_official promises, without its methods and their order: it finds a row that
\* lists what was found, if there is one (matcher.py:194-265).
THEOREM ResolveFindsListed ==
    ASSUME NEW S, NEW table \in Seq(S), NEW found
    PROVE  LET row == ResolveOfficial(found.name, found.site, table, found.batch).row
           IN  IF \E i \in DOMAIN table : ListedAs(found, table[i])
               THEN row \in DOMAIN table /\ ListedAs(found, table[row])
               ELSE row = 0
<1> DEFINE row == ResolveOfficial(found.name, found.site, table, found.batch).row
<1>1. /\ row \in 0..Len(table)
      /\ row # 0 => Accepts(found, table[row])
      /\ row = 0 => \A i \in DOMAIN table : ~Accepts(found, table[i])
  BY ResolveRowwise
<1>2. DOMAIN table = 1..Len(table) /\ Len(table) \in Nat
  BY LenProperties
<1>3. \A i \in DOMAIN table : Accepts(found, table[i]) <=> ListedAs(found, table[i])
  BY AcceptsListed
<1> HIDE DEF row
<1>4. IF \E i \in DOMAIN table : ListedAs(found, table[i])
      THEN row \in DOMAIN table /\ ListedAs(found, table[row])
      ELSE row = 0
  BY <1>1, <1>2, <1>3
<1> QED
  BY <1>4 DEF row

\* Unless its website matches, or either side names no batch, the row that is found is of a
\* batch of the post: the same name in another cohort is another company.
THEOREM ResolvedRowAgrees ==
    ASSUME NEW S, NEW table \in Seq(S), NEW found, NEW row,
           row = ResolveOfficial(found.name, found.site, table, found.batch).row, row # 0
    PROVE  \/ /\ NormalizeDomain(found.site) # NoSite
              /\ NormalizeDomain(table[row].site) = NormalizeDomain(found.site)
           \/ BatchIdentity(found.batch) = {}
           \/ BatchIdentity(table[row].batch) = {}
           \/ BatchesMatch(table[row].batch, BatchIdentity(found.batch))
<1> DEFINE alone == <<table[row]>>
<1>1. Accepts(found, table[row])
  BY ResolveRowwise
<1>2. DOMAIN alone = 1..1 /\ alone[1] = table[row]
  OBVIOUS
<1>3. ResolveOfficial(found.name, found.site, alone, found.batch).row # 0
  BY <1>1 DEF Accepts
<1> HIDE DEF alone
<1> DEFINE scope == BatchIdentity(found.batch)
           domain == ByDomain(found.site, alone)
           named == ByName(found.name, alone, scope)
           prefix == ByPrefix(found.name, alone, scope)
           handle == ByHandle(found.name, alone, scope)
<1>4. domain \union named \union prefix \union handle # {}
  BY <1>2, <1>3, ResolveFinds DEF Found
<1>5. ASSUME domain # {}
      PROVE  /\ NormalizeDomain(found.site) # NoSite
             /\ NormalizeDomain(table[row].site) = NormalizeDomain(found.site)
  BY <1>2, <1>5 DEF ByDomain
<1>6. ASSUME named # {}
      PROVE  \/ scope = {}
             \/ BatchIdentity(table[row].batch) = {}
             \/ BatchesMatch(table[row].batch, scope)
  BY <1>2, <1>6 DEF ByName
<1>7. ASSUME prefix # {} \/ handle # {} PROVE BatchesMatch(table[row].batch, scope)
  BY <1>2, <1>7 DEF ByPrefix, ByHandle
<1> QED
  BY <1>4, <1>5, <1>6, <1>7

-----------------------------------------------------------------------------
(* What a post yields, and what is decided of it *)

\* A confidence is a percentage.
LEMMA ConfidenceBounded ==
    ASSUME NEW found, NEW authorKnown
    PROVE  Confidence(found, authorKnown) \in 0..100
<1> DEFINE uncapped == ConfidenceUncapped(found, authorKnown)
<1>1. uncapped \in Nat
  <2>1. IdentityWeight(found.by) \in Nat /\ ClaimWeight(found.claim) \in Nat
    BY DEF IdentityWeight, ClaimWeight
  <2>2. /\ PointsIf(found.voice = "company_account", 12) \in Nat
        /\ PointsIf(found.batch # NoBatch, 15) \in Nat
        /\ PointsIf(found.site # NoSite, 10) \in Nat
        /\ PointsIf(authorKnown, 5) \in Nat
    BY DEF PointsIf
  <2> QED
    BY <2>1, <2>2 DEF ConfidenceUncapped
<1> HIDE DEF uncapped
<1>2. Min({100, uncapped}) \in {100, uncapped} /\ Min({100, uncapped}) <= 100
  BY <1>1, LeastElement
<1> QED
  BY <1>1, <1>2 DEF Confidence, uncapped

\* Every reading is of a company and has a confidence.
LEMMA ReadingFacts ==
    ASSUME NEW r \in Readings
    PROVE  r.about \in Companies /\ r.confidence \in 0..100
<1>1. PICK p \in Posts : r = Read(p)
  BY DEF Readings
<1>2. p.about \in Companies
  BY ClaimsAssumption DEF ClaimsAssumption
<1> QED
  BY <1>1, <1>2, ConfidenceBounded DEF Read, Reading

\* The entry of a reading: what it was matched to, its verdict and its alert.
LEMMA EntryFacts ==
    ASSUME ClaimsTables, NEW r \in Readings, NEW fresh \in BOOLEAN
    PROVE  LET e == Entry(r, fresh)
           IN  /\ e \in EntryType
               /\ e.checked = Len(rows)
               /\ FaithfulEntry(e, r)
               /\ e.verdict = "alerted" =>
                    e.alert = IF e.key \in Announced THEN "corroboration" ELSE "ghost"
<1> DEFINE match == IF r.found.reason # "none" THEN 0
                    ELSE ResolveOfficial(r.found.name, r.found.site, rows, r.found.batch).row
           verdict == Verdict(r, match, fresh)
           e == Decision(r, match, verdict, KeyOf(r))
<1>1. Entry(r, fresh) = e
  BY DEF Entry, Judged
<1>2. rows \in Seq({RowOf(c) : c \in Companies}) /\ Len(rows) \in Nat
  BY LenProperties DEF ClaimsTables
<1>3. /\ match \in 0..Len(rows)
      /\ match # 0 => r.found.reason = "none" /\ Accepts(r.found, rows[match])
      /\ r.found.reason = "none" /\ match = 0 => \A k \in 1..Len(rows) : ~Accepts(r.found, rows[k])
  <2>1. CASE r.found.reason # "none"
    BY <1>2, <2>1
  <2>2. CASE r.found.reason = "none"
    <3>1. match = ResolveOfficial(r.found.name, r.found.site, rows, r.found.batch).row
      BY <2>2
    <3>2. DOMAIN rows = 1..Len(rows)
      BY <1>2, LenProperties
    <3> HIDE DEF match
    <3> QED
      BY <1>2, <2>2, <3>1, <3>2, ResolveRowwise
  <2> QED
    BY <2>1, <2>2
<1>4. r.about \in Companies /\ r.confidence \in 0..100
  BY ReadingFacts
<1> HIDE DEF match
<1>5. /\ verdict \in {"suppressed", "already_official", "possible", "alerted"}
      /\ verdict = "alerted" =>
            r.found.reason = "none" /\ match = 0 /\ fresh /\ ~(r.confidence < MinConfidence)
  BY DEF Verdict
<1> HIDE DEF verdict
<1>6. /\ e.about = r.about /\ e.name = r.name /\ e.batch = r.batch /\ e.site = r.site
      /\ e.checked = Len(rows) /\ e.match = match /\ e.verdict = verdict
      /\ e.confidence = IF verdict = "suppressed" THEN 0 ELSE r.confidence
      /\ e.key = IF verdict = "suppressed" THEN <<>> ELSE KeyOf(r)
      /\ e.alert = IF verdict # "alerted" THEN "none"
                   ELSE IF KeyOf(r) \in Announced THEN "corroboration" ELSE "ghost"
  BY DEF Decision
<1>7. e \in EntryType
  BY <1>2, <1>3, <1>4, <1>5 DEF Decision, EntryType
<1> HIDE DEF e
<1>8. Alertable(r) <=> r.found.reason = "none" /\ ~(r.confidence < MinConfidence)
  BY DEF Alertable
<1>9. FaithfulEntry(e, r)
  BY <1>2, <1>3, <1>4, <1>5, <1>6, <1>8 DEF FaithfulEntry
<1> QED
  BY <1>1, <1>6, <1>7, <1>9

-----------------------------------------------------------------------------
(* The name that a text yields *)

\* A candidate stands in a text so many times, and not more often than the text is long.
LEMMA OccurrencesCounted ==
    ASSUME NEW text, Len(text) \in Nat, NEW words, Len(words) \in Nat \ {0}
    PROVE  Occurrences(words, text) \in 0..Len(text)
<1> DEFINE places == 1..(Len(text) - Len(words) + 1)
           found == {i \in places : SubSeq(text, i, i + Len(words) - 1) = words}
<1>1. IsFiniteSet(places) /\ Cardinality(places) <= Len(text) /\ Cardinality(places) \in Nat
  <2>1. PICK b \in Int : b = Len(text) - Len(words) + 1
    <3>1. Len(text) - Len(words) + 1 \in Int
      OBVIOUS
    <3> QED
      BY <3>1
  <2>2. 1 \in Int /\ places = 1..b /\ b <= Len(text)
    BY <2>1
  <2> HIDE DEF places
  <2>3. IsFiniteSet(1..b) /\ Cardinality(1..b) = IF 1 > b THEN 0 ELSE b - 1 + 1
    BY <2>1, <2>2, FS_Interval
  <2> QED
    BY <2>1, <2>2, <2>3
<1>2. found \in SUBSET places
  OBVIOUS
<1>3. Occurrences(words, text) = Cardinality(found)
  BY DEF Occurrences
<1> HIDE DEF places, found
<1>4. IsFiniteSet(found) /\ Cardinality(found) <= Cardinality(places)
  BY <1>1, <1>2, FS_Subset
<1>5. Cardinality(found) \in Nat
  BY <1>4, FS_CardinalityType
<1> QED
  BY <1>1, <1>3, <1>4, <1>5

\* _pick returns one of the candidates, if there are any.
LEMMA PickChooses ==
    ASSUME NEW text, Len(text) \in Nat, NEW candidates,
           \A c \in candidates : Len(c) \in 1..MaxNameTokens
    PROVE  Pick(candidates, text) # <<>> => Pick(candidates, text) \in candidates
<1>1. CASE candidates = {}
  BY <1>1 DEF Pick
<1>2. CASE candidates # {}
  <2>1. \A c \in candidates : Len(c) \in Nat \ {0} /\ Len(c) <= MaxNameTokens
    BY ExtractionAssumption DEF ExtractionAssumption
  <2>2. \A c \in candidates : Occurrences(c, text) \in 0..Len(text)
    BY <2>1, OccurrencesCounted
  <2> DEFINE rare(c) == Len(text) - Occurrences(c, text)
             short(c) == MaxNameTokens - Len(c)
  <2>3. PICK a \in candidates : \A d \in candidates : rare(a) <= rare(d)
    <3> DEFINE R == {rare(c) : c \in candidates}
    <3>1. R \subseteq Nat /\ R # {}
      BY <1>2, <2>2
    <3>2. Min(R) \in R /\ \A y \in R : Min(R) <= y
      <4> HIDE DEF R
      <4> QED
        BY <3>1, LeastElement
    <3> QED
      BY <3>2
  <2> DEFINE frequent == {c \in candidates : Occurrences(c, text) = Occurrences(a, text)}
  <2>4. PICK b \in frequent : \A d \in frequent : short(b) <= short(d)
    <3> DEFINE R == {short(c) : c \in frequent}
    <3>1. R \subseteq Nat /\ R # {}
      BY <2>1, ExtractionAssumption DEF ExtractionAssumption
    <3>2. Min(R) \in R /\ \A y \in R : Min(R) <= y
      <4> HIDE DEF R
      <4> QED
        BY <3>1, LeastElement
    <3> QED
      BY <3>2
  <2>5. \A d \in candidates :
            \/ Occurrences(b, text) > Occurrences(d, text)
            \/ /\ Occurrences(b, text) = Occurrences(d, text)
               /\ Len(b) >= Len(d)
    <3> SUFFICES ASSUME NEW d \in candidates
                 PROVE  \/ Occurrences(b, text) > Occurrences(d, text)
                        \/ /\ Occurrences(b, text) = Occurrences(d, text)
                           /\ Len(b) >= Len(d)
      OBVIOUS
    <3>1. /\ Occurrences(b, text) = Occurrences(a, text)
          /\ Occurrences(a, text) \in Nat /\ Occurrences(d, text) \in Nat
          /\ Occurrences(a, text) >= Occurrences(d, text)
      BY <2>2, <2>3
    <3>2. Occurrences(d, text) = Occurrences(a, text) => Len(b) >= Len(d)
      BY <2>1, <2>4, ExtractionAssumption DEF ExtractionAssumption
    <3> QED
      BY <3>1, <3>2
  <2>6. b \in candidates
    OBVIOUS
  <2> QED
    BY <1>2, <2>5, <2>6 DEF Pick
<1> QED
  BY <1>1, <1>2

\* Whatever runs a shape offers, the name it picks among them reads as a company.
LEMMA PickedIsValid ==
    ASSUME NEW text, Len(text) \in Nat, NEW runs, NEW upper,
           NEW name, name = Pick(Candidates(runs, upper), text), name # <<>>
    PROVE  ValidName(name)
<1>1. \A c \in Candidates(runs, upper) : ValidName(c) /\ Len(c) \in 1..MaxNameTokens
  BY DEF Candidates, ValidName
<1>2. name \in Candidates(runs, upper)
  BY <1>1, PickChooses
<1> QED
  BY <1>1, <1>2

\* A shape looks at one place after the other, and extract_company at one shape after the
\* other; what they find stands at one of them.
LEMMA FirstNameFound ==
    ASSUME NEW nameAt, DOMAIN nameAt \subseteq Nat,
           NEW name, name = FirstName(nameAt), name # <<>>
    PROVE  \E i \in DOMAIN nameAt : name = nameAt[i]
<1> DEFINE good == {i \in DOMAIN nameAt : nameAt[i] # <<>>}
<1>1. good # {} /\ good \subseteq Nat /\ name = nameAt[Min(good)]
  BY DEF FirstName
<1>2. Min(good) \in good
  <2> HIDE DEF good
  <2> QED
    BY <1>1, LeastElement
<1> QED
  BY <1>1, <1>2

\* The name of a company reads as one, or is a handle that is no program's.
CompanyName(name) == ValidName(name) \/ \E w \in Handles \ ProgramHandles : name = <<w>>

LEMMA ExtractedName ==
    ASSUME NEW text, text \in Seq(Range(text)),
           NEW name, name = ExtractCompany(text).name, name # <<>>
    PROVE  CompanyName(name)
<1>1. DOMAIN text \subseteq Nat /\ Len(text) \in Nat
  BY LenProperties
<1> DEFINE tagged == FirstName([i \in InText(text, ProgramTags) |-> Tagged(text, i)])
           claimed == FirstName([i \in InText(text, ClaimAnchors) |-> Claimed(text, i)])
           owned == FirstName([i \in InText(text, PossessiveAnchors) |-> Owned(text, i)])
           built == FirstName([i \in InText(text, BuildVerbs) |-> Built(text, i)])
<1>2. \A class : InText(text, class) \subseteq Nat
  BY <1>1 DEF InText
<1>3. ASSUME tagged # <<>> PROVE CompanyName(tagged)
  <2> DEFINE nameAt == [i \in InText(text, ProgramTags) |-> Tagged(text, i)]
  <2>1. DOMAIN nameAt \subseteq Nat /\ tagged = FirstName(nameAt)
    BY <1>2
  <2>2. \E i \in DOMAIN nameAt : tagged = nameAt[i]
    <3> HIDE DEF nameAt, tagged
    <3> QED
      BY <1>3, <2>1, FirstNameFound
  <2>3. PICK i : tagged = Tagged(text, i)
    BY <2>2
  <2> HIDE DEF tagged
  <2> QED
    BY <1>1, <1>3, <2>3, PickedIsValid DEF Tagged, BestSuffix, CompanyName
<1>4. ASSUME claimed # <<>> PROVE CompanyName(claimed)
  <2> DEFINE nameAt == [i \in InText(text, ClaimAnchors) |-> Claimed(text, i)]
  <2>1. DOMAIN nameAt \subseteq Nat /\ claimed = FirstName(nameAt)
    BY <1>2
  <2>2. \E i \in DOMAIN nameAt : claimed = nameAt[i]
    <3> HIDE DEF nameAt, claimed
    <3> QED
      BY <1>4, <2>1, FirstNameFound
  <2>3. PICK i : claimed = Claimed(text, i)
    BY <2>2
  <2> HIDE DEF claimed
  <2> QED
    BY <1>1, <1>4, <2>3, PickedIsValid DEF Claimed, BestSuffix, CompanyName
<1>5. ASSUME owned # <<>> PROVE CompanyName(owned)
  <2> DEFINE nameAt == [i \in InText(text, PossessiveAnchors) |-> Owned(text, i)]
  <2>1. DOMAIN nameAt \subseteq Nat /\ owned = FirstName(nameAt)
    BY <1>2
  <2>2. \E i \in DOMAIN nameAt : owned = nameAt[i]
    <3> HIDE DEF nameAt, owned
    <3> QED
      BY <1>5, <2>1, FirstNameFound
  <2>3. PICK i : owned = Owned(text, i)
    BY <2>2
  <2> HIDE DEF owned
  <2> QED
    BY <1>1, <1>5, <2>3, PickedIsValid DEF Owned, BestPrefix, CompanyName
<1>6. ASSUME built # <<>> PROVE CompanyName(built)
  <2> DEFINE nameAt == [i \in InText(text, BuildVerbs) |-> Built(text, i)]
  <2>1. DOMAIN nameAt \subseteq Nat /\ built = FirstName(nameAt)
    BY <1>2
  <2>2. \E i \in DOMAIN nameAt : built = nameAt[i]
    <3> HIDE DEF nameAt, built
    <3> QED
      BY <1>6, <2>1, FirstNameFound
  <2>3. PICK i : built = Built(text, i)
    BY <2>2
  <2> HIDE DEF built
  <2> QED
    BY <1>6, <2>3 DEF Built, CompanyName
<1> DEFINE shapes == <<[by |-> "program_tag", name |-> tagged],
                       [by |-> "claim_anchor", name |-> claimed],
                       [by |-> "possessive", name |-> owned],
                       [by |-> "product_handle", name |-> built]>>
           good == {i \in DOMAIN shapes : shapes[i].name # <<>>}
<1>7. ExtractCompany(text) = FirstShape(shapes)
  BY DEF ExtractCompany
<1>8. /\ DOMAIN shapes = 1..4
      /\ shapes[1].name = tagged /\ shapes[2].name = claimed
      /\ shapes[3].name = owned /\ shapes[4].name = built
  <2> HIDE DEF tagged, claimed, owned, built
  <2> QED
    OBVIOUS
<1> HIDE DEF shapes, tagged, claimed, owned, built
<1>9. good # {} /\ name = shapes[Min(good)].name
  BY <1>7 DEF FirstShape
<1>10. Min(good) \in good
  <2>1. good \subseteq Nat
    BY <1>8
  <2> HIDE DEF good
  <2> QED
    BY <1>9, <2>1, LeastElement
<1>11. Min(good) \in 1..4
  BY <1>8, <1>10
<1> HIDE DEF good
<1> QED
  BY <1>3, <1>4, <1>5, <1>6, <1>8, <1>9, <1>11

\* What no gate refuses has passed them all.
LEMMA GatesPassed ==
    ASSUME NEW post, NEW company, Reason(Gates(post, company)) = "none"
    PROVE  /\ Has(post.text, YcTerms \union SpeedrunTerms)
           /\ company.name # <<>> \/ ExtractDomain(post.text) # NoSite
           /\ post.page = NoPage \/ company.name = <<>> \/ FitsPage(post.page, company.name)
           /\ \/ ClaimKind(post.text) # "none"
              \/ company.by = "program_tag"
              \/ AuthorVoice(post) = "company_account"
<1> DEFINE gates == Gates(post, company)
           refusing == {i \in DOMAIN gates : gates[i].refuses}
<1>1. /\ DOMAIN gates = 1..5
      /\ \A i \in 1..5 : gates[i].reason # "none"
  BY DEF Gates
<1>2. refusing = {}
  <2> SUFFICES ASSUME refusing # {} PROVE FALSE
    OBVIOUS
  <2> HIDE DEF gates
  <2>1. refusing \subseteq Nat /\ refusing \subseteq 1..5
    BY <1>1
  <2>2. Min(refusing) \in refusing
    <3> HIDE DEF refusing
    <3> QED
      BY <2>1, LeastElement
  <2>3. Min(refusing) \in 1..5
    <3> HIDE DEF refusing
    <3> QED
      BY <2>1, <2>2
  <2>4. Reason(gates) = gates[Min(refusing)].reason
    BY DEF Reason
  <2> QED
    BY <1>1, <2>3, <2>4 DEF gates
<1>3. ~gates[1].refuses /\ ~gates[2].refuses /\ ~gates[3].refuses /\ ~gates[5].refuses
  <2> HIDE DEF gates
  <2> QED
    BY <1>1, <1>2
<1>4. /\ gates[1].refuses = ~Has(post.text, YcTerms \union SpeedrunTerms)
      /\ gates[2].refuses = (company.name = <<>> /\ ExtractDomain(post.text) = NoSite)
      /\ gates[3].refuses = (/\ post.page # NoPage /\ company.name # <<>>
                             /\ ~FitsPage(post.page, company.name))
      /\ gates[5].refuses = (/\ ClaimKind(post.text) = "none" /\ company.by # "program_tag"
                             /\ AuthorVoice(post) # "company_account")
  BY DEF Gates
<1> HIDE DEF gates
<1> QED
  BY <1>3, <1>4

\* A post that the program may use says which company it is about, and why.
THEOREM UsableIsIdentified ==
    ASSUME NEW p \in Posts, Extract(p).reason = "none"
    PROVE  Identified(p, Extract(p))
<1> DEFINE company == ExtractCompany(p.text)
           found == Extract(p)
<1>1. /\ found.name = company.name /\ found.by = company.by
      /\ found.site = ExtractDomain(p.text)
      /\ found.reason = Reason(Gates(p, company))
  BY DEF Extract, YieldOf
<1>2. p.text \in Seq(Range(p.text))
  BY ClaimsAssumption DEF ClaimsAssumption
<1>3. company.name # <<>> => CompanyName(company.name)
  BY <1>2, ExtractedName
<1> HIDE DEF company, found
<1>4. Identified(p, found)
  BY <1>1, <1>3, GatesPassed DEF found, Identified, CompanyName
<1> QED
  BY <1>4 DEF found

-----------------------------------------------------------------------------
(* The inductive invariant *)

\* There is nothing to begin with.
LEMMA ClaimsStart == ClaimsInit => ClaimsInv
BY DEF ClaimsInit, ClaimsInv, ClaimsTables, FaithfulLedger, KeysAnnouncedOnce

\* A new row leaves the entries what they were: they speak of the rows of their time.
LEMMA ListKeeps ==
    ASSUME ClaimsInv, NEW c \in Companies, List(c)
    PROVE  ClaimsInv'
<1> DEFINE table == {RowOf(a) : a \in Companies}
<1>1. /\ rows \in Seq(table) /\ ledger \in Seq(EntryType)
      /\ FaithfulLedger /\ KeysAnnouncedOnce
  BY DEF ClaimsInv, ClaimsTables
<1>2. rows' = Append(rows, RowOf(c)) /\ ledger' = ledger
  BY DEF List
<1>3. RowOf(c) \in table
  OBVIOUS
<1> HIDE DEF table
<1>4. /\ rows' \in Seq(table) /\ Len(rows') = Len(rows) + 1
      /\ Len(rows) \in Nat
      /\ \A k \in 1..Len(rows) : rows'[k] = rows[k]
  BY <1>1, <1>2, <1>3, AppendProperties
<1>5. ClaimsTables'
  BY <1>1, <1>2, <1>4 DEF ClaimsTables, table
<1>6. FaithfulLedger'
  <2> SUFFICES ASSUME NEW i \in DOMAIN ledger
               PROVE  \E r \in Readings : FaithfulEntry(ledger[i], r)'
    BY <1>2 DEF FaithfulLedger
  <2>1. PICK r \in Readings : FaithfulEntry(ledger[i], r)
    BY <1>1 DEF FaithfulLedger
  <2>2. PICK e \in EntryType : ledger[i] = e
    BY <1>1, ElementOfSeq
  <2>3. e.checked \in Nat /\ e.match \in Nat
    BY DEF EntryType
  <2>4. \A k \in 1..e.checked : rows'[k] = rows[k]
    BY <1>4, <2>1, <2>2, <2>3 DEF FaithfulEntry
  <2>5. e.match # 0 => rows'[e.match] = rows[e.match]
    BY <2>1, <2>2, <2>3, <2>4 DEF FaithfulEntry
  <2>6. e.checked <= Len(rows')
    BY <1>4, <2>1, <2>2, <2>3 DEF FaithfulEntry
  <2>7. FaithfulEntry(ledger[i], r)'
    BY <1>2, <2>1, <2>2, <2>4, <2>5, <2>6 DEF FaithfulEntry
  <2> QED
    BY <2>7
<1>7. KeysAnnouncedOnce'
  BY <1>1, <1>2 DEF KeysAnnouncedOnce
<1> QED
  BY <1>5, <1>6, <1>7 DEF ClaimsInv

\* A new entry is what its post says, and is the first of its key exactly if it is announced
\* as the first.
LEMMA IngestKeeps ==
    ASSUME ClaimsInv, NEW r \in Readings, NEW fresh \in BOOLEAN, Ingest(r, fresh)
    PROVE  ClaimsInv'
<1>1. /\ ClaimsTables /\ FaithfulLedger /\ KeysAnnouncedOnce
      /\ ledger \in Seq(EntryType)
  BY DEF ClaimsInv, ClaimsTables
<1>2. PICK e : e = Entry(r, fresh)
  OBVIOUS
<1>3. /\ e \in EntryType
      /\ FaithfulEntry(e, r)
      /\ e.verdict = "alerted" => e.alert = IF e.key \in Announced THEN "corroboration" ELSE "ghost"
  BY <1>1, <1>2, EntryFacts
<1>4. ledger' = Append(ledger, e) /\ rows' = rows
  BY <1>2 DEF Ingest
<1> DEFINE n == Len(ledger)
<1>5. /\ n \in Nat /\ DOMAIN ledger = 1..n
      /\ ledger' \in Seq(EntryType) /\ DOMAIN ledger' = 1..(n + 1)
      /\ \A i \in 1..n : ledger'[i] = ledger[i]
      /\ ledger'[n + 1] = e
  BY <1>1, <1>3, <1>4, AppendProperties, LenProperties
<1> HIDE DEF n
<1>6. ClaimsTables'
  BY <1>1, <1>4, <1>5 DEF ClaimsTables
<1>7. FaithfulLedger'
  <2> SUFFICES ASSUME NEW i \in 1..(n + 1)
               PROVE  \E q \in Readings : FaithfulEntry(ledger[i], q)'
    BY <1>5 DEF FaithfulLedger
  <2>1. ASSUME NEW a, NEW q, FaithfulEntry(a, q)
        PROVE  FaithfulEntry(a, q)'
    BY <1>4, <2>1 DEF FaithfulEntry
  <2>2. PICK a : a = ledger'[i]
    OBVIOUS
  <2>3. \E q \in Readings : FaithfulEntry(a, q)
    <3>1. CASE i = n + 1
      BY <1>3, <1>5, <2>2, <3>1
    <3>2. CASE i \in 1..n
      BY <1>1, <1>5, <2>2, <3>2 DEF FaithfulLedger
    <3> QED
      BY <1>5, <3>1, <3>2
  <2>4. \E q \in Readings : FaithfulEntry(a, q)'
    BY <2>1, <2>3
  <2> QED
    BY <2>2, <2>4 DEF FaithfulEntry
<1>8. \A i \in 1..n : ledger[i].alert # "none" <=> ledger[i].verdict = "alerted"
  BY <1>1, <1>5 DEF FaithfulLedger, FaithfulEntry
<1>9. e.alert # "none" <=> e.verdict = "alerted"
  BY <1>3 DEF FaithfulEntry
<1>10. /\ e.alert = "ghost" => e.key \notin Announced
       /\ e.alert = "corroboration" => e.key \in Announced
  BY <1>3, <1>9
<1>11. Announced = {ledger[i].key : i \in {j \in 1..n : ledger[j].alert # "none"}}
  BY <1>5, <1>8 DEF Announced
<1>12. \A i \in 1..n : ledger[i].alert \in {"none", "ghost", "corroboration"}
  <2>1. \A i \in 1..n : ledger[i] \in EntryType
    BY <1>1, <1>5, ElementOfSeq
  <2> QED
    BY <2>1 DEF EntryType
<1>13. KeysAnnouncedOnce'
  <2>1. ASSUME NEW i \in 1..(n + 1), NEW j \in 1..(n + 1),
               ledger'[i].alert = "ghost", ledger'[j].alert = "ghost",
               ledger'[i].key = ledger'[j].key
        PROVE  i = j
    <3>1. CASE i \in 1..n /\ j \in 1..n
      BY <1>1, <1>5, <2>1, <3>1 DEF KeysAnnouncedOnce
    <3>2. ASSUME NEW k \in 1..n, ledger[k].alert = "ghost", e.alert = "ghost"
          PROVE  ledger[k].key # e.key
      BY <1>10, <1>11, <3>2
    <3>3. CASE i = n + 1 /\ j \in 1..n
      BY <1>5, <2>1, <3>2, <3>3
    <3>4. CASE i \in 1..n /\ j = n + 1
      BY <1>5, <2>1, <3>2, <3>4
    <3> QED
      BY <1>5, <3>1, <3>3, <3>4
  <2>2. ASSUME NEW i \in 1..(n + 1), ledger'[i].alert = "corroboration"
        PROVE  \E k \in 1..(i - 1) : ledger'[k].alert = "ghost" /\ ledger'[k].key = ledger'[i].key
    <3>1. CASE i \in 1..n
      <4>1. PICK k \in 1..(i - 1) : ledger[k].alert = "ghost" /\ ledger[k].key = ledger[i].key
        BY <1>1, <1>5, <2>2, <3>1 DEF KeysAnnouncedOnce
      <4>2. k \in 1..n
        BY <1>5, <3>1
      <4> QED
        BY <1>5, <3>1, <4>1, <4>2
    <3>2. CASE i = n + 1
      <4>1. e.key \in Announced
        BY <1>5, <1>10, <2>2, <3>2
      <4>2. PICK k \in 1..n : ledger[k].alert # "none" /\ ledger[k].key = e.key
        BY <1>11, <4>1
      <4>3. CASE ledger[k].alert = "ghost"
        BY <1>5, <3>2, <4>2, <4>3
      <4>4. CASE ledger[k].alert = "corroboration"
        <5>1. PICK l \in 1..(k - 1) : ledger[l].alert = "ghost" /\ ledger[l].key = ledger[k].key
          BY <1>1, <1>5, <4>4 DEF KeysAnnouncedOnce
        <5>2. l \in 1..n /\ l \in 1..(i - 1)
          BY <1>5, <3>2
        <5> QED
          BY <1>5, <3>2, <4>2, <5>1, <5>2
      <4> QED
        BY <1>12, <4>2, <4>3, <4>4
    <3> QED
      BY <1>5, <3>1, <3>2
  <2> QED
    BY <1>5, <2>1, <2>2 DEF KeysAnnouncedOnce
<1> QED
  BY <1>6, <1>7, <1>13 DEF ClaimsInv

\* Every entry is faithful to its post, and every company key is announced once, whatever
\* the companies, the posts and the order they come in (engine.py:182-285).
THEOREM ClaimsInvariant == ClaimsSpec => []ClaimsInv
<1>1. ASSUME ClaimsInv, [ClaimsNext]_vars
      PROVE  ClaimsInv'
  <2>1. CASE ClaimsNext
    BY <1>1, <2>1, ListKeeps, IngestKeeps DEF ClaimsNext
  <2>2. CASE UNCHANGED vars
    BY <1>1, <2>2 DEF vars, ClaimsInv, ClaimsTables, FaithfulLedger, FaithfulEntry,
                      KeysAnnouncedOnce
  <2> QED
    BY <1>1, <2>1, <2>2
<1> QED
  BY <1>1, ClaimsStart, PTL DEF ClaimsSpec

-----------------------------------------------------------------------------
(* What follows for the posts about a company *)

\* An entry, its post, and the rows of its time.
LEMMA EntryOfPost ==
    ASSUME ClaimsInv, NEW i \in DOMAIN ledger
    PROVE  /\ ledger[i] \in EntryType
           /\ \E r \in Readings : FaithfulEntry(ledger[i], r)
           /\ \A k \in 1..ledger[i].checked :
                /\ k \in DOMAIN rows
                /\ \E c \in Companies : rows[k] = RowOf(c)
<1>1. /\ rows \in Seq({RowOf(c) : c \in Companies}) /\ ledger \in Seq(EntryType)
      /\ FaithfulLedger
  BY DEF ClaimsInv, ClaimsTables
<1>2. ledger[i] \in EntryType
  BY <1>1, ElementOfSeq
<1>3. PICK r \in Readings : FaithfulEntry(ledger[i], r)
  BY <1>1 DEF FaithfulLedger
<1>4. ledger[i].checked \in Nat /\ ledger[i].checked <= Len(rows)
  BY <1>2, <1>3 DEF EntryType, FaithfulEntry
<1>5. DOMAIN rows = 1..Len(rows) /\ Len(rows) \in Nat
  BY <1>1, LenProperties
<1>6. ASSUME NEW k \in 1..ledger[i].checked
      PROVE  k \in DOMAIN rows /\ \E c \in Companies : rows[k] = RowOf(c)
  <2>1. k \in DOMAIN rows
    BY <1>4, <1>5
  <2>2. rows[k] \in {RowOf(c) : c \in Companies}
    BY <1>1, <2>1, ElementOfSeq
  <2> QED
    BY <2>1, <2>2
<1> QED
  BY <1>2, <1>3, <1>6

\* Types: a confidence is a percentage and a match is a row that was there.
THEOREM ClaimsTypeCorrect == ClaimsSpec => []ClaimsTypeOK
<1>1. ClaimsInv => ClaimsTypeOK
  <2> SUFFICES ASSUME ClaimsInv PROVE ClaimsTypeOK
    OBVIOUS
  <2>1. ASSUME NEW i \in DOMAIN rows PROVE rows[i].about \in Companies
    <3>1. rows[i] \in {RowOf(c) : c \in Companies}
      BY ElementOfSeq DEF ClaimsInv, ClaimsTables
    <3> QED
      BY <3>1 DEF RowOf
  <2>2. ASSUME NEW i \in DOMAIN ledger
        PROVE  /\ ledger[i].verdict \in {"suppressed", "already_official", "possible", "alerted"}
               /\ ledger[i].confidence \in 0..100
               /\ ledger[i].match \in 0..ledger[i].checked
    <3>1. ledger[i] \in EntryType /\ \E r \in Readings : FaithfulEntry(ledger[i], r)
      BY EntryOfPost
    <3> QED
      BY <3>1 DEF EntryType, FaithfulEntry
  <2> QED
    BY <2>1, <2>2 DEF ClaimsTypeOK
<1> QED
  BY <1>1, ClaimsInvariant, PTL

\* A key stands for what the engine compares.
LEMMA KeysCompareFinds ==
    ASSUME NEW a, NEW b
    PROVE  KeyOf(a) = KeyOf(b) <=> SameFind(a.found, b.found)
BY DEF KeyOf, CompanyKey, SameFind

\* Whatever the constants: no company is announced that a row lists under what the program
\* read of it, nothing is matched to a row that does not, and none is announced twice under the same website, or the same program, batch
\* and name (engine.py:196, engine.py:269-285).
THEOREM DecisionsFollowReading == ClaimsSpec => []DecidedAsRead
<1>1. ClaimsInv => DecidedAsRead
  <2> SUFFICES ASSUME ClaimsInv PROVE DecidedAsRead
    OBVIOUS
  <2>1. ASSUME NEW i \in DOMAIN ledger, NEW a \in Readings, FaithfulEntry(ledger[i], a)
        PROVE  /\ ledger[i].alert # "none" => ledger[i].key = KeyOf(a)
               /\ ledger[i].verdict = "alerted" =>
                    \A k \in 1..ledger[i].checked : ~ListedAs(a.found, rows[k])
               /\ ledger[i].match # 0 => ListedAs(a.found, rows[ledger[i].match])
    BY <2>1, AcceptsListed DEF FaithfulEntry
  <2> SUFFICES ASSUME NEW i \in DOMAIN ledger
               PROVE  \E a \in Readings :
                        /\ FaithfulEntry(ledger[i], a)
                        /\ ledger[i].match # 0 => ListedAs(a.found, rows[ledger[i].match])
                        /\ ledger[i].verdict = "alerted" =>
                            \A k \in 1..ledger[i].checked : ~ListedAs(a.found, rows[k])
                        /\ ledger[i].alert = "ghost" =>
                            \A j \in DOMAIN ledger \ {i} : \E b \in Readings :
                                /\ FaithfulEntry(ledger[j], b)
                                /\ ledger[j].alert = "ghost" => ~SameFind(a.found, b.found)
                        /\ ledger[i].alert = "corroboration" =>
                            \E j \in 1..(i - 1) : \E b \in Readings :
                                /\ ledger[j].alert = "ghost"
                                /\ FaithfulEntry(ledger[j], b)
                                /\ SameFind(a.found, b.found)
    BY DEF DecidedAsRead
  <2> PICK a \in Readings : FaithfulEntry(ledger[i], a)
    BY EntryOfPost
  <2>2. ASSUME ledger[i].alert = "ghost", NEW j \in DOMAIN ledger \ {i}
        PROVE  \E b \in Readings :
                /\ FaithfulEntry(ledger[j], b)
                /\ ledger[j].alert = "ghost" => ~SameFind(a.found, b.found)
    <3>1. PICK b \in Readings : FaithfulEntry(ledger[j], b)
      BY EntryOfPost
    <3>2. ASSUME ledger[j].alert = "ghost" PROVE ~SameFind(a.found, b.found)
      <4>1. ledger[i].key # ledger[j].key
        BY <2>2, <3>2 DEF ClaimsInv, KeysAnnouncedOnce
      <4>2. ledger[i].key = KeyOf(a) /\ ledger[j].key = KeyOf(b)
        BY <2>1, <2>2, <3>1, <3>2
      <4> QED
        BY <4>1, <4>2, KeysCompareFinds
    <3> QED
      BY <3>1, <3>2
  <2>3. ASSUME ledger[i].alert = "corroboration"
        PROVE  \E j \in 1..(i - 1) : \E b \in Readings :
                /\ ledger[j].alert = "ghost"
                /\ FaithfulEntry(ledger[j], b)
                /\ SameFind(a.found, b.found)
    <3>1. PICK j \in 1..(i - 1) : ledger[j].alert = "ghost" /\ ledger[j].key = ledger[i].key
      BY <2>3 DEF ClaimsInv, KeysAnnouncedOnce
    <3>2. j \in DOMAIN ledger
      BY LenProperties DEF ClaimsInv, ClaimsTables
    <3>3. PICK b \in Readings : FaithfulEntry(ledger[j], b)
      BY <3>2, EntryOfPost
    <3>4. KeyOf(a) = KeyOf(b)
      BY <2>1, <2>3, <3>1, <3>2, <3>3
    <3> QED
      BY <3>1, <3>3, <3>4, KeysCompareFinds
  <2>4. /\ ledger[i].match # 0 => ListedAs(a.found, rows[ledger[i].match])
        /\ ledger[i].verdict = "alerted" =>
            \A k \in 1..ledger[i].checked : ~ListedAs(a.found, rows[k])
    BY <2>1
  <2> QED
    BY <2>2, <2>3, <2>4, Zenon
<1> QED
  BY <1>1, ClaimsInvariant, PTL

\* Whatever the constants: what is announced speaks of a program, names a company or gives a
\* website, and makes a claim; a sentence, a program or a page is never announced as a company
\* (extract.py:199-227, extract.py:477-579).
THEOREM AnnouncedAreIdentified == ClaimsSpec => []AnnouncedIdentified
<1>1. ClaimsInv => AnnouncedIdentified
  <2> SUFFICES ASSUME ClaimsInv, NEW i \in DOMAIN ledger, ledger[i].verdict = "alerted"
               PROVE  \E p \in Posts : FaithfulEntry(ledger[i], Read(p)) /\ Identified(p, Extract(p))
    BY DEF AnnouncedIdentified
  <2>1. PICK p \in Posts : FaithfulEntry(ledger[i], Read(p))
    BY EntryOfPost DEF Readings
  <2>2. Alertable(Read(p))
    BY <2>1 DEF FaithfulEntry
  <2>3. Extract(p).reason = "none"
    BY <2>2 DEF Alertable, Read, Reading
  <2> QED
    BY <2>1, <2>3, UsableIsIdentified
<1> QED
  BY <1>1, ClaimsInvariant, PTL
=============================================================================
