----------------------------- MODULE Extraction -----------------------------
(***************************************************************************)
(* Which company a post is about, and whether it announces an acceptance:  *)
(* app/extract.py, and the scores of app/intelligence.py.                  *)
(*                                                                         *)
(* The text of a post is a sequence of words.  What a regular expression   *)
(* of the source matches, such as "(YC F26)" or "is now backed by Y        *)
(* Combinator", is one word, and the constants say to which of the         *)
(* patterns and lists of the source a word belongs.  A post has its text,  *)
(* its author, if known, and the LinkedIn page it is from, if any: that of *)
(* a company, or of a school or a showcase, which has no voice.            *)
(***************************************************************************)
EXTENDS Matching

CONSTANTS
    ProgramTags,        \* PROGRAM_TAG
    ClaimAnchors,       \* CLAIM_ANCHOR
    PossessiveAnchors,  \* POSSESSIVE_ANCHOR
    BuildVerbs,         \* the verbs of PRODUCT_HANDLE
    Handles,            \* words that begin with an @
    ProgramHandles,     \* _PROGRAM_HANDLES
    Boundaries,         \* _SEGMENT_SPLIT
    ThreadMarkers,      \* _THREAD_MARKER
    LowerCase,          \* words that begin with a lower-case letter
    Generic,            \* _GENERIC_COMPONENTS
    Fragments,          \* _FRAGMENT_TOKENS, _CHROME_MARKERS and _NAME_STOPLIST
    YcTerms,            \* YC_TERMS and YC_BATCH_REFERENCE
    SpeedrunTerms,      \* SPEEDRUN_TERMS and SPEEDRUN_COHORT_REFERENCE
    BatchIn,            \* [word -> code]: BATCH_PATTERN
    SiteIn,             \* [word -> website]: DOMAIN_PATTERN without _EXCLUDED_DOMAINS
    FirstPerson,        \* FIRST_PERSON_CLAIMS
    CompanyVoice,       \* COMPANY_VOICE_CLAIMS
    Disqualifying,      \* DISQUALIFYING_CONTEXT
    NoPage,             \* the page of a post that is from none
    MaxNameTokens,      \* _MAX_NAME_TOKENS
    MinConfidence       \* min_signal_confidence

ASSUME ExtractionAssumption == MaxNameTokens \in Nat

-----------------------------------------------------------------------------
(* Names in a text *)

InText(text, class) == {i \in DOMAIN text : text[i] \in class}

Has(text, class) == InText(text, class) # {}

\* clean_company_name: no thread counter in front, no tag behind.
CleanName(words) ==
    LET start == IF words # <<>> /\ words[1] \in ThreadMarkers THEN 2 ELSE 1
        end == IF words # <<>> /\ words[Len(words)] \in ProgramTags
               THEN Len(words) - 1 ELSE Len(words)
    IN  SubSeq(words, start, end)

\* Faulty: the words of a sentence may be part of a name.
ValidAnyWords(words) ==
    /\ Len(words) \in 1..MaxNameTokens
    /\ \A i \in DOMAIN words : words[i] \in DOMAIN Spelling
    /\ Len(words) = 1 => words[1] \notin Generic \union DOMAIN BatchIn

\* valid_company_name: no sentence, no page furniture, no program, no bare component.
ValidName(words) ==
    /\ Len(words) \in 1..MaxNameTokens
    /\ ~Has(words, Fragments)
    /\ \A i \in DOMAIN words : words[i] \in DOMAIN Spelling
    /\ Len(words) = 1 => words[1] \notin Generic \union DOMAIN BatchIn

\* How often a name stands in the text.
Occurrences(words, text) ==
    Cardinality({i \in 1..(Len(text) - Len(words) + 1) :
                    SubSeq(text, i, i + Len(words) - 1) = words})

\* _pick: what recurs in the text, then the longest; <<>> if there is nothing.
Pick(candidates, text) ==
    IF candidates = {} THEN <<>>
    ELSE CHOOSE c \in candidates :
            \A d \in candidates :
                \/ Occurrences(c, text) > Occurrences(d, text)
                \/ /\ Occurrences(c, text) = Occurrences(d, text)
                   /\ Len(c) >= Len(d)

Sizes(segment) == 1..Min({MaxNameTokens, Len(segment)})

\* The cleaned runs that may be names; some anchors want a capital letter.
Candidates(runs, requireUpper) ==
    {c \in {CleanName(w) : w \in runs} :
        ValidName(c) /\ (requireUpper => c[1] \notin LowerCase)}

\* _best_suffix
BestSuffix(segment, text, requireUpper) ==
    Pick(Candidates({SubSeq(segment, Len(segment) - n + 1, Len(segment)) : n \in Sizes(segment)},
                    requireUpper), text)

\* _best_prefix
BestPrefix(segment, text, requireUpper) ==
    Pick(Candidates({SubSeq(segment, 1, n) : n \in Sizes(segment)}, requireUpper), text)

\* The words before a place, from the last boundary on; and those after one.
SegmentBefore(text, i) ==
    SubSeq(text, Max({0} \union {b \in InText(text, Boundaries) : b < i}) + 1, i - 1)

SegmentAfter(text, i) ==
    SubSeq(text, i + 1,
           Min({Len(text) + 1} \union {b \in InText(text, Boundaries) : b > i}) - 1)

-----------------------------------------------------------------------------
(* The four shapes of extract_company *)

Tagged(text, i) == BestSuffix(SegmentBefore(text, i), text, FALSE)

Claimed(text, i) == BestSuffix(SegmentBefore(text, i), text, TRUE)

Owned(text, i) == BestPrefix(SegmentAfter(text, i), text, TRUE)

Built(text, i) ==
    IF i < Len(text) /\ text[i + 1] \in Handles \ ProgramHandles
    THEN <<text[i + 1]>> ELSE <<>>

\* The name at the first place that yields one.
FirstName(nameAt) ==
    LET good == {i \in DOMAIN nameAt : nameAt[i] # <<>>}
    IN  IF good = {} THEN <<>> ELSE nameAt[Min(good)]

\* The first shape that found a name.
FirstShape(shapes) ==
    LET good == {i \in DOMAIN shapes : shapes[i].name # <<>>}
    IN  IF good = {} THEN [by |-> "none", name |-> <<>>] ELSE shapes[Min(good)]

\* extract_company: the name and the shape that found it.
ExtractCompany(text) ==
    FirstShape(<<
        [by |-> "program_tag",
         name |-> FirstName([i \in InText(text, ProgramTags) |-> Tagged(text, i)])],
        [by |-> "claim_anchor",
         name |-> FirstName([i \in InText(text, ClaimAnchors) |-> Claimed(text, i)])],
        [by |-> "possessive",
         name |-> FirstName([i \in InText(text, PossessiveAnchors) |-> Owned(text, i)])],
        [by |-> "product_handle",
         name |-> FirstName([i \in InText(text, BuildVerbs) |-> Built(text, i)])]>>)

-----------------------------------------------------------------------------
(* What a post yields *)

\* The first word of a class, looked up in its table.
FirstIn(text, table, none) ==
    LET places == InText(text, DOMAIN table)
    IN  IF places = {} THEN none ELSE table[text[Min(places)]]

Program(text) ==
    IF Has(text, SpeedrunTerms) /\ ~Has(text, YcTerms) THEN "speedrun" ELSE "yc"

\* extract_domain
ExtractDomain(text) == FirstIn(text, SiteIn, NoSite)

ClaimKind(text) ==
    IF Has(text, FirstPerson) THEN "first_person"
    ELSE IF Has(text, CompanyVoice) THEN "company_voice" ELSE "none"

AuthorVoice(post) ==
    IF post.page # NoPage /\ post.ofCompany THEN "company_account"
    ELSE IF Has(post.text, FirstPerson) THEN "founder_first_person" ELSE "third_party"

\* _identity_fits_slug: one contains the other, or is too short to tell.
ContainsRun(a, b) == \E i \in 1..(Len(a) - Len(b) + 1) : SubSeq(a, i, i + Len(b) - 1) = b

FitsPage(page, name) ==
    LET slug == NormalizeName(page)
        squashed == NormalizeName(CleanName(name))
    IN  \/ Letters(slug) < 3 \/ Letters(squashed) < 3
        \/ ContainsRun(slug, squashed) \/ ContainsRun(squashed, slug)

\* The gates of extract, in their order, and what a post is refused for at each.
Gates(post, company) ==
    LET text == post.text
        claimed == ClaimKind(text) # "none"
        voice == AuthorVoice(post)
    IN  <<[reason |-> "no_program_evidence",
           refuses |-> ~Has(text, YcTerms \union SpeedrunTerms)],
          [reason |-> "no_company_identity",
           refuses |-> company.name = <<>> /\ ExtractDomain(text) = NoSite],
          [reason |-> "identity_contradicts_page",
           refuses |-> post.page # NoPage /\ company.name # <<>>
                           /\ ~FitsPage(post.page, company.name)],
          [reason |-> "context",
           refuses |-> Has(text, Disqualifying) /\ ~(claimed /\ voice # "third_party")],
          [reason |-> "no_acceptance_claim",
           refuses |-> ~claimed /\ company.by # "program_tag" /\ voice # "company_account"]>>

\* The reason for which a post is of no use, or "none".
Reason(gates) ==
    LET refusing == {i \in DOMAIN gates : gates[i].refuses}
    IN  IF refusing = {} THEN "none" ELSE gates[Min(refusing)].reason

\* What a post yields that is about a company, or about none.
YieldOf(post, company) ==
    [name |-> company.name, by |-> company.by,
     site |-> ExtractDomain(post.text), batch |-> FirstIn(post.text, BatchIn, NoBatch),
     program |-> Program(post.text), voice |-> AuthorVoice(post),
     claim |-> ClaimKind(post.text), reason |-> Reason(Gates(post, company))]

\* extract and enrich_signal
Extract(post) == YieldOf(post, ExtractCompany(post.text))

-----------------------------------------------------------------------------
(* Confidence *)

IdentityWeight(by) ==
    CASE by = "program_tag" -> 35 [] by \in {"claim_anchor", "possessive"} -> 25 [] OTHER -> 0

ClaimWeight(kind) ==
    CASE kind = "first_person" -> 25 [] kind = "company_voice" -> 20 [] OTHER -> 0

PointsIf(condition, points) == IF condition THEN points ELSE 0

\* The points of assess_signal, without its ceiling.
ConfidenceUncapped(found, authorKnown) ==
    IdentityWeight(found.by) + ClaimWeight(found.claim)
        + PointsIf(found.voice = "company_account", 12)
        + PointsIf(found.batch # NoBatch, 15)
        + PointsIf(found.site # NoSite, 10)
        + PointsIf(authorKnown, 5)

\* assess_signal: the confidence in what a post yielded.
Confidence(found, authorKnown) == Min({100, ConfidenceUncapped(found, authorKnown)})
=============================================================================
