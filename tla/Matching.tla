------------------------------ MODULE Matching ------------------------------
(***************************************************************************)
(* How a company that a post names is found among the rows of the official *)
(* directories: the algorithms of app/matcher.py, as operators.            *)
(*                                                                         *)
(* A word is a value whose Spelling gives its parts, separated by a dot or *)
(* an underscore, and each part as a sequence of atoms: @speko_ai is       *)
(* <<<<"speko">>, <<"ai">>>>, tryspeko is <<<<"try", "speko">>>>.  A name  *)
(* is a sequence of words.  Texts with the same atoms are equal, and one   *)
(* begins or ends with an affix only if its first or last atom is it.      *)
(***************************************************************************)
EXTENDS Integers, Sequences, FiniteSets, FiniteSetsExt, SequencesExt

CONSTANTS
    Spelling,       \* [Word -> Seq(Seq(Atom))]
    Length,         \* [Atom -> Nat], letters
    HandleSuffixes, \* _HANDLE_SUFFIXES, atoms
    HandlePrefixes, \* _HANDLE_PREFIXES
    FusedSuffixes,  \* _FUSED_SUFFIXES
    MinPrefixChars, \* MIN_PREFIX_CHARS
    MinHandleChars, \* MIN_HANDLE_CHARS
    Codes,          \* [label -> Seq(code)]: batch_codes, or the one cohort_code
    NoBatch,        \* an absent batch
    Host,           \* [website -> host]: _normalize_domain
    NoSite          \* an absent website

ASSUME MatchingAssumption ==
    /\ FusedSuffixes \subseteq HandleSuffixes
    /\ MinPrefixChars \in Nat /\ MinHandleChars \in Nat
    /\ \A l \in DOMAIN Codes : Codes[l] # <<>>
    /\ NoBatch \notin DOMAIN Codes
    /\ NoSite \notin DOMAIN Host

-----------------------------------------------------------------------------
(* Batches and websites *)

\* batch_identity: a label that is no season and no cohort stands for itself.
BatchIdentity(label) ==
    IF label = NoBatch THEN {}
    ELSE IF label \in DOMAIN Codes THEN {Codes[label][i] : i \in DOMAIN Codes[label]}
    ELSE {label}

\* normalize_batch
NormalizeBatch(label) == IF label \in DOMAIN Codes THEN Codes[label][1] ELSE label

\* batches_match, with the identity of the other side.
BatchesMatch(label, scope) == BatchIdentity(label) \intersect scope # {}

\* _normalize_domain
NormalizeDomain(site) == IF site \in DOMAIN Host THEN Host[site] ELSE NoSite

-----------------------------------------------------------------------------
(* Names *)

\* The parts of a name, and its letters.
PartsOf(name) == FlattenSeq([i \in DOMAIN name |-> Spelling[name[i]]])

\* normalize_name: what is neither a letter nor a digit is left out.
NormalizeName(name) == FlattenSeq(PartsOf(name))

Letters(atoms) == MapThenSumSet(LAMBDA i : Length[atoms[i]], DOMAIN atoms)

\* _is_token_prefix: the leading words of a name, short single ones excepted.
IsTokenPrefix(name, official) ==
    /\ name # <<>> /\ Len(name) < Len(official)
    /\ SubSeq(official, 1, Len(name)) = name
    /\ Len(name) > 1 \/ Letters(NormalizeName(name)) >= MinPrefixChars

\* The same for the core of a handle, a single word that is all letters.
IsCorePrefix(core, official) ==
    /\ Len(official) > 1
    /\ Spelling[official[1]] = <<core>>
    /\ Letters(core) >= MinPrefixChars

-----------------------------------------------------------------------------
(* Handles *)

IsAffix(part, affixes) == Len(part) = 1 /\ part[1] \in affixes

\* The two loops of handle_identity: generic parts are dropped, the last one never.
Peeled(parts) ==
    LET last == Max({1} \union
                    {i \in DOMAIN parts : ~IsAffix(parts[i], HandleSuffixes)})
        start == Min({last} \union
                     {i \in 1..last : ~IsAffix(parts[i], HandlePrefixes)})
    IN  SubSeq(parts, start, last)

\* The first half of _strip_affixes.
WithoutPrefix(core) ==
    IF core[1] \in HandlePrefixes /\ Letters(Tail(core)) >= MinHandleChars
    THEN Tail(core) ELSE core

\* The second half.
WithoutSuffix(core) ==
    IF core[Len(core)] \in FusedSuffixes /\ Letters(Front(core)) >= MinHandleChars
    THEN Front(core) ELSE core

\* Faulty: only what follows the name is peeled off.
StripSuffixOnly(core) == WithoutSuffix(core)

\* _strip_affixes: one on each end, no more.
StripAffixes(core) == WithoutSuffix(WithoutPrefix(core))

\* handle_identity, <<>> if too little is left.
HandleIdentity(name) ==
    IF name = <<>> \/ NormalizeName(name) = <<>> THEN <<>>
    ELSE LET core == StripAffixes(FlattenSeq(Peeled(PartsOf(name))))
         IN  IF Letters(core) >= MinHandleChars THEN core ELSE <<>>

-----------------------------------------------------------------------------
(* Resolution: each method yields the rows it accepts, by index *)

\* The domain decides, whatever the name and the batch.
ByDomain(site, rows) ==
    LET SameDomain(row) ==
            NormalizeDomain(site) # NoSite /\ NormalizeDomain(row.site) = NormalizeDomain(site)
    IN  {i \in DOMAIN rows : SameDomain(rows[i])}

\* Faulty: a name is a name, whatever the batch.
ByNameAnywhere(name, rows, scope) ==
    LET Named(row) == NormalizeName(name) # <<>> /\ NormalizeName(row.name) = NormalizeName(name)
    IN  {i \in DOMAIN rows : Named(rows[i])}

\* The exact name; a post that names a batch prefers it, and accepts a row without one.
ByName(name, rows, scope) ==
    LET Named(row) == NormalizeName(name) # <<>> /\ NormalizeName(row.name) = NormalizeName(name)
        named == {i \in DOMAIN rows : Named(rows[i])}
        ofBatch == {i \in named : BatchesMatch(rows[i].batch, scope)}
    IN  IF scope = {} THEN named
        ELSE IF ofBatch # {} THEN ofBatch
        ELSE {i \in named : BatchIdentity(rows[i].batch) = {}}

\* The leading words of a name of the batch.
ByPrefix(name, rows, scope) ==
    LET Begins(row) == BatchesMatch(row.batch, scope) /\ IsTokenPrefix(name, row.name)
    IN  {i \in DOMAIN rows : Begins(rows[i])}

\* The company inside a handle, within the batch.
ByHandle(name, rows, scope) ==
    LET core == HandleIdentity(name)
        Inside(row) ==
            /\ core # <<>>
            /\ BatchesMatch(row.batch, scope)
            /\ HandleIdentity(row.name) = core \/ IsCorePrefix(core, row.name)
    IN  {i \in DOMAIN rows : Inside(rows[i])}

\* The first row of the first method that finds one; 0 is no row.
FirstHit(tries) ==
    LET hits == {i \in DOMAIN tries : tries[i].rows # {}}
    IN  IF hits = {} THEN [row |-> 0, method |-> "none"]
        ELSE [row |-> Min(tries[Min(hits)].rows), method |-> tries[Min(hits)].method]

\* resolve_official
ResolveOfficial(name, site, rows, batch) ==
    LET scope == BatchIdentity(batch)
    IN  FirstHit(<<[method |-> "domain", rows |-> ByDomain(site, rows)],
                   [method |-> "exact_name", rows |-> ByName(name, rows, scope)],
                   [method |-> "batch_prefix", rows |-> ByPrefix(name, rows, scope)],
                   [method |-> "handle", rows |-> ByHandle(name, rows, scope)]>>)

\* company_key
CompanyKey(name, site, program, batch) ==
    IF NormalizeDomain(site) # NoSite THEN <<"domain", NormalizeDomain(site)>>
    ELSE <<program, NormalizeBatch(batch), NormalizeName(name)>>
=============================================================================
