------------------------------- MODULE Claims -------------------------------
(***************************************************************************)
(* What becomes of the posts about a company: the composition of           *)
(* Extraction, Matching and the adjudication of engine.ingest_social.      *)
(*                                                                         *)
(* The posts are given with the truth about them, which the program does   *)
(* not see: the company, the name it is called by, the batch and the       *)
(* website that the post states.  Companies are listed in the official     *)
(* directories and posts are read in any order; the ledger keeps what was  *)
(* decided of each.  Alerts, threads and the rest of the engine are the    *)
(* subject of Radar, where matching is abstract.                           *)
(***************************************************************************)
EXTENDS Extraction

CONSTANTS
    Companies,
    NameOf,     \* [Companies -> Seq(Word)]
    LabelOf,    \* [Companies -> batch label of the directory]
    SiteOf,     \* [Companies -> website of the directory, or NoSite]
    Posts,      \* [about, name, batch, site, text, page, ofCompany, author]
    MaxRead,    \* bound: posts read
    MaxListed   \* bound: companies listed

ASSUME ClaimsAssumption ==
    /\ MaxRead \in Nat /\ MaxListed \in Nat
    /\ \A p \in Posts : p.about \in Companies /\ p.text \in Seq(Range(p.text))

VARIABLES
    rows,   \* list_official: sequence of [about, name, batch, site]
    ledger  \* sequence of what was decided

vars == <<rows, ledger>>

-----------------------------------------------------------------------------
(* The truth: which names are names of a company *)

\* The company is in the directory, as of the first n rows.
Listed(c, n) == \E i \in 1..n : rows[i].about = c

\* The leading words of the official name, without generic words behind.
Core(c) ==
    LET name == NameOf[c]
        kept == Max({1} \union {i \in DOMAIN name : name[i] \notin Generic})
    IN  NormalizeName(SubSeq(name, 1, kept))

\* A name that itself begins or ends like a vanity affix cannot be told from one.
Plain(c) == Core(c)[1] \notin HandlePrefixes /\ Core(c)[Len(Core(c))] \notin FusedSuffixes

\* A handle, or a name, made of the name: one affix at most on either end.
HandleOf(name, c) ==
    LET affixed(core) == {pre \o core \o suf :
            pre \in {<<>>} \union {<<a>> : a \in HandlePrefixes},
            suf \in {<<>>} \union {<<a>> : a \in FusedSuffixes}}
        first == NormalizeName(<<NameOf[c][1]>>)
        cores == {Core(c)} \union
            (IF Letters(first) >= MinPrefixChars THEN {first} ELSE {})
    IN  /\ Plain(c) /\ Letters(Core(c)) >= MinHandleChars
        /\ \E core \in cores : NormalizeName(name) \in affixed(core)

\* What a post says can mean company c: it gives its website; within its batch it calls
\* it by its name, its leading words or a handle; or by its exact name, if the post or
\* the directory has no batch for it.
Calls(e, c) ==
    LET exact == NormalizeName(e.name) = NormalizeName(NameOf[c])
        short == IsTokenPrefix(e.name, NameOf[c])
        handle == HandleOf(e.name, c)
    IN  \/ SiteOf[c] # NoSite /\ e.site = SiteOf[c]
        \/ BatchesMatch(LabelOf[c], BatchIdentity(e.batch)) /\ (exact \/ short \/ handle)
        \/ (e.batch = NoBatch \/ LabelOf[c] = NoBatch) /\ exact

-----------------------------------------------------------------------------
(* What the code decides *)

\* A post, and what the program found in it; each kind once.
Reading(p, found) ==
    [about |-> p.about, name |-> p.name, batch |-> p.batch, site |-> p.site,
     found |-> found, confidence |-> Confidence(found, p.author)]

Read(p) == Reading(p, Extract(p))

Readings == {Read(p) : p \in Posts}

\* The verdict of ingest_social: listed, stale, weak, or an alert.
Verdict(r, match, fresh) ==
    CASE r.found.reason # "none" -> "suppressed"
      [] r.found.reason = "none" /\ match # 0 -> "already_official"
      [] r.found.reason = "none" /\ match = 0
            /\ (~fresh \/ r.confidence < MinConfidence) -> "possible"
      [] OTHER -> "alerted"

KeyOf(r) == CompanyKey(r.found.name, r.found.site, r.found.program, r.found.batch)

\* The keys announced, and whether a new alert is the first of its company.
Announced == {ledger[i].key : i \in {j \in DOMAIN ledger : ledger[j].verdict = "alerted"}}

\* The entry of a post: what it was decided to be, the row it matched, how many rows
\* there were, and the alert.
Decision(r, match, verdict, key) ==
    [about |-> r.about, name |-> r.name, batch |-> r.batch, site |-> r.site,
     confidence |-> IF verdict = "suppressed" THEN 0 ELSE r.confidence,
     checked |-> Len(rows), match |-> match, verdict |-> verdict,
     key |-> IF verdict = "suppressed" THEN <<>> ELSE key,
     alert |-> IF verdict # "alerted" THEN "none"
               ELSE IF key \in Announced THEN "corroboration" ELSE "ghost"]

Judged(r, match, fresh) == Decision(r, match, Verdict(r, match, fresh), KeyOf(r))

\* A post without a usable company is matched with nothing.
Entry(r, fresh) ==
    Judged(r,
           IF r.found.reason # "none" THEN 0
           ELSE ResolveOfficial(r.found.name, r.found.site, rows, r.found.batch).row,
           fresh)

ClaimsInit == rows = <<>> /\ ledger = <<>>

RowOf(c) == [about |-> c, name |-> NameOf[c], batch |-> LabelOf[c], site |-> SiteOf[c]]

\* A company appears in its directory.
List(c) ==
    /\ ~Listed(c, Len(rows)) /\ Len(rows) < MaxListed
    /\ rows' = Append(rows, RowOf(c))
    /\ UNCHANGED ledger

\* One signal of ingest_social; fresh: the snapshot of its directory is recent enough.
Ingest(r, fresh) ==
    /\ Len(ledger) < MaxRead
    /\ ledger' = Append(ledger, Entry(r, fresh))
    /\ UNCHANGED rows

ClaimsNext ==
    \/ \E c \in Companies : List(c)
    \/ \E r \in Readings, fresh \in BOOLEAN : Ingest(r, fresh)

ClaimsSpec == ClaimsInit /\ [][ClaimsNext]_vars

-----------------------------------------------------------------------------
(* Properties *)

\* Types; a confidence is a percentage and a match is a row that was there
\* (intelligence.py:91, matcher.py:194).
ClaimsTypeOK ==
    /\ \A i \in DOMAIN rows : rows[i].about \in Companies
    /\ \A i \in DOMAIN ledger :
        /\ ledger[i].verdict \in {"suppressed", "already_official", "possible", "alerted"}
        /\ ledger[i].confidence \in 0..100
        /\ ledger[i].match \in 0..ledger[i].checked

\* A company that was listed when the post about it was read, and that the post calls
\* by something of its own, is never announced as an early discovery: the reason for
\* every rule of matcher.py (matcher.py:139-149).
ListedNeverEarly ==
    \A i \in DOMAIN ledger :
        LET e == ledger[i]
        IN  Listed(e.about, e.checked) /\ Calls(e, e.about) => e.verdict # "alerted"

\* A post is matched only to a row that what it says can mean, never to a namesake of
\* another cohort or to one that shares a word: an early discovery would be lost.  Two
\* companies of one batch with one short name, or a row without a batch, it cannot tell
\* apart (matcher.py:215-261, tests/test_matching.py:89-91).
MatchesWithinCohort ==
    \A i \in DOMAIN ledger :
        ledger[i].match # 0 => Calls(ledger[i], rows[ledger[i].match].about)

\* The posts give the same website, or the same name and batch; a post gives either.
SameCompany(a, b) ==
    /\ a.about = b.about /\ a.site = b.site
    /\ a.site # NoSite \/ (a.name = b.name /\ a.batch = b.batch)
Placed(a) == a.batch # NoBatch \/ a.site # NoSite

\* Two posts that give the same website, or the same name and batch, never announce
\* a company twice, however they are written; and what is posted in the thread of an
\* announcement is about the company announced, or calls another by the same name in the
\* same batch, unless a post says neither batch nor website (engine.py:269-285,
\* matcher.py:273).
OneEarlyPerCompany ==
    \A i, j \in DOMAIN ledger :
        LET a == ledger[i]
            b == ledger[j]
        IN  i < j /\ a.alert = "ghost" =>
                /\ SameCompany(a, b) => b.alert # "ghost"
                /\ b.alert = "corroboration" /\ b.key = a.key /\ Placed(a) =>
                    a.about = b.about \/ (a.name = b.name /\ a.batch = b.batch)

-----------------------------------------------------------------------------
(* The inductive invariant behind them *)

\* resolve_official finds the row where it is alone.
Accepts(found, row) == ResolveOfficial(found.name, found.site, <<row>>, found.batch).row # 0

Alertable(r) == r.found.reason = "none" /\ ~(r.confidence < MinConfidence)

\* The directory holds rows of companies; the ledger entries of posts.
EntryType ==
    [about : Companies, name : {r.name : r \in Readings}, batch : {r.batch : r \in Readings},
     site : {r.site : r \in Readings}, confidence : 0..100, checked : Nat, match : Nat,
     verdict : {"suppressed", "already_official", "possible", "alerted"},
     key : {<<>>} \union {KeyOf(r) : r \in Readings},
     alert : {"none", "ghost", "corroboration"}]

ClaimsTables ==
    /\ rows \in Seq({RowOf(c) : c \in Companies})
    /\ ledger \in Seq(EntryType)

\* The entry says what the post says, and a post is matched to a row it accepts; it is
\* announced only if none of the rows of its time is one.
FaithfulEntry(e, r) ==
    /\ e.about = r.about /\ e.name = r.name /\ e.batch = r.batch /\ e.site = r.site
    /\ e.match \in 0..e.checked /\ e.checked <= Len(rows)
    /\ e.match # 0 => r.found.reason = "none" /\ Accepts(r.found, rows[e.match])
    /\ e.verdict = "alerted" =>
        /\ Alertable(r)
        /\ e.key = KeyOf(r)
        /\ \A k \in 1..e.checked : ~Accepts(r.found, rows[k])
    /\ e.alert # "none" <=> e.verdict = "alerted"

FaithfulLedger == \A i \in DOMAIN ledger : \E r \in Readings : FaithfulEntry(ledger[i], r)

\* A key is announced once, and corroborated only after that.
KeysAnnouncedOnce ==
    \A i, j \in DOMAIN ledger :
        /\ ledger[i].alert = "ghost" /\ ledger[j].alert = "ghost" /\ ledger[i].key = ledger[j].key
            => i = j
        /\ ledger[i].alert = "corroboration" =>
            \E k \in 1..(i - 1) : ledger[k].alert = "ghost" /\ ledger[k].key = ledger[i].key

ClaimsInv == ClaimsTables /\ FaithfulLedger /\ KeysAnnouncedOnce

\* What resolve_official looks for in a row: the website; the name, in a batch that does not
\* speak against it; within the batch, leading words of the name or the same handle.
ListedAs(found, row) ==
    LET scope == BatchIdentity(found.batch)
        core == HandleIdentity(found.name)
        inBatch == BatchesMatch(row.batch, scope)
    IN  \/ /\ NormalizeDomain(found.site) # NoSite
           /\ NormalizeDomain(row.site) = NormalizeDomain(found.site)
        \/ /\ NormalizeName(found.name) # <<>> /\ NormalizeName(row.name) = NormalizeName(found.name)
           /\ inBatch \/ scope = {} \/ BatchIdentity(row.batch) = {}
        \/ inBatch /\ IsTokenPrefix(found.name, row.name)
        \/ inBatch /\ core # <<>> /\ (HandleIdentity(row.name) = core \/ IsCorePrefix(core, row.name))

\* What makes two finds the same company to the engine: the website; without one, the
\* program, the batch and the name.
SameFind(f, g) ==
    /\ NormalizeDomain(f.site) = NormalizeDomain(g.site)
    /\ NormalizeDomain(f.site) = NoSite =>
        /\ f.program = g.program
        /\ NormalizeBatch(f.batch) = NormalizeBatch(g.batch)
        /\ NormalizeName(f.name) = NormalizeName(g.name)

\* What is announced was in no row of its time, as far as the program read it, and what was
\* matched is listed by that row; and finds that are the same are announced once, with what
\* is corroborated behind the first.
DecidedAsRead ==
    \A i \in DOMAIN ledger : \E a \in Readings :
        /\ FaithfulEntry(ledger[i], a)
        /\ ledger[i].match # 0 => ListedAs(a.found, rows[ledger[i].match])
        /\ ledger[i].verdict = "alerted" => \A k \in 1..ledger[i].checked : ~ListedAs(a.found, rows[k])
        /\ ledger[i].alert = "ghost" =>
            \A j \in DOMAIN ledger \ {i} : \E b \in Readings :
                /\ FaithfulEntry(ledger[j], b)
                /\ ledger[j].alert = "ghost" => ~SameFind(a.found, b.found)
        /\ ledger[i].alert = "corroboration" =>
            \E j \in 1..(i - 1) : \E b \in Readings :
                /\ ledger[j].alert = "ghost"
                /\ FaithfulEntry(ledger[j], b)
                /\ SameFind(a.found, b.found)

\* A post that may be announced: it speaks of a program; it names a company, which reads as
\* one or is a handle that is no program's and does not contradict the post's page, or it
\* gives a website; and it makes a claim in words, by a tag or by its author.
Identified(p, found) ==
    /\ Has(p.text, YcTerms \union SpeedrunTerms)
    /\ found.name # <<>> \/ found.site # NoSite
    /\ found.name # <<>> =>
        /\ ValidName(found.name) \/ \E w \in Handles \ ProgramHandles : found.name = <<w>>
        /\ p.page = NoPage \/ FitsPage(p.page, found.name)
    /\ \/ ClaimKind(p.text) # "none"
       \/ found.by = "program_tag"
       \/ AuthorVoice(p) = "company_account"

AnnouncedIdentified ==
    \A i \in DOMAIN ledger :
        ledger[i].verdict = "alerted" =>
            \E p \in Posts : FaithfulEntry(ledger[i], Read(p)) /\ Identified(p, Extract(p))

=============================================================================
