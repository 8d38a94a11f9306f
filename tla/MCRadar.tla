------------------------------ MODULE MCRadar ------------------------------
(* Small instances of Radar for TLC. *)
EXTENDS Radar, TLC

CONSTANTS s1, s2, c1, o1, o2

\* Two posts about one company.
MCKeyOf == s1 :> c1 @@ s2 :> c1

\* The directory lists the company of s1 as o1, with the batch s1 names; s2 names
\* another batch, so that only a match without batches takes o1 for its company.
MCScoped == {<<s1, o1>>}
MCUnscoped == {<<s1, o1>>, <<s2, o1>>}

\* Posts that score alike, and a second post that scores more.
MCSameRank == s1 :> 1 @@ s2 :> 1
MCSecondHigher == s1 :> 1 @@ s2 :> 2

\* Both posts in either order; a post alone leaves what a batch leaves that fails after
\* its first post.
MCBatches == {{s1, s2}}

\* One post at a time.
MCPosts == {{s1}, {s2}}

\* The whole directory while o1 is not listed, and a slice with o1 in it.
MCCrawls == {<<{o2}, TRUE>>, <<{o1}, FALSE>>}

\* What is written and never read by a handler or a property does not tell two states
\* apart: the ledger, the timeline and the marks of delivery.
MCView ==
    <<outbox, companyAlert, flushLock, flush, channel, lost, companies, status, usable,
      fresh, [work EXCEPT !.entries = {}], cut, withheld>>

\* README.md:124, as it is written: "A second independent source for the same company
\* replies in the original Slack thread as corroboration" -- so every ghost has an
\* alert of its own, the company's or a corroboration.
SecondSourceReplies ==
    work = Idle =>
        \A s \in Ghosts \ (Legacy \union cut) :
            \E i \in DOMAIN outbox : outbox[i].signal = s

\* engine.py:126-127, as the comment has it: "A matching ghost gets the stronger
\* confirmation alert during reconciliation"; no handler was cut short before.
WithheldConfirmed ==
    ReconcileEnds /\ cut = {} =>
        \A o \in Listed :
            (\E g \in Signal : <<g, o>> \in withheld) =>
                \E g \in Signal : <<g, o>> \in withheld /\ status[g] = "confirmed"
=============================================================================
