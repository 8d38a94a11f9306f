------------------------------ MODULE MCOutbox ------------------------------
(* Small instances of Outbox for TLC. *)
EXTENDS Outbox, TLC

CONSTANTS s1, s2, s3, c1, c2, o1

\* Two posts about one company, and one about another.
MCKeyOf == s1 :> c1 @@ s2 :> c1 @@ s3 :> c2

\* An EARLY alert, a reply to it, and the confirmation of the other company.
MCOffered == {GhostRequest(s1), CorroborationRequest(s2), ConfirmedRequest(s3, o1)}

TaskSymmetry == Permutations(Task)

\* engine.py:23-25, as the comment has it: a failure that is not the message's own
\* "pauses the flush instead, because burning through the queue against a dead token
\* would lose every alert in it" -- so what is dead was refused for its own sake.
GlobalFailureNeverKills ==
    \A i \in DOMAIN outbox :
        outbox[i].status = "dead" => outbox[i].error = "alert"

\* engine.py:378-379, as the comment has it: the lock lets no alert be delivered twice.
DeliveredOnce ==
    \A i, j \in DOMAIN channel : i # j => channel[i].dedupe # channel[j].dedupe
=============================================================================
