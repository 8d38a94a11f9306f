--------------------------- MODULE AlertDelivery ---------------------------
(***************************************************************************)
(* What the alert outbox promises, without saying how it is delivered: an  *)
(* alert is accepted once, alerts are finished in the order in which they  *)
(* were accepted, an alert that is reported sent has reached the channel   *)
(* at least once, and a finished alert is never touched again.             *)
(*                                                                         *)
(* Outbox implements this specification; the retries, the flush lock, the  *)
(* cancelled and crashed deliveries all disappear behind Post, which may   *)
(* put the same alert on the channel more than once.                       *)
(***************************************************************************)
EXTENDS Integers, Sequences

CONSTANT Alert       \* everything that can be announced, one value per dedupe key

VARIABLES
    entries,         \* the accepted alerts, oldest first, each with its fate
    delivered        \* the alerts that have reached the channel at least once

abstractVars == <<entries, delivered>>

Fate == {"pending", "sent", "dead"}

AbstractTypeOK ==
    /\ entries \in Seq([alert : Alert, fate : Fate])
    /\ delivered \subseteq Alert

AbstractInit == entries = <<>> /\ delivered = {}

\* The only entry that delivery may work on: the oldest one that is not finished.
IsOldestPending(i) ==
    /\ entries[i].fate = "pending"
    /\ \A j \in 1..(i - 1) : entries[j].fate # "pending"

Accept(a) ==
    /\ \A i \in DOMAIN entries : entries[i].alert # a
    /\ entries' = Append(entries, [alert |-> a, fate |-> "pending"])
    /\ UNCHANGED delivered

\* A copy reaches the channel and the outbox does not learn of it.
Post(i) ==
    /\ IsOldestPending(i)
    /\ delivered' = delivered \union {entries[i].alert}
    /\ UNCHANGED entries

Finish(i) ==
    /\ IsOldestPending(i)
    /\ entries' = [entries EXCEPT ![i] = [@ EXCEPT !.fate = "sent"]]
    /\ delivered' = delivered \union {entries[i].alert}

\* Giving up: the last attempt may itself have reached the channel.
Abandon(i) ==
    /\ IsOldestPending(i)
    /\ entries' = [entries EXCEPT ![i] = [@ EXCEPT !.fate = "dead"]]
    /\ delivered' \in {delivered, delivered \union {entries[i].alert}}

AbstractNext ==
    \/ \E a \in Alert : Accept(a)
    \/ \E i \in DOMAIN entries : Post(i) \/ Finish(i) \/ Abandon(i)

AbstractSafety == AbstractInit /\ [][AbstractNext]_abstractVars
=============================================================================
