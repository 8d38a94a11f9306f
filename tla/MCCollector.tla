---------------------------- MODULE MCCollector ----------------------------
(* A small instance of Collector for TLC. *)
EXTENDS Collector, TLC

CONSTANTS r1, r2, F26, claim, backing, cohort, nocode

\* A post with a claim, and one that names a batch as well.
MCWords == 1 :> {claim} @@ 2 :> {claim, F26}

\* The last label is one that batch_code does not know.
MCCode == "Fall 2026" :> F26 @@ "Unspecified" :> nocode

\* No batch is known, or one is filling.
MCTargets ==
    {[yc |-> <<"Unspecified">>, cohorts |-> <<>>],
     [yc |-> <<"Fall 2026", "Unspecified">>, cohorts |-> <<>>]}

MCYcClaims == <<claim>>
MCYcBacking == <<backing>>
MCSpeedrunClaims == <<cohort>>
=============================================================================
