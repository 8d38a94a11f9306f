---------------------------- MODULE MCDirectory ----------------------------
(* A small instance of Directory for TLC. *)
EXTENDS Directory, TLC

CONSTANTS nobatch, r1, r2

\* An old batch, one that is filling, and a company without a batch.
MCBatchOf == 1 :> 1 @@ 2 :> 2 @@ 3 :> nobatch

\* What the runs of a source share is read only by an ingestion of Speedrun, and set again
\* before another run gets that far.
MCView ==
    <<adapter, live, changes, fullDue, run, stored, history,
      IF adapter = "speedrun" /\ \E r \in Run : run[r].step = "collected" THEN shared ELSE <<>> >>

Symmetry == Permutations(Run)

\* scanner.py:106-108, as the comment has it: "Only a mode that reads the whole directory
\* licenses treating absence as withdrawal" -- so an ingestion of the rows of a slice, of
\* the recent window or the fallback page, retires nothing.
SliceRetiresNothing ==
    [][\A r \in Ending : run[r].mode \in {"hot", "fallback"} => Retired = {}]_dirVars
=============================================================================
