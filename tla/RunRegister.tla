---------------------------- MODULE RunRegister ----------------------------
(***************************************************************************)
(* What docs/POND.md promises about run ids: a run has one request and one *)
(* terminal response, decided once, and whoever asks for it again gets     *)
(* that response.  PondRuns implements this specification; its locks,      *)
(* executions and interruptions are not visible here.                      *)
(***************************************************************************)
CONSTANTS
    RunId,
    Decision,       \* a request together with its terminal response
    Undecided       \* no decision

VARIABLES
    decided,        \* [RunId -> Decision, or Undecided]
    answered        \* the pairs <<run, decision>> that callers were given

registerVars == <<decided, answered>>

RegisterInit ==
    /\ decided = [r \in RunId |-> Undecided]
    /\ answered = {}

\* The response is fixed, whether or not the caller is still there to be told.
Decide(r) ==
    /\ decided[r] = Undecided
    /\ decided'[r] \in Decision
    /\ decided' = [decided EXCEPT ![r] = decided'[r]]
    /\ answered' \in {answered, answered \union {<<r, decided'[r]>>}}

Answer(r) ==
    /\ decided[r] # Undecided
    /\ answered' = answered \union {<<r, decided[r]>>}
    /\ UNCHANGED decided

RegisterNext == \E r \in RunId : Decide(r) \/ Answer(r)

RegisterSpec == RegisterInit /\ [][RegisterNext]_registerVars
=============================================================================
