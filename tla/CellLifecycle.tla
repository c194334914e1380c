--------------------------- MODULE CellLifecycle ---------------------------
(***************************************************************************)
(* The state machine of one run cell: the states of models/enums.py and    *)
(* the transition function of execution/state.py.  A cell is one           *)
(* case x access path x mode x round of a frozen run plan.                 *)
(***************************************************************************)

CellStates == {"planned", "running", "completed", "provider_negative",
               "infra_blocked", "not_applicable", "excluded"}

\* _TERMINAL: no other state may follow one of these.
Terminal == {"completed", "provider_negative", "excluded", "not_applicable"}

\* Mutant of Runnable: only planned cells are run.
RunnableOnce == {"planned"}

\* The states in which the orchestrator picks a cell up.
Runnable == {"planned", "infra_blocked"}

\* _ALLOWED: the proper successors of a state (none for a terminal one).
Successors(s) ==
    CASE s = "planned"       -> {"running", "not_applicable", "excluded"}
      [] s = "infra_blocked" -> {"running", "excluded"}
      [] s = "running"       -> {"completed", "provider_negative",
                                 "infra_blocked", "excluded"}
      [] OTHER               -> {}

(***************************************************************************)
(* transition(current, target, evidence_digest) returns target when this   *)
(* holds and raises StateTransitionError when it does not.  Staying in the *)
(* same state is always allowed; excluding a cell takes an evidence        *)
(* digest.                                                                 *)
(***************************************************************************)
Accepts(current, target, hasDigest) ==
    /\ current \in Terminal => target = current
    /\ target = current \/ target \in Successors(current)
    /\ target = "excluded" => hasDigest
=============================================================================
