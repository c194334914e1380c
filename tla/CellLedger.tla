----------------------------- MODULE CellLedger -----------------------------
(***************************************************************************)
(* What the run state file promises, without processes, logs or faults: a  *)
(* ledger with one entry per cell of the one plan it belongs to, where an   *)
(* entry only moves along the state machine of CellLifecycle, one cell at a *)
(* time, except that all open entries may be blocked together (a restart    *)
(* found them).  Nothing leaves a terminal entry, and a blocked one         *)
(* only reopens.                                                           *)
(***************************************************************************)
EXTENDS CellLifecycle

CONSTANTS Cells, Plans, PlanState, NoPlan, Unrecorded

VARIABLES owner,   \* the plan of the ledger, NoPlan before the first entry
          ledger   \* the recorded state of each cell

LedgerTypeOK ==
    /\ owner \in Plans \cup {NoPlan}
    /\ ledger \in [Cells -> CellStates \cup {Unrecorded}]

LedgerInit ==
    /\ owner = NoPlan
    /\ ledger = [c \in Cells |-> Unrecorded]

\* A cell the plan wants run, or a blocked one, is taken up.
Open(f, c) ==
    /\ owner \in {NoPlan, f}
    /\ \/ ledger[c] = Unrecorded /\ PlanState[f][c] = "planned"
       \/ ledger[c] = "infra_blocked"
    /\ owner' = f
    /\ ledger' = [ledger EXCEPT ![c] = "running"]

\* An open cell gets its outcome, or is blocked.
Close(c) ==
    /\ ledger[c] = "running"
    /\ \E s \in Successors("running") : ledger' = [ledger EXCEPT ![c] = s]
    /\ UNCHANGED owner

BlockAllOpen ==
    /\ ledger' = [c \in Cells |-> IF ledger[c] = "running"
                                  THEN "infra_blocked" ELSE ledger[c]]
    /\ UNCHANGED owner

LedgerNext ==
    \/ \E f \in Plans, c \in Cells : Open(f, c)
    \/ \E c \in Cells : Close(c)
    \/ BlockAllOpen

LedgerSpec == LedgerInit /\ [][LedgerNext]_<<owner, ledger>>
=============================================================================
