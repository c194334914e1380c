-------------------------- MODULE RunOrchestrator --------------------------
(***************************************************************************)
(* RunOrchestrator.run of execution/orchestrator.py with the objects it    *)
(* drives: RunStateStore (execution/resume.py), EventLog                   *)
(* (execution/events.py) and retry_with_budget (execution/retry.py).       *)
(*                                                                         *)
(* One process is started again and again on the same state file, as the   *)
(* CLI commands `run` and `resume` do; between two starts it may have      *)
(* returned, raised or been killed.  Each start loads the state file, turns *)
(* the RUNNING cells a dead process left behind into INFRA_BLOCKED, and    *)
(* walks the plan in order.  Each write of the file is two steps: write     *)
(* the whole document to a temporary file, rename it over the store.       *)
(***************************************************************************)
EXTENDS Naturals, CellLifecycle

CONSTANTS
    N,              \* number of cells in a plan; a cell is its position
    Plans,          \* suite fingerprints of the plans users run
    PlanState,      \* PlanState[f][c]: the frozen state of cell c in plan f
    Answers,        \* the <<state, has an evidence digest>> an executor returns
    RetryAttempts,  \* retry_attempts of the orchestrator
    HasEventLog,    \* was an EventLog given to the orchestrator?
    FaultKinds,     \* which faults the environment may inject
    MaxFaults,      \* bound: how many of them in one behaviour
    NoPlan,         \* fingerprint of a state file that does not exist
    Unrecorded      \* state of a cell the state file does not mention

Cells == 1..N
AllFaultKinds == {"crash", "cancel", "write", "emit", "torn"}

ASSUME ConstantsOK ==
    /\ N \in Nat \ {0}
    /\ PlanState \in [Plans -> [Cells -> {"planned", "not_applicable"}]]
    /\ Answers \subseteq CellStates \X BOOLEAN
    /\ RetryAttempts \in Nat
    /\ HasEventLog \in BOOLEAN
    /\ FaultKinds \subseteq AllFaultKinds
    /\ MaxFaults \in Nat
    /\ NoPlan \notin Plans
    /\ Unrecorded \notin CellStates

VARIABLES
    (***********************************************************************)
    (* Files                                                               *)
    (***********************************************************************)
    disk,      \* the state file: the plan it belongs to, the cells it records
    tmp,       \* its temporary sibling (".tmp")
    logged,    \* the last event of each cell in the event log
    logFile,   \* does the event log parse? Not once it ends in a partial line
    (***********************************************************************)
    (* The process                                                         *)
    (***********************************************************************)
    pc,        \* where run() stands; "idle" when no process runs
    plan,      \* the plan it runs
    mem,       \* its `states` dictionary
    stale,     \* `stale_keys`: RUNNING cells found in the file at the start
    cursor,    \* position in plan.cells
    tries,     \* attempts left to retry_with_budget
    stage,     \* the next step of a write: its text, or the rename
    (***********************************************************************)
    (* The environment and history                                         *)
    (***********************************************************************)
    faults,    \* faults injected so far
    observed   \* the last answer of the executor that transition() accepted

files == <<disk, tmp, stage>>
log   == <<logged, logFile>>
vars  == <<disk, tmp, logged, logFile, pc, plan, mem, stale, cursor, tries,
           stage, faults, observed>>

Recorded == CellStates \cup {Unrecorded}
Store    == [plan : Plans \cup {NoPlan}, states : [Cells -> Recorded]]
Blank    == [c \in Cells |-> Unrecorded]
NoStore  == [plan |-> NoPlan, states |-> Blank]
Event    == [type  : {"none", "recovered", "request", "completion", "error"},
             state : Recorded]
NoEvent  == [type |-> "none", state |-> Unrecorded]

WriteSites == {"recover_write", "claim_write", "settle_write",
               "blocked_write", "interrupt_write"}
Points     == {"idle", "recover", "scan", "request", "execute", "complete",
               "error"} \cup WriteSites

TypeOK ==
    /\ disk \in Store
    /\ tmp \in Store
    /\ logged \in [Cells -> Event]
    /\ logFile \in {"parses", "torn"}
    /\ pc \in Points
    /\ plan \in Plans \cup {NoPlan}
    /\ mem \in [Cells -> Recorded]
    /\ stale \subseteq Cells
    /\ cursor \in 1..(N + 1)
    /\ tries \in 0..RetryAttempts
    /\ stage \in {"text", "rename"}
    /\ faults \in 0..MaxFaults
    /\ observed \in [Cells -> Recorded]

Init ==
    /\ disk = NoStore
    /\ tmp = NoStore
    /\ logged = [c \in Cells |-> NoEvent]
    /\ logFile = "parses"
    /\ pc = "idle"
    /\ plan = NoPlan
    /\ mem = Blank
    /\ stale = {}
    /\ cursor = 1
    /\ tries = 0
    /\ stage = "text"
    /\ faults = 0
    /\ observed = Blank

-----------------------------------------------------------------------------
(***************************************************************************)
(* Faults, and the end of a run                                            *)
(***************************************************************************)
Fault(kind) ==
    /\ kind \in FaultKinds
    /\ faults < MaxFaults
    /\ faults' = faults + 1

\* The process is gone, returned or dead: only the files survive it.
Down ==
    /\ pc' = "idle"
    /\ plan' = NoPlan
    /\ mem' = Blank
    /\ stale' = {}
    /\ cursor' = 1
    /\ tries' = 0
    /\ stage' = "text"

(***************************************************************************)
(* EventLog.append: parse the whole log, redact, append one line.  Without *)
(* a log `_emit` does nothing.                                             *)
(***************************************************************************)
Emit(c, type, state) ==
    IF HasEventLog
    THEN /\ logFile = "parses"
         /\ logged' = [logged EXCEPT ![c] = [type |-> type, state |-> state]]
         /\ UNCHANGED logFile
    ELSE UNCHANGED log

\* append raises: the log does not parse, the redacted details do not, or the
\* file system refuses the line, possibly after a part of it.
EmitRaises ==
    /\ HasEventLog
    /\ UNCHANGED logged
    /\ \/ logFile = "torn" /\ UNCHANGED <<logFile, faults>>
       \/ logFile = "parses" /\ Fault("emit") /\ UNCHANGED logFile
       \/ logFile = "parses" /\ Fault("torn") /\ logFile' = "torn"

(***************************************************************************)
(* RunStateStore.write, in two steps                                       *)
(***************************************************************************)
WriteText ==
    /\ pc \in WriteSites
    /\ stage = "text"
    /\ tmp' = [plan |-> plan, states |-> mem]
    /\ stage' = "rename"
    /\ UNCHANGED <<disk, log, pc, plan, mem, stale, cursor, tries, faults,
                   observed>>

Replace(site) ==
    /\ pc = site
    /\ stage = "rename"
    /\ tmp # NoStore
    /\ disk' = tmp
    /\ tmp' = NoStore

\* Either step may raise OSError, and the rename does when another process has
\* taken the temporary file away.  No handler of run() encloses a write.
WriteRaises ==
    /\ pc \in WriteSites
    /\ \/ Fault("write")
       \/ stage = "rename" /\ tmp = NoStore /\ UNCHANGED faults
    /\ Down
    /\ UNCHANGED <<disk, tmp, log, observed>>

-----------------------------------------------------------------------------
(***************************************************************************)
(* run(): load the store, recover what a dead process left RUNNING         *)
(***************************************************************************)
\* RunStateStore.read: a missing file is an empty store, a store of another
\* plan raises (and the run is over before it began).
Readable(f) == disk.plan \in {NoPlan, f}

Start(f) ==
    /\ pc = "idle"
    /\ Readable(f)
    /\ pc' = "recover"
    /\ plan' = f
    /\ mem' = disk.states
    /\ stale' = {c \in Cells : disk.states[c] = "running"}
    /\ UNCHANGED <<files, log, cursor, tries, faults, observed>>

RecoverCell(c) ==
    /\ pc = "recover"
    /\ c \in stale
    /\ mem[c] = "running"
    /\ mem' = [mem EXCEPT ![c] = "infra_blocked"]
    /\ Emit(c, "recovered", "infra_blocked")
    /\ UNCHANGED <<files, pc, plan, stale, cursor, tries, faults, observed>>

RecoverRaises ==
    /\ pc = "recover"
    /\ \E c \in stale : mem[c] = "running"
    /\ EmitRaises
    /\ Down
    /\ UNCHANGED <<disk, tmp, observed>>

\* Mutant of AllRecovered: the recovered states stay in memory.
AllRecoveredUnsaved ==
    /\ pc = "recover"
    /\ \A c \in stale : mem[c] # "running"
    /\ pc' = "scan"
    /\ UNCHANGED <<files, log, plan, mem, stale, cursor, tries, faults,
                   observed>>

AllRecovered ==
    /\ pc = "recover"
    /\ \A c \in stale : mem[c] # "running"
    /\ pc' = IF stale = {} THEN "scan" ELSE "recover_write"
    /\ UNCHANGED <<files, log, plan, mem, stale, cursor, tries, faults,
                   observed>>

\* Mutant of RecoverWritten: recovery starts over on the same stale_keys.
RecoverWrittenStartsOver ==
    /\ Replace("recover_write")
    /\ pc' = "recover"
    /\ stage' = "text"
    /\ UNCHANGED <<log, plan, mem, stale, cursor, tries, faults, observed>>

RecoverWritten ==
    /\ Replace("recover_write")
    /\ pc' = "scan"
    /\ stage' = "text"
    /\ UNCHANGED <<log, plan, mem, stale, cursor, tries, faults, observed>>

-----------------------------------------------------------------------------
(***************************************************************************)
(* The loop over the cells of the plan                                     *)
(***************************************************************************)
\* Mutant of Current: the frozen plan's state, whatever the store says.
CurrentIgnoresStore(c) == PlanState[plan][c]

\* states.get(cell.run_key, cell.state)
Current(c) == IF mem[c] = Unrecorded THEN PlanState[plan][c] ELSE mem[c]

Skip ==
    /\ pc = "scan"
    /\ cursor \in Cells
    /\ Current(cursor) \notin Runnable
    /\ cursor' = cursor + 1
    /\ UNCHANGED <<files, log, pc, plan, mem, stale, tries, faults, observed>>

\* Mutant of Claim: execute first, save RUNNING never.
ClaimUnsaved ==
    /\ pc = "scan"
    /\ cursor \in Cells
    /\ Current(cursor) \in Runnable
    /\ mem' = [mem EXCEPT ![cursor] = "running"]
    /\ pc' = "request"
    /\ UNCHANGED <<files, log, plan, stale, cursor, tries, faults, observed>>

Claim ==
    /\ pc = "scan"
    /\ cursor \in Cells
    /\ Current(cursor) \in Runnable
    /\ Accepts(Current(cursor), "running", FALSE)
    /\ mem' = [mem EXCEPT ![cursor] = "running"]
    /\ pc' = "claim_write"
    /\ UNCHANGED <<files, log, plan, stale, cursor, tries, faults, observed>>

ClaimWritten ==
    /\ Replace("claim_write")
    /\ pc' = "request"
    /\ stage' = "text"
    /\ UNCHANGED <<log, plan, mem, stale, cursor, tries, faults, observed>>

Request ==
    /\ pc = "request"
    /\ Emit(cursor, "request", Unrecorded)
    /\ pc' = "execute"
    /\ tries' = RetryAttempts
    /\ UNCHANGED <<files, plan, mem, stale, cursor, faults, observed>>

\* The request event is emitted outside the try block.
RequestRaises ==
    /\ pc = "request"
    /\ EmitRaises
    /\ Down
    /\ UNCHANGED <<disk, tmp, observed>>

Finish ==
    /\ pc = "scan"
    /\ cursor = N + 1
    /\ Down
    /\ UNCHANGED <<disk, tmp, log, faults, observed>>

-----------------------------------------------------------------------------
(***************************************************************************)
(* The try block: retry_with_budget, transition, the completion event      *)
(***************************************************************************)
\* What both exception handlers do first.
Block(handler) ==
    /\ mem' = [mem EXCEPT ![cursor] = "infra_blocked"]
    /\ pc' = handler

Answer(state, hasDigest) ==
    /\ pc = "execute"
    /\ tries > 0
    /\ Accepts("running", state, hasDigest)
    /\ mem' = [mem EXCEPT ![cursor] = state]
    /\ observed' = [observed EXCEPT ![cursor] = state]
    /\ pc' = "complete"
    /\ UNCHANGED <<files, log, plan, stale, cursor, tries, faults>>

\* transition() refuses the executor's state.
InvalidAnswer(state, hasDigest) ==
    /\ pc = "execute"
    /\ tries > 0
    /\ ~Accepts("running", state, hasDigest)
    /\ Block("blocked_write")
    /\ UNCHANGED <<files, log, plan, stale, cursor, tries, faults, observed>>

\* Mutant of Retry: the budget is tested too late.
RetryOnceMore ==
    /\ pc = "execute"
    /\ tries' = tries - 1
    /\ UNCHANGED <<files, log, pc, plan, mem, stale, cursor, faults, observed>>

\* A TransportError with a retryable code, and budget left.
Retry ==
    /\ pc = "execute"
    /\ tries > 1
    /\ tries' = tries - 1
    /\ UNCHANGED <<files, log, pc, plan, mem, stale, cursor, faults, observed>>

\* Mutant of ExecutionRaises: the handler logs the error and saves nothing.
ExecutionRaisesUnsaved ==
    /\ pc = "execute"
    /\ Block("error")
    /\ UNCHANGED <<files, log, plan, stale, cursor, tries, faults, observed>>

\* Any other Exception, a retryable one with the budget spent, or the
\* ValueError of a budget below one.
ExecutionRaises ==
    /\ pc = "execute"
    /\ Block("blocked_write")
    /\ UNCHANGED <<files, log, plan, stale, cursor, tries, faults, observed>>

\* A BaseException (task cancellation, Ctrl-C) at the await.
Interrupt ==
    /\ pc = "execute"
    /\ tries > 0
    /\ Fault("cancel")
    /\ Block("interrupt_write")
    /\ UNCHANGED <<files, log, plan, stale, cursor, tries, observed>>

Complete ==
    /\ pc = "complete"
    /\ Emit(cursor, "completion", mem[cursor])
    /\ pc' = "settle_write"
    /\ UNCHANGED <<files, plan, mem, stale, cursor, tries, faults, observed>>

\* Mutant of CompleteRaises: a log that fails is ignored.
CompleteRaisesIgnored ==
    /\ pc = "complete"
    /\ EmitRaises
    /\ pc' = "settle_write"
    /\ UNCHANGED <<files, plan, mem, stale, cursor, tries, observed>>

\* The completion event is emitted inside the try block.
CompleteRaises ==
    /\ pc = "complete"
    /\ EmitRaises
    /\ Block("blocked_write")
    /\ UNCHANGED <<files, plan, stale, cursor, tries, observed>>

SettleWritten ==
    /\ Replace("settle_write")
    /\ pc' = "scan"
    /\ cursor' = cursor + 1
    /\ stage' = "text"
    /\ UNCHANGED <<log, plan, mem, stale, tries, faults, observed>>

BlockedWritten ==
    /\ Replace("blocked_write")
    /\ pc' = "error"
    /\ stage' = "text"
    /\ UNCHANGED <<log, plan, mem, stale, cursor, tries, faults, observed>>

ErrorLogged ==
    /\ pc = "error"
    /\ Emit(cursor, "error", Unrecorded)
    /\ pc' = "scan"
    /\ cursor' = cursor + 1
    /\ UNCHANGED <<files, plan, mem, stale, tries, faults, observed>>

ErrorRaises ==
    /\ pc = "error"
    /\ EmitRaises
    /\ Down
    /\ UNCHANGED <<disk, tmp, observed>>

\* except BaseException: persist INFRA_BLOCKED, then raise again.
InterruptWritten ==
    /\ Replace("interrupt_write")
    /\ Down
    /\ UNCHANGED <<log, faults, observed>>

\* The process is killed anywhere, between the two steps of a write included.
Crash ==
    /\ pc # "idle"
    /\ Fault("crash")
    /\ Down
    /\ UNCHANGED <<disk, tmp, log, observed>>

-----------------------------------------------------------------------------
ExecutorAnswers ==
    \E a \in Answers : Answer(a[1], a[2]) \/ InvalidAnswer(a[1], a[2])

\* What the code does by itself, the executor's calls included.
Progress ==
    \/ \E c \in Cells : RecoverCell(c)
    \/ AllRecovered \/ RecoverWritten
    \/ Skip \/ Claim \/ ClaimWritten \/ Request \/ Finish
    \/ ExecutorAnswers \/ Retry \/ ExecutionRaises
    \/ Complete \/ SettleWritten \/ BlockedWritten \/ ErrorLogged
    \/ InterruptWritten \/ WriteText

Raises ==
    \/ RecoverRaises \/ RequestRaises \/ CompleteRaises \/ ErrorRaises
    \/ WriteRaises

Next ==
    \/ \E f \in Plans : Start(f)
    \/ Progress
    \/ Raises
    \/ Interrupt
    \/ Crash

Spec == Init /\ [][Next]_vars

(***************************************************************************)
(* Fairness.  Every step of the program is the next statement of a running *)
(* interpreter, so it is not postponed for ever; the executor answers or   *)
(* raises (its transports have timeouts); and whoever runs the benchmark   *)
(* starts it again after it stopped, which is what the CLI's `resume` is   *)
(* for.  The last conjunct is an assumption about the providers, not about *)
(* the code: a cell that is executed again and again gets an outcome some  *)
(* day.                                                                    *)
(***************************************************************************)
Settles(c) ==
    /\ cursor = c
    /\ \E a \in Answers : a[1] \in Terminal /\ Answer(a[1], a[2])

Fairness ==
    /\ WF_vars(Progress)
    /\ WF_vars(\E f \in Plans : Start(f))
    /\ \A c \in Cells : SF_vars(Settles(c))

FairSpec == Spec /\ Fairness

-----------------------------------------------------------------------------
(***************************************************************************)
(* Properties                                                              *)
(***************************************************************************)
\* The points of the loop body at which the current cell is in flight: its
\* RUNNING mark is in the file and its outcome is not.
InFlight == {"request", "execute", "complete", "settle_write",
             "blocked_write", "interrupt_write"}

\* Write-ahead claim: whenever an executor may be running for a cell, or its
\* answer is not yet in the file, the state file on disk says RUNNING for that
\* cell.  This is what lets the next start find the cells a crash interrupted.
ClaimedBeforeExecution ==
    pc \in InFlight => disk.states[cursor] = "running"

\* The converse, up to recovery: once a start has recovered, a RUNNING entry of
\* the file is the cell in flight, or the executor itself answered RUNNING,
\* which transition() lets through as a step to the same state.
RunningIsInFlight ==
    pc \notin {"idle", "recover", "recover_write"} =>
        \A c \in Cells : disk.states[c] = "running" =>
            \/ c = cursor /\ pc \in InFlight
            \/ c < cursor /\ observed[c] = "running"

\* An outcome in the state file is the executor's: no path of recovery, retry or
\* error handling writes a completed, provider_negative or excluded cell that
\* the executor did not report so, and when there is an event log its last
\* event for that cell is the completion with that very state.
OutcomesAreObserved ==
    \A c \in Cells :
        disk.states[c] \in {"completed", "provider_negative", "excluded"} =>
            /\ observed[c] = disk.states[c]
            /\ HasEventLog =>
                 logged[c] = [type |-> "completion", state |-> disk.states[c]]

\* The loop leaves nothing behind: each cell it has passed is settled in the
\* file, and not only in memory (a cell the plan excludes has no entry).
PassedCellsAreSettled ==
    \A c \in Cells : c < cursor =>
        \/ disk.states[c] = Unrecorded /\ PlanState[plan][c] = "not_applicable"
        \/ disk.states[c] \in Terminal \cup {"infra_blocked"}
        \/ disk.states[c] = "running" /\ observed[c] = "running"

\* The state file, whatever the crashes, failed writes and restarts, implements
\* the ledger: it stays with its plan, outcomes are final, a blocked cell can
\* only be reopened.
Ledger == INSTANCE CellLedger WITH owner <- disk.plan, ledger <- disk.states
ImplementsLedger == Ledger!LedgerSpec

\* Every run comes to an end: no combination of retries, recoveries and handlers
\* keeps run() going.
RunsEnd == (pc # "idle") ~> (pc = "idle")

\* With finitely many faults and providers that answer some day, restarting is
\* enough: in the end every applicable cell has a terminal outcome on disk, for
\* good.
Applicable(f) == {c \in Cells : PlanState[f][c] = "planned"}
EveryCellSettles ==
    <>[](\E f \in Plans :
            /\ disk.plan = f
            /\ \A c \in Applicable(f) : disk.states[c] \in Terminal)

\* The consequence of ImplementsLedger that matters most to a release: no restart,
\* crash or error path ever changes a terminal outcome in the state file.
OutcomesAreFinal ==
    [][\A c \in Cells : disk.states[c] \in Terminal =>
          disk'.states[c] = disk.states[c]]_disk
=============================================================================
