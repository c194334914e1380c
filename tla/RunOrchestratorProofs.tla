----------------------- MODULE RunOrchestratorProofs -----------------------
(***************************************************************************)
(* Proofs about RunOrchestrator, for every plan, executor, retry budget    *)
(* and number of faults.  The inductive invariant says, for each point of  *)
(* the program, how the `states` dictionary in memory differs from the     *)
(* state file: not at all outside the cell in flight.                      *)
(***************************************************************************)
EXTENDS RunOrchestrator, TLAPS

\* The cells whose dictionary entry may be ahead of the file.
Ahead ==
    CASE pc \in {"recover", "recover_write"} -> stale
      [] pc \in {"claim_write", "complete", "settle_write", "blocked_write",
                 "interrupt_write"} -> {cursor}
      [] OTHER -> {}

\* Only cells a run took up are in the file, and a file that does not exist
\* records none.
FileInv ==
    \A c \in Cells :
        /\ disk.states[c] \notin {"planned", "not_applicable"}
        /\ disk.plan = NoPlan => disk.states[c] = Unrecorded

ProcessInv ==
    /\ pc # "idle" => plan \in Plans /\ disk.plan \in {NoPlan, plan}
    /\ pc \in {"idle", "recover", "recover_write"} => cursor = 1
    /\ pc \in InFlight \cup {"claim_write", "error"} => cursor \in Cells
    /\ stage = "rename" => pc \in WriteSites /\ tmp = [plan |-> plan, states |-> mem]

MemoryInv ==
    pc # "idle" => \A c \in Cells : c \notin Ahead => mem[c] = disk.states[c]

RecoveryInv ==
    pc \in {"recover", "recover_write"} =>
        /\ \A c \in Cells : c \in stale <=> disk.states[c] = "running"
        /\ \A c \in stale : mem[c] \in {"running", "infra_blocked"}
        /\ pc = "recover_write" =>
             stale # {} /\ \A c \in stale : mem[c] = "infra_blocked"

CellInv ==
    /\ pc = "claim_write" =>
         /\ mem[cursor] = "running"
         /\ \/ disk.states[cursor] = Unrecorded
               /\ PlanState[plan][cursor] = "planned"
            \/ disk.states[cursor] = "infra_blocked"
    /\ pc \in {"complete", "settle_write"} =>
         /\ mem[cursor] \in Successors("running") \cup {"running"}
         /\ mem[cursor] = observed[cursor]
    /\ pc = "settle_write" /\ HasEventLog =>
         logged[cursor] = [type |-> "completion", state |-> mem[cursor]]
    /\ pc \in {"blocked_write", "interrupt_write"} =>
         mem[cursor] = "infra_blocked"
    /\ pc = "error" => disk.states[cursor] = "infra_blocked"

IInv ==
    /\ TypeOK
    /\ FileInv
    /\ ProcessInv
    /\ MemoryInv
    /\ RecoveryInv
    /\ CellInv
    /\ ClaimedBeforeExecution
    /\ RunningIsInFlight
    /\ OutcomesAreObserved
    /\ PassedCellsAreSettled

-----------------------------------------------------------------------------
USE DEF Cells, Recorded, Store, Blank, NoStore

LEMMA TypeInit == Init => TypeOK
BY ConstantsOK DEF ConstantsOK, Init, TypeOK, Event, NoEvent, Points

LEMMA TypeStep == TypeOK /\ ProcessInv /\ [Next]_vars => TypeOK'
<1> SUFFICES ASSUME TypeOK, ProcessInv, [Next]_vars PROVE TypeOK'
  OBVIOUS
<1> USE ConstantsOK DEF ConstantsOK, TypeOK, Points, WriteSites,
                      ProcessInv, InFlight
<1>1. ASSUME NEW f \in Plans, Start(f) PROVE TypeOK'
  BY <1>1 DEF Start, files, log
<1>2. ASSUME NEW c \in Cells, RecoverCell(c) PROVE TypeOK'
  <2>1. logged' \in [Cells -> Event] /\ logFile' \in {"parses", "torn"}
    BY <1>2 DEF RecoverCell, Emit, Event, log, CellStates
  <2>2. mem' \in [Cells -> Recorded]
    BY <1>2 DEF RecoverCell, CellStates
  <2>q. QED
    BY <1>2, <2>1, <2>2 DEF RecoverCell, files
<1>3. ASSUME NEW a \in Answers, Answer(a[1], a[2]) PROVE TypeOK'
  BY <1>3 DEF Answer, files, log
<1>4. ASSUME NEW a \in Answers, InvalidAnswer(a[1], a[2]) PROVE TypeOK'
  BY <1>4 DEF InvalidAnswer, Block, files, log, CellStates
<1>5. CASE AllRecovered
  BY <1>5 DEF AllRecovered, files, log
<1>6. CASE RecoverWritten
  BY <1>6 DEF RecoverWritten, Replace, log
<1>7. CASE Skip
  BY <1>7 DEF Skip, files, log
<1>8. CASE Claim
  BY <1>8 DEF Claim, files, log, CellStates
<1>9. CASE ClaimWritten
  BY <1>9 DEF ClaimWritten, Replace, log
<1>10. CASE Request
  BY <1>10 DEF Request, Emit, Event, files, log
<1>11. CASE Finish
  BY <1>11 DEF Finish, Down, log
<1>12. CASE Retry
  BY <1>12 DEF Retry, files, log
<1>13. CASE ExecutionRaises
  BY <1>13 DEF ExecutionRaises, Block, files, log, CellStates
<1>14. CASE Complete
  BY <1>14 DEF Complete, Emit, Event, files, log
<1>15. CASE SettleWritten
  BY <1>15 DEF SettleWritten, Replace, log
<1>16. CASE BlockedWritten
  BY <1>16 DEF BlockedWritten, Replace, log
<1>17. CASE ErrorLogged
  BY <1>17 DEF ErrorLogged, Emit, Event, files, log
<1>18. CASE InterruptWritten
  BY <1>18 DEF InterruptWritten, Replace, Down, log
<1>19. CASE WriteText
  BY <1>19 DEF WriteText, log
<1>20. CASE RecoverRaises
  BY <1>20 DEF RecoverRaises, EmitRaises, Fault, Down
<1>21. CASE RequestRaises
  BY <1>21 DEF RequestRaises, EmitRaises, Fault, Down
<1>22. CASE CompleteRaises
  BY <1>22 DEF CompleteRaises, EmitRaises, Fault, Block, files, CellStates
<1>23. CASE ErrorRaises
  BY <1>23 DEF ErrorRaises, EmitRaises, Fault, Down
<1>24. CASE WriteRaises
  BY <1>24 DEF WriteRaises, Fault, Down, log
<1>25. CASE Interrupt
  BY <1>25 DEF Interrupt, Fault, Block, files, log, CellStates
<1>26. CASE Crash
  BY <1>26 DEF Crash, Fault, Down, log
<1>27. CASE UNCHANGED vars
  BY <1>27 DEF vars, Event
<1>q. QED
  BY <1>1, <1>2, <1>3, <1>4, <1>5, <1>6, <1>7, <1>8, <1>9, <1>10, <1>11, <1>12, <1>13, <1>14, <1>15, <1>16, <1>17, <1>18, <1>19, <1>20, <1>21, <1>22, <1>23, <1>24, <1>25, <1>26, <1>27
     DEF Next, Progress, Raises, ExecutorAnswers
\* An event about a cell without an outcome in the file disturbs nothing.
LEMMA EventAboutOpenCell ==
    ASSUME OutcomesAreObserved, logged \in [Cells -> Event],
           NEW k \in Cells, disk.states[k] \in {"running", "infra_blocked"},
           NEW e, logged' \in {logged, [logged EXCEPT ![k] = e]},
           UNCHANGED <<disk, observed>>
    PROVE  OutcomesAreObserved'
<1> SUFFICES ASSUME NEW c \in Cells, c # k
             PROVE  logged'[c] = logged[c]
  BY DEF OutcomesAreObserved
<1>1. CASE logged' = logged
  BY <1>1
<1>2. CASE logged' = [logged EXCEPT ![k] = e]
  BY <1>2
<1>q. QED
  BY <1>1, <1>2

LEMMA InvInit == Init => IInv
BY TypeInit, ConstantsOK
   DEF ConstantsOK, Init, IInv, FileInv, ProcessInv, MemoryInv, Ahead,
       RecoveryInv, CellInv, ClaimedBeforeExecution, RunningIsInFlight,
       OutcomesAreObserved, PassedCellsAreSettled, InFlight, WriteSites,
       CellStates

LEMMA InvStep == IInv /\ [Next]_vars => IInv'
<1> SUFFICES ASSUME IInv, [Next]_vars PROVE IInv'
  OBVIOUS
<1>t. TypeOK'
  BY TypeStep DEF IInv
<1>o. OutcomesAreObserved /\ logged \in [Cells -> Event]
  BY DEF IInv, TypeOK
<1> USE ConstantsOK, <1>t
    DEF ConstantsOK, IInv, TypeOK, Event, Points, WriteSites, InFlight,
        Runnable, Terminal, Successors, FileInv, ProcessInv, MemoryInv, Ahead,
        RecoveryInv, CellInv, ClaimedBeforeExecution, RunningIsInFlight,
        OutcomesAreObserved, PassedCellsAreSettled
<1>1. ASSUME NEW f \in Plans, Start(f) PROVE IInv'
  BY <1>1 DEF Start, Readable, files, log
<1>2. ASSUME NEW c \in Cells, RecoverCell(c) PROVE IInv'
  <2>1. OutcomesAreObserved'
    <3>1. disk.states[c] = "running"
      BY <1>2 DEF RecoverCell
    <3>2. logged' \in {logged, [logged EXCEPT ![c] =
                       [type |-> "recovered", state |-> "infra_blocked"]]}
      BY <1>2 DEF RecoverCell, Emit, log
    <3>3. UNCHANGED <<disk, observed>>
      BY <1>2 DEF RecoverCell, files
    <3> HIDE <1>t DEF IInv, TypeOK, OutcomesAreObserved, Event, ProcessInv,
                  MemoryInv, RecoveryInv, CellInv, RunningIsInFlight
    <3>q. QED
      BY <1>o, <3>1, <3>2, <3>3, EventAboutOpenCell
  <2>2. FileInv'
    BY <1>2 DEF RecoverCell, Emit, files, log
  <2>3. ProcessInv'
    BY <1>2 DEF RecoverCell, Emit, files, log
  <2>4. MemoryInv'
    BY <1>2 DEF RecoverCell, Emit, files, log
  <2>5. RecoveryInv'
    BY <1>2 DEF RecoverCell, Emit, files, log
  <2>6. CellInv'
    BY <1>2 DEF RecoverCell, Emit, files, log
  <2>7. ClaimedBeforeExecution'
    BY <1>2 DEF RecoverCell, Emit, files, log
  <2>8. RunningIsInFlight'
    BY <1>2 DEF RecoverCell, Emit, files, log
  <2>9. PassedCellsAreSettled'
    BY <1>2 DEF RecoverCell, Emit, files, log
  <2>q. QED
    BY <2>1, <2>2, <2>3, <2>4, <2>5, <2>6, <2>7, <2>8, <2>9
<1>3. ASSUME NEW a \in Answers, Answer(a[1], a[2]) PROVE IInv'
  BY <1>3 DEF Answer, Accepts, files, log
<1>4. ASSUME NEW a \in Answers, InvalidAnswer(a[1], a[2]) PROVE IInv'
  BY <1>4 DEF InvalidAnswer, Block, files, log, CellStates
<1>5. CASE AllRecovered
  BY <1>5 DEF AllRecovered, files, log
<1>6. CASE RecoverWritten
  BY <1>6 DEF RecoverWritten, Replace, log
<1>7. CASE Skip
  <2>1. FileInv'
    BY <1>7 DEF Skip, Current, files, log
  <2>2. ProcessInv'
    BY <1>7 DEF Skip, Current, files, log
  <2>3. MemoryInv'
    BY <1>7 DEF Skip, Current, files, log
  <2>4. RecoveryInv'
    BY <1>7 DEF Skip, Current, files, log
  <2>5. CellInv'
    BY <1>7 DEF Skip, Current, files, log
  <2>6. ClaimedBeforeExecution'
    BY <1>7 DEF Skip, Current, files, log
  <2>7. RunningIsInFlight'
    BY <1>7 DEF Skip, Current, files, log
  <2>8. OutcomesAreObserved'
    BY <1>7 DEF Skip, Current, files, log
  <2>9. PassedCellsAreSettled'
    <3>1. UNCHANGED <<disk, plan, observed>> /\ cursor' = cursor + 1
      BY <1>7 DEF Skip, files
    <3>2. \A c \in Cells : c < cursor' => c < cursor \/ c = cursor
      BY <3>1
    <3>3. \/ disk.states[cursor] = Unrecorded
             /\ PlanState[plan][cursor] = "not_applicable"
          \/ disk.states[cursor] \in Terminal
      BY <1>7 DEF Skip, Current, CellStates
    <3>q. QED
      BY <3>1, <3>2, <3>3
  <2>q. QED
    BY <2>1, <2>2, <2>3, <2>4, <2>5, <2>6, <2>7, <2>8, <2>9
<1>8. CASE Claim
  BY <1>8 DEF Claim, Current, files, log, CellStates
<1>9. CASE ClaimWritten
  <2>1. FileInv'
    BY <1>9 DEF ClaimWritten, Replace, log
  <2>2. ProcessInv'
    BY <1>9 DEF ClaimWritten, Replace, log
  <2>3. MemoryInv'
    BY <1>9 DEF ClaimWritten, Replace, log
  <2>4. RecoveryInv'
    BY <1>9 DEF ClaimWritten, Replace, log
  <2>5. CellInv'
    BY <1>9 DEF ClaimWritten, Replace, log
  <2>6. ClaimedBeforeExecution'
    BY <1>9 DEF ClaimWritten, Replace, log
  <2>7. RunningIsInFlight'
    BY <1>9 DEF ClaimWritten, Replace, log
  <2>8. OutcomesAreObserved'
    <3>1. UNCHANGED <<logged, observed>>
      BY <1>9 DEF ClaimWritten, log
    <3>2. \A c \in Cells : disk'.states[c] \in {"running", disk.states[c]}
      BY <1>9 DEF ClaimWritten, Replace
    <3> HIDE <1>t DEF IInv, TypeOK, Event, ProcessInv, MemoryInv, RecoveryInv,
                  CellInv, RunningIsInFlight
    <3>q. QED
      BY <1>o, <3>1, <3>2
  <2>9. PassedCellsAreSettled'
    <3> SUFFICES ASSUME NEW c \in Cells, c < cursor
                 PROVE  disk'.states[c] = disk.states[c]
      BY <1>9 DEF ClaimWritten
    <3>q. QED
      BY <1>9 DEF ClaimWritten, Replace
  <2>q. QED
    BY <2>1, <2>2, <2>3, <2>4, <2>5, <2>6, <2>7, <2>8, <2>9
<1>10. CASE Request
  <2>1. FileInv'
    BY <1>10 DEF Request, Emit, files, log
  <2>2. ProcessInv'
    BY <1>10 DEF Request, Emit, files, log
  <2>3. MemoryInv'
    BY <1>10 DEF Request, Emit, files, log
  <2>4. RecoveryInv'
    BY <1>10 DEF Request, Emit, files, log
  <2>5. CellInv'
    BY <1>10 DEF Request, Emit, files, log
  <2>6. ClaimedBeforeExecution'
    BY <1>10 DEF Request, Emit, files, log
  <2>7. RunningIsInFlight'
    BY <1>10 DEF Request, Emit, files, log
  <2>8. OutcomesAreObserved'
    <3>1. cursor \in Cells /\ disk.states[cursor] \in {"running", "infra_blocked"}
      BY <1>10 DEF Request
    <3>2. logged' \in {logged, [logged EXCEPT ![cursor] =
                       [type |-> "request", state |-> Unrecorded]]}
      BY <1>10 DEF Request, Emit, log
    <3>3. UNCHANGED <<disk, observed>>
      BY <1>10 DEF Request, files
    <3> HIDE <1>t DEF IInv, TypeOK, OutcomesAreObserved, Event, ProcessInv,
                  MemoryInv, RecoveryInv, CellInv, RunningIsInFlight
    <3>q. QED
      BY <1>o, <3>1, <3>2, <3>3, EventAboutOpenCell
  <2>9. PassedCellsAreSettled'
    BY <1>10 DEF Request, Emit, files, log
  <2>q. QED
    BY <2>1, <2>2, <2>3, <2>4, <2>5, <2>6, <2>7, <2>8, <2>9
<1>11. CASE Finish
  BY <1>11 DEF Finish, Down, log
<1>12. CASE Retry
  BY <1>12 DEF Retry, files, log
<1>13. CASE ExecutionRaises
  BY <1>13 DEF ExecutionRaises, Block, files, log, CellStates
<1>14. CASE Complete
  BY <1>14 DEF Complete, Emit, files, log
<1>15. CASE SettleWritten
  <2>1. FileInv'
    BY <1>15 DEF SettleWritten, Replace, log
  <2>2. ProcessInv'
    BY <1>15 DEF SettleWritten, Replace, log
  <2>3. MemoryInv'
    BY <1>15 DEF SettleWritten, Replace, log
  <2>4. RecoveryInv'
    BY <1>15 DEF SettleWritten, Replace, log
  <2>5. CellInv'
    BY <1>15 DEF SettleWritten, Replace, log
  <2>6. ClaimedBeforeExecution'
    BY <1>15 DEF SettleWritten, Replace, log
  <2>7. RunningIsInFlight'
    BY <1>15 DEF SettleWritten, Replace, log
  <2>8. OutcomesAreObserved'
    BY <1>15 DEF SettleWritten, Replace, log
  <2>9. PassedCellsAreSettled'
    BY <1>15 DEF SettleWritten, Replace, log
  <2>q. QED
    BY <2>1, <2>2, <2>3, <2>4, <2>5, <2>6, <2>7, <2>8, <2>9
<1>16. CASE BlockedWritten
  BY <1>16 DEF BlockedWritten, Replace, log
<1>17. CASE ErrorLogged
  <2>1. FileInv'
    BY <1>17 DEF ErrorLogged, Emit, files, log
  <2>2. ProcessInv'
    BY <1>17 DEF ErrorLogged, Emit, files, log
  <2>3. MemoryInv'
    BY <1>17 DEF ErrorLogged, Emit, files, log
  <2>4. RecoveryInv'
    BY <1>17 DEF ErrorLogged, Emit, files, log
  <2>5. CellInv'
    BY <1>17 DEF ErrorLogged, Emit, files, log
  <2>6. ClaimedBeforeExecution'
    BY <1>17 DEF ErrorLogged, Emit, files, log
  <2>7. RunningIsInFlight'
    BY <1>17 DEF ErrorLogged, Emit, files, log
  <2>8. OutcomesAreObserved'
    <3>1. cursor \in Cells /\ disk.states[cursor] \in {"running", "infra_blocked"}
      BY <1>17 DEF ErrorLogged
    <3>2. logged' \in {logged, [logged EXCEPT ![cursor] =
                       [type |-> "error", state |-> Unrecorded]]}
      BY <1>17 DEF ErrorLogged, Emit, log
    <3>3. UNCHANGED <<disk, observed>>
      BY <1>17 DEF ErrorLogged, files
    <3> HIDE <1>t DEF IInv, TypeOK, OutcomesAreObserved, Event, ProcessInv,
                  MemoryInv, RecoveryInv, CellInv, RunningIsInFlight
    <3>q. QED
      BY <1>o, <3>1, <3>2, <3>3, EventAboutOpenCell
  <2>9. PassedCellsAreSettled'
    BY <1>17 DEF ErrorLogged, Emit, files, log
  <2>q. QED
    BY <2>1, <2>2, <2>3, <2>4, <2>5, <2>6, <2>7, <2>8, <2>9
<1>18. CASE InterruptWritten
  <2>1. FileInv'
    BY <1>18 DEF InterruptWritten, Replace, Down, log
  <2>2. ProcessInv'
    BY <1>18 DEF InterruptWritten, Replace, Down, log
  <2>3. MemoryInv'
    BY <1>18 DEF InterruptWritten, Replace, Down, log
  <2>4. RecoveryInv'
    BY <1>18 DEF InterruptWritten, Replace, Down, log
  <2>5. CellInv'
    BY <1>18 DEF InterruptWritten, Replace, Down, log
  <2>6. ClaimedBeforeExecution'
    BY <1>18 DEF InterruptWritten, Replace, Down, log
  <2>7. RunningIsInFlight'
    BY <1>18 DEF InterruptWritten, Replace, Down, log
  <2>8. OutcomesAreObserved'
    BY <1>18 DEF InterruptWritten, Replace, Down, log
  <2>9. PassedCellsAreSettled'
    BY <1>18 DEF InterruptWritten, Replace, Down, log
  <2>q. QED
    BY <2>1, <2>2, <2>3, <2>4, <2>5, <2>6, <2>7, <2>8, <2>9
<1>19. CASE WriteText
  BY <1>19 DEF WriteText, log
<1>20. CASE RecoverRaises
  BY <1>20 DEF RecoverRaises, EmitRaises, Fault, Down
<1>21. CASE RequestRaises
  BY <1>21 DEF RequestRaises, EmitRaises, Fault, Down
<1>22. CASE CompleteRaises
  BY <1>22 DEF CompleteRaises, EmitRaises, Fault, Block, files, CellStates
<1>23. CASE ErrorRaises
  BY <1>23 DEF ErrorRaises, EmitRaises, Fault, Down
<1>24. CASE WriteRaises
  BY <1>24 DEF WriteRaises, Fault, Down, log
<1>25. CASE Interrupt
  BY <1>25 DEF Interrupt, Fault, Block, files, log, CellStates
<1>26. CASE Crash
  BY <1>26 DEF Crash, Fault, Down, log
<1>27. CASE UNCHANGED vars
  BY <1>27 DEF vars
<1>q. QED
  BY <1>1, <1>2, <1>3, <1>4, <1>5, <1>6, <1>7, <1>8, <1>9, <1>10, <1>11,
     <1>12, <1>13, <1>14, <1>15, <1>16, <1>17, <1>18, <1>19, <1>20, <1>21,
     <1>22, <1>23, <1>24, <1>25, <1>26, <1>27
     DEF Next, Progress, Raises, ExecutorAnswers

\* The inductive invariant holds in every reachable state of every instance.
THEOREM InductiveInvariant == Spec => []IInv
BY InvInit, InvStep, PTL DEF Spec

-----------------------------------------------------------------------------
(***************************************************************************)
(* What follows from it                                                    *)
(***************************************************************************)
\* Every variable keeps its type.
THEOREM TypeCorrect == Spec => []TypeOK
<1>1. IInv => TypeOK
  BY DEF IInv
<1>q. QED
  BY <1>1, InductiveInvariant, PTL

\* No executor runs for a cell that the state file does not call RUNNING.
THEOREM WriteAheadClaim == Spec => []ClaimedBeforeExecution
<1>1. IInv => ClaimedBeforeExecution
  BY DEF IInv
<1>q. QED
  BY <1>1, InductiveInvariant, PTL

\* After recovery a RUNNING entry is the cell in flight or the executor's answer.
THEOREM NoAbandonedRunning == Spec => []RunningIsInFlight
<1>1. IInv => RunningIsInFlight
  BY DEF IInv
<1>q. QED
  BY <1>1, InductiveInvariant, PTL

\* The outcomes of the state file are the executor's, and logged before.
THEOREM OutcomesAreGenuine == Spec => []OutcomesAreObserved
<1>1. IInv => OutcomesAreObserved
  BY DEF IInv
<1>q. QED
  BY <1>1, InductiveInvariant, PTL

\* The loop settles each cell on disk before it goes on to the next.
THEOREM NothingLeftBehind == Spec => []PassedCellsAreSettled
<1>1. IInv => PassedCellsAreSettled
  BY DEF IInv
<1>q. QED
  BY <1>1, InductiveInvariant, PTL

-----------------------------------------------------------------------------
(***************************************************************************)
(* The state file implements the ledger                                    *)
(***************************************************************************)
LEMMA LedgerStart == Init => Ledger!LedgerInit
BY DEF Init, Ledger!LedgerInit

\* Only a rename over the state file is a step of the ledger.
LEMMA OnlyRenamesTouchDisk ==
    ASSUME [Next]_vars
    PROVE  \/ UNCHANGED disk
           \/ RecoverWritten \/ ClaimWritten \/ SettleWritten
           \/ BlockedWritten \/ InterruptWritten
BY DEF Next, Progress, Raises, ExecutorAnswers, vars, files, Start,
       RecoverCell, AllRecovered, Skip, Claim, Request, Finish, Retry,
       ExecutionRaises, Answer, InvalidAnswer, Complete, ErrorLogged,
       WriteText, RecoverRaises, RequestRaises, CompleteRaises, ErrorRaises,
       WriteRaises, Interrupt, Crash

LEMMA LedgerStep ==
    IInv /\ [Next]_vars => [Ledger!LedgerNext]_<<disk.plan, disk.states>>
<1> SUFFICES ASSUME IInv, [Next]_vars
             PROVE  [Ledger!LedgerNext]_<<disk.plan, disk.states>>
  OBVIOUS
<1> USE DEF IInv, TypeOK, ProcessInv, FileInv, MemoryInv, Ahead, InFlight,
        WriteSites, Replace
<1>1. CASE UNCHANGED disk
  BY <1>1
<1>2. CASE RecoverWritten
  <2>1. disk' = [plan |-> plan, states |-> mem]
    BY <1>2 DEF RecoverWritten
  <2>2. PICK c \in Cells : disk.states[c] = "running"
    BY <1>2 DEF RecoverWritten, RecoveryInv
  <2>3. disk.plan = plan
    BY <1>2, <2>2, ConstantsOK DEF ConstantsOK, RecoverWritten, CellStates
  <2>4. mem = [d \in Cells |-> IF disk.states[d] = "running"
                               THEN "infra_blocked" ELSE disk.states[d]]
    BY <1>2 DEF RecoverWritten, RecoveryInv
  <2>q. QED
    BY <2>1, <2>3, <2>4 DEF Ledger!LedgerNext, Ledger!BlockAllOpen
<1>3. CASE ClaimWritten
  <2>1. disk' = [plan |-> plan, states |-> mem]
    BY <1>3 DEF ClaimWritten
  <2>2. plan \in Plans /\ cursor \in Cells /\ disk.plan \in {NoPlan, plan}
    BY <1>3 DEF ClaimWritten
  <2>3. mem = [disk.states EXCEPT ![cursor] = "running"]
    BY <1>3 DEF ClaimWritten, CellInv
  <2>4. Ledger!Open(plan, cursor)
    BY <1>3, <2>1, <2>2, <2>3 DEF ClaimWritten, CellInv, Ledger!Open
  <2>q. QED
    BY <2>2, <2>4 DEF Ledger!LedgerNext
<1>4. ASSUME SettleWritten \/ BlockedWritten \/ InterruptWritten
      PROVE  [Ledger!LedgerNext]_<<disk.plan, disk.states>>
  <2>1. disk' = [plan |-> plan, states |-> mem]
    BY <1>4 DEF SettleWritten, BlockedWritten, InterruptWritten
  <2>2. cursor \in Cells /\ disk.states[cursor] = "running"
    BY <1>4 DEF SettleWritten, BlockedWritten, InterruptWritten,
                ClaimedBeforeExecution
  <2>3. disk.plan = plan
    BY <1>4, <2>2, ConstantsOK
    DEF ConstantsOK, SettleWritten, BlockedWritten, InterruptWritten,
        CellStates
  <2>4. mem[cursor] \in Successors("running") \cup {"running"}
    BY <1>4 DEF SettleWritten, BlockedWritten, InterruptWritten, CellInv,
                Successors
  <2>5. mem = [disk.states EXCEPT ![cursor] = mem[cursor]]
    BY <1>4, <2>2 DEF SettleWritten, BlockedWritten, InterruptWritten
  <2>6. CASE mem[cursor] = "running"
    <3>1. mem = disk.states
      BY <2>2, <2>5, <2>6
    <3>q. QED
      BY <2>1, <2>3, <3>1
  <2>7. CASE mem[cursor] \in Successors("running")
    <3>1. Ledger!Close(cursor)
      BY <2>1, <2>2, <2>3, <2>5, <2>7
      DEF Ledger!Close, Ledger!Successors, Successors
    <3>q. QED
      BY <2>2, <3>1 DEF Ledger!LedgerNext
  <2>q. QED
    BY <2>4, <2>6, <2>7
<1>q. QED
  BY <1>1, <1>2, <1>3, <1>4, OnlyRenamesTouchDisk

\* Refinement: the state file behaves as the ledger whatever happens to the
\* processes: one plan, final outcomes, blocked cells that only reopen.
THEOREM LedgerImplemented == Spec => ImplementsLedger
<1>1. Init => Ledger!LedgerInit
  BY LedgerStart
<1>2. IInv /\ [Next]_vars => [Ledger!LedgerNext]_<<disk.plan, disk.states>>
  BY LedgerStep
<1>q. QED
  BY <1>1, <1>2, InductiveInvariant, PTL
  DEF Spec, ImplementsLedger, Ledger!LedgerSpec

\* No step changes a terminal outcome of the state file.
THEOREM TerminalOutcomesStay == Spec => OutcomesAreFinal
<1>1. ASSUME IInv, [Ledger!LedgerNext]_<<disk.plan, disk.states>>,
             NEW c \in Cells, disk.states[c] \in Terminal
      PROVE  disk'.states[c] = disk.states[c]
  <2>1. CASE UNCHANGED <<disk.plan, disk.states>>
    BY <2>1
  <2>2. CASE Ledger!LedgerNext
    <3>1. disk.states \in [Cells -> Recorded] /\ Unrecorded # disk.states[c]
      BY <1>1, ConstantsOK
      DEF ConstantsOK, IInv, TypeOK, Terminal, CellStates
    <3>q. QED
      BY <1>1, <2>2, <3>1
      DEF Ledger!LedgerNext, Ledger!Open, Ledger!Close, Ledger!BlockAllOpen,
          Terminal
  <2>q. QED
    BY <1>1, <2>1, <2>2
<1>2. IInv /\ [Next]_vars =>
         [\A c \in Cells : disk.states[c] \in Terminal =>
             disk'.states[c] = disk.states[c]]_disk
  BY <1>1, LedgerStep
<1>q. QED
  BY <1>2, InductiveInvariant, PTL DEF Spec, OutcomesAreFinal
=============================================================================
