SPECIFICATION Spec
CONSTANTS
    f1 = f1
    f2 = f2
    NoPlan = NoPlan
    Unrecorded = Unrecorded
    N = 3
    Plans = {f1, f2}
    PlanState <- MCPlanState
    Answers <- AnyAnswer
    RetryAttempts = 2
    HasEventLog = TRUE
    FaultKinds = {"crash", "cancel", "write", "emit", "torn"}
    MaxFaults = 2
INVARIANTS
    TypeOK
    ClaimedBeforeExecution
    RunningIsInFlight
    OutcomesAreObserved
    PassedCellsAreSettled
PROPERTIES
    ImplementsLedger
