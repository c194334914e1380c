SPECIFICATION FairSpec
CONSTANTS
    f1 = f1
    f2 = f2
    NoPlan = NoPlan
    Unrecorded = Unrecorded
    N = 3
    Plans = {f1}
    PlanState <- MCOnePlan
    Answers <- AnyAnswer
    RetryAttempts = 2
    HasEventLog = TRUE
    FaultKinds = {"crash", "cancel", "write", "emit"}
    MaxFaults = 2
PROPERTIES
    RunsEnd
    EveryCellSettles
