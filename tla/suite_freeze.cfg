SPECIFICATION Spec
CONSTANTS
    o1 = o1
    o2 = o2
    Files = {"a", "b"}
    FileOrder <- MCFileOrder
    Checkout <- MCCheckout
    FileEdits <- MCFileEdits
    Operators = {o1, o2}
    Request <- MCRequest
    Torn <- Emptied
    Undecided = Undecided
    NoOne = NoOne
    MaxChanges = 1
    Documents <- MCDocuments
    Revisions <- MCRevisions
    NoTool = NoTool
    AnyMode = AnyMode
    Applicable = Applicable
    NoResult = NoResult
    TornResult = TornResult
    MaxCompiles = 2
INVARIANTS
    SuiteTypeOK
    CohortIsWhole
    FingerprintIdentifiesPlan
    AgentCellsUseTheCanonicalTool
    ValidatedBindingsResolve
    DecisionsStand
CHECK_DEADLOCK FALSE
