SPECIFICATION Spec
CONSTANTS
    Canonical = Canonical
    OtherTool = OtherTool
    Timeout = 2
    MaxElapsed = 4
    TokenBudget = 1
    Frozen <- MCFrozen
    Exposed = {"symbol"}
    Schema <- MCSchema
    Required = {"symbol"}
    Closed = "no"
    KindOf <- MCKindOf
    Proposals <- MCProposals
    ParamType <- MCParamType
    RequiredParams = {"symbol"}
    ValueKind <- MCValueKind
    Runs = {r1, r2}
    Fixtures <- MCFixtures
    Rounds = 1
    CallAnswers <- MCCallAnswers
    Messages <- MCMessages
    MaxCuts = 1
    Earlier <- MCEarlier
SYMMETRY Symmetry
CHECK_DEADLOCK FALSE
INVARIANTS
    TraceFollowsTheProtocol
    FiguresAreOfOneRun
    RawBacksTheRecords
