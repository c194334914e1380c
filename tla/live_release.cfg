SPECIFICATION MCSpec
CONSTANTS
    Absent = Absent
    NoResult = NoResult
    Torn = Torn
    NoJob = NoJob
    NoFile = NoFile
    Workflows = {"gateway", "market"}
    NoDocument = NoDocument
    Partial = Partial
    MarketCells = {Pos, Neg}
    MarketCase <- McMarketCase
    MarketIdentity <- McMarketIdentity
    MarketAnswers <- McMarketAnswers
    MarketRevisions = {1, 2}
    Retouched <- McRetouched
    MarketFiles <- McMarketFiles
    MaxMarketRuns = 2
    MaxTroubles = 1
    Pos = Pos
    Neg = Neg
    B1 = B1
    B2 = B2
    T1 = T1
    T2 = T2
    P1 = P1
    P2 = P2
    Cells = {Pos, Neg}
    Caps = {"bond", "action"}
    CaseOf <- McCaseOf
    Commits <- McCommits
    Registries <- McRegistries
    Searches <- McSearches
    Answers <- McAnswers
    MaxIncidents = 1
    ReleaseFiles <- McReleaseFiles
    Builders = {B1, B2}
INVARIANTS
    AssemblyTypeOK
    ReleaseBindsItsRun
    CompletedMeansAnswered
    ReleaseIsWhole
    GoodRunsAreReleasable
    DividendReleaseIsOfOneRun
    GoodDividendRunsAreReleasable
SYMMETRY BuilderSymmetry
CHECK_DEADLOCK FALSE
