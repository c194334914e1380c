SPECIFICATION Spec
CONSTANTS
    a = a
    b = b
    c = c
    NoValue = NoValue
    Members = {a, b, c}
    Values = {1, 2, 3}
    RankingLists <- MCRankings
    ScoreLists <- MCScores
INVARIANTS
    AcceptedIsRight
    RejectedIsWrong
CHECK_DEADLOCK FALSE
