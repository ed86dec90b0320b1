CONSTANTS
    Bound = 8
    MaxChunks = 3
    Space <- MCSpace
    MaxUsize = 100
    Duration = {1, 5}
    MaxSize = 1
    Graphs <- MCGraphs
    Spaced = {1, 3}
    Job <- MCJobs
    Id <- MCIds
    TokenHonoured = TRUE
    MinInt <- MCMinInt
    MaxInt = 7
    MaxHalves = 40
    DefaultOperationLimit = 2
    MaxExpressionDepth = 4
SPECIFICATION JobSpec
INVARIANT JobTextsAreExact
INVARIANT WalkIsComplete
INVARIANT SortIsSound
INVARIANT RunIsAccountable
PROPERTY EvaluationIsBounded
PROPERTY ResultsAreForeseen
PROPERTY OperatorsAreLawful
PROPERTY InterruptedRunEnds
CHECK_DEADLOCK FALSE
