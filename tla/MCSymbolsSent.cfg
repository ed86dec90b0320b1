CONSTANTS
    Drive = {"C:", "c:"}
    Scheme = {"s3:"}
    FoldCase <- MCFold
    Literal <- MCLiteral
    IntText <- MCIntText
    FloatText <- MCFloatText
    RangeText <- MCRangeText
    NegZero = NegZero
    Wide = {"é"}
    MaxStringLen = 8
    MaxLabelLen = 2
    MaxPatternLen = 4
    PlainParam = {"p"}
    PathParam = {"q"}
    TaskParam = {"i"}
    BaseLimit <- MCBaseLimit
    RaisedLimit <- MCRaisedLimit
    MaxSteps <- MCMaxCount
    MaxEnvs <- MCMaxCount
    SafeLen = 2
    Text <- MCText
    Submission <- MCSubmission
    NameLimit = 6
    CountLimit = 2
    StringLimit = 4
    RangeLimit = 3
    ArgLimit <- MCArgLimit
    NumericLimit = 3
    NotifyLimit = 3
    MaxMagnitude = 8
SPECIFICATION TemplateSpec
INVARIANT TableSentIsEnough
CHECK_DEADLOCK FALSE
