SPECIFICATION ActionSpec
CONSTANTS
  e1 = e1
  e2 = e2
  v1 = v1
  a = a
  NoEnv = NoEnv
  NoId = NoId
  NoChange = NoChange
  Unset = Unset
  EnvId <- OneEnvId
  VarName <- MCVarName
  Value <- MCValue1
  Environment <- ScriptedAndWrapper
  InitialHelper = {"absent", "session"}
  HasParentToken = TRUE
  RetainWorkingDir = FALSE
  RedactionsEnabled = TRUE
  MaxPending = 1
  None = None
  Method = "notify"
  TerminateDelay = 6
  Timeout = 3
  Limits = {None, 0, 2}
  Drain = 1
  GraceKilled = 2
  Grace = 3
  MaxTime = 10
  MaxLines = 1
CHECK_DEADLOCK FALSE
INVARIANT HelperComesBack
INVARIANT AcceptedCancelIsHonoured
PROPERTY CancelEndsAction
PROPERTY StopsInTime
INVARIANT OutputIsComplete
PROPERTY SuccessIsGenuine
PROPERTY StopEndsCall
