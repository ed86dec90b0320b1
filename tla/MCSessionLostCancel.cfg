SPECIFICATION FairSpec
CONSTANTS
  e1 = e1
  e2 = e2
  v1 = v1
  a = a
  NoEnv = NoEnv
  NoId = NoId
  NoChange = NoChange
  Unset = Unset
  EnvId <- OneEnvId
  VarName <- MCVarName
  Value <- MCValue1
  Environment <- NoEnvironment
  InitialHelper = {"session"}
  HasParentToken = FALSE
  RetainWorkingDir = FALSE
  RedactionsEnabled = TRUE
  MaxPending = 1
CHECK_DEADLOCK FALSE
PROPERTY HandleCancelIsDelivered
