SPECIFICATION Spec
CONSTANTS
  e1 = e1
  e2 = e2
  v1 = v1
  a = a
  NoEnv = NoEnv
  NoId = NoId
  NoChange = NoChange
  Unset = Unset
  EnvId <- MCEnvId
  VarName <- MCVarName
  Value <- MCValue1
  Environment <- MCEnvironment
  InitialHelper = {"absent"}
  HasParentToken = TRUE
  RetainWorkingDir = FALSE
  RedactionsEnabled = TRUE
  MaxPending = 1
SYMMETRY Symmetry
CHECK_DEADLOCK FALSE
PROPERTY ImplementsApi
INVARIANT NeverWedged
INVARIANT CancelStateFresh
INVARIANT StackMatchesEnvironments
INVARIANT OneWrapLayer
PROPERTY VariablesFollowTheStack
