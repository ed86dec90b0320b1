SPECIFICATION FairSpec
CONSTANTS
  Platforms = {"unix", "windows"}
  MaxAction = 2
  MaxCancel = 1
  MaxLine = 1
  Timed = {1}
  Forking = {1, 2}
  CloneFails = {1}
  Crashes = {0, 1, 2}
INVARIANT ResultsAreGenuine
INVARIANT OutputArrives
PROPERTY SignalEndsAction
PROPERTY ShutdownCompletes
CHECK_DEADLOCK FALSE
