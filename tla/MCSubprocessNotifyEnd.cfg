SPECIFICATION ProcessSpec
CONSTANTS
  None = None
  Method = "notify"
  TerminateDelay = 6
  Timeout = None
  Limits = {None}
  Drain = 1
  GraceKilled = 2
  Grace = 3
  MaxTime = 8
  MaxLines = 1
CHECK_DEADLOCK FALSE
PROPERTY NotifyEndIsKept
