CONSTANTS
  a = a
  b = b
  Jobs <- OneJob
  Calls <- OneCall
  MaxCandidates = 2
  MaxRestarts = 0
  MaxFaults = 0
SPECIFICATION Spec
INVARIANT TerminalMeansWorkerGone
CHECK_DEADLOCK FALSE
