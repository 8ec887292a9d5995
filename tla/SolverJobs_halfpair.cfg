CONSTANTS
  a = a
  b = b
  Jobs <- TwoJobs
  Calls <- PairCall
  MaxCandidates = 0
  MaxRestarts = 0
  MaxFaults = 1
SPECIFICATION Spec
INVARIANT NoArmLeftQueued
CHECK_DEADLOCK FALSE
