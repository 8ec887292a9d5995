\* Two start calls, in either order, through one restart.
CONSTANTS
  a = a
  b = b
  Jobs <- TwoJobs
  Calls <- TwoCalls
  MaxCandidates = 0
  MaxRestarts = 1
  MaxFaults = 0
SPECIFICATION Spec
SYMMETRY EitherJob
INVARIANT OneCallAtATime
CHECK_DEADLOCK FALSE
