\* One start_pair call: both runners live at once, and the service ends once.
CONSTANTS
  a = a
  b = b
  Jobs <- TwoJobs
  Calls <- PairCall
  MaxCandidates = 0
  MaxRestarts = 1
  MaxFaults = 0
SPECIFICATION Spec
SYMMETRY EitherJob
INVARIANT PairReservedWhole
CHECK_DEADLOCK FALSE
