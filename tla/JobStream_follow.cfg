\* One page, two jobs, one cancel and one fault of any kind.
CONSTANTS
  MaxJobs = 2
  MaxEvents = 4
  MaxCancels = 1
  MaxFaults = 1
SPECIFICATION FairSpec
INVARIANTS TypeOK ShownIsContiguous PageIsOfOneJob
PROPERTIES ActiveJobStays EndIsShown
\* The requests are used up.
CHECK_DEADLOCK FALSE
