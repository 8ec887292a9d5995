\* One page and one cancel that comes too late, nothing fails.
CONSTANTS
  MaxJobs = 1
  MaxEvents = 4
  MaxCancels = 1
  MaxFaults = 0
SPECIFICATION FairSpec
PROPERTY CompletedRunIsSelected
CHECK_DEADLOCK FALSE
