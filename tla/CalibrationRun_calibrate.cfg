\* Two runs of two cells, started together once, one cut, one fault.
CONSTANTS
  Runners = {r1, r2}
  Cells = 2
  Page = 1
  MaxOverlaps = 1
  MaxStops = 1
  MaxFaults = 1
SPECIFICATION FairSpec
CHECK_DEADLOCK FALSE
INVARIANTS TypeOK OutcomesAreOfTheRecordedJobs CompletedWorkCounts OnlyLostJobsRepeat
PROPERTIES ResultInTheEnd
