\* Two processes, segments of two cells, three faults.
CONSTANTS
  Runners = {r1, r2}
  Segment = 2
  MaxFaults = 3
SPECIFICATION FairSpec
INVARIANTS TypeOK Resumable ManifestIsFounded WorkIsNeeded
PROPERTIES StageCompletes
