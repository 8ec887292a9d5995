\* Two publishers of the same or of different contents, at most two faults and two foreign
\* changes, three of both together.
CONSTANTS
  N = 2
  Contents = {"a", "b"}
  MaxFaults = 2
  MaxForeign = 2
  MaxTrouble = 3
SPECIFICATION FairSpec
INVARIANTS TypeOK PublishedStays NothingLeftBehind
PROPERTIES ForeignFilesSurvive EveryPublisherEnds
\* Every publisher has ended.
CHECK_DEADLOCK FALSE
