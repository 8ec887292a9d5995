\* One job to the end: every order of worker, reader, deadline, cancel and
\* archive thread, two restarts and one failed disk write; fairness as in FairSpec.
CONSTANTS
  a = a
  b = b
  Jobs <- OneJob
  Calls <- OneCall
  MaxCandidates = 2
  MaxRestarts = 2
  MaxFaults = 1
SPECIFICATION FairSpec
INVARIANTS
  TypeOK
  ArchiveAgreesWithOutcome
  AcceptedCancelWins
  TerminalEventIsLast
  HistoriesReplayOrKnownDamage
  NoProcessLeftBehind
  NoStagingLeftBehind
  TerminalFileAgrees
  NoJobForgotten
  RefusesOnlyKnownDamage
  SnapshotsTellTheTruth
PROPERTIES KeepsPromise EveryRunEnds AcceptedJobsClose StagingGoes
\* The identifiers are used up and the service may stay refused.
CHECK_DEADLOCK FALSE
