\* Two hosted calls of one worker, one stop or press, one crash.
SPECIFICATION FairSpec
CONSTANTS
  Workers <- One
  Turns = 2
  Faults = {"spawn", "degraded", "store", "wait"}
  MaxPresses = 1
  MaxCrashes = 1
INVARIANTS HostTypeOK NothingEscapes ProofMeansDead ResumeOnlyWhenClean RecoveredCancelIsClean
PROPERTIES RecordMovesForward HostCallEnds StopClears
CHECK_DEADLOCK FALSE
