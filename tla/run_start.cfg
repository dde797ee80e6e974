SPECIFICATION FairSpec
CONSTANTS
  Sources = 1
  MaxRuns = 2
  MaxEdits = 2
  MaxStops = 1
  Faults <- EveryFault
INVARIANTS
  RunStartTypeOK
  OneSupervisor
  ScheduledPlanIsDurable
  ManifestMeansCopied
PROPERTY StopEnds
CHECK_DEADLOCK FALSE
