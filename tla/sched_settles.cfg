\* The supervisor alone: a phase, one that depends on it and a free one, all in one repository.
SPECIFICATION FairSpec
CONSTANTS
  Runs = {"r1"}
  Phases <- Three
  RunOf <- OneRun
  Deps <- Fork
  LocksOf <- OneRoot
  BaseTier <- AllMedium
  Rank <- RankById
  FinalReviews = {}
  Available <- AllTiers
  MaxConcurrent = 2
  MaxAttempts = 3
  MaxRows = 4
  RetryFrom = {}
  Commands = {}
  NoPhase = NoPhase
  NoRun = NoRun
PROPERTIES RunSettles ReadyPhaseSettles
CHECK_DEADLOCK FALSE
