\* A chain of three phases whose first one fails.
SPECIFICATION FairSpec
CONSTANTS
  Runs = {"r1"}
  Phases <- Three
  RunOf <- OneRun
  Deps <- Chain
  LocksOf <- OwnRoots
  BaseTier <- AllMedium
  Rank <- RankById
  FinalReviews = {}
  Available <- AllTiers
  MaxConcurrent = 2
  MaxAttempts = 3
  MaxRows = 4
  RetryFrom = {}
  Commands = {}
  NoPhase = NoPhase
  NoRun = NoRun
PROPERTIES DependentsBecomeBlocked
CHECK_DEADLOCK FALSE
