\* Two runs over shared roots, no model above Grok Medium; stops and aborts.
SPECIFICATION Spec
CONSTANTS
  Runs = {"r1", "r2"}
  Phases <- Three
  RunOf <- TwoRuns
  Deps <- NoDeps
  LocksOf <- SharedPort
  BaseTier <- AllMedium
  Rank <- RankById
  FinalReviews = {}
  Available = {0, 1, 2}
  MaxConcurrent = 2
  MaxAttempts = 3
  MaxRows = 4
  RetryFrom = {}
  Commands = {"stop", "abort"}
  NoPhase = NoPhase
  NoRun = NoRun
INVARIANTS LocksOwned WriteExclusion
PROPERTIES ImplementsBoard
CHECK_DEADLOCK FALSE
