\* Two crashes, a resume or a cancel after each.
SPECIFICATION CrashSpec
CONSTANTS
  Runs = {"r1"}
  Phases <- Three
  RunOf <- OneRun
  Deps <- Fork
  LocksOf <- TwoRoots
  BaseTier <- AllMedium
  Rank <- RankById
  FinalReviews = {}
  Available <- AllTiers
  MaxConcurrent = 2
  MaxAttempts = 2
  MaxRows = 3
  RetryFrom = {}
  Commands = {"stop"}
  MaxCrashes = 2
  NoPhase = NoPhase
  NoRun = NoRun
INVARIANTS PassedMeansSucceeded
PROPERTIES ImplementsBoard NoStartBeforeChoice
CHECK_DEADLOCK FALSE
