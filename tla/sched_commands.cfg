\* A phase with two dependencies, one slot, one phase born at Grok High and one final review; every command but an abort.
SPECIFICATION Spec
CONSTANTS
  Runs = {"r1"}
  Phases <- Three
  RunOf <- OneRun
  Deps <- Join
  LocksOf <- OwnRoots
  BaseTier <- AllKinds
  Rank <- RankById
  FinalReviews = {"p1"}
  Available <- AllTiers
  MaxConcurrent = 1
  MaxAttempts = 3
  MaxRows = 4
  RetryFrom = {"failed", "blocked", "running"}
  Commands = {"pause", "resume", "stop", "low_disk", "retry"}
  NoPhase = NoPhase
  NoRun = NoRun
INVARIANTS TypeOK ConcurrencyCap DependenciesHold CompletedMeansPassed AttemptBudget
PROPERTIES PassedIsFinal NoStartWhenHeld
CHECK_DEADLOCK FALSE
