\* Two phases at a time in two copied folders, nothing failing but time.
SPECIFICATION Spec
CONSTANTS
  Phases <- ThreePhases
  Repos <- TwoRepos
  Repo <- RepoOf
  Worktrees = {}
  Restores = {"p1", "p3"}
  Strays = {}
  MaxConcurrent = 2
  MaxLaunches = 3
  MaxWrites = 1
  MaxReplaced = 0
  MaxQuarantine = 3
  Faults = {}
INVARIANTS AcceptedWorkKept
CHECK_DEADLOCK FALSE
