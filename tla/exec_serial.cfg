\* One phase at a time.
SPECIFICATION Spec
CONSTANTS
  Phases <- ThreePhases
  Repos <- TwoRepos
  Repo <- RepoOf
  Worktrees = {"b"}
  Restores = {"p1", "p3"}
  Strays = {"p3"}
  MaxConcurrent = 1
  MaxLaunches = 3
  MaxWrites = 1
  MaxReplaced = 1
  MaxQuarantine = 3
  Faults = {"agent", "gates", "files", "git"}
INVARIANTS ExecTypeOK AcceptedWorkKept CheckpointRecorded PassedIsProjected EscapeNeverPasses
CHECK_DEADLOCK FALSE
