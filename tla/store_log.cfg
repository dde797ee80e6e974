SPECIFICATION StoreLogSpec
CONSTANTS
  Runs <- TwoRuns
  Tries = 2
  MaxCrashes = 1
  MarkFails = TRUE
  Effects <- TwoEffects
  Exits <- OneExit
  MaxWork = 3
INVARIANTS
  LogIsTrue
  ShownOnce
  EffectsRunOnce
CHECK_DEADLOCK FALSE
