SPECIFICATION GatesSpec
CONSTANTS
  Documents <- MCDocuments
  Workspaces <- MCWorkspaces
  UnsafeIds <- MCUnsafeIds
  NotesEnding <- MCNotesEnding
INVARIANTS
  AcceptedIsOrdered
  AcceptedRootsAreOurs
  VerdictMatchesRuns
PROPERTY
  AcceptedLoads
CHECK_DEADLOCK FALSE
