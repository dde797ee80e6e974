SPECIFICATION GatesSpec
CONSTANTS
  Documents <- MCDocuments
  Workspaces <- MCWorkspaces
  UnsafeIds <- MCUnsafeIds
  NotesEnding <- MCNotesEnding
INVARIANT
  OneWriterPerRepository
CHECK_DEADLOCK FALSE
