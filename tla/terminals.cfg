SPECIFICATION FairSpec
CONSTANTS
  a = a
  b = b
  None = None
  Terminals = {a, b}
  ThreadOf <- Apart
  MaxCalls = 3
  Requests <- MCRequests
  MaxRetained = 1
  MaxSpawns = 2
  MaxCrashes = 1
CHECK_DEADLOCK FALSE
INVARIANTS FewRetained NoStrayShell TranscriptKept
PROPERTIES NoOrphanAfterRestart AttachTypesNothing ComesToRest
