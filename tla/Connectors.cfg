SPECIFICATION Spec
CONSTANTS
  Runs = {1, 2}
  NoJob = NoJob
  NoLimit = NoLimit
  acct = acct
  Closable <- MCClosable
  Nodes <- MCNodes
  PageSize = 1
  Changes <- MCChanges
  Linked <- MCLinked
  ChangesPage = 2
  Options <- MCOptions
INVARIANTS
  MirrorsRowsOnce
  CompleteMirror
  CursorLosesNothing
PROPERTIES
  SyncEnds
CHECK_DEADLOCK FALSE
