\* Every request runs one handler, so the system stops.
CHECK_DEADLOCK FALSE
SPECIFICATION MCSpec
CONSTANTS
  d1 = d1
  d2 = d2
  d3 = d3
  f1 = f1
  f2 = f2
  r1 = r1
  r2 = r2
  Root = Root
  Folder <- MCFolder
  File <- MCFile
  Req = {r1, r2}
  Base = {"a", "b"}
  FolderAction = {"skip", "merge"}
  FileAction = {"skip", "overwrite", "rename"}
  Kind <- MCKind
  Trees <- MCTrees
  UniqueIndex = TRUE
  Item = {1, 2}
  Sizes = {{1}, {1, 2}}
  Dropped = {{1, 2}, {1}, {2}}
  Folders <- MCFolders
  Chunks = 2
  Batch = 2
  Concurrency = 2
  Retries = 1
  Clicks = 2
 
INVARIANT ConflictsAreDecided
 
PROPERTY RowsKept
