SPECIFICATION FairSpec
CONSTANTS
  Chunk = {c1, c2}
  Job = {j1, j2}
  Instance = {i1, i2}
  Call = {k1}
  Completer = {q1}
  None = None
  MaxAttempt = 0
  Threshold = 2
  Capacity = 2
  MaxPress = 0
  Faults = {"rpc"}
CHECK_DEADLOCK FALSE
INVARIANT NoFalseReject
INVARIANT BufferedIsOnDisk
PROPERTY UploadCompletes
