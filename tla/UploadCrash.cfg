SPECIFICATION Spec
CONSTANTS
  Chunk = {c1}
  Job = {j1, j2}
  Instance = {i1}
  Call = {k1}
  Completer = {q1}
  None = None
  MaxAttempt = 1
  Threshold = 2
  Capacity = 2
  MaxPress = 2
  Faults = {"coreCrash", "goCrash", "upload", "db", "retry", "abort", "stream"}
CHECK_DEADLOCK FALSE
SYMMETRY Symmetry
INVARIANT CompleteIsLanded
INVARIANT ChargeOnce
PROPERTY RecordSpec
