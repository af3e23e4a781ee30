\* Every request runs once.
CHECK_DEADLOCK FALSE
SPECIFICATION MCSpec
CONSTANTS
  Key = {k1}
  Put = {p1, p2}
  Upload = {u1}
  Deleter = {d1}
  PartMax = 2
  FlightMax = 2
  Path = {"go", "empty", "nest", "buffered"}
  Index = {TRUE, FALSE}
  FolderMax = 2
  None = None
  Account = {1, 2, 3, 4}
  Row = {5, 6, 7}
  Inside = {6}
  Folder = {5}
  Requests = {1, 2, 3}
  Starts <- MCStarts
  Names <- MCNames
  Nobody = None
  Ttl = 1
  TimeMax = 2
  Unnamed = Unnamed
  Faults = {"upload", "report", "reply", "stale"}
SYMMETRY Alike
 
INVARIANT Whole
 
INVARIANT AccountsHold
 
