\* Every request runs once.
CHECK_DEADLOCK FALSE
SPECIFICATION MCSpec
CONSTANTS
  Request = {r1, r2, r3}
  Size = {1, 2}
  DailyLimit = 3
  DownloadLimit = 2
  FileLimit = 4
  Subject = {"user", "guest"}
  Owner = {"go", "nest"}
  WindowMax = 1
  None = None
  Faults = {"call", "core", "crash"}
  File = {1, 2}
  Sizes <- MCSizes
  Routes = {3}
  Configs <- MCConfigs
  Setups <- MCSetups
  Reqs = {1, 2}
  LinkTtl = 1
  DefaultTtl = 1
  MinTtl = 1
  MaxTtl = 1
  Lag = 1
  Flight = 1
  UrlsPerBatch = 2
  MaxTime = 3
  MaxLinks = 1
SYMMETRY Alike
 
 
 
INVARIANT UrlsHold
INVARIANT PurgedStaysGone
