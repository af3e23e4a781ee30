SPECIFICATION FairSpec
CONSTANTS
  File = {f1}
  Complete = {f1}
  InFolder = {f1}
  Task = {t1, t2}
  Worker = {w1}
  None = None
  EventDriven = TRUE
  Paths = {"cron", "empty"}
  Faults = {"telegram", "refuse", "publish", "db"}
PROPERTY ExpiredIsPurged
