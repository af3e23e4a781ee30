\* Once every record and the folder are gone and isCleaningTrash is left set by a
\* crash, nothing more can happen.
CHECK_DEADLOCK FALSE
SPECIFICATION Spec
CONSTANTS
  File = {f1, f2}
  Complete = {f1, f2}
  InFolder = {f1}
  Task = {t1, t2}
  Worker = {w1}
  None = None
  EventDriven = TRUE
  Paths = {"single", "bulk", "background"}
  Faults = {"publish", "report", "trim", "db", "goCrash", "coreCrash"}
SYMMETRY Symmetry
INVARIANT UsedCovers
INVARIANT NoOrphan
INVARIANT CleaningHasRunner
