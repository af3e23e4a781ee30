SPECIFICATION FairSpec
CONSTANTS
  Chunk = {c1, c2}
  Post = {p1, p2}
  Worker = {w1, w2}
  Rival = {g1}
  Bots <- MCBots
  Window = 3
  Limit = 2
  Interval = 1
  MaxSkew = 1
  MaxLag = 1
  MaxOutage = 1
  None = None
  Attempts = 2
  MaxActive = 2
  MaxFail = 1
  MaxHalt = 1
  MaxSend = 4
\* An upload that is complete, or aborted, has nothing more to do.
CHECK_DEADLOCK FALSE
INVARIANT Paced
INVARIANT Kept
INVARIANT ChargedOnce
INVARIANT AbortLeavesNothing
PROPERTY Dispatched
