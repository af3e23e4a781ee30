SPECIFICATION FairSpec
CONSTANTS
  Job = {z1}
  Instance = {i1, i2}
  Reader = {r1, r2}
  None = None
  Parts = 2
  MaxActive = 2
  Setups <- MCSetups
  Download = {d1, d2}
  d1 = d1
  Chunks = 2
  Situations <- MCSituations
  Ahead = 1
  Permits = 2
  Retries = 1
  CacheTTL = 1
  LinkLife = 1
  Faults = {"publish", "rpc", "disk", "slow", "stall", "goCrash", "coreCrash"}
INVARIANT OfferedIsWhole
INVARIANT Permitted
PROPERTY JobsGoAway
 
