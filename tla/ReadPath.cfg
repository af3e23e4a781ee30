SPECIFICATION FairSpec
CONSTANTS
  Reader = {r1}
  Sizes <- MCSizes
  Ways = {{"owner", "guest", "core"}, {"link"}, {"stream"}, {"s3", "redirect"}, {"public"}}
  TTL = 1
  KeyTTL = 1
  LinkTTL = 1
  Budget = 1
  None = None
  Faults = {}
 
PROPERTY RecentlyAllowed
PROPERTY ReadCompletes
