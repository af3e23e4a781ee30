SPECIFICATION FairSpec
CONSTANTS
  Slash = 2
  Object <- MCObject
  Copies <- MCCopies
  Marker <- MCMarker
  Bulk <- MCBulk
  Stores <- MCStores
  FolderMax = 5
  Query <- MCQuery
  Budget = 2
\* The client lists once, and the bucket changes so many times.
CHECK_DEADLOCK FALSE
INVARIANT ListsTruly
PROPERTY ListingEnds
