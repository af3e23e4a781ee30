\* The user stops scrolling at the end of the list.
CHECK_DEADLOCK FALSE
SPECIFICATION FairSpec
CONSTANTS
  Id = {1, 2, 3}
  Place <- MCPlace
  Places = {"p1", "p2"}
  Views = {"content", "search", "shared", "sharePage"}
  FailViews = {"shared"}
  Openings = {{}, {2}, {1, 3}, {1, 2, 3}}
  Limit = 1
  Budget <- MCBudget
INVARIANT ShowsItsPlace
PROPERTY PagingEnds
