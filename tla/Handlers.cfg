SPECIFICATION FairSpec
CONSTANTS
  c1 = c1
  c2 = c2
  Conns = {c1, c2}
  Reqs <- MCReqs
  MaxSwitches = 1
  None = None
INVARIANTS ConnectionsOwned RepliesSound RetriesBounded
 
CHECK_DEADLOCK FALSE
