SPECIFICATION ManagerFairSpec
CONSTANTS
  Starts = {s1, s2, s3}
  Stops = {t1}
  None = None
  TwoPort = {s3}
  Loops <- BothLoops
INVARIANTS InstanceOwned ActiveRelayOpen
 
CHECK_DEADLOCK FALSE
