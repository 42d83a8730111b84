SPECIFICATION PoolFairSpec
CONSTANTS
  IPs = {a}
  Failing = {a}
  MaxLatency = 1
  MaxFail = 3
  MaxSpawned = 1
PROPERTY
  FailureIsChecked
CHECK_DEADLOCK FALSE
