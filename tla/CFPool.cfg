SPECIFICATION PoolFairSpec
CONSTANTS
  IPs = {a, b}
  Failing = {a, b}
  MaxLatency = 2
  MaxFail = 3
  MaxSpawned = 1
INVARIANTS PoolSound
PROPERTIES OneCheck ChecksEnd
CHECK_DEADLOCK FALSE
