SPECIFICATION FairSpec
CONSTANTS
  s = s
  p = p
  h = h
  Calls = {s, p}
  Kind <- MCKind
  Hash <- MCHash
  Scripts = 2
  Conns = {k1, k2}
  PoolMax = 1
  MaxFails = 5
  Nil = Nil
INVARIANTS ConnOwned BreakerShut SendsBounded
PROPERTIES CallsEnd
CHECK_DEADLOCK FALSE
