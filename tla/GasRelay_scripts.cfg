SPECIFICATION FairSpec
CONSTANTS
  g1 = g1
  g2 = g2
  g3 = g3
  h1 = h1
  s1 = s1
  v1 = v1
  v2 = v2
  l1 = l1
  ka = ka
  kb = kb
  ra = ra
  rb = rb
  Requests = {g1, l1, h1, s1}
  Keys <- MCKeys
  kind <- MCKind
  coalesceKey <- MCKey
  range <- MCRange
  NoRange = NoRange
  MultiScript = TRUE
  BatchMax = 2
  MaxRestarts = 0
  Error = Error
  Empty = Empty
  NoTimer = NoTimer
PROPERTY PromiseKept
