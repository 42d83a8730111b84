SPECIFICATION Spec
CONSTANTS
  g1 = g1
  g2 = g2
  g3 = g3
  h1 = h1
  s1 = s1
  v1 = v1
  v2 = v2
  l1 = l1
  ka = ka
  kb = kb
  ra = ra
  rb = rb
  Requests = {g1, g2, g3, v1}
  Keys <- MCKeys
  kind <- MCKind
  coalesceKey <- MCKey
  range <- MCRange
  NoRange = NoRange
  MultiScript = FALSE
  BatchMax = 2
  MaxRestarts = 1
  Error = Error
  Empty = Empty
  NoTimer = NoTimer
INVARIANTS BatchSound PendingIsTimed NoItemLost CoalesceSound AnswerFits
SYMMETRY Symmetry
CHECK_DEADLOCK FALSE
