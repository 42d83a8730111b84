SPECIFICATION FairSpec
CONSTANTS
  o1 = o1
  o2 = o2
  Ops = {o1, o2}
  Schedules <- MCSchedules
  MaxProcs = 3
  MaxPings = 1
INVARIANTS CoreSound HandedOver ModeAgrees
 
CHECK_DEADLOCK FALSE
