SPECIFICATION FairSpec
CONSTANTS
  t1 = t1
  t2 = t2
  t3 = t3
  Threads = {t1, t2, t3}
  Schedules <- MCSchedules
  Base = Base
  None = None
  Torn = Torn
INVARIANTS StateAgrees MatchComplete SurvivesCrash
PROPERTIES OnlyMatchesBlock
ACTION_CONSTRAINT InOrder
CHECK_DEADLOCK FALSE
