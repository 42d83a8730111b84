SPECIFICATION FairSpec
CONSTANTS
  s1 = s1
  s2 = s2
  Starts = {s1, s2}
  Stops = {p1}
  Tests = {t1}
  Ports = {11808, 12000}
  DefaultPort = 11808
  TestPorts = {21000}
  Ids = {i1}
  MaxConfigs = 2
  MaxEdits = 1
  MaxCrashes = 1
  None = None
ACTION_CONSTRAINT InOrder
INVARIANTS ManagerSound SelectedListed
PROPERTIES TestInstanceEnds
CHECK_DEADLOCK FALSE
