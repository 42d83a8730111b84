SPECIFICATION FairSpec
CONSTANTS
    Ops = {o1, o2, o3}
    MaxPort = 3
    Others = {1}
    Stale = {1}
    Remote = {2}
    Serialised = TRUE
    Main = Main
    None = None
    o1 = o1
    o2 = o2
    o3 = o3
INVARIANTS ListenersOwned RunningIsServed
 
CHECK_DEADLOCK FALSE
ACTION_CONSTRAINT InOrder
