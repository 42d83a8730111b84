SPECIFICATION FairSpec
CONSTANTS
    NodeLists <- MCNodeLists
    ECHNodes = {"n2"}
    V4 = "v4"
    V6 = "v6"
    Junk = "junk"
    Doubled = "doubled"
    LabelLen <- MCLabelLen
    Requests <- MCRequests
    Hellos <- MCHello
    GFW <- MCGFW
    CFNets = {"v4"}
    PoolIPs <- MCPoolIPs
    Target = "target"
    NoRule = NoRule
INVARIANTS LookupSound MostSpecific CandidatesObey HelloSplit
 
CHECK_DEADLOCK FALSE
