SPECIFICATION FairSpec
CONSTANTS
    Nodes = {n1, n2}
    NoNode = none
    ContainerNode = FALSE
    CacheLag = FALSE
    EarlyRequests = FALSE
    Requests = {"Active", "RebootIfRequired"}
    Environment = {"request", "require", "unready"}
    MaxEvents = 2
    MaxFaults = 1
    MaxPods = 3
    MaxBoots = 4
CHECK_DEADLOCK FALSE
INVARIANTS HooksBalanced 
PROPERTIES LifecycleSpec RebootOnlyIfRequired RebootCompletes 
