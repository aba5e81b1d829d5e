SPECIFICATION FairSpec
CONSTANTS
    Nodes = {n1, n2}
    NoNode = none
    ContainerNode = FALSE
    CacheLag = FALSE
    EarlyRequests = FALSE
    Requests = {"Cordoned", "Drained", "RebootIfRequired"}
    Environment = {"request"}
    MaxEvents = 3
    MaxFaults = 0
    MaxPods = 3
    MaxBoots = 4
CHECK_DEADLOCK FALSE
PROPERTY NextGetsOn
