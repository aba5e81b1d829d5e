SPECIFICATION FairSpec
CONSTANTS
    Nodes = {n1}
    NoNode = none
    ContainerNode = FALSE
    CacheLag = TRUE
    EarlyRequests = FALSE
    Requests = {"Active", "Cordoned", ""}
    Environment = {"request", "delete"}
    MaxEvents = 4
    MaxFaults = 1
    MaxPods = 3
    MaxBoots = 4
CHECK_DEADLOCK FALSE
PROPERTIES  DeletionCompletes
