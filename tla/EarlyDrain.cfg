SPECIFICATION Spec
CONSTANTS
    Nodes = {n1, n2}
    NoNode = none
    ContainerNode = FALSE
    CacheLag = FALSE
    EarlyRequests = TRUE
    Requests = {"Drained"}
    Environment = {"request"}
    MaxEvents = 1
    MaxFaults = 0
    MaxPods = 3
    MaxBoots = 4
CHECK_DEADLOCK FALSE
INVARIANT DrainVetted
