SPECIFICATION Spec
CONSTANTS
    Nodes = {n1, n2}
    NoNode = none
    ContainerNode = FALSE
    CacheLag = TRUE
    EarlyRequests = FALSE
    Requests = {"Drained"}
    Environment = {"request"}
    MaxEvents = 2
    MaxFaults = 0
    MaxPods = 3
    MaxBoots = 4
CHECK_DEADLOCK FALSE
INVARIANT AtMostOneWorker
