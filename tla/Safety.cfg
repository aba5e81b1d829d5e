SPECIFICATION Spec
CONSTANTS
    Nodes = {n1, n2}
    NoNode = none
    ContainerNode = FALSE
    CacheLag = FALSE
    EarlyRequests = FALSE
    Requests = {"", "Cordoned", "Drained", "RebootIfRequired"}
    Environment = {"request", "delete", "remove", "join"}
    MaxEvents = 3
    MaxFaults = 1
    MaxPods = 3
    MaxBoots = 4
SYMMETRY NodeSymmetry
CHECK_DEADLOCK FALSE
INVARIANTS TypeOK AtMostOneWorker DrainVetted DrainedMeansEmpty
PROPERTY RebootOnlyEmpty
