SPECIFICATION Spec
CONSTANTS
    Nodes = {n1, n2}
    NoNode = none
    ContainerNode = TRUE
    CacheLag = FALSE
    EarlyRequests = FALSE
    Requests = {"Active", "RebootIfRequired"}
    Environment = {"request", "cordon", "unready"}
    MaxEvents = 3
    MaxFaults = 1
    MaxPods = 3
    MaxBoots = 4
SYMMETRY NodeSymmetry
CHECK_DEADLOCK FALSE
INVARIANT IInv
PROPERTY LifecycleSpec
