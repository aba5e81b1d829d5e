SPECIFICATION FairSpec
CONSTANTS
    Nodes = {n1}
    PodIds = {p1, p2, p3, p4}
    NoPod = nopod
    NoNode = nonode
    MaxFaults = 2
    MaxEvents = 3
    MaxReboots = 2
CHECK_DEADLOCK FALSE
INVARIANTS PodsTypeOK LeftoverHadFault DoneMeansQuiet OneRebootPerPod
PROPERTIES CallReturns RebootNoticed
