\* Every node state with allocatable sizes up to 4 and every pod of up to
\* four PVs of sizes 1..3; kubelet publishes the volumes in any order.
CONSTANTS
    d1 = d1
    d2 = d2
    Disks <- MCDisks
    MountRank <- MCMountRank
    DiskSizes <- MCDiskSizes
    ReqSizes <- MCReqSizes
    MaxVols = 4
SPECIFICATION Spec
INVARIANT AdmittedPodStarts
CHECK_DEADLOCK FALSE
