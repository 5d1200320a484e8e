\* Clients stop; does the node's published usage settle on the manager's state?
CONSTANTS
    d1 = d1
    d2 = d2
    v1 = v1
    v2 = v2
    Disks <- MCDisks
    Vols <- MCVols
    Capacity <- MCCapacity
    Sizes <- UnitSize
    NumIds = 2
    UintMod <- MCUintMod
    Faults <- NoFaults
    Crashes = FALSE
    Ephemeral <- MCEphemeral
    MountRank <- MCMountRank
    MaxOps = 3
    MaxRetry = 1
    ApiErrors = FALSE
SPECIFICATION Spec
PROPERTY NodeUsageEventuallyAccurate
