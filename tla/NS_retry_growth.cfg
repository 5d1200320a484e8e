\* A failing RemoveAll on a deleted volume's directory, retried by the worker.
CONSTANTS
    d1 = d1
    d2 = d2
    v1 = v1
    v2 = v2
    Disks <- MCDisks
    Vols <- MCVols
    Capacity <- MCCapacity
    Sizes <- UnitSize
    NumIds = 2
    UintMod <- MCUintMod
    Faults <- RemoveFaults
    Crashes = FALSE
    Ephemeral <- MCEphemeral
    MountRank <- MCMountRank
    MaxOps = 4
    MaxRetry = 3
    ApiErrors = FALSE
SPECIFICATION Spec
INVARIANT RetryListBounded
