\* Client calls interleaved with the sync worker; plugin crashes and
\* restarts, failing syscalls and failing API calls.
CONSTANTS
    d1 = d1
    d2 = d2
    v1 = v1
    v2 = v2
    Disks <- MCDisks
    Vols <- MCVols
    Capacity <- MCCapacity
    Sizes <- MCSizes
    NumIds = 2
    UintMod <- MCUintMod
    Faults <- AllFaults
    Crashes = TRUE
    Ephemeral <- MCEphemeral
    MountRank <- MCMountRank
    MaxOps = 4
    MaxRetry = 2
    ApiErrors = TRUE
SPECIFICATION Spec
INVARIANT TypeOK
INVARIANT MountedDataIntact
INVARIANT ProviderCacheConsistent
PROPERTY PersistentVolumeKept
