\* Clients stop after MaxOps calls; the worker loop and the plugin restart
\* are weakly fair; no fault, so every call the worker makes can succeed.
CONSTANTS
    d1 = d1
    d2 = d2
    v1 = v1
    v2 = v2
    Disks <- MCDisks
    Vols <- MCVols
    Capacity <- MCCapacity
    Sizes <- MCSizes
    NumIds = 2
    UintMod <- MCUintMod
    Faults <- NoFaults
    Crashes = FALSE
    Ephemeral <- MCEphemeral
    MountRank <- MCMountRank
    MaxOps = 5
    MaxRetry = 2
    ApiErrors = FALSE
SPECIFICATION Spec
INVARIANT NoOvercommit
INVARIANT CanNodeMatchSound
PROPERTY DisabledEventuallySynced
PROPERTY DeletedVolumesEventuallyReleased
PROPERTY PVUsageEventuallyAccurate
PROPERTY NodeScoreEventuallyAccurate
PROPERTY RefinesRegistry
