\* Crash and restart, then placement: restore leaves AllocatableSize = Capacity.
CONSTANTS
    d1 = d1
    d2 = d2
    v1 = v1
    v2 = v2
    Disks <- MCDisks
    Vols <- MCVols
    Capacity <- MCCapacity
    Sizes <- MCSizes
    NumIds = 2
    UintMod <- MCUintMod
    Faults <- NoFaults
    Crashes = TRUE
SYMMETRY VolSymmetry
SPECIFICATION Spec
INVARIANT NoOvercommit
