\* Crashes and failing syscalls together, with two project ids, so that a
\* failed publish can leave tagged directories of one volume on both disks
\* for restoreQuotaInfo to find.
CONSTANTS
    d1 = d1
    d2 = d2
    v1 = v1
    v2 = v2
    Disks <- MCDisks
    Vols <- MCVols
    Capacity <- MCCapacity
    Sizes <- MCSizes
    NumIds = 2
    UintMod <- MCUintMod
    Faults <- AllFaults
    Crashes = TRUE
SYMMETRY VolSymmetry
SPECIFICATION Spec
INVARIANT AccountingConserved
