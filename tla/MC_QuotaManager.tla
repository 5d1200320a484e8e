-------------------------- MODULE MC_QuotaManager --------------------------
(* Small instances of QuotaManager for TLC.                                 *)
EXTENDS QuotaManager, TLC

CONSTANTS d1, d2, v1, v2

MCDisks == {d1, d2}
MCVols == {v1, v2}
\* d1 smaller than d2 so that placement order matters; 5 units in total.
MCCapacity == (d1 :> 2) @@ (d2 :> 3)
MCSizes == {1, 2}
MCUintMod == 16
\* One size only, for the run in which crashes and failing syscalls combine.
UnitSize == {1}

AllFaults == {"setProjectId", "setProjectQuota", "removeAll"}
NoFaults == {}
RemoveFaults == {"removeAll"}

VolSymmetry == Permutations(MCVols)
=============================================================================
