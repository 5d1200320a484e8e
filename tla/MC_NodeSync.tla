---------------------------- MODULE MC_NodeSync ----------------------------
(* Small instances of NodeSync for TLC.                                     *)
EXTENDS NodeSync, TLC

CONSTANTS d1, d2, v1, v2

MCDisks == {d1, d2}
MCVols == {v1, v2}
\* d1 smaller than d2, as in MC_QuotaManager.
MCCapacity == (d1 :> 2) @@ (d2 :> 3)
MCSizes == {1, 2}
UnitSize == {1}
MCUintMod == 16
\* v2's StorageClass sets ephemeral=true; v1 is a persistent volume.
MCEphemeral == {v2}
\* mount points sort as d1 < d2.
MCMountRank == (d1 :> 1) @@ (d2 :> 2)

AllFaults == {"setProjectId", "setProjectQuota", "removeAll", "getProjectQuota"}
NoFaults == {}
RemoveFaults == {"removeAll"}
=============================================================================
