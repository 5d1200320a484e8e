---------------------------- MODULE MC_Scheduler ----------------------------
(* A node with two disks and a pod with up to four hostPath PVs.           *)
EXTENDS Scheduler, TLC

CONSTANTS d1, d2

MCDisks == {d1, d2}
\* mount points sort as d1 < d2.
MCMountRank == (d1 :> 1) @@ (d2 :> 2)
MCDiskSizes == 0..4
MCReqSizes == {1, 2, 3}
=============================================================================
