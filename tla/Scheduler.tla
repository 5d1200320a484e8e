------------------------------ MODULE Scheduler ------------------------------
(***************************************************************************)
(* One pod with hostPath PVs, one node, and the two bin-packings that      *)
(* decide where its volumes go:                                            *)
(*   - the scheduler extender's FilterNode / canNodeMatch                  *)
(*     (predicate/hostpathpv_disk_pressure.go), over the per-disk          *)
(*     allocatable sizes the node publishes, sorted by DiskInfoList.Less;  *)
(*   - Bind (bind/hostpathpv_bind.go), which pins the PVs and the pod to   *)
(*     the node;                                                           *)
(*   - the node's quota manager, which places each volume when kubelet     *)
(*     publishes it: allocateNewQuotaDir puts it on a disk with the most   *)
(*     AllocatableSize that fits.                                          *)
(* kubelet publishes a pod's volumes concurrently, so they reach the       *)
(* manager's lock in any order.  The published sizes are taken to be       *)
(* exact (no sync lag), so what goes wrong here is the algorithms alone.   *)
(***************************************************************************)
EXTENDS Integers, Sequences, FiniteSets, SequencesExt, TLC

CONSTANTS
    Disks,      \* the node's quota disks
    MountRank,  \* MountRank[d]: rank of d's mount point in string order
    DiskSizes,  \* AllocatableSize values a disk may have
    ReqSizes,   \* capacities of the pod's PVs
    MaxVols     \* most hostPath PVs of one pod

ASSUME /\ MountRank \in [Disks -> 1..Cardinality(Disks)]
       /\ DiskSizes \subseteq Nat /\ ReqSizes \subseteq Nat \ {0}
       /\ MaxVols \in Nat \ {0}

VARIABLES
    alloc,    \* alloc[d]: AllocatableSize of disk d (as published and in the manager)
    reqs,     \* reqs[i]: capacity of the pod's i-th PV, not yet bound to a node
    phase,    \* "filter", "admitted", "rejected" or "bound"
    pending,  \* PVs bound to the node and not yet published
    failed    \* PVs whose NodePublishVolume fails with ResourceExhausted

vars == <<alloc, reqs, phase, pending, failed>>

\* DiskInfoList.Less: allocatable descending, then mount point ascending.
DiskBefore(a, b) ==
    \/ a.alloc > b.alloc
    \/ a.alloc = b.alloc /\ MountRank[a.mp] < MountRank[b.mp]

\* The node's DiskStatus as syncNodeQuotaStatus publishes it.
DiskStatus ==
    SetToSortSeq({[mp |-> d, alloc |-> alloc[d]] : d \in Disks}, DiskBefore)

\* Bug variant: a request taken from a disk does not reduce what is left.
RECURSIVE MatchFromNoTake(_, _, _, _)
MatchFromNoTake(r, have, ir, ih) ==
    IF ir > Len(r) \/ ih > Len(have)
    THEN ir > Len(r)
    ELSE IF r[ir] <= have[ih]
         THEN MatchFromNoTake(r, have, ir + 1, ih)
         ELSE MatchFromNoTake(r, have, ir, ih + 1)

\* canNodeMatch's loop from (ir, ih): a request that fits the current disk
\* is taken from it; one that does not moves on to the next disk, and the
\* loop never comes back to an earlier disk.
RECURSIVE MatchFrom(_, _, _, _)
MatchFrom(r, have, ir, ih) ==
    IF ir > Len(r) \/ ih > Len(have)
    THEN ir > Len(r)
    ELSE IF r[ir] <= have[ih]
         THEN MatchFrom(r, [have EXCEPT ![ih] = @ - r[ir]], ir + 1, ih)
         ELSE MatchFrom(r, have, ir, ih + 1)

\* canNodeMatch(requestList, haveNow): requests sorted by size descending.
CanNodeMatch(requests, status) ==
    MatchFrom(SortSeq(requests, LAMBDA a, b : a > b),
              [i \in DOMAIN status |-> status[i].alloc], 1, 1)

\* Reference for canNodeMatch (spec 4.6): some assignment of the requests
\* to the disks keeps every disk within its allocatable size.
Feasible(requests, status) ==
    \E f \in [DOMAIN requests -> DOMAIN status] :
        \A i \in DOMAIN status :
            MapThenSumSet(LAMBDA j : requests[j], {j \in DOMAIN requests : f[j] = i})
                <= status[i].alloc

\* allocateNewQuotaDir: the disks with the most AllocatableSize among those
\* that fit (sort.Sort is unstable, ties go either way).
WorstFit(s) ==
    LET fit == {d \in Disks : alloc[d] >= s}
    IN {d \in fit : \A e \in fit : alloc[d] >= alloc[e]}

-----------------------------------------------------------------------------
(* The prioritizer's per-node score (prioritize/hostpath_diskusage.go,   *)
(* spec 4.7).  A candidate node is [hp, cap, quota]: its hostPath label    *)
(* and the Capacity and QuotaSize of its published NodeUsageInfo.  The     *)
(* float64 arithmetic is integer division: on these magnitudes the two     *)
(* truncate alike.                                                         *)

DefaultNodeScore == 100

\* int64(x) of a float64 quotient a / b: truncation toward zero.
TruncDiv(a, b) == IF a >= 0 THEN a \div b ELSE -((-a) \div b)

\* mapScoringNode: the share of the node's capacity not yet given to quotas,
\* in percent, and 0 for a node without capacity or overcommitted; every
\* node gets DefaultNodeScore when some candidate is not a hostPath node.
MapScoringNode(hasHostPath, n) ==
    IF ~hasHostPath THEN DefaultNodeScore
    ELSE IF n.cap <= 0 \/ n.cap <= n.quota THEN 0
    ELSE TruncDiv(100 * (n.cap - n.quota), n.cap)

-----------------------------------------------------------------------------

Init ==
    /\ alloc \in [Disks -> DiskSizes]
    /\ reqs \in UNION {[1..n -> ReqSizes] : n \in 1..MaxVols}
    /\ phase = "filter"
    /\ pending = {}
    /\ failed = {}

\* FilterNode for a hostPath node and a pod whose PVs have no bind node:
\* the node passes iff canNodeMatch over its published DiskStatus.
FilterNode ==
    /\ phase = "filter"
    /\ phase' = IF CanNodeMatch(reqs, DiskStatus) THEN "admitted" ELSE "rejected"
    /\ UNCHANGED <<alloc, reqs, pending, failed>>

\* Bind: BindHostPathPV for every unbound PV, then BindPod.
Bind ==
    /\ phase = "admitted"
    /\ phase' = "bound"
    /\ pending' = DOMAIN reqs
    /\ UNCHANGED <<alloc, reqs, failed>>

\* NodePublishVolume of PV i: GetVolumeQuotaPath places it on a worst-fit
\* disk, or fails with ResourceExhausted (kubelet retries, nothing changes).
PublishVolume(i) ==
    /\ phase = "bound"
    /\ i \in pending
    /\ pending' = pending \ {i}
    /\ IF WorstFit(reqs[i]) = {}
       THEN /\ failed' = failed \cup {i}
            /\ UNCHANGED alloc
       ELSE /\ \E d \in WorstFit(reqs[i]) : alloc' = [alloc EXCEPT ![d] = @ - reqs[i]]
            /\ UNCHANGED failed
    /\ UNCHANGED <<reqs, phase>>

Next ==
    \/ FilterNode
    \/ Bind
    \/ \E i \in 1..MaxVols : PublishVolume(i)

\* A scheduling request ends: a rejected pod, or a pod whose volumes are
\* all published, takes no further step.
Spec == Init /\ [][Next]_vars

-----------------------------------------------------------------------------
(* Properties                                                               *)

\* Spec 2 and 4.6: the predicate runs the same bin-packing as placement, so
\* a pod that FilterNode admits and Bind pins to the node gets a quota path
\* for every PV, whatever order kubelet publishes them in.
AdmittedPodStarts ==
    failed = {}

====
