------------------------------ MODULE NodeSync ------------------------------
(***************************************************************************)
(* One node of the plugin and the Kubernetes side that drives it:          *)
(*   - the CSI controller (controllerserver.go) and its meta store         *)
(*     (metestore.go), a ConfigMap holding the ids of existing volumes;    *)
(*   - the CSI node server (nodeserver.go): NodePublishVolume,             *)
(*     NodeUnpublishVolume, NodeExpandVolume over the quota manager;       *)
(*   - the node sync worker (syncworker.go), a goroutine that loops        *)
(*     forever, without the CSI volume lock, over: snapshot the quota      *)
(*     paths, retry failed releases, release paths of volumes missing from *)
(*     the meta store, sync the disks' disable state from the node         *)
(*     annotation, publish the disk usage on the node.                     *)
(* The quota manager is the QuotaManager module, sharing its variables.    *)
(* Each manager call stays atomic (m.mu); the worker's loop is split at    *)
(* every manager call, so client RPCs interleave with it.  A CSI RPC is    *)
(* one step: TryAcquire rejects a second RPC on the same volume.           *)
(***************************************************************************)
EXTENDS Integers, Sequences, FiniteSets, SequencesExt, TLC

CONSTANTS
    Disks, Vols, Capacity, Sizes, NumIds, UintMod, Faults, Crashes,
    Ephemeral,  \* volumes whose StorageClass sets ephemeral=true
    MountRank,  \* MountRank[d]: rank of d's mount point in string order
    MaxOps,     \* bound on the client operations (CO and administrator)
    MaxRetry,   \* bound on shouldDeleteVolIds failures explored per loop
    ApiErrors   \* whether API-server calls of the worker may fail

\* Most hostPath PVs of one pod, and the pods' PV capacity lists the
\* scheduler may be asked about.
MaxPodVols == 3
PodRequests == UNION {[1..n -> Sizes] : n \in 1..MaxPodVols}

ASSUME /\ Ephemeral \subseteq Vols
       /\ MountRank \in [Disks -> 1..Cardinality(Disks)]
       /\ MaxOps \in Nat /\ MaxRetry \in Nat /\ ApiErrors \in BOOLEAN

VARIABLES
    \* --- QuotaManager ---
    fsTag, fsLimit, fsDisabled, mgr, quotaSize, allocatable, disabled,
    quotas, pathId, allocated,
    \* --- Kubernetes side ---
    meta,          \* volume ids in the meta ConfigMap
    gone,          \* volumes deleted by DeleteVolume (ids are never reused)
    pvCap,         \* pvCap[v]: capacity of the PV object
    target,        \* target[v]: "none", "dir" (target path not mounted) or the disk mounted
    disabledAnno,  \* the node's disabled-disks annotation (set by the administrator)
    ops,           \* client operations so far
    nodeUsageAnno, \* the node's disk-usage annotation, read by the scheduler
    pvUsageAnno,   \* pvUsageAnno[v]: disk in the PV's usage annotation (partial)
    \* --- SyncWorker ---
    wpc,                \* where populatorLoopFunc is
    quotaInfo,          \* ListPathQuotaInfos snapshot: volume -> [disk, hard]
    shouldDeleteVolIds, \* r.shouldDeleteVolIds
    nextLoop,           \* nextLoopShouldDeleteVolId
    idx,                \* position in shouldDeleteVolIds
    orphans,            \* snapshot volumes missing from metaInfos, not yet released
    diskInfo,           \* ListQuotaDiskInfos snapshot
    toggles,            \* SetQuotaDiskDisabledState calls still to make
    usageTodo,          \* snapshot volumes syncQuotaPathUsage has still to visit
    lastSync,           \* r.lastSyncQuotaInfoCache (partial function)
    lastNodeUsageInfo   \* r.lastNodeUsageInfo

QM == INSTANCE QuotaManager
Id == INSTANCE VolId

\* The scheduler extender's predicate, reading this node's usage annotation.
\* Only its pure operators are used; its pod state is not part of this model.
Sch == INSTANCE Scheduler WITH
           DiskSizes <- Sizes, ReqSizes <- Sizes, MaxVols <- MaxPodVols,
           alloc <- allocatable, reqs <- <<>>, phase <- "filter",
           pending <- {}, failed <- {}

\* ToHostPathNode of this node as the extender reads it: labelled for hostPath
\* volumes, with Capacity and QuotaSize from its usage annotation (the zero
\* NodeUsageInfo while no annotation has been written).
HostPathNode(anno) == [hp |-> TRUE, cap |-> anno.cap, quota |-> anno.quota]

qmVars     == <<fsTag, fsLimit, fsDisabled, mgr, quotaSize, allocatable, disabled,
                quotas, pathId, allocated>>
coVars     == <<meta, gone, pvCap, target, disabledAnno, ops, nodeUsageAnno, pvUsageAnno>>
workerVars == <<wpc, quotaInfo, shouldDeleteVolIds, nextLoop, idx, orphans,
                diskInfo, toggles, usageTodo, lastSync, lastNodeUsageInfo>>
vars       == <<qmVars, coVars, workerVars>>

\* The zero NodeUsageInfo: what lastNodeUsageInfo starts as.
NoUsage == [cap |-> 0, quota |-> 0, disks |-> <<>>]

\* DiskInfoList.Less: allocatable descending, then mount point ascending.
DiskBefore(a, b) ==
    \/ a.alloc > b.alloc
    \/ a.alloc = b.alloc /\ MountRank[a.mp] < MountRank[b.mp]

\* ListQuotaDiskInfos of a running manager (FakeQuotaManager returns nil).
DiskInfos ==
    IF mgr = "running"
    THEN {[mp |-> d, cap |-> Capacity[d], quota |-> quotaSize[d],
           alloc |-> allocatable[d], dis |-> disabled[d]] : d \in Disks}
    ELSE {}

SumOf(infos, f) == MapThenSumSet(LAMBDA i : i[f], infos)

\* syncNodeQuotaStatus: totals, then DiskStatus sorted.
NodeUsage(infos) ==
    [cap   |-> SumOf(infos, "cap"),
     quota |-> SumOf(infos, "quota"),
     disks |-> SetToSortSeq({[mp |-> i.mp, alloc |-> i.alloc, dis |-> i.dis] : i \in infos},
                            DiskBefore)]

\* Bug variant: QuotaSize is not compared.
ShouldNodeUpdateNoQuota(new) ==
    LET old == lastNodeUsageInfo IN
    \/ old.cap # new.cap
    \/ \E i \in 1..Len(old.disks) : old.disks[i].mp # new.disks[i].mp

\* shouldNodeUpdate: totals, then per index the mount point; the third
\* per-disk test, disk.Allocatable != disk.Allocatable, is always FALSE and
\* Disabled is not compared.  Used is not modelled.
ShouldNodeUpdate(new) ==
    LET old == lastNodeUsageInfo IN
    \/ old.cap # new.cap
    \/ old.quota # new.quota
    \/ \E i \in 1..Len(old.disks) : old.disks[i].mp # new.disks[i].mp

\* Bug variant: only the "disable" branch of the reconciliation.
ToggleTargetsOnlyDisable(infos, anno) ==
    {<<i.mp, TRUE>> : i \in {j \in infos : ~j.dis /\ j.mp \in anno}}

\* The disable-state calls syncNodeQuotaStatus makes for a disk snapshot and
\* the node's disabled-disks annotation.
ToggleTargets(infos, anno) ==
    {<<i.mp, i.mp \in anno>> : i \in {j \in infos : j.dis # (j.mp \in anno)}}

\* Bug variants: the orphan scan ignores the meta store, or takes the
\* volumes it holds instead of those it does not.
OrphansIgnoreMeta(vols, metaInfos) == vols
OrphansFromMeta(vols, metaInfos) == vols \cap metaInfos

\* cleanOrphanQuotaPath: snapshot volumes that metaInfos does not hold.
Orphans(vols, metaInfos) == {v \in vols : v \notin metaInfos}

\* quotaMng.ReleaseVolumePath(v) as a caller sees it: a running manager
\* releases (or has nothing to release); FakeQuotaManager returns an error.
Release(v) ==
    \/ mgr = "running" /\ v \notin DOMAIN quotas /\ UNCHANGED qmVars
    \/ mgr = "running" /\ QM!ReleaseVolumePath(v)
    \/ mgr = "fake" /\ UNCHANGED qmVars

\* ... and whether the call returned an error.
ReleaseFailed(v) == mgr' = "fake" \/ v \in DOMAIN quotas'

\* The empty map.
NoMap == [v \in {} |-> 0]

\* A fresh SyncWorker: the process (re)started.
WorkerReset ==
    /\ wpc' = "list"
    /\ quotaInfo' = NoMap
    /\ shouldDeleteVolIds' = <<>>
    /\ nextLoop' = <<>>
    /\ idx' = 1
    /\ orphans' = {}
    /\ diskInfo' = {}
    /\ toggles' = {}
    /\ usageTodo' = {}
    /\ lastSync' = NoMap
    /\ lastNodeUsageInfo' = NoUsage

-----------------------------------------------------------------------------
(* API objects the plugin reads and writes                                  *)

\* ConfigMapMetaStore.AddMetaInfo: get the ConfigMap, set the key, update.
\* A failing Get or Update changes nothing and the CO retries the call.
AddMetaInfo(v) == meta' = meta \cup {v}

\* ConfigMapMetaStore.UnsetMetaInfo: get the ConfigMap, delete the key, update.
UnsetMetaInfo(v) == meta' = meta \ {v}

\* external-provisioner names a PV "pvc-" and the claim's UID: 40 bytes.
PVNameLen == 40

\* CreateVolume's CSIIdentifier for v (version 1, the StorageClass's
\* ephemeral parameter, the PV name) and its ComposeCSIID.
ComposedId(v) ==
    Id!ComposeCSIID([version |-> Id!VolIDVersion,
                     ephemeral |-> v \in Ephemeral,
                     name |-> [id |-> v, len |-> PVNameLen]])

\* The volume id the CO passes back for v.
VolumeId(v) == ComposedId(v).str

\* GetHostPathPVByVolumeId: DecomposeCSIID, then the PV named by the
\* volume name; nil when the id does not decode or the PV is gone (the
\* API error case is ApiErrors in the caller).
GetHostPathPVByVolumeId(v) ==
    /\ Id!DecomposeCSIID(VolumeId(v)).ok
    /\ v \in meta

\* getHostPathPVUsageInfoPatchBytes: the usage annotation of a snapshot
\* entry is its path (NodeName is this node; Capacity and Used are
\* abstracted).
PVUsageInfo(info) == info.disk

\* UpdateHostPathPVUsageInfo: a JSON patch "add" of the usage annotation.
UpdateHostPathPVUsageInfo(v, info) ==
    pvUsageAnno' = (v :> PVUsageInfo(info)) @@ pvUsageAnno

\* UpdateNodeHostPathPVUsageInfo: a JSON patch "add" of the node's usage
\* annotation.
UpdateNodeHostPathPVUsageInfo(new) == nodeUsageAnno' = new

\* getNodeHostPathDisabledDisks: the disks listed in the node's
\* disabled-disks annotation.
NodeDisabledDisks == disabledAnno

\* ListPathQuotaInfos: every registry entry (Used refreshed through
\* GetProjectQuota when stale; an error there returns nil), and nil from
\* FakeQuotaManager.
ListPathQuotaInfos ==
    IF mgr = "running"
    THEN {quotas} \cup (IF QM!Fails("getProjectQuota") THEN {NoMap} ELSE {})
    ELSE {NoMap}

-----------------------------------------------------------------------------
(* Kubernetes side: CO calls and the administrator                          *)

\* CreateVolume(name, capacity): ComposeCSIID (an overflow is an Internal
\* error), AddMetaInfo(volumeId), then the provisioner creates the PV.
CreateVolume(v, s) ==
    /\ ops < MaxOps
    /\ v \notin meta \cup gone
    /\ ComposedId(v).ok
    /\ AddMetaInfo(v)
    /\ pvCap' = [pvCap EXCEPT ![v] = s]
    /\ ops' = ops + 1
    /\ UNCHANGED <<qmVars, gone, target, disabledAnno, nodeUsageAnno, pvUsageAnno, workerVars>>

\* DeleteVolume(volumeId): UnsetMetaInfo.  The CO deletes a volume only
\* once it is unpublished everywhere.
DeleteVolume(v) ==
    /\ ops < MaxOps
    /\ v \in meta
    /\ target[v] = "none"
    /\ UnsetMetaInfo(v)
    /\ gone' = gone \cup {v}
    /\ ops' = ops + 1
    /\ UNCHANGED <<qmVars, pvCap, target, disabledAnno, nodeUsageAnno, pvUsageAnno, workerVars>>

\* NodePublishVolume: the PV must exist; GetVolumeQuotaPath returns the
\* cached path or allocates one, then the bind mount.  A crash inside
\* GetVolumeQuotaPath takes the whole plugin, sync worker included.
NodePublishVolume(v) ==
    /\ ops < MaxOps
    /\ v \in meta
    /\ target[v] = "none"
    /\ mgr = "running"
    /\ \/ /\ v \in DOMAIN quotas
          /\ target' = [target EXCEPT ![v] = quotas[v].disk]
          /\ UNCHANGED <<qmVars, workerVars>>
       \/ /\ v \notin DOMAIN quotas
          /\ QM!GetVolumeQuotaPath(v, pvCap[v])
          /\ IF mgr' = "down"
             THEN WorkerReset /\ UNCHANGED target
             ELSE /\ target' = IF v \in DOMAIN quotas'
                               THEN [target EXCEPT ![v] = quotas'[v].disk]
                               ELSE target
                  /\ UNCHANGED workerVars
    /\ ops' = ops + 1
    /\ UNCHANGED <<meta, gone, pvCap, disabledAnno, nodeUsageAnno, pvUsageAnno>>

\* NodeUnpublishVolume: DecomposeCSIID of the volume id (an error is
\* Internal), unmount, then for an id with the ephemeral flag
\* ReleaseVolumePath; an error there leaves the unmounted target path and
\* the CO calls again.
NodeUnpublishVolume(v) ==
    LET vi == Id!DecomposeCSIID(VolumeId(v)) IN
    /\ ops < MaxOps
    /\ target[v] # "none"
    /\ vi.ok
    /\ mgr \in {"running", "fake"}
    /\ IF vi.ephemeral
       THEN /\ Release(v)
            /\ target' = [target EXCEPT ![v] = IF ReleaseFailed(v) THEN "dir" ELSE "none"]
       ELSE /\ target' = [target EXCEPT ![v] = "none"]
            /\ UNCHANGED qmVars
    /\ ops' = ops + 1
    /\ UNCHANGED <<meta, gone, pvCap, disabledAnno, nodeUsageAnno, pvUsageAnno, workerVars>>

\* ControllerExpandVolume (no state; the resizer records the new PV
\* capacity), then NodeExpandVolume of the published volume to s bytes,
\* which ExpandVolume may refuse (shrink, no room, not registered).
NodeExpandVolume(v, s) ==
    /\ ops < MaxOps
    /\ target[v] \in Disks
    /\ mgr = "running"
    /\ \/ QM!ExpandVolume(v, s)
       \/ ~ENABLED QM!ExpandVolume(v, s) /\ UNCHANGED qmVars
    /\ pvCap' = [pvCap EXCEPT ![v] = s]
    /\ ops' = ops + 1
    /\ UNCHANGED <<meta, gone, target, disabledAnno, nodeUsageAnno, pvUsageAnno, workerVars>>

\* The administrator adds or removes a disk in the disabled-disks annotation.
EditDisabledAnno(d) ==
    /\ ops < MaxOps
    /\ disabledAnno' = IF d \in disabledAnno THEN disabledAnno \ {d} ELSE disabledAnno \cup {d}
    /\ ops' = ops + 1
    /\ UNCHANGED <<qmVars, meta, gone, pvCap, target, nodeUsageAnno, pvUsageAnno, workerVars>>

\* The node plugin starts: NewXfsQuotaManager, then SyncWorker.Start.
PluginStart ==
    /\ QM!Restore
    /\ UNCHANGED <<coVars, workerVars>>

\* The node plugin process dies; mounts and the API objects survive.
PluginCrash ==
    /\ QM!Crash
    /\ WorkerReset
    /\ UNCHANGED coVars

-----------------------------------------------------------------------------
(* SyncWorker.populatorLoopFunc, one step per manager call                  *)

\* A failed ReleaseVolumePath is appended to nextLoopShouldDeleteVolId.
ReleaseAndRecord(v) ==
    /\ Release(v)
    /\ IF ReleaseFailed(v)
       THEN /\ Len(nextLoop) < MaxRetry
            /\ nextLoop' = Append(nextLoop, v)
       ELSE nextLoop' = nextLoop

\* populatorLoopFunc starts with ListPathQuotaInfos; on an error it goes on
\* with the nil snapshot.
WListPaths ==
    /\ wpc = "list"
    /\ quotaInfo' \in ListPathQuotaInfos
    /\ nextLoop' = <<>>
    /\ idx' = 1
    /\ wpc' = "retry"
    /\ UNCHANGED <<qmVars, coVars, shouldDeleteVolIds, orphans, diskInfo, toggles, usageTodo, lastSync, lastNodeUsageInfo>>

\* cleanOrphanQuotaPath, first loop: retry every id of shouldDeleteVolIds.
WRetry ==
    /\ wpc = "retry"
    /\ idx <= Len(shouldDeleteVolIds)
    /\ ReleaseAndRecord(shouldDeleteVolIds[idx])
    /\ idx' = idx + 1
    /\ UNCHANGED <<coVars, wpc, quotaInfo, shouldDeleteVolIds, orphans, diskInfo, toggles, usageTodo, lastSync, lastNodeUsageInfo>>

\* ListMetaInfos, and the snapshot volumes it does not hold.  On an error
\* cleanOrphanQuotaPath returns before assigning r.shouldDeleteVolIds: the
\* old list is kept and nextLoopShouldDeleteVolId is dropped.
WListMeta ==
    /\ wpc = "retry"
    /\ idx > Len(shouldDeleteVolIds)
    /\ \/ /\ orphans' = Orphans(DOMAIN quotaInfo, meta)
          /\ wpc' = "orphan"
          /\ UNCHANGED usageTodo
       \/ /\ ApiErrors
          /\ wpc' = "usage"
          /\ usageTodo' = DOMAIN quotaInfo
          /\ UNCHANGED orphans
    /\ UNCHANGED <<qmVars, coVars, quotaInfo, shouldDeleteVolIds, nextLoop, idx, diskInfo, toggles, lastSync, lastNodeUsageInfo>>

\* cleanOrphanQuotaPath, second loop, in map order.
WOrphan(v) ==
    /\ wpc = "orphan"
    /\ v \in orphans
    /\ ReleaseAndRecord(v)
    /\ orphans' = orphans \ {v}
    /\ UNCHANGED <<coVars, wpc, quotaInfo, shouldDeleteVolIds, idx, diskInfo, toggles, usageTodo, lastSync, lastNodeUsageInfo>>

\* r.shouldDeleteVolIds = nextLoopShouldDeleteVolId; syncQuotaPathUsage
\* starts over the same snapshot.
WOrphanDone ==
    /\ wpc = "orphan"
    /\ orphans = {}
    /\ shouldDeleteVolIds' = nextLoop
    /\ wpc' = "usage"
    /\ usageTodo' = DOMAIN quotaInfo
    /\ UNCHANGED <<qmVars, coVars, quotaInfo, nextLoop, idx, orphans, diskInfo, toggles, lastSync, lastNodeUsageInfo>>

\* Bug variant: a path change is not a reason to update.
ShouldUpdateIgnorePath(v, info) ==
    \/ v \notin DOMAIN lastSync
    \/ v \in DOMAIN lastSync /\ lastSync[v].hard # info.hard

\* shouldUpdate: no cached entry, or the path or the hard quota changed
\* (Used is not modelled).
ShouldUpdate(v, info) ==
    \/ v \notin DOMAIN lastSync
    \/ v \in DOMAIN lastSync /\ lastSync[v] # info

\* syncQuotaPathUsage, one snapshot entry: GetHostPathPVByVolumeId returns
\* nil for a deleted PV or on an API error, and the entry is skipped; a
\* failing UpdateHostPathPVUsageInfo returns the error and ends the loop;
\* on success the annotation names the snapshot's path and the cache
\* records the entry.
WSyncUsage(v) ==
    LET info == quotaInfo[v] IN
    /\ wpc = "usage"
    /\ v \in usageTodo
    /\ \/ /\ ~ShouldUpdate(v, info) \/ ~GetHostPathPVByVolumeId(v) \/ ApiErrors
          /\ usageTodo' = usageTodo \ {v}
          /\ UNCHANGED <<wpc, pvUsageAnno, lastSync>>
       \/ /\ ShouldUpdate(v, info) /\ GetHostPathPVByVolumeId(v)
          /\ UpdateHostPathPVUsageInfo(v, info)
          /\ lastSync' = (v :> info) @@ lastSync
          /\ usageTodo' = usageTodo \ {v}
          /\ UNCHANGED wpc
       \/ /\ ShouldUpdate(v, info) /\ GetHostPathPVByVolumeId(v) /\ ApiErrors
          /\ usageTodo' = {}
          /\ wpc' = "disks"
          /\ UNCHANGED <<pvUsageAnno, lastSync>>
    /\ UNCHANGED <<qmVars, meta, gone, pvCap, target, disabledAnno, ops, nodeUsageAnno,
                   quotaInfo, shouldDeleteVolIds, nextLoop, idx, orphans, diskInfo, toggles, lastNodeUsageInfo>>

\* syncQuotaPathUsage returns after the last entry.
WUsageDone ==
    /\ wpc = "usage"
    /\ usageTodo = {}
    /\ wpc' = "disks"
    /\ UNCHANGED <<qmVars, coVars, quotaInfo, shouldDeleteVolIds, nextLoop, idx, orphans, diskInfo, toggles, usageTodo, lastSync, lastNodeUsageInfo>>

\* ListQuotaDiskInfos, then GetNodeByName's disabled-disks annotation; if
\* GetNodeByName fails, syncNodeQuotaStatus returns and the loop ends.
WListDisks ==
    /\ wpc = "disks"
    /\ diskInfo' = DiskInfos
    /\ \/ /\ toggles' = ToggleTargets(DiskInfos, NodeDisabledDisks)
          /\ wpc' = "toggle"
       \/ /\ ApiErrors
          /\ wpc' = "list"
          /\ UNCHANGED toggles
    /\ UNCHANGED <<qmVars, coVars, quotaInfo, shouldDeleteVolIds, nextLoop, idx, orphans, usageTodo, lastSync, lastNodeUsageInfo>>

\* One SetQuotaDiskDisabledState call (only a running manager lists disks).
WToggle(t) ==
    /\ wpc = "toggle"
    /\ t \in toggles
    /\ QM!SetQuotaDiskDisabledState(t[1], t[2])
    /\ toggles' = toggles \ {t}
    /\ UNCHANGED <<coVars, wpc, quotaInfo, shouldDeleteVolIds, nextLoop, idx, orphans, diskInfo, usageTodo, lastSync, lastNodeUsageInfo>>

\* Build NodeUsageInfo from the disk snapshot (taken before the toggles);
\* if shouldNodeUpdate says so, UpdateNodeHostPathPVUsageInfo, and on
\* success replace r.lastNodeUsageInfo.
WPublish ==
    /\ wpc = "toggle"
    /\ toggles = {}
    /\ LET new == NodeUsage(diskInfo) IN
       \/ /\ ShouldNodeUpdate(new)
          /\ UpdateNodeHostPathPVUsageInfo(new)
          /\ lastNodeUsageInfo' = new
       \/ /\ ~ShouldNodeUpdate(new) \/ ApiErrors
          /\ UNCHANGED <<nodeUsageAnno, lastNodeUsageInfo>>
    /\ wpc' = "list"
    /\ UNCHANGED <<qmVars, meta, gone, pvCap, target, disabledAnno, ops, pvUsageAnno,
                   quotaInfo, shouldDeleteVolIds, nextLoop, idx, orphans, diskInfo, toggles,
                   usageTodo, lastSync>>

WorkerStep ==
    /\ mgr \in {"running", "fake"}
    /\ \/ WListPaths \/ WRetry \/ WListMeta \/ (\E v \in Vols : WOrphan(v))
       \/ WOrphanDone \/ (\E v \in Vols : WSyncUsage(v)) \/ WUsageDone \/ WListDisks \/ (\E t \in Disks \X BOOLEAN : WToggle(t)) \/ WPublish

-----------------------------------------------------------------------------

Init ==
    /\ QM!Init
    /\ meta = {}
    /\ gone = {}
    /\ pvCap = [v \in Vols |-> 0]
    /\ target = [v \in Vols |-> "none"]
    /\ disabledAnno = {}
    /\ ops = 0
    /\ nodeUsageAnno = NoUsage
    /\ pvUsageAnno = NoMap
    /\ wpc = "list"
    /\ quotaInfo = NoMap
    /\ shouldDeleteVolIds = <<>>
    /\ nextLoop = <<>>
    /\ idx = 1
    /\ orphans = {}
    /\ diskInfo = {}
    /\ toggles = {}
    /\ usageTodo = {}
    /\ lastSync = NoMap
    /\ lastNodeUsageInfo = NoUsage

Next ==
    \/ \E v \in Vols, s \in Sizes : CreateVolume(v, s)
    \/ \E v \in Vols : DeleteVolume(v)
    \/ \E v \in Vols : NodePublishVolume(v)
    \/ \E v \in Vols : NodeUnpublishVolume(v)
    \/ \E v \in Vols, s \in Sizes : NodeExpandVolume(v, s)
    \/ \E d \in Disks : EditDisabledAnno(d)
    \/ PluginStart
    \/ PluginCrash
    \/ WorkerStep

\* The worker loops forever (JitterUntil never stops), and the kubelet
\* restarts the plugin's container; the CO and the administrator may stop.
Spec == Init /\ [][Next]_vars /\ WF_vars(WorkerStep) /\ WF_vars(PluginStart)

-----------------------------------------------------------------------------
(* Properties                                                               *)

TypeOK ==
    /\ QM!TypeOK
    /\ meta \subseteq Vols /\ gone \subseteq Vols /\ meta \cap gone = {}
    /\ pvCap \in [Vols -> {0} \cup Sizes]
    /\ target \in [Vols -> {"none", "dir"} \cup Disks]
    /\ disabledAnno \subseteq Disks
    /\ ops \in 0..MaxOps
    /\ pvUsageAnno \in UNION {[S -> Disks] : S \in SUBSET Vols}
    /\ wpc \in {"list", "retry", "orphan", "usage", "disks", "toggle"}
    /\ DOMAIN quotaInfo \subseteq Vols /\ orphans \subseteq DOMAIN quotaInfo
    /\ usageTodo \subseteq DOMAIN quotaInfo /\ DOMAIN lastSync \subseteq Vols
    /\ shouldDeleteVolIds \in Seq(Vols) /\ nextLoop \in Seq(Vols)
    /\ Len(nextLoop) <= MaxRetry
    /\ idx \in 1..(MaxRetry + 1)
    /\ toggles \subseteq Disks \X BOOLEAN

\* The data of a mounted volume is never deleted: across crashes, restarts
\* and failing syscalls, the directory a volume is mounted from exists.
MountedDataIntact ==
    \A v \in Vols : target[v] \in Disks => fsTag[<<target[v], v>>] # QM!NoDir

\* With publishes, expansions, unpublishes of ephemeral volumes and the
\* worker's releases and disk toggles interleaved, no disk's quota total
\* exceeds its capacity (Spec 4.3).  Crashes are left out: restoreQuotaInfo
\* breaks this on its own (run qm_overcommit).
NoOvercommit ==
    QM!NoOvercommit

\* Spec 4.5 bounds the orphan retries only by ticks: each loop retries
\* the old list once.  The retry list never holds more entries than there
\* are volumes (cleanOrphanQuotaPath appends a volume that fails in the
\* retry loop and again when the orphan loop fails on it).
RetryListBounded ==
    Len(shouldDeleteVolIds) <= Cardinality(Vols)

\* Once the CO and the administrator stop, the disks' disable state
\* settles on the node's disabled-disks annotation (syncNodeQuotaStatus).
DisabledEventuallySynced ==
    <>[](mgr = "running" => \A d \in Disks : disabled[d] = (d \in disabledAnno))

\* A deleted volume is eventually released on the node: no registry entry
\* and no quota directory remain (cleanOrphanQuotaPath against the meta
\* store, its retry list).
DeletedVolumesEventuallyReleased ==
    \A v \in Vols :
        v \in gone ~> (v \notin DOMAIN quotas /\ \A d \in Disks : fsTag[<<d, v>>] = QM!NoDir)

\* Spec 4.4: NodeUnpublishVolume removes the quota directory only of a
\* volume created ephemeral (the flag travels inside the volume id, from
\* CreateVolume's ComposeCSIID to NodeUnpublishVolume's DecomposeCSIID),
\* and the sync worker only that of a volume gone from the meta store.  So
\* no step removes the registered quota directory of a persistent volume
\* that exists before and after it, whatever crashes, failed syscalls and
\* worker interleavings come between.
PersistentVolumeKept ==
    [][\A v \in (meta \cap meta') \ Ephemeral :
          LET p == <<quotas[v].disk, v>> IN
          v \in DOMAIN quotas /\ fsTag[p] # QM!NoDir => fsTag'[p] # QM!NoDir]_vars

\* The quota manager, driven by the CSI calls and the sync worker's
\* releases, implements the abstract registry of spec 4.3 (see
\* QuotaManager's RefinesRegistry).
RefinesRegistry == QM!RefinesRegistry

\* QuotaManager's provider-cache agreement, here with two project ids, so
\* that a leaked id or a second path cached for one id is reachable: every
\* allocated id is cached for exactly one path, tagged on disk with it,
\* across failing syscalls, crashes and the worker's orphan releases.
ProviderCacheConsistent == QM!ProviderCacheConsistent

\* Spec 4.6: FilterNode's canNodeMatch, run over the DiskStatus this
\* node's sync worker last published (after restarts, toggles and
\* releases), admits a pod's PVs only if they can be packed into the
\* published disks' allocatable sizes.  canNodeMatch reuses a disk for
\* several requests, so this rests on it taking each request's size off.
CanNodeMatchSound ==
    \A r \in PodRequests :
        Sch!CanNodeMatch(r, nodeUsageAnno.disks) => Sch!Feasible(r, nodeUsageAnno.disks)

\* Spec 4.5 step 2: once clients stop, the usage annotation of every PV
\* whose volume has a quota path names the disk that path is on
\* (syncQuotaPathUsage with its shouldUpdate cache, across releases and
\* re-placements of ephemeral volumes).
PVUsageEventuallyAccurate ==
    <>[](mgr = "running" =>
           \A v \in DOMAIN quotas \cap meta :
               v \in DOMAIN pvUsageAnno /\ pvUsageAnno[v] = quotas[v].disk)

\* Spec 4.5 step 3 and 4.7: the score mapScoringNode gives this node, from
\* the Capacity and QuotaSize of the usage annotation the extender reads,
\* settles once clients stop on the score of the manager's own totals:
\* shouldNodeUpdate compares the totals, so a publish, expansion or
\* release that changes QuotaSize without reordering the disks is still
\* republished by a later worker loop.
NodeScoreEventuallyAccurate ==
    <>[](mgr = "running" =>
           Sch!MapScoringNode(TRUE, HostPathNode(nodeUsageAnno))
               = Sch!MapScoringNode(TRUE, HostPathNode(NodeUsage(DiskInfos))))

\* Spec 4.5 step 3: the node's published usage, read by the scheduler,
\* is at most a tick stale; once clients stop it settles on the manager's
\* disk state (per-disk allocatable and disable flag included).
NodeUsageEventuallyAccurate ==
    <>[](mgr = "running" => nodeUsageAnno = NodeUsage(DiskInfos))

====
