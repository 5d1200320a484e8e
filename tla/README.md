# TLA+ models of hostpathpv-plugin

This directory holds TLA+ specifications of the hostpathpv-plugin (the Go
sources under `src/`). It also holds the TLC configurations that check them.
`PROJECT.json` records, in machine-readable form:

- the components;
- the runs;
- the mutants that validate each checked property;
- the map from every TLA+ definition to the source lines it models;
- the findings;
- the hazards.

## The system

hostpathpv-plugin gives Kubernetes volumes that live in directories on a
node's local XFS disks. Each volume is capped by an XFS project quota. It has
three processes that cooperate through the Kubernetes API.

| Part | Source | State it owns | Operations |
|---|---|---|---|
| CSI controller | `csi-plugin/hostpath/controllerserver.go`, `metestore.go` | the meta ConfigMap (set of volume ids) | CreateVolume → AddMetaInfo, DeleteVolume → UnsetMetaInfo, ControllerExpandVolume (no state) |
| CSI node server | `csi-plugin/hostpath/nodeserver.go` | per-volume TryAcquire lock (`util.VolumeLocks`, not in `src/`), mounts | NodePublishVolume → GetVolumeQuotaPath + bind mount; NodeUnpublishVolume → unmount, ReleaseVolumePath for ephemeral volumes; NodeExpandVolume → ExpandVolume |
| XFS quota manager | `quota-manager/quotamanager_xfs.go`, `common.go`, `quotamanager_fake.go` | disk registry (QuotaSize, AllocatableSize, Disabled per disk), volume registry (disk, hard quota per volume), guarded by one mutex | restoreQuotaInfo at start (falls back to FakeQuotaManager on error), GetVolumeQuotaPath, ExpandVolume, ReleaseVolumePath, SetQuotaDiskDisabledState, List* |
| XFS provider + id allocator | `quotaProvider/quota_xfs.go`, `projidallocator.go`, `quota_common_linux.go` | quotaPathAndId cache, project-id bitmap; on disk: directory project-id tags, per-device XFS limits, the disable xattr | GetProjectQuota, SetProjectQuota, DeleteProjectQuota, Allocate/AllocateNext/Release |
| Node sync worker | `csi-plugin/hostpath/syncworker.go` | retry list shouldDeleteVolIds, lastSyncQuotaInfoCache, lastNodeUsageInfo | every 30 s: snapshot paths, clean orphans against the meta store, publish PV usage, sync disk disable state from the node annotation, publish node usage |
| Scheduler extender | `extender-scheduler/scheduler/{predicate,prioritize,bind}` | none (reads informer caches) | FilterNode/canNodeMatch, mapScoringNode, Bind (PV bind annotation, then pod binding) |
| hostpathclient | `hostpathclient/*` | informer caches | annotation encode/decode, JSON-patch updates |
| utilities | `util/volid.go`, `util/util.go` | — | ComposeCSIID/DecomposeCSIID, RoundOffBytes, DeleteFile, MkDir |
| kubectl plugin, liveness | `kubectl-plugin/*`, `csi-plugin/liveness` | — | read-only listing, gRPC probe |

The parts interact as follows:

- The controller records volume ids in the meta store.
- The scheduler extender picks a node from the per-disk allocatable sizes that the sync worker publishes on the node. It pins non-ephemeral PVs to that node.
- The node server asks the quota manager for a quota directory on publish.
- The sync worker, running concurrently and without the CSI volume lock, releases every quota directory whose volume has left the meta store. It also pushes usage back to the API server.

Every manager method holds `m.mu` for its whole body, so each method is
atomic with respect to the others. What interrupts one is a process crash,
and failing syscalls.

## Modules

### QuotaManager.tla (with MC_QuotaManager.tla)

This module models the quota manager together with its provider and
allocator. That is the node-local engine that all capacity guarantees rest on.

**State.** The filesystem is durable:

- `fsTag`: for each directory `<<disk, volume>>`, either the absence of the directory (`NoDir`) or the project id set on it (`0` = untagged).
- `fsLimit`: the XFS hard limit per `<<disk, id>>`.
- `fsDisabled`: the disable xattr.

The process state is volatile:

- `mgr`: down, running or fake.
- The manager's `quotaSize`, `allocatable`, `disabled` and `quotas`.
- The provider's `pathId` (`quotaPathAndId`) and `allocated` (the bitmap).

**Actions.** Each action models a whole method:

- `Restore`: NewXfsQuotaManager plus restoreQuotaInfo. It includes the FakeQuotaManager fallback when `Allocate` rejects an untagged or duplicated id.
- `GetVolumeQuotaPath`: allocateNewQuotaDir, SetProjectQuota with its deferred undo, the deferred DeleteFile, and the registry update. It also covers a crash after MkDir and a crash after setProjectId.
- `ExpandVolume`.
- `ReleaseVolumePath`: DeleteProjectQuota, then the registry update.
- `SetQuotaDiskDisabledState`.
- `Crash`: loses all volatile state.

How the model treats the data:

- Failing syscalls (setProjectId, setProjectQuota, RemoveAll) are disjuncts enabled by the constant `Faults`.
- Disk choice takes any disk of maximal AllocatableSize. `sort.Sort` is unstable over map-iteration order, so ties can go either way.
- `AllocateNext` returns any free id. The k8s AllocationBitmap scans from a random offset.
- uint64 subtraction is `U64Sub`, modulo `UintMod`.

**Properties.** Each is stated in the module, after a comment:

- `TypeOK`.
- `ProviderCacheConsistent`: the allocator bitmap equals the set of cached ids, the cache is injective, and every cached path carries its id on disk.
- `AccountingConserved`: QuotaSize of a disk is the sum of the hard quotas registered on it.
- `NoOvercommit`: QuotaSize never exceeds the capacity.
- `EnforcedLimitMatchesRegistry`: XFS enforces the hard quota the registry records. TLC finds it violated by a single ExpandVolume (SetProjectQuota skips a cached path). No run is kept for it, because a unit test reaches the bug too; it is listed as a hazard at `quota_xfs.go:59`.
- `UniqueProjectIds`: no project id tags two directories.
- `RestoreNeverDegrades`: no restart ends in FakeQuotaManager.
- `QuotaIsRequested`: every registered quota is a requested size, never 0 (unlimited).

The bug variants named `...NoWrap`, `...OffByOne`, `...KeepSize` and `...Leak` are the mutants listed in PROJECT.json. Each one breaks the property of its run.

### QuotaManager runs

All runs use `MC_QuotaManager` with:

- disks `d1`, `d2` of capacity 2 and 3;
- volumes `v1`, `v2`, with symmetry over volumes;
- `UintMod = 16`.

| Run (cfg) | Setting | Checks | Result |
|---|---|---|---|
| qm_restore_sum (`QM_restore_sum.cfg`) | crashes and all syscall faults, 2 project ids, sizes {1,2} | AccountingConserved | violation (8 states). v1's publish tags a directory on d2 (id 1) and its setProjectQuota fails; the deferred delete leaves the directory. The retry places v1 on d1 (id 2, limit 1). After a crash, restore sums both directories (QuotaSize d1 = 1) but keeps the last one per volume, registering v1 on d2 with hard quota 0: d1 counts 1 with no quota registered on it. |
| qm_overcommit | crashes, sizes {1,2} | NoOvercommit | violation. Place v1 (2) on d2, crash, restore (AllocatableSize d2 = 3), place v2 (2) on d2: QuotaSize 4 > 3, and AllocatableSize wraps. |
| qm_id_reuse | RemoveAll faults | UniqueProjectIds | violation. Release v1 (id 1) with RemoveAll failing; v2 then gets id 1. |
| qm_wedge | crashes | RestoreNeverDegrades | violation. A crash after MkDir leaves an untagged dir, so every later restart is FakeQuotaManager. |
| qm_unlimited | crashes | QuotaIsRequested | violation. A crash after setProjectId leaves limit 0, and restore registers the volume with hard quota 0. |

Why these bounds are enough:

- Two disks of different capacity make both the ordering of placement and the tie-breaking reachable.
- Two volumes are the fewest that can share or reuse a project id.
- Two project ids let a volume hold two tagged directories, which restore's sum needs (`quotamanager_xfs.go:311` counts every directory, `:314` keeps the last).
- Sizes {1,2} let one volume fill d1 but not d2. They also let an expansion change the ordering.
- `UintMod` is above the largest QuotaSize that can be reached, so a wrap shows only through a real underflow.

No fairness is assumed in QuotaManager runs. Only safety is checked there.

### NodeSync.tla (with MC_NodeSync.tla)

NodeSync composes the quota manager (`QM == INSTANCE QuotaManager`, sharing
all of its variables) with the Kubernetes side and the node sync worker.

**State.**

- Kubernetes side:
  - `meta`: the meta ConfigMap.
  - `gone`: volumes deleted by DeleteVolume.
  - `pvCap`: the PV capacity.
  - `target`: the mount state of each volume's target path.
  - `disabledAnno`: the administrator's disabled-disks annotation.
  - `nodeUsageAnno`: the published node usage.
  - `pvUsageAnno`: each PV's usage annotation (the quota path it names).
  - `ops`: a client-operation counter bounded by `MaxOps`.
- Sync worker (`syncworker.go`):
  - `wpc`: the worker's position in `populatorLoopFunc`.
  - `quotaInfo`: the path snapshot.
  - `shouldDeleteVolIds`, `nextLoop` and `idx`: the retry list and the position in it.
  - `orphans`: the snapshot minus the meta store.
  - `diskInfo` and `toggles`: the disk snapshot and the toggles still to make.
  - `usageTodo` and `lastSync`: the snapshot entries syncQuotaPathUsage has still to visit, and lastSyncQuotaInfoCache.
  - `lastNodeUsageInfo`.

**Actions.**

- Client actions. Each CSI RPC is one step. The per-volume `TryAcquire` lock rejects a second RPC on the same volume, and every manager method is atomic under `m.mu`.
  - `CreateVolume` and `DeleteVolume`.
  - `NodePublishVolume`, with the cached-path branch.
  - `NodeUnpublishVolume`, which releases ephemeral volumes.
  - `NodeExpandVolume`.
  - `EditDisabledAnno`.
  - `PluginCrash` and `PluginStart`. A restart also resets the worker (`driver.go`).
- Worker steps. The worker loop is split at every manager call and every API call, so client RPCs interleave with it:
  - `WListPaths` and `WRetry`. ListPathQuotaInfos returns nil from FakeQuotaManager, and also when a stale entry's GetProjectQuota fails (the fault `getProjectQuota`); the loop goes on with the nil snapshot;
  - `WListMeta`, which can fail;
  - `WOrphan` and `WOrphanDone`;
  - `WSyncUsage` and `WUsageDone`: syncQuotaPathUsage, one snapshot entry per step. `ShouldUpdate` compares the entry with lastSyncQuotaInfoCache. GetHostPathPVByVolumeId returns nil for a deleted PV. A failing usage patch ends the pass;
  - `WListDisks`, which can fail;
  - `WToggle`;
  - `WPublish`, which can fail.

  A failed API call follows the code's `continue` or early return. The
  API calls themselves (AddMetaInfo, UnsetMetaInfo, the usage patches,
  getNodeHostPathDisabledDisks) are helper operators named after the
  client functions they model.

**Fairness.** `JitterUntil` runs the loop forever, so `WorkerStep` is weakly
fair. The plugin is restarted by its DaemonSet, so `PluginStart` is weakly
fair. Clients stop after `MaxOps` operations, so the liveness properties are
about the quiescent state the worker must reach.

**Properties.**

- `TypeOK`. It includes the QuotaManager type.
- `MountedDataIntact`: a volume mounted on a disk still has its directory. The orphan cleanup reads the meta store after the path snapshot and releases without the CSI lock.
- `RetryListBounded`: the retry list never holds more entries than there are volumes.
- `DisabledEventuallySynced`: the disabled flags eventually follow the annotation.
- `DeletedVolumesEventuallyReleased`: a deleted volume eventually has no registry entry and no directory.
- `NoOvercommit`: QuotaManager's property, here under interleaved client calls and worker releases.
- `PVUsageEventuallyAccurate`: while the manager runs, every live volume's PV annotation eventually names the disk its quota directory is on (Spec 4.5 step 2).
- `NodeUsageEventuallyAccurate`: the published node usage eventually equals the manager's.
- `PersistentVolumeKept` (action property): no step removes the registered quota directory of a persistent volume that is in the meta store before and after it. NodeUnpublishVolume decides "ephemeral" by decoding the volume id that CreateVolume composed (VolId), so a decoder that reads the wrong field deletes persistent data on unmount.
- `ProviderCacheConsistent`: QuotaManager's property, here with two volume ids, so two directories can compete for the id space: the XFS provider's path cache, its id bitmap and the directories' tags stay in agreement. The bitmap-injectivity conjunct needs the two ids.
- `NodeScoreEventuallyAccurate`: once clients stop, the prioritizer's score of this node (`Sch!MapScoringNode` on `HostPathNode(nodeUsageAnno)`, the node as the extender reads it) eventually equals its score on the manager's real usage. shouldNodeUpdate decides whether a change of Capacity or QuotaSize reaches the annotation.
- `CanNodeMatchSound`: canNodeMatch (`Sch == INSTANCE Scheduler`), run over the DiskStatus the worker last published, admits a list of PV sizes (up to 3 PVs of sizes in `Sizes`) only if some assignment of them to the published disks fits (`Scheduler!Feasible`, a brute-force reference).
- `RefinesRegistry`: the quota manager, driven by the CSI calls and the worker, implements the abstract registry `VolumeRegistry` (see below).

The MC module has disks `d1`, `d2` of capacity 2 and 3, volumes `v1`, `v2`
(`v2` ephemeral) and mount ranks d1 < d2.

| Run (cfg) | Setting | Checks | Result |
|---|---|---|---|
| ns_safety (`NS_safety.cfg`) | all syscall faults (getProjectQuota included), crashes, API errors, MaxOps 4, MaxRetry 2 | TypeOK, MountedDataIntact, ProviderCacheConsistent, PersistentVolumeKept | pass (973,718 states, ~36 s) |
| ns_live (`NS_live.cfg`) | no faults, no crash, no API errors, MaxOps 5 | NoOvercommit, CanNodeMatchSound, DisabledEventuallySynced, DeletedVolumesEventuallyReleased, PVUsageEventuallyAccurate, NodeScoreEventuallyAccurate, RefinesRegistry | pass (155,925 states, ~65 s) |
| ns_retry_growth | RemoveAll faults, MaxRetry 3 | RetryListBounded | violation. A release that keeps failing is appended again every loop (`syncworker.go:133`), one duplicate per loop: `<<v1,v1,v1>>` after three loops, with 2 volumes. |
| ns_stale_usage | no faults, MaxOps 3 | NodeUsageEventuallyAccurate | violation. The administrator disables both disks. shouldNodeUpdate compares the new AllocatableSize with itself and never compares Disabled, so the annotation shows both disks enabled until some total or rounded Used changes. Used is abstracted in the model, so in the trace it never does. |

Why these bounds are enough. A crash or a restart is not a client
operation, so in ns_safety `MaxOps 4` still allows create, publish,
unpublish and delete of one volume, or create and publish of two, with
crashes, faults and worker loops anywhere between them. The mount-point
hazard needs only create, publish and a worker loop that reads a stale
meta store. `MaxRetry 2` lets a failing release be retried across loops.
In ns_live, `MaxOps 5` adds an annotation edit and an expansion. Crashes
are left out of ns_live because restoreQuotaInfo breaks NoOvercommit
(qm_overcommit), and API errors because nothing bounds how often they
recur.

### VolumeRegistry.tla: the abstract registry, and the refinement

`VolumeRegistry` states what spec 4.3 promises of a node's quota manager.
It has no directories, project ids or caches:

- `reg`: each registered volume with its disk and hard quota.
- `off`: the disabled disks.

Its actions:

- `Place`: only on an enabled disk with room, and on one with the most headroom. A volume never moves afterwards.
- `Expand`: never shrinks, and the disk must have room for the increase.
- `Release`.
- `SetDisabled`.

Headroom is capacity minus the registered quotas, so the abstract registry
can never promise more than a disk holds.

`QuotaManager` defines `Registry == INSTANCE VolumeRegistry WITH reg <- quotas,
off <- {d \in Disks : disabled[d]}` and `RefinesRegistry == Registry!Spec`.
ns_live checks it through NodeSync:

- Every manager step is then a step of the registry, or stutters (provider caches, tags and limits are invisible to it).
- The mutant `MostAllocatableAnyFit`, which places on any fitting disk, is caught.

With crashes the refinement fails: restoreQuotaInfo forgets the
allocations (qm_overcommit). That is why the property lives in the run
without crashes.

### VolId.tla

VolId holds the pure operators of `util/volid.go`.

- **The string.** An id is abstracted to what DecomposeCSIID reads: its length, the three 4-digit hex fields, and the name (a model value with a length).
- **The encoding.** `HexU16`/`U16FromHex` translate PutUint16 plus hex encoding and decoding. `Uint16` is Go's truncating conversion.
- **The checks.** `DecomposeCSIID` keeps the code's three failure checks: underflow, flag parse, and size mismatch.

The operators are used where the code uses them:

- `NodeSync.CreateVolume` composes the id, with the 40-byte PV name that external-provisioner passes (and fails past 128 bytes).
- `NodeUnpublishVolume` decodes it to decide whether to release.
- `PVBinding.IsEphemeral` decodes the PV's volume handle.

### Scheduler.tla (with MC_Scheduler.tla)

This module models one pod with hostPath PVs that are not yet bound to a node,
and one node. It covers the scheduler extender's two steps and the node's
placement:

- `FilterNode`/`CanNodeMatch`: the requests are sorted descending and matched against the published `DiskStatus` (sorted by `DiskInfoList.Less`). `MatchFrom` is a RECURSIVE operator that translates the two-pointer loop. That loop moves on to the next disk and never goes back.
- `Bind`: binds the PVs and the pod.
- `PublishVolume(i)`: kubelet publishes each volume, in any order. The manager places it worst-fit (`allocateNewQuotaDir`) or fails with ResourceExhausted.
- The prioritizer's per-node score, `MapScoringNode`, as a pure operator on a candidate `[hp, cap, quota]` (the hostPath label and the Capacity and QuotaSize of the node's usage annotation): `100*(cap-quota)/cap`, or 0 for a node without capacity or overcommitted, and `DefaultNodeScore` when the candidates are not all hostPath nodes.

  The Go code computes in float64 and truncates with `int64(...)`. The model uses integer division (`TruncDiv`). A Python check over capacities below 2000 found no input where the two differ. `NodeSync` checks the score of the published usage against that of the real usage (`NodeScoreEventuallyAccurate`, in ns_live). reduceScoringNode, which only rescales the scores of all candidates against the highest, is not modelled.

  Spec 4.7 gives every node a neutral score when *the pod* has no relevant volumes. The code instead decides `hasHostPath` from *the candidate nodes*' labels. A pod without hostPath volumes, on a cluster where every candidate is a hostPath node, is therefore still ranked by disk usage. This disagreement changes only a preference and no run is spent on it, so it is recorded here and not as a finding.

Init chooses every disk size in 0..4 and every request list of up to 4 PVs of
sizes 1..3. The published sizes are taken to be exact, so only the algorithms
are compared.

| Run (cfg) | Checks | Result |
|---|---|---|
| sch_admitted (`SCH_admitted.cfg`) | AdmittedPodStarts | violation. Disks of 2 and 1, PVs of 2 and 1: canNodeMatch admits (2→d2, 1→d1). kubelet publishes the size-1 PV first, and it goes to d2 (worst fit). The size-2 PV then fits nowhere. |

`CHECK_DEADLOCK FALSE` is set there because a scheduling request really ends:
the pod is rejected, or all of its volumes are published.

### PVBinding.tla (with MC_PVBinding.tla)

This module models several pods that share hostPath PVs, going through the
scheduler extender while its PV informer lags behind the API server.

**State.**

- `pvBind`: each PV's bind-node annotation on the API server.
- `watch`: per PV, the annotation values the informer has not yet delivered.
- `cache`: the bind node as the extender's informer has it.
- `podNode`: each pod's Binding.
- `sched`: each pod's scheduling state (pending, binding at claim `next` on `node`, or bound).

**Actions.**

- `Schedule(p, n)`: the filter route. `FilterNodes` is Handler's loop over FilterNode. A PV that the cache shows bound elsewhere rejects the node. Disk fit is left to the Scheduler module.
- `BindClaim(p)`: one iteration of Bind's claim loop. An ephemeral PV, or one already bound to the node, is skipped. An unbound PV is patched (`BindHostPathPV`, which can fail). A conflict returns an error.
- `BindPod(p)`: the pod Binding, which can fail.
- `BindFailed`: bindsRoute answers 500, and kube-scheduler puts the pod back in the queue.
- `ApiCallFails`: a PV patch or a pod binding fails. The failures explored are bounded by `MaxApiErrors` (a counter `apiErrs`). Without the bound, patches made on a lagging cache would lengthen the watch queue without limit.
- `InformerDeliver(pv)`: the informer applies the next watch event to its cache.

kube-scheduler runs binding cycles asynchronously, so two pods' Bind calls
interleave freely.

| Run (cfg) | Checks | Result |
|---|---|---|
| pvb_shared (`PVB_shared.cfg`) | SharedPVOnOneNode | violation. p1 and p2 share pv1. Both are scheduled while the cache shows pv1 unbound; p1 patches pv1 to n1 and binds, p2 patches pv1 to n2 and binds. The two pods run on different nodes over one PV. |
| pvb_retry (`PVB_retry.cfg`) | BoundPodPVsPinned | violation, with no PV shared. p1 (pv1, pv2) is tried on n1: pv1 is patched to n1, then the pv2 patch fails. p1 is tried on n2 before the informer has delivered: pv1 is patched to n2, and the pv2 patch fails again. p1 is tried on n1 once the informer has applied only the first event: the cache shows pv1 on n1, so Bind skips it and binds p1 to n1. The API server pins pv1 to n2. |

`BoundPodPVsPinned` says that a bound pod's non-ephemeral PVs are pinned to
its node.

`FairSpec` adds weak fairness to three things: scheduling a pending pod
(kube-scheduler retries it), each Bind step, and each informer delivery.
Under FairSpec, `PodsEventuallyBound` (every pod is eventually bound) is
also violated on the pvb_retry instance, in a 16-state trace. Two failed
binding cycles leave p1's pv1 pinned to n2 and pv2 pinned to n1. FilterNode
then rejects both nodes forever. This is recorded as a liveness hazard at
`hostpathpv_bind.go:57`, without a run of its own.

Bounds:

- **pvb_shared.** Two pods, two nodes and two PVs are the fewest that can disagree. p2's own PV comes first in its claim list, so a failure can happen after a patch. Symmetry over nodes is sound there, because nothing distinguishes n1 from n2.
- **pvb_retry.** One pod with two persistent PVs is enough. The second pod has an ephemeral PV and a persistent one, which exercises the skip branch.
- **Both runs.** `MaxApiErrors = 2` is the fewest failures for which a retry meets a half-delivered cache.

## Findings

The violations above are described in `PROJECT.json/findings`:

1. restoreQuotaInfo never recomputes AllocatableSize, so disks get overcommitted after a restart.
2. DeleteProjectQuota frees the id before RemoveAll, so a project id can tag two directories.
3. A crash between MkDir and setProjectId makes the node permanently fall back to FakeQuotaManager.
4. A crash between setProjectId and setProjectQuota leaves a volume with no quota after a restart.
5. The worker's retry list grows without bound (a failing release is appended again every loop, one duplicate per loop).
6. The node usage annotation does not reflect disabled disks until some total or rounded Used changes (a self-comparison in shouldNodeUpdate).
10. restoreQuotaInfo sums the limit of every tagged directory into QuotaSize but registers only the last directory of each volume, so after a failed publish leaves a tagged directory, a restart leaves QuotaSize different from the quotas registered on the disk, and the volume registered on the leftover directory with hard quota 0 (`quotamanager_xfs.go:311`, `:314`).
7. The predicate admits pods whose volumes the node cannot place, because the predicate and the placement are different bin-packings, and kubelet's publish order decides.
8. Bind reads the PV's bind node from a lagging informer cache and patches it with a JSON "add", which overwrites. Two pods that share a PV can therefore be bound to different nodes (`controller.go:201`).
9. The same cache makes Bind's retry after a partial failure skip a PV whose cached node is stale. A pod is then bound to one node while its PV is pinned to another (`hostpathpv_bind.go:56`).

A further problem is recorded as a hazard, without a run of its own (the
project keeps at most twelve runs). It concerns the extender's PV informer (`persistentVolume.go:43`).
The converter refuses any PV that is not Bound, including the final object
of a Deleted event, so deleted PVs are never removed from the cache. A
recreated claim of the same name then has two cached PVs.

## Plan (next sittings)

Done so far: the abstract registry with its refinement, canNodeMatch
against a feasibility reference (soundness), VolId, and the prioritizer's
mapScoringNode against the published usage. Still open:

1. **canNodeMatch completeness and the Disabled flag.** canNodeMatch rejects feasible PV lists (disks 3 and 2, PVs 2, 2, 1), and it counts disabled disks. Each needs a violation run.
2. **Two pods on one node's stale usage.** The extender keeps no reservation, so two pods filtered before the node publishes the first one's quota can both be admitted to room for one (hazard at `hostpathpv_disk_pressure.go:78`). This needs a two-pod Scheduler run.
3. **PV deletion in PVBinding.** This covers the stale cache entry described above.
4. **A passing PVBinding run.** BoundPodPVsPinned and PodsEventuallyBound only fail through the lagging cache. With `CachedBindNode(pv)` read from `pvBind` (the API server) instead of `cache`, both hold under FairSpec on the pvb_retry instance (3841 distinct states). A passing run would then check a corrected Bind.

The run budget is full. New runs must replace or merge existing ones: a
violation run can become a hazard once its finding is recorded.

## Not modelled

- **Used bytes, timestamps and the maxCacheTime refresh in List*.** They only feed the usage reports, and no property here compares byte counts.
- **Mount/unmount syscalls and validation of CSI requests.** NodeSync keeps only whether a target path is mounted, and from which disk. Validation has no state.
- **Used in the PV usage annotation.** The annotation is abstracted to the quota path, which is what shouldUpdate, the PV annotation and PVUsageEventuallyAccurate distinguish.
- **RoundOffBytes.** At the model's granularity (sizes in MiB units) it is the identity. Its edge is recorded as a hazard. A capacity range asking for 0 bytes gives 0, although its comment says sizes below 1 MiB round to 1 MiB. CreateVolume does not refuse it, and an XFS limit of 0 is no limit.
- **The prioritizer's effect on the node chosen.** kube-scheduler adds the extender's scores to those of its own plugins, so PVBinding still lets it pick any node that passed the filter. mapScoringNode itself is modelled (Scheduler.tla); reduceScoringNode's rescaling across candidates is not, since no property here ranks nodes.
- **The HTTP routes and registries** (`prioritize.go`, `predicate.go`, `bind.go` Register/AddRoute/Init). They decode a request, call the strategy's handler and encode its result. There is no state beyond the registry built at start.
- **Foreign directories under a quota disk, and mountpoint names containing `k8squota`.** These are listed as a hazard (parseQuotaPathInfoFromDirName).
- **The liveness probe, the kubectl plugin, annotation encoding.** These are I/O and layout.
