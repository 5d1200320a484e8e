---------------------------- MODULE QuotaManager ----------------------------
(***************************************************************************)
(* The node-local capacity-accounting engine: XFSQuotaManager               *)
(* (quotamanager_xfs.go) together with the XFS quota provider               *)
(* (quota_xfs.go) and its project-id allocator (projidallocator.go).        *)
(*                                                                         *)
(* Every exported manager method takes m.mu for its whole duration, so     *)
(* each is one atomic action here.  What can interrupt a method is a       *)
(* process crash: the in-memory registries are lost, the filesystem        *)
(* (directories, their XFS project-id tags, the per-device XFS project     *)
(* limits and the disable xattr) survives, and the next start runs         *)
(* restoreQuotaInfo.  Failing syscalls are nondeterministic outcomes,      *)
(* enabled by the constant Faults.                                          *)
(***************************************************************************)
EXTENDS Integers, FiniteSets, Functions, FiniteSetsExt, TLC

CONSTANTS
    Disks,      \* devices mounted under the quota root (model values)
    Vols,       \* volume ids (model values)
    Capacity,   \* Capacity[d]: filesystem size of d, from GetQuotaDiskInfo
    Sizes,      \* requested / expanded volume sizes
    NumIds,     \* ProjectIdNum: size of the project-id range
    UintMod,    \* 2^64 scaled down: uint64 subtraction wraps modulo this
    Faults,     \* syscalls that may fail: "setProjectId", "setProjectQuota", "removeAll",
                \* "getProjectQuota"
    Crashes     \* TRUE when the node plugin may crash and restart

ASSUME /\ Capacity \in [Disks -> Nat \ {0}]
       /\ Sizes \subseteq Nat \ {0}
       /\ NumIds \in Nat \ {0}
       /\ UintMod > MapThenSumSet(LAMBDA d : Capacity[d], Disks)
                    + Cardinality(Vols) * Max(Sizes)
       /\ Faults \subseteq {"setProjectId", "setProjectQuota", "removeAll", "getProjectQuota"}
       /\ Crashes \in BOOLEAN

VARIABLES
    \* --- durable: the XFS filesystems ---
    fsTag,       \* fsTag[<<d, v>>]: NoDir, or the project id on dir k8squota_v of d (0 = untagged)
    fsLimit,     \* fsLimit[<<d, id>>]: XFS project hard limit of id on device d
    fsDisabled,  \* fsDisabled[d]: the user.storage.hostpathpv.xfsquota/disable xattr
    \* --- volatile: XFSQuotaManager ---
    mgr,         \* "down" before restore, "running", or "fake" (FakeQuotaManager)
    quotaSize,   \* diskQuotaInfos[d].QuotaSize
    allocatable, \* diskQuotaInfos[d].AllocatableSize
    disabled,    \* diskQuotaInfos[d].Disabled
    quotas,      \* quotas: volume id -> [disk, hard]
    \* --- volatile: QuotaVolumeProvider ---
    pathId,      \* quotaPathAndId: quota path -> project id
    allocated    \* the allocator's bitmap, as the set of allocated ids

fsVars   == <<fsTag, fsLimit, fsDisabled>>
mgrVars  == <<mgr, quotaSize, allocatable, disabled, quotas>>
provVars == <<pathId, allocated>>
vars     == <<fsVars, mgrVars, provVars>>

NoDir == -1
Paths == Disks \X Vols          \* <<d, v>> stands for MountPoint(d)/k8squota_v
Ids   == 1..NumIds              \* [ProjectIdStart, ProjectIdStart+ProjectIdNum)
Limits == {0} \cup Sizes
EmptyFn == [x \in {} |-> 0]

Fails(call) == call \in Faults

\* Bug variant: the subtraction done on signed integers.
U64SubNoWrap(a, b) == a - b

\* diskInfo.Capacity - diskInfo.QuotaSize on uint64 operands
U64Sub(a, b) == (a - b) % UintMod

-----------------------------------------------------------------------------
(* Project-id allocator (ProjectIDAllocator over k8s AllocationBitmap).     *)

\* contains(): only ids of the configured range are valid.
InRange(id) == id \in Ids

\* AllocateNext: the bitmap hands out some free offset (random scan), or ErrFull.
FreeIds == Ids \ allocated

\* Allocate(prjId) for every tagged directory, as GetProjectQuota does on a
\* cache miss: an id outside the range (an untagged dir reads 0) fails with
\* ErrNotInRange, an id met twice fails with ErrAllocated.
AllocateAll(tags) == Range(tags) \subseteq Ids /\ IsInjective(tags)

-----------------------------------------------------------------------------
(* Manager helpers                                                          *)

\* getDiskQuotaDisableState: the disk's disable xattr; a disk that never had
\* it set (or an unreadable value) counts as enabled.
DiskQuotaDisableState(d) == fsDisabled[d]

\* Bug variant: an off-by-one in the room check.
FitsOffByOne(d, s) == allocatable[d] >= s - 1

\* allocateNewQuotaDir: disks that are enabled and have room for hardQuota.
Fits(d, s) == allocatable[d] >= s

Candidates(s) == {d \in Disks : ~disabled[d] /\ Fits(d, s)}

\* Bug variant: the candidates sorted ascending, or not sorted at all.
MostAllocatableAnyFit(s) == Candidates(s)

\* sort.Sort descending by AllocatableSize, take availableDisk[0]; the list
\* is built from map iteration and sorted unstably, so ties go either way.
MostAllocatable(s) ==
    {d \in Candidates(s) : \A e \in Candidates(s) : allocatable[d] >= allocatable[e]}

\* A crash drops every in-memory structure; the process restarts "down".
LoseVolatile ==
    /\ mgr' = "down"
    /\ quotaSize' = [d \in Disks |-> 0]
    /\ allocatable' = [d \in Disks |-> 0]
    /\ disabled' = [d \in Disks |-> FALSE]
    /\ quotas' = EmptyFn
    /\ pathId' = EmptyFn
    /\ allocated' = {}

\* util.DeleteFile(quotaPath) on an error return: RemoveAll, which may fail.
DeleteFile(p, tagNow) ==
    \/ fsTag' = [fsTag EXCEPT ![p] = NoDir]
    \/ Fails("removeAll") /\ fsTag' = [fsTag EXCEPT ![p] = tagNow]

\* Bookkeeping after a quota of size s is in place for volume v on disk d.
AddQuota(v, d, s) ==
    /\ quotas' = (v :> [disk |-> d, hard |-> s]) @@ quotas
    /\ quotaSize' = [quotaSize EXCEPT ![d] = @ + s]
    /\ allocatable' = [allocatable EXCEPT ![d] = U64Sub(Capacity[d], quotaSize'[d])]

\* ExpandVolume's cache update: QuotaSize + quotaSize - oldSize.
ResizeQuota(v, d, old, new) ==
    /\ quotas' = [quotas EXCEPT ![v].hard = new]
    /\ quotaSize' = [quotaSize EXCEPT ![d] = @ + new - old]
    /\ allocatable' = [allocatable EXCEPT ![d] = U64Sub(Capacity[d], quotaSize'[d])]

\* Bug variant: the release forgets to credit the disk.
DropQuotaKeepSize(v, d) ==
    /\ quotas' = [w \in DOMAIN quotas \ {v} |-> quotas[w]]
    /\ UNCHANGED <<quotaSize, allocatable>>

\* ReleaseVolumePath's cache update after the quota path is gone.
DropQuota(v, d) ==
    /\ quotas' = [w \in DOMAIN quotas \ {v} |-> quotas[w]]
    /\ quotaSize' = [quotaSize EXCEPT ![d] = @ - quotas[v].hard]
    /\ allocatable' = [allocatable EXCEPT ![d] = U64Sub(Capacity[d], quotaSize'[d])]

\* Bug variant: the deferred cleanup does not release the allocated id.
ProviderUndoLeak(p, id) ==
    /\ allocated' = allocated \cup {id}
    /\ pathId' = pathId

\* SetProjectQuota's deferred cleanup after setProjectQuota failed:
\* Release(projectId) and delete(quotaPathAndId, quotaPath).
ProviderUndo(p, id) ==
    /\ allocated' = allocated
    /\ pathId' = pathId

\* A successful SetProjectQuota on an uncached path: id allocated, dir
\* tagged, XFS limit set, cache updated.
ProviderTagAndLimit(p, id, s) ==
    /\ fsTag' = [fsTag EXCEPT ![p] = id]
    /\ fsLimit' = [fsLimit EXCEPT ![<<p[1], id>>] = s]
    /\ pathId' = (p :> id) @@ pathId
    /\ allocated' = allocated \cup {id}

\* DeleteProjectQuota, first half: a cached path releases its id.
ProviderForget(p) ==
    IF p \in DOMAIN pathId
    THEN /\ allocated' = allocated \ {pathId[p]}
         /\ pathId' = [q \in DOMAIN pathId \ {p} |-> pathId[q]]
    ELSE UNCHANGED provVars

-----------------------------------------------------------------------------
(* Actions                                                                  *)

Init ==
    /\ fsTag = [p \in Paths |-> NoDir]
    /\ fsLimit = [x \in Disks \X Ids |-> 0]
    /\ fsDisabled = [d \in Disks |-> FALSE]
    /\ mgr = "down"
    /\ quotaSize = [d \in Disks |-> 0]
    /\ allocatable = [d \in Disks |-> 0]
    /\ disabled = [d \in Disks |-> FALSE]
    /\ quotas = EmptyFn
    /\ pathId = EmptyFn
    /\ allocated = {}

\* NewXfsQuotaManager -> restoreQuotaInfo.  Every disk is registered with
\* QuotaSize 0 and AllocatableSize = Capacity; then every subdirectory is
\* read back through GetProjectQuota, whose Allocate(projectId) fails for an
\* untagged (0) or a duplicated id, and any failure yields FakeQuotaManager.
\* QuotaSize is summed per disk, AllocatableSize is left as it was.  A volume
\* with directories on two disks ends up with the entry of whichever disk
\* the map iteration visits last.
Restore ==
    /\ mgr = "down"
    /\ LET dirs == {p \in Paths : fsTag[p] # NoDir}
           tags == [p \in dirs |-> fsTag[p]]
           owners == {p[2] : p \in dirs}
       IN IF AllocateAll(tags)
          THEN \E winner \in [owners -> Disks] :
                 /\ \A v \in owners : <<winner[v], v>> \in dirs
                 /\ mgr' = "running"
                 /\ quotas' = [v \in owners |->
                                 [disk |-> winner[v],
                                  hard |-> fsLimit[<<winner[v], tags[<<winner[v], v>>]>>]]]
                 /\ quotaSize' = [d \in Disks |->
                                    MapThenSumSet(LAMBDA p : fsLimit[<<d, tags[p]>>],
                                                  {p \in dirs : p[1] = d})]
                 /\ allocatable' = Capacity
                 /\ disabled' = [d \in Disks |-> DiskQuotaDisableState(d)]
                 /\ pathId' = tags
                 /\ allocated' = Range(tags)
          ELSE /\ mgr' = "fake"
               /\ UNCHANGED <<quotaSize, allocatable, disabled, quotas, provVars>>
    /\ UNCHANGED fsVars

\* The plugin process dies between two manager calls (or in FakeQuotaManager).
Crash ==
    /\ Crashes
    /\ mgr \in {"running", "fake"}
    /\ LoseVolatile
    /\ UNCHANGED fsVars

\* GetVolumeQuotaPath(volId, capacity) for a volume without a cache entry:
\* allocateNewQuotaDir picks the disk and MkDirs the path, then
\* SetProjectQuota, then the cache entry and the disk debit.
GetVolumeQuotaPath(v, s) ==
    /\ mgr = "running"
    /\ v \notin DOMAIN quotas
    /\ \E d \in MostAllocatable(s) :
       LET p  == <<d, v>>
           mk == IF fsTag[p] = NoDir THEN 0 ELSE fsTag[p]
       IN
       \/ \* provider already caches the path: SetProjectQuota returns nil
          /\ p \in DOMAIN pathId
          /\ fsTag' = [fsTag EXCEPT ![p] = mk]
          /\ AddQuota(v, d, s)
          /\ UNCHANGED <<fsLimit, fsDisabled, mgr, disabled, provVars>>
       \/ /\ p \notin DOMAIN pathId
          /\ \/ \* AllocateNext: ErrFull
                /\ FreeIds = {}
                /\ DeleteFile(p, mk)
                /\ UNCHANGED <<fsLimit, fsDisabled, mgrVars, provVars>>
             \/ \E id \in FreeIds :
                \/ /\ Fails("setProjectId")
                   /\ DeleteFile(p, mk)
                   /\ UNCHANGED <<fsLimit, fsDisabled, mgrVars, provVars>>
                \/ /\ Fails("setProjectQuota")
                   /\ DeleteFile(p, id)
                   /\ ProviderUndo(p, id)
                   /\ UNCHANGED <<fsLimit, fsDisabled, mgrVars>>
                \/ /\ ProviderTagAndLimit(p, id, s)
                   /\ AddQuota(v, d, s)
                   /\ UNCHANGED <<fsDisabled, mgr, disabled>>
                \/ \* crash after setProjectId, before setProjectQuota
                   /\ Crashes
                   /\ fsTag' = [fsTag EXCEPT ![p] = id]
                   /\ LoseVolatile
                   /\ UNCHANGED <<fsLimit, fsDisabled>>
          \/ \* crash after MkDir, before setProjectId
             /\ Crashes
             /\ fsTag' = [fsTag EXCEPT ![p] = mk]
             /\ LoseVolatile
             /\ UNCHANGED <<fsLimit, fsDisabled>>

\* ExpandVolume(volID, capacity): no shrink, delta must fit the disk, then
\* SetProjectQuota on the volume's path and the cache update.
ExpandVolume(v, s) ==
    /\ mgr = "running"
    /\ v \in DOMAIN quotas
    /\ LET d == quotas[v].disk
           p == <<d, v>>
           old == quotas[v].hard
       IN /\ old <= s
          /\ Fits(d, s - old)
          /\ \/ \* cached path: SetProjectQuota returns nil, no quotactl
                /\ p \in DOMAIN pathId
                /\ ResizeQuota(v, d, old, s)
                /\ UNCHANGED <<fsVars, mgr, disabled, provVars>>
             \/ /\ p \notin DOMAIN pathId
                /\ \E id \in FreeIds :
                   \/ /\ ProviderTagAndLimit(p, id, s)
                      /\ ResizeQuota(v, d, old, s)
                      /\ UNCHANGED <<fsDisabled, mgr, disabled>>
                   \/ /\ Fails("setProjectQuota")
                      /\ fsTag' = [fsTag EXCEPT ![p] = id]
                      /\ ProviderUndo(p, id)
                      /\ UNCHANGED <<fsLimit, fsDisabled, mgrVars>>

\* ReleaseVolumePath(volId) of a known volume: DeleteProjectQuota releases
\* the cached id, then RemoveAll; only on success is the cache entry removed
\* and the disk credited.
ReleaseVolumePath(v) ==
    /\ mgr = "running"
    /\ v \in DOMAIN quotas
    /\ LET d == quotas[v].disk
           p == <<d, v>>
       IN /\ ProviderForget(p)
          /\ \/ /\ fsTag' = [fsTag EXCEPT ![p] = NoDir]
                /\ DropQuota(v, d)
                /\ UNCHANGED <<fsLimit, fsDisabled, mgr, disabled>>
             \/ /\ Fails("removeAll")
                /\ fsTag[p] # NoDir
                /\ UNCHANGED <<fsVars, mgrVars>>

\* SetQuotaDiskDisabledState(mountPoint, disabled): xattr first, then cache.
SetQuotaDiskDisabledState(d, b) ==
    /\ mgr = "running"
    /\ fsDisabled' = [fsDisabled EXCEPT ![d] = b]
    /\ disabled' = [disabled EXCEPT ![d] = b]
    /\ UNCHANGED <<fsTag, fsLimit, mgr, quotaSize, allocatable, quotas, provVars>>

Next ==
    \/ Restore
    \/ Crash
    \/ \E v \in Vols, s \in Sizes : GetVolumeQuotaPath(v, s)
    \/ \E v \in Vols, s \in Sizes : ExpandVolume(v, s)
    \/ \E v \in Vols : ReleaseVolumePath(v)
    \/ \E d \in Disks, b \in BOOLEAN : SetQuotaDiskDisabledState(d, b)

Spec == Init /\ [][Next]_vars

-----------------------------------------------------------------------------
(* Properties                                                               *)

TypeOK ==
    /\ fsTag \in [Paths -> {NoDir} \cup {0} \cup Ids]
    /\ fsLimit \in [Disks \X Ids -> Limits]
    /\ fsDisabled \in [Disks -> BOOLEAN]
    /\ mgr \in {"down", "running", "fake"}
    /\ quotaSize \in [Disks -> Nat]
    /\ allocatable \in [Disks -> 0..(UintMod - 1)]
    /\ disabled \in [Disks -> BOOLEAN]
    /\ DOMAIN quotas \subseteq Vols
    /\ \A v \in DOMAIN quotas : quotas[v] \in [disk : Disks, hard : Limits]
    /\ DOMAIN pathId \subseteq Paths
    /\ Range(pathId) \subseteq Ids
    /\ allocated \subseteq Ids

\* The provider's view agrees with the allocator and with the disks: every
\* allocated id is cached for exactly one path, and every cached path is a
\* directory tagged with that id.  SetProjectQuota's deferred Release and
\* DeleteProjectQuota's release-then-RemoveAll are what keep this true
\* across failing syscalls.
ProviderCacheConsistent ==
    mgr = "running" =>
        /\ allocated = Range(pathId)
        /\ IsInjective(pathId)
        /\ \A p \in DOMAIN pathId : fsTag[p] = pathId[p]

\* Spec 8 "Conservation": for every disk, QuotaSize is the sum of the hard
\* quotas of the volumes registered on it (GetVolumeQuotaPath, ExpandVolume,
\* ReleaseVolumePath and restoreQuotaInfo all adjust it).
AccountingConserved ==
    mgr = "running" =>
        \A d \in Disks :
            quotaSize[d] = MapThenSumSet(LAMBDA v : quotas[v].hard,
                                         {v \in DOMAIN quotas : quotas[v].disk = d})

\* Placement and expansion never promise more than a disk holds: the quota
\* total of a disk stays within its capacity (Spec 4.3 ResourceExhausted).
NoOvercommit ==
    mgr = "running" => \A d \in Disks : quotaSize[d] <= Capacity[d]

\* The limit XFS enforces on a registered volume's directory is the hard
\* quota the manager has recorded for it (Spec 4.3: ExpandVolume "updates
\* backend quota and registry atomically").
EnforcedLimitMatchesRegistry ==
    mgr = "running" =>
        \A v \in DOMAIN quotas :
            LET p == <<quotas[v].disk, v>>
            IN InRange(fsTag[p]) => fsLimit[<<p[1], fsTag[p]>>] = quotas[v].hard

\* Spec 3: a project id is never assigned to two quota directories at once
\* (two directories with one id on one device share one XFS limit, and
\* restoreQuotaInfo's Allocate rejects the second one).
UniqueProjectIds ==
    \A p, q \in Paths :
        (p # q /\ InRange(fsTag[p])) => fsTag[p] # fsTag[q]

\* Every volume the manager serves carries a quota some request asked for
\* (never XFS's 0 = unlimited): after a restart restoreQuotaInfo rebuilds
\* the registry from the XFS limit of each directory's project id, and
\* GetVolumeQuotaPath then hands that entry out without setting a quota.
QuotaIsRequested ==
    mgr = "running" => \A v \in DOMAIN quotas : quotas[v].hard \in Sizes

\* Spec 4.3 as an abstract registry (VolumeRegistry): the manager's volume
\* cache and disabled flags, read as that registry, only ever take its
\* steps.  GetVolumeQuotaPath must place a volume on an enabled disk with
\* the most real headroom, ExpandVolume must never shrink nor exceed the
\* disk, and a restart must rebuild exactly what was registered; the
\* headroom the abstract spec computes from the registry is what
\* AllocatableSize is meant to cache.
Registry == INSTANCE VolumeRegistry WITH
                reg <- quotas,
                off <- {d \in Disks : disabled[d]}

RefinesRegistry == Registry!Spec

\* A restart never leaves the node in FakeQuotaManager: whatever the plugin
\* itself wrote to the disks can be read back by restoreQuotaInfo.
RestoreNeverDegrades ==
    mgr # "fake"

=============================================================================
