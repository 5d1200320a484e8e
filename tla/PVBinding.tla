------------------------------ MODULE PVBinding ------------------------------
(***************************************************************************)
(* How the scheduler extender pins hostPath PVs to nodes, for several pods *)
(* that share PVs:                                                         *)
(*   - the scheduling cycle: FilterNode's bind-node constraint (a PV       *)
(*     already bound to a node admits only that node), then any passing   *)
(*     node (the disk fit and the scores are left to the Scheduler module);*)
(*   - the binding cycle, asynchronous in kube-scheduler: Bind's loop over  *)
(*     the pod's claims, one step per claim, then BindPod;                 *)
(*   - the extender's PV informer: the bind-node annotations the API       *)
(*     server holds reach the cache FilterNode and Bind read in watch      *)
(*     order, later.                                                       *)
(* Every PV here is a hostPath PV on a hostPath node.                      *)
(***************************************************************************)
EXTENDS Integers, Sequences, FiniteSets, Functions

CONSTANTS
    Pods,       \* pending pods that use hostPath PVs
    Nodes,      \* hostPath nodes
    PVs,        \* hostPath PVs
    Claims,     \* Claims[p]: the PVs of p's claims, in pod.Spec.Volumes order
    Ephemeral,  \* PVs whose volume id has the ephemeral flag
    MaxApiErrors, \* bound on the failing patches and pod bindings explored
    NoNode      \* no bind-node annotation

ASSUME /\ Claims \in [Pods -> Seq(PVs)]
       /\ Ephemeral \subseteq PVs
       /\ NoNode \notin Nodes
       /\ MaxApiErrors \in Nat

VARIABLES
    pvBind,   \* pvBind[pv]: bind-node annotation on the API server
    watch,    \* watch[pv]: annotation values not yet in the informer cache
    cache,    \* cache[pv]: bind node of pv in the extender's PV informer
    podNode,  \* podNode[p]: node of p's Binding on the API server
    sched,    \* sched[p]: p's scheduling state
    apiErrs   \* failed API calls so far

vars == <<pvBind, watch, cache, podNode, sched, apiErrs>>

Id == INSTANCE VolId

-----------------------------------------------------------------------------

\* FilterNode for node n: a claim whose PV the cache shows bound to another
\* node rejects n; claims bound to n need no new path; the remaining
\* requests go to canNodeMatch, whose verdict is left open here.
FilterPass(p, n) ==
    \A i \in DOMAIN Claims[p] : cache[Claims[p][i]] \in {NoNode, n}

\* Predicate.Handler: FilterNode for each node of the request; the nodes
\* that pass are the filter result.
FilterNodes(p) == {n \in Nodes : FilterPass(p, n)}

\* The PV's spec.csi.volumeHandle: the id CreateVolume composed from the
\* StorageClass's ephemeral parameter and the 40-byte PV name.
VolumeHandle(pv) ==
    Id!ComposeCSIID([version |-> Id!VolIDVersion,
                     ephemeral |-> pv \in Ephemeral,
                     name |-> [id |-> pv, len |-> 40]]).str

\* isEphemeral: the ephemeral flag decoded from the PV's volume handle; a
\* handle that does not decode counts as persistent.
IsEphemeral(pv) ==
    LET vi == Id!DecomposeCSIID(VolumeHandle(pv)) IN vi.ok /\ vi.ephemeral

\* GetPersistentVolumeByClaim: the PV as the informer cache has it.
CachedBindNode(pv) == cache[pv]

\* BindHostPathPV: a JSON patch "add" of the annotation, which replaces any
\* value already there; the watch carries the new value to the informer.
PatchBindNode(pv, n) ==
    /\ pvBind' = [pvBind EXCEPT ![pv] = n]
    /\ watch' = [watch EXCEPT ![pv] = Append(@, n)]

\* HostPathControl.BindPod: POST the pod's Binding to the chosen node.
PostBinding(p, n) == podNode' = [podNode EXCEPT ![p] = n]

\* An API call of the binding cycle fails (bounded by MaxApiErrors).
ApiCallFails ==
    /\ apiErrs < MaxApiErrors
    /\ apiErrs' = apiErrs + 1

\* Any error of the binding cycle: kube-scheduler forgets the assumed pod
\* and puts it back in the scheduling queue.
BindFailed(p) ==
    sched' = [sched EXCEPT ![p] = [st |-> "pending", node |-> NoNode, next |-> 1]]

Init ==
    /\ pvBind = [pv \in PVs |-> NoNode]
    /\ watch = [pv \in PVs |-> <<>>]
    /\ cache = [pv \in PVs |-> NoNode]
    /\ podNode = [p \in Pods |-> NoNode]
    /\ sched = [p \in Pods |-> [st |-> "pending", node |-> NoNode, next |-> 1]]
    /\ apiErrs = 0

\* The scheduling cycle of p: the extender's filter route decodes the
\* request and returns Handler's result; the scheduler picks one of the
\* nodes and starts the binding cycle.
Schedule(p, n) ==
    /\ sched[p].st = "pending"
    /\ n \in FilterNodes(p)
    /\ sched' = [sched EXCEPT ![p] = [st |-> "binding", node |-> n, next |-> 1]]
    /\ UNCHANGED <<pvBind, watch, cache, podNode, apiErrs>>

\* One iteration of Bind's claim loop: an ephemeral PV is skipped; a PV
\* with no bind node is patched to the chosen node; one bound elsewhere
\* ends Bind with a conflict error.
BindClaim(p) ==
    LET n  == sched[p].node
        i  == sched[p].next
        pv == Claims[p][i]
    IN
    /\ sched[p].st = "binding"
    /\ i <= Len(Claims[p])
    /\ \/ /\ IsEphemeral(pv) \/ CachedBindNode(pv) = n
          /\ sched' = [sched EXCEPT ![p].next = i + 1]
          /\ UNCHANGED <<pvBind, watch, apiErrs>>
       \/ /\ ~IsEphemeral(pv)
          /\ CachedBindNode(pv) = NoNode
          /\ PatchBindNode(pv, n)
          /\ sched' = [sched EXCEPT ![p].next = i + 1]
          /\ UNCHANGED apiErrs
       \/ /\ ~IsEphemeral(pv)
          /\ CachedBindNode(pv) = NoNode
          /\ ApiCallFails
          /\ BindFailed(p)
          /\ UNCHANGED <<pvBind, watch>>
       \/ /\ ~IsEphemeral(pv)
          /\ CachedBindNode(pv) \notin {NoNode, n}
          /\ BindFailed(p)
          /\ UNCHANGED <<pvBind, watch, apiErrs>>
    /\ UNCHANGED <<cache, podNode>>

\* After the loop, BindPod posts the pod's Binding.
BindPod(p) ==
    /\ sched[p].st = "binding"
    /\ sched[p].next > Len(Claims[p])
    /\ \/ /\ PostBinding(p, sched[p].node)
          /\ sched' = [sched EXCEPT ![p].st = "bound"]
          /\ UNCHANGED apiErrs
       \/ /\ ApiCallFails
          /\ BindFailed(p)
          /\ UNCHANGED podNode
    /\ UNCHANGED <<pvBind, watch, cache>>

\* The informer processes the next delta of pv: the converted PV, with its
\* bind-node annotation, replaces the cached one.
InformerDeliver(pv) ==
    /\ watch[pv] # <<>>
    /\ cache' = [cache EXCEPT ![pv] = Head(watch[pv])]
    /\ watch' = [watch EXCEPT ![pv] = Tail(@)]
    /\ UNCHANGED <<pvBind, podNode, sched, apiErrs>>

Next ==
    \/ \E p \in Pods, n \in Nodes : Schedule(p, n)
    \/ \E p \in Pods : BindClaim(p) \/ BindPod(p)
    \/ \E pv \in PVs : InformerDeliver(pv)

Spec == Init /\ [][Next]_vars

\* kube-scheduler keeps retrying a pending pod (its backoff and
\* unschedulable queues are flushed periodically) and runs every started
\* binding cycle to its end; the informer keeps applying watch events.
\* API failures are bounded by MaxApiErrors, so no strong fairness is
\* needed for a call that fails only now and then.
FairSpec ==
    /\ Spec
    /\ \A p \in Pods : /\ WF_vars(\E n \in Nodes : Schedule(p, n))
                      /\ WF_vars(BindClaim(p))
                      /\ WF_vars(BindPod(p))
    /\ \A pv \in PVs : WF_vars(InformerDeliver(pv))

-----------------------------------------------------------------------------
(* Properties                                                               *)

\* Spec 4.6: a PV already bound to a node restricts its pods to that node,
\* so pods sharing a non-ephemeral hostPath PV are all bound to one node,
\* and the PV's data lives in one quota directory.  Bind reads the bind
\* node from the informer cache and patches it unconditionally.
SharedPVOnOneNode ==
    \A p, q \in Pods :
        /\ podNode[p] # NoNode
        /\ podNode[q] # NoNode
        /\ (Range(Claims[p]) \cap Range(Claims[q])) \ Ephemeral # {}
        => podNode[p] = podNode[q]

\* Spec 4.6: once a pod is bound, each of its non-ephemeral hostPath PVs
\* is pinned to the pod's node, so kubelet creates its quota directory
\* where the pod runs.  Bind may fail after patching some claims and the
\* pod be rescheduled, onto another node while the cache still lags.
BoundPodPVsPinned ==
    \A p \in Pods :
        podNode[p] # NoNode =>
            \A i \in DOMAIN Claims[p] :
                Claims[p][i] \notin Ephemeral => pvBind[Claims[p][i]] = podNode[p]

\* A Bind that fails midway leaves some PVs pinned to the node it chose;
\* FilterNode must still admit a node for the pod's PVs, so under FairSpec
\* every pod is eventually bound.  (It does not hold: a retry on a stale
\* cache pins the PVs of one pod to two nodes; see the README.)
PodsEventuallyBound ==
    \A p \in Pods : <>(podNode[p] # NoNode)

====
