\* Pods with PVs of their own (none shared), Bind failing after some
\* patches, the PV informer lagging.
CONSTANTS
    p1 = p1
    p2 = p2
    n1 = n1
    n2 = n2
    pv1 = pv1
    pv2 = pv2
    pv3 = pv3
    pv4 = pv4
    NoNode = NoNode
    Pods <- MCPods
    Nodes <- MCNodes
    PVs <- MCPVsOwn
    Claims <- MCClaimsOwn
    Ephemeral = {pv4}
    MaxApiErrors = 2
SPECIFICATION Spec
INVARIANT BoundPodPVsPinned
\* Every pod bound and every watch event applied: scheduling is over.
CHECK_DEADLOCK FALSE
