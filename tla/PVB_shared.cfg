\* Two pods sharing a PV, scheduled while the PV informer lags.
CONSTANTS
    p1 = p1
    p2 = p2
    n1 = n1
    n2 = n2
    pv1 = pv1
    pv2 = pv2
    pv3 = pv3
    pv4 = pv4
    NoNode = NoNode
    Pods <- MCPods
    Nodes <- MCNodes
    PVs <- MCPVs
    Claims <- MCClaims
    Ephemeral = {}
    MaxApiErrors = 2
SYMMETRY NodeSymmetry
SPECIFICATION Spec
INVARIANT SharedPVOnOneNode
CHECK_DEADLOCK FALSE
