----------------------------- MODULE MC_PVBinding -----------------------------
EXTENDS PVBinding, TLC

CONSTANTS p1, p2, n1, n2, pv1, pv2, pv3, pv4

MCPods == {p1, p2}
MCNodes == {n1, n2}
MCPVs == {pv1, pv2}

\* Two replicas share pv1; the second also has a PV of its own, listed first.
MCClaims == (p1 :> <<pv1>>) @@ (p2 :> <<pv2, pv1>>)

\* No PV shared: p1 has two persistent PVs, so its Bind can fail between
\* them; p2 has an ephemeral PV (pv4) and a persistent one.
MCPVsOwn == {pv1, pv2, pv3, pv4}
MCClaimsOwn == (p1 :> <<pv1, pv2>>) @@ (p2 :> <<pv4, pv3>>)

NodeSymmetry == Permutations(MCNodes)

====
