---------------------------- MODULE VolumeRegistry ----------------------------
(***************************************************************************)
(* What a node's quota manager promises (spec 4.3), with no directories,   *)
(* project ids or caches: a registry of volumes, each with the disk it was *)
(* placed on and its hard quota, and the set of disabled disks.            *)
(*   - Place: only on an enabled disk with room, and on one with the most  *)
(*     headroom; a volume never moves afterwards.                          *)
(*   - Expand: never shrinks, and the owning disk must have room for the   *)
(*     increase (a disabled disk may still grow its volumes).              *)
(*   - Release: the volume leaves the registry and its space comes back.   *)
(* Headroom is computed from the registry itself, so a disk is never       *)
(* promised more than its capacity.                                        *)
(***************************************************************************)
EXTENDS Integers, FiniteSetsExt, TLC

CONSTANTS Disks, Vols, Capacity, Sizes

VARIABLES reg, off

\* Capacity minus the hard quotas of the volumes placed on d.
Headroom(d) ==
    Capacity[d] - MapThenSumSet(LAMBDA v : reg[v].hard, {v \in DOMAIN reg : reg[v].disk = d})

Place(v, s) ==
    /\ v \notin DOMAIN reg
    /\ LET fit == {d \in Disks \ off : Headroom(d) >= s}
       IN \E d \in fit :
            /\ \A e \in fit : Headroom(d) >= Headroom(e)
            /\ reg' = (v :> [disk |-> d, hard |-> s]) @@ reg
    /\ UNCHANGED off

Expand(v, s) ==
    /\ v \in DOMAIN reg
    /\ reg[v].hard <= s
    /\ Headroom(reg[v].disk) >= s - reg[v].hard
    /\ reg' = [reg EXCEPT ![v].hard = s]
    /\ UNCHANGED off

Release(v) ==
    /\ v \in DOMAIN reg
    /\ reg' = [w \in DOMAIN reg \ {v} |-> reg[w]]
    /\ UNCHANGED off

SetDisabled(d, b) ==
    /\ off' = IF b THEN off \cup {d} ELSE off \ {d}
    /\ UNCHANGED reg

Init ==
    /\ reg = [v \in {} |-> 0]
    /\ off = {}

Next ==
    \/ \E v \in Vols, s \in Sizes : Place(v, s) \/ Expand(v, s)
    \/ \E v \in Vols : Release(v)
    \/ \E d \in Disks, b \in BOOLEAN : SetDisabled(d, b)

Spec == Init /\ [][Next]_<<reg, off>>

====
