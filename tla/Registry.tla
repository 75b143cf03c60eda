------------------------------ MODULE Registry ------------------------------
(***************************************************************************)
(* What the supervisor promises its callers: a set of named tunnels to     *)
(* which a request adds one tunnel or from which it removes one.  No       *)
(* planner, no graph, no objects, no start-up: Supervisor implements this, *)
(* and the API and the stores are modelled on top of it.                   *)
(***************************************************************************)
EXTENDS Planner

CONSTANT Names     \* names of tunnels

VARIABLE reg       \* the registered tunnels: a function from their names to their specs

NoTunnels == [n \in {} |-> {}]

(* checkPortConflicts against the tunnels of r.                            *)
Conflicts(r, sp) == \E n \in DOMAIN r : r[n].ports \cap sp.ports # {}

(* A tunnel that may join the tunnels of r: the name is free, so are its   *)
(* ports, and together they can be put in an order.                        *)
Acceptable(r, n, sp) ==
    /\ n \notin DOMAIN r
    /\ ~Conflicts(r, sp)
    /\ PlanSucceeds(AddSpec(r, n, sp))

Add(n, sp) == Acceptable(reg, n, sp) /\ reg' = AddSpec(reg, n, sp)

Remove(n) == n \in DOMAIN reg /\ reg' = RemoveSpec(reg, n)

Init == reg = NoTunnels

Next ==
    \/ \E n \in DOMAIN reg' \ DOMAIN reg : n \in Names /\ Add(n, reg'[n])
    \/ \E n \in DOMAIN reg : Remove(n)

Spec == Init /\ [][Next]_reg
=============================================================================
