------------------------------- MODULE Planner -------------------------------
(***************************************************************************)
(* The dependency planner (internal/dependency/planner.go) as operators on *)
(* its state: specs, the map from the name of a tunnel to its spec, and    *)
(* the graph of the last Plan.  A spec is a record with the set deps of    *)
(* the names it depends on; an edge <<d, n>> leads from a dependency to    *)
(* its dependent.  TopologicalSort and Flood belong to the gographs        *)
(* library and are modelled by what planner.go expects of them.            *)
(***************************************************************************)
EXTENDS Naturals, FiniteSets

(* A map whose domain is a set of names, as functions.                     *)
AddSpec(specs, n, spec) == [m \in DOMAIN specs \cup {n} |-> IF m = n THEN spec ELSE specs[m]]

RemoveSpec(specs, n) == [m \in DOMAIN specs \ {n} |-> specs[m]]

(* The tunnels that depend on a missing one.                               *)
Dangling(specs) == {n \in DOMAIN specs : ~(specs[n].deps \subseteq DOMAIN specs)}

(* Mutant: edges lead from a dependent to its dependency.                  *)
EdgesOutOf(specs, N) ==
    {e \in (DOMAIN specs) \X (DOMAIN specs) : e[1] \in N /\ e[2] \in specs[e[1]].deps}

(* The edges into the tunnels of N.                                        *)
EdgesInto(specs, N) ==
    {e \in (DOMAIN specs) \X (DOMAIN specs) : e[2] \in N /\ e[1] \in specs[e[2]].deps}

(* TopologicalSort finds no cycle: in every set of tunnels there is one    *)
(* that depends on none of the others nor on itself.                       *)
Acyclic(specs) ==
    \A S \in SUBSET DOMAIN specs :
        S # {} => \E n \in S : specs[n].deps \cap S = {}

PlanSucceeds(specs) == Dangling(specs) = {} /\ Acyclic(specs)

(* Mutant: the tunnels in the order of the map.                            *)
PlanOrdersAny(specs) ==
    {o \in [1 .. Cardinality(DOMAIN specs) -> DOMAIN specs] : \A n \in DOMAIN specs : \E i \in DOMAIN o : o[i] = n}

(* The orders Plan may return: all tunnels, dependencies first.            *)
PlanOrders(specs) ==
    LET N == Cardinality(DOMAIN specs)
    IN  {o \in [1 .. N -> DOMAIN specs] :
            /\ \A i, j \in 1 .. N : o[i] = o[j] => i = j
            /\ \A i \in 1 .. N : \A d \in specs[o[i]].deps : \E j \in 1 .. (i - 1) : o[j] = d}

(* The edges Plan may leave behind.  It visits the tunnels in the random  *)
(* order of a map and returns at the first missing dependency: the edges   *)
(* into the tunnels visited before are there, and those of the tunnel f    *)
(* that failed up to the missing one.                                      *)
PlanEdges(specs) ==
    LET all == EdgesInto(specs, DOMAIN specs)
        complete == DOMAIN specs \ Dangling(specs)
    IN  {E \in SUBSET all :
            IF Dangling(specs) = {} THEN E = all
            ELSE \E f \in Dangling(specs), visited \in SUBSET complete :
                     E \ EdgesInto(specs, {f}) = EdgesInto(specs, visited)}

PlanGraphs(specs) == {[vertices |-> DOMAIN specs, edges |-> E] : E \in PlanEdges(specs)}

EmptyGraph == [vertices |-> {}, edges |-> {}]

(* The vertices that edges lead to from n: the least set that holds n and  *)
(* is closed under the edges (Flood).                                      *)
Reachable(vertices, edges, n) ==
    {m \in vertices :
        \A S \in SUBSET vertices :
            (n \in S /\ \A e \in edges : e[1] \in S => e[2] \in S) => m \in S}

(* Empty, with an error its caller ignores, when the graph has no vertex n.*)
DependentsOf(graph, n) ==
    IF n \in graph.vertices THEN Reachable(graph.vertices, graph.edges, n) \ {n} ELSE {}

(* The tunnels that depend on n, directly or indirectly, by their specs.   *)
TrueDependents(specs, n) ==
    {m \in DOMAIN specs :
        \A S \in SUBSET DOMAIN specs :
            (n \in S /\ \A x \in DOMAIN specs : specs[x].deps \cap S # {} => x \in S) => m \in S} \ {n}
=============================================================================
