--------------------------- MODULE RefinementProofs ---------------------------
(* Proofs that the graph of an accepted request is exact and that           *)
(* Supervisor implements Registry.                                          *)
EXTENDS SupervisorProofs

(* A graph Plan leaves when nothing is missing has an edge for every        *)
(* dependency, so that flooding it finds what the specs say.                *)
LEMMA CompleteGraph ==
  ASSUME NEW m, Dangling(m) = {}, NEW g \in PlanGraphs(m), NEW n \in DOMAIN m
  PROVE  DependentsOf(g, n) = TrueDependents(m, n)
<1>1. g.vertices = DOMAIN m /\ g.edges = EdgesInto(m, DOMAIN m)
  BY DEF PlanGraphs, PlanEdges
<1>2. \A S \in SUBSET DOMAIN m :
         (\A e \in g.edges : e[1] \in S => e[2] \in S) <=> (\A x \in DOMAIN m : m[x].deps \cap S # {} => x \in S)
  <2> TAKE S \in SUBSET DOMAIN m
  <2>1. ASSUME \A e \in g.edges : e[1] \in S => e[2] \in S, NEW x \in DOMAIN m, NEW d \in m[x].deps \cap S
        PROVE  x \in S
    <3>1. <<d, x>> \in g.edges
      BY <1>1, <2>1 DEF EdgesInto
    <3> QED
      BY <2>1, <3>1
  <2>2. ASSUME \A x \in DOMAIN m : m[x].deps \cap S # {} => x \in S, NEW e \in g.edges, e[1] \in S
        PROVE  e[2] \in S
    BY <1>1, <2>2 DEF EdgesInto
  <2> QED
    BY <2>1, <2>2
<1> QED
  BY <1>1, <1>2 DEF DependentsOf, Reachable, TrueDependents

(* The cascade of every tunnel covers exactly its dependents after a        *)
(* creation was accepted, for any specs and whatever came before, early     *)
(* requests included.                                                       *)
THEOREM CascadeCoversDependents == Spec => AcceptedGraphExact
<1>1. ASSUME TInv, [Next]_vars, made' # made, main = "await", NEW n \in DOMAIN specs'
      PROVE  DependentsOf(graph', n) = TrueDependents(specs', n)
  <2>1. PICK o \in Offers : AddTunnel(o.name, o.spec) /\ AddTunnelAccepted(o.name, o.spec)
    BY <1>1 DEF Next, vars, registryVars, Terminated, Run, RunFails, RunPlans, RunRegisters, RunStarts, RunAwaits,
                StopAll, Shutdown, AddTunnel, AddTunnelRejected, RemoveTunnel, StartTunnel, StopTunnel,
                StartRequested, ChildExits, Monitor, MonitorHealthy, MonitorCtxDone, MonitorReceives,
                MonitorTickFails, CascadeStop, CascadeEnds, Restart
  <2>2. specs' = AddSpec(specs, o.name, o.spec) /\ graph' \in PlanGraphs(specs') /\ Dangling(specs') = {}
    BY <2>1 DEF AddTunnel, AddTunnelAccepted, PlanSucceeds
  <2> QED
    BY <1>1, <2>2, CompleteGraph
<1>2. TInv /\ [Next]_vars =>
        [made' # made /\ main = "await" => \A n \in DOMAIN specs' : DependentsOf(graph', n) = TrueDependents(specs', n)]_vars
  BY <1>1
<1>3. TInv /\ [Next]_vars => TInv'
  BY TypeNext
<1> QED
  BY TypeInit, <1>2, <1>3, PTL DEF Spec, AcceptedGraphExact

-----------------------------------------------------------------------------
(* The order in which Run registers the tunnels, when clients wait for it.  *)

(* A tunnel that waits in order has its dependencies before it, there or    *)
(* registered, and those that are registered have all of theirs.            *)
OrderInv ==
    main = "loop" =>
        /\ \A j, k \in DOMAIN order : order[j].name = order[k].name => j = k
        /\ \A k \in DOMAIN order : order[k].name \notin Registered
        /\ \A k \in DOMAIN order : \A d \in order[k].spec.deps :
              d \in Registered \/ \E j \in 1 .. (k - 1) : order[j].name = d
        /\ \A n \in Registered : spec[processes[n]].deps \subseteq Registered

(* Register gives a free name to a new object and leaves the others alone.  *)
LEMMA RegisterFree ==
  ASSUME TInv, RInv, NEW n \in Names, NEW sp \in Specs, n \notin Registered, Register(n, sp)
  PROVE  /\ Registered' = Registered \cup {n}
         /\ processes'[n] = made + 1 /\ made + 1 # 0 /\ spec'[made + 1] = sp
         /\ \A x \in Registered : x # n /\ processes'[x] = processes[x] /\ processes[x] # made + 1
                                  /\ spec'[processes'[x]] = spec[processes[x]]
<1>1. /\ processes \in [Names -> 0 .. MaxProcs] /\ spec \in [Procs -> Specs] /\ made \in Nat
      /\ \A x \in Names : processes[x] <= made
  BY SupervisorAssumption DEF TInv, TypeOK, RInv
<1>2. /\ made + 1 \in Procs /\ made + 1 # 0
      /\ processes' = [processes EXCEPT ![n] = made + 1]
      /\ spec' = [spec EXCEPT ![made + 1] = sp]
  BY <1>1, SupervisorAssumption DEF Register, TInv, TypeOK, Procs
<1>3. Registered' = Registered \cup {n}
  BY <1>1, <1>2 DEF Registered
<1>4. ASSUME NEW x \in Registered
      PROVE  x # n /\ processes'[x] = processes[x] /\ processes[x] # made + 1
             /\ spec'[processes'[x]] = spec[processes[x]]
  <2>1. x \in Names /\ x # n /\ processes[x] \in Procs
    BY <1>1, <1>4, SupervisorAssumption DEF Registered, Procs
  <2>2. processes'[x] = processes[x] /\ processes[x] # made + 1
    BY <1>1, <1>2, <2>1, SupervisorAssumption DEF Procs
  <2> QED
    BY <1>1, <1>2, <2>1, <2>2
<1> QED
  BY <1>1, <1>2, <1>3, <1>4

LEMMA OrderRunPlans == ASSUME TInv, RInv, RunPlans PROVE OrderInv'
<1>1. PICK o \in PlanOrders(specs) :
         order' = [k \in DOMAIN o |-> [name |-> o[k], spec |-> specs[o[k]]]]
  BY DEF RunPlans
<1>2. Registered' = {}
  BY DEF RunPlans, registryVars, RInv, Registered
<1>3. /\ Cardinality(DOMAIN specs) \in Nat /\ DOMAIN o = 1 .. Cardinality(DOMAIN specs)
      /\ \A i, j \in DOMAIN o : o[i] = o[j] => i = j
      /\ \A i \in DOMAIN o : \A d \in specs[o[i]].deps : \E j \in 1 .. (i - 1) : o[j] = d
  BY FS_CardinalityType DEF PlanOrders, TInv, Working
<1>4. DOMAIN order' = DOMAIN o /\ \A k \in DOMAIN o : order'[k].name = o[k] /\ order'[k].spec = specs[o[k]]
  BY <1>1
<1>5. ASSUME NEW k \in DOMAIN order', NEW d \in order'[k].spec.deps
      PROVE  \E j \in 1 .. (k - 1) : order'[j].name = d
  <2>1. PICK j \in 1 .. (k - 1) : o[j] = d
    BY <1>3, <1>4, <1>5
  <2>2. j \in DOMAIN o
    BY <1>3, <1>4, <2>1
  <2> QED
    BY <1>4, <2>1, <2>2
<1> QED
  BY <1>2, <1>3, <1>4, <1>5 DEF OrderInv

LEMMA OrderRegisters ==
  ASSUME TInv, RInv, OrderInv, RunRegisters
  PROVE  /\ OrderInv'
         /\ Head(order).name \in Names /\ Head(order).spec \in Specs
         /\ Head(order).name \notin Registered /\ Head(order).spec.deps \subseteq Registered
<1> DEFINE e == Head(order)
<1>1. /\ main = "loop" /\ main' = "loop" /\ order # <<>> /\ order' = Tail(order) /\ order \in Seq(Entries)
      /\ booting' = made + 1 /\ Register(e.name, e.spec)
  BY DEF RunRegisters, TInv, TypeOK
<1>2. Len(order) \in Nat /\ Len(order) > 0 /\ DOMAIN order = 1 .. Len(order) /\ e = order[1] /\ 1 \in DOMAIN order
  BY <1>1
<1>3. /\ DOMAIN order' = 1 .. (Len(order) - 1)
      /\ \A k \in DOMAIN order' : k + 1 \in DOMAIN order /\ order'[k] = order[k + 1]
  BY <1>1, <1>2
<1>4. e \in Entries
  BY <1>1
<1> HIDE DEF e
<1>5. e.name \in Names /\ e.spec \in Specs
  BY <1>4 DEF Entries
<1>6. e.name \notin Registered /\ e.spec.deps \subseteq Registered
  <2>1. \A d \in e.spec.deps : d \in Registered \/ \E j \in 1 .. (1 - 1) : order[j].name = d
    BY <1>1, <1>2 DEF OrderInv
  <2>2. 1 .. (1 - 1) = {}
    OBVIOUS
  <2> QED
    BY <1>1, <1>2, <2>1, <2>2 DEF OrderInv
<1>7. /\ Registered' = Registered \cup {e.name}
      /\ processes'[e.name] = made + 1 /\ spec'[made + 1] = e.spec
      /\ \A x \in Registered : processes'[x] = processes[x] /\ processes[x] # made + 1
                               /\ spec'[processes'[x]] = spec[processes[x]]
  BY <1>1, <1>5, <1>6, RegisterFree
<1>8. \A j, k \in DOMAIN order' : order'[j].name = order'[k].name => j = k
  <2> SUFFICES ASSUME NEW j \in DOMAIN order', NEW k \in DOMAIN order', order'[j].name = order'[k].name PROVE j = k
    OBVIOUS
  <2>1. j + 1 = k + 1
    BY <1>1, <1>3 DEF OrderInv
  <2> QED
    BY <1>2, <1>3, <2>1
<1>9. \A k \in DOMAIN order' : order'[k].name \notin Registered'
  <2> TAKE k \in DOMAIN order'
  <2>1. k + 1 \in DOMAIN order /\ k + 1 # 1 /\ order'[k] = order[k + 1]
    BY <1>2, <1>3
  <2>2. order[k + 1].name # e.name /\ order[k + 1].name \notin Registered
    BY <1>1, <1>2, <2>1 DEF OrderInv
  <2> QED
    BY <1>7, <2>1, <2>2
<1>10. ASSUME NEW k \in DOMAIN order', NEW d \in order'[k].spec.deps
       PROVE  d \in Registered' \/ \E j \in 1 .. (k - 1) : order'[j].name = d
  <2>1. k \in 1 .. (Len(order) - 1) /\ k + 1 \in DOMAIN order /\ order'[k] = order[k + 1]
    BY <1>3
  <2>2. CASE d \in Registered
    BY <1>7, <2>2
  <2>3. CASE \E j \in 1 .. k : order[j].name = d
    <3>1. PICK j \in 1 .. k : order[j].name = d
      BY <2>3
    <3>2. CASE j = 1
      BY <1>2, <1>7, <3>1, <3>2
    <3>3. CASE j # 1
      <4>1. j - 1 \in 1 .. (k - 1) /\ j - 1 \in DOMAIN order' /\ (j - 1) + 1 = j
        BY <1>2, <1>3, <2>1, <3>1, <3>3
      <4> QED
        BY <1>3, <3>1, <4>1
    <3> QED
      BY <3>2, <3>3
  <2>4. d \in Registered \/ \E j \in 1 .. ((k + 1) - 1) : order[j].name = d
    BY <1>1, <1>10, <2>1 DEF OrderInv
  <2>5. (k + 1) - 1 = k
    BY <1>2, <2>1
  <2> QED
    BY <2>2, <2>3, <2>4, <2>5
<1>11. \A n \in Registered' : spec'[processes'[n]].deps \subseteq Registered'
  <2>1. \A n \in Registered : spec'[processes'[n]].deps \subseteq Registered
    BY <1>1, <1>7 DEF OrderInv
  <2> QED
    BY <1>6, <1>7, <2>1
<1>12. OrderInv'
  BY <1>8, <1>9, <1>10, <1>11 DEF OrderInv
<1> QED
  BY <1>1, <1>5, <1>6, <1>12 DEF e

LEMMA OrderNext == ASSUME TInv, RInv, OrderInv, ~ApiEarly, [Next]_vars PROVE OrderInv'
<1>1. ASSUME UNCHANGED <<processes, spec, order>>, main' = "loop" => main = "loop" PROVE OrderInv'
  BY <1>1 DEF OrderInv, Registered
<1>2. ASSUME main = "await", main' = main PROVE OrderInv'
  BY <1>2 DEF OrderInv
<1>3. CASE RunPlans
  BY <1>3, OrderRunPlans
<1>4. CASE RunRegisters
  BY <1>4, OrderRegisters
<1>5. CASE RunFails \/ RunStarts \/ RunAwaits \/ StopAll \/ Shutdown
  <2>1. UNCHANGED <<processes, spec, order>> /\ (main' = "loop" => main = "loop")
    BY <1>5 DEF RunFails, RunStarts, RunAwaits, StopAll, Shutdown, registryVars
  <2> QED
    BY <1>1, <2>1
<1>6. ASSUME NEW o \in Offers, AddTunnel(o.name, o.spec) PROVE OrderInv'
  BY <1>2, <1>6 DEF AddTunnel, ApiOpen, runVars
<1>7. ASSUME NEW n \in Names, RemoveTunnel(n) \/ StartTunnel(n) \/ StopTunnel(n) PROVE OrderInv'
  BY <1>2, <1>7 DEF RemoveTunnel, StartTunnel, StopTunnel, Request, ApiOpen, runVars
<1>8. ASSUME NEW i \in Procs, StartRequested(i) \/ ChildExits(i) PROVE OrderInv'
  BY <1>1, <1>8 DEF StartRequested, ChildExits, registryVars, runVars
<1>9. ASSUME NEW i \in Procs, Monitor(i) PROVE OrderInv'
  BY <1>1, <1>9 DEF Monitor, MonitorHealthy, MonitorCtxDone, MonitorReceives, MonitorTickFails,
                    CascadeStop, CascadeEnds, Restart, registryVars, runVars
<1>10. CASE UNCHANGED vars
  BY <1>1, <1>10 DEF vars, registryVars, runVars
<1> QED
  BY <1>3, <1>4, <1>5, <1>6, <1>7, <1>8, <1>9, <1>10 DEF Next, Run, Terminated

LEMMA OrderHolds == ASSUME ~ApiEarly PROVE Spec => [](TInv /\ RInv /\ DependenciesAcyclic /\ OrderInv)
<1>1. Init => OrderInv /\ DependenciesAcyclic
  BY DEF Init, OrderInv, DependenciesAcyclic
<1>2. /\ TInv /\ RInv /\ DependenciesAcyclic /\ OrderInv /\ [Next]_vars
      => (TInv /\ RInv /\ DependenciesAcyclic /\ OrderInv)'
  BY TypeNext, RInvNext, AcyclicNext, OrderNext
<1> QED
  BY TypeInit, RInvInit, <1>1, <1>2, PTL DEF Spec

-----------------------------------------------------------------------------
(* Supervisor implements Registry.                                          *)

(* What stands for the variable of Registry.                                *)
Tunnels == [n \in Registered |-> spec[processes[n]]]

(* Registry brings its own copy of the planner's operators.                 *)
LEMMA SamePlanner ==
  ASSUME NEW m, NEW n, NEW sp
  PROVE  /\ Promise!AddSpec(m, n, sp) = AddSpec(m, n, sp)
         /\ Promise!RemoveSpec(m, n) = RemoveSpec(m, n)
         /\ Promise!PlanSucceeds(m) <=> PlanSucceeds(m)
<1>1. Promise!Dangling(m) = Dangling(m) /\ (Promise!Acyclic(m) <=> Acyclic(m))
  BY DEF Promise!Dangling, Dangling, Promise!Acyclic, Acyclic
<1> QED
  BY <1>1 DEF Promise!AddSpec, AddSpec, Promise!RemoveSpec, RemoveSpec, Promise!PlanSucceeds, PlanSucceeds

LEMMA PromisedAdd ==
  ASSUME NEW n \in Names, NEW sp, n \notin Registered,
         \A m \in Registered : Tunnels[m].ports \cap sp.ports = {},
         PlanSucceeds(AddSpec(Tunnels, n, sp)),
         Tunnels' = AddSpec(Tunnels, n, sp)
  PROVE  Promise!Next
<1>1. DOMAIN Tunnels = Registered /\ DOMAIN Tunnels' = Registered \cup {n} /\ Tunnels'[n] = sp
  BY DEF Tunnels, AddSpec
<1>2. Promise!Acceptable(Tunnels, n, sp)
  BY <1>1, SamePlanner DEF Promise!Acceptable, Promise!Conflicts
<1>3. Promise!Add(n, Tunnels'[n])
  BY <1>1, <1>2, SamePlanner DEF Promise!Add, Tunnels
<1> QED
  BY <1>1, <1>3 DEF Promise!Next, Tunnels

LEMMA PromisedRemove ==
  ASSUME NEW n \in Registered, Tunnels' = RemoveSpec(Tunnels, n) PROVE Promise!Next
<1>1. DOMAIN Tunnels = Registered
  BY DEF Tunnels
<1> QED
  BY <1>1, SamePlanner DEF Promise!Next, Promise!Remove, Tunnels

LEMMA TunnelsRegister ==
  ASSUME TInv, RInv, NEW n \in Names, NEW sp \in Specs, n \notin Registered, Register(n, sp)
  PROVE  Tunnels' = AddSpec(Tunnels, n, sp)
<1>1. /\ Registered' = Registered \cup {n}
      /\ spec'[processes'[n]] = sp
      /\ \A x \in Registered : x # n /\ spec'[processes'[x]] = spec[processes[x]]
  BY RegisterFree
<1> QED
  BY <1>1 DEF Tunnels, AddSpec

(* A tunnel that Run registers joins a registry in which it finds its       *)
(* dependencies, and both are a part of the acyclic map Run planned.        *)
LEMMA RegistersPromised ==
  ASSUME TInv, RInv, DependenciesAcyclic, OrderInv, RunRegisters PROVE Promise!Next
<1> DEFINE n == Head(order).name
           sp == Head(order).spec
<1>1. /\ n \in Names /\ sp \in Specs
      /\ n \notin Registered /\ sp.deps \subseteq Registered
      /\ Register(n, sp) /\ main = "loop"
  BY OrderRegisters DEF RunRegisters
<1>2. Agreement /\ Acyclic(specs)
  BY <1>1 DEF RInv, DependenciesAcyclic
<1>3. n \in DOMAIN specs /\ sp = specs[n]
  <2>1. 1 \in DOMAIN order /\ Head(order) = order[1]
    BY DEF RunRegisters, TInv, TypeOK
  <2> QED
    BY <1>2, <2>1 DEF Agreement
<1> HIDE DEF n, sp
<1>4. DOMAIN Tunnels = Registered /\ \A m \in Registered : m \in DOMAIN specs /\ Tunnels[m] = specs[m]
  BY <1>2 DEF Tunnels, Agreement
<1>5. \A m \in Registered : Tunnels[m].ports \cap sp.ports = {}
  BY <1>1, <1>2, <1>3, <1>4 DEF Agreement, NoClash, PortsClash
<1>6. /\ DOMAIN AddSpec(Tunnels, n, sp) = Registered \cup {n}
      /\ AddSpec(Tunnels, n, sp)[n] = sp
      /\ \A m \in Registered : AddSpec(Tunnels, n, sp)[m] = Tunnels[m]
  BY <1>1, <1>4 DEF AddSpec
<1>7. Acyclic(AddSpec(Tunnels, n, sp))
  BY <1>2, <1>3, <1>4, <1>6, RestrictAcyclic
<1>8. Dangling(AddSpec(Tunnels, n, sp)) = {}
  <2>1. \A m \in Registered : Tunnels[m].deps \subseteq Registered
    BY <1>1 DEF OrderInv, Tunnels
  <2> QED
    BY <1>1, <1>6, <2>1 DEF Dangling
<1> QED
  BY <1>1, <1>5, <1>7, <1>8, TunnelsRegister, PromisedAdd DEF PlanSucceeds

(* The supervisor compares with its registry and plans with its planner;    *)
(* the two agree, so that it adds what the registry may take.               *)
LEMMA AddTunnelPromised ==
  ASSUME TInv, RInv, ~ApiEarly, NEW n \in Names, NEW sp \in Specs, AddTunnel(n, sp)
  PROVE  Promise!Next \/ Tunnels' = Tunnels
<1>1. /\ main = "await" /\ n \notin Registered /\ ~checkPortConflicts(sp)
      /\ AddTunnelAccepted(n, sp) \/ AddTunnelRejected(n, sp)
  BY DEF AddTunnel, ApiOpen
<1>2. CASE AddTunnelAccepted(n, sp)
  <2>1. Agreement /\ DOMAIN specs = Registered
    BY <1>1, AllRegistered
  <2>2. \A N \in SUBSET Names : (specs \in [N -> Specs]) => specs = [x \in N |-> specs[x]]
    OBVIOUS
  <2>3. specs = Tunnels
    BY <2>1, <2>2 DEF TInv, TypeOK, Agreement, Tunnels
  <2>4. \A m \in Registered : Tunnels[m].ports \cap sp.ports = {}
    BY <1>1 DEF checkPortConflicts, PortsClash, Tunnels
  <2> QED
    BY <1>1, <1>2, <2>3, <2>4, TunnelsRegister, PromisedAdd DEF AddTunnelAccepted
<1>3. CASE AddTunnelRejected(n, sp)
  BY <1>3 DEF AddTunnelRejected, registryVars, Tunnels, Registered
<1> QED
  BY <1>1, <1>2, <1>3

LEMMA RemoveTunnelPromised ==
  ASSUME TInv, NEW n \in Names, RemoveTunnel(n) PROVE Promise!Next
<1>1. n \in Registered /\ processes' = [processes EXCEPT ![n] = 0] /\ spec' = spec
  BY DEF RemoveTunnel, Request
<1>2. processes \in [Names -> 0 .. MaxProcs]
  BY DEF TInv, TypeOK
<1>3. Registered' = Registered \ {n} /\ \A x \in Registered' : processes'[x] = processes[x]
  BY <1>1, <1>2 DEF Registered
<1>4. Tunnels' = RemoveSpec(Tunnels, n)
  BY <1>1, <1>3 DEF Tunnels, RemoveSpec
<1> QED
  BY <1>1, <1>4, PromisedRemove

LEMMA StepPromised ==
  ASSUME TInv, RInv, DependenciesAcyclic, OrderInv, ~ApiEarly, [Next]_vars
  PROVE  Promise!Next \/ Tunnels' = Tunnels
<1>1. ASSUME processes' = processes, spec' = spec PROVE Tunnels' = Tunnels
  BY <1>1 DEF Tunnels, Registered
<1>2. CASE RunFails \/ RunPlans \/ RunStarts \/ RunAwaits \/ StopAll \/ Shutdown
  BY <1>1, <1>2 DEF RunFails, RunPlans, RunStarts, RunAwaits, StopAll, Shutdown, registryVars
<1>3. CASE RunRegisters
  BY <1>3, RegistersPromised
<1>4. ASSUME NEW o \in Offers, AddTunnel(o.name, o.spec) PROVE Promise!Next \/ Tunnels' = Tunnels
  <2>1. o.name \in Names /\ o.spec \in Specs
    BY SupervisorAssumption DEF Entries
  <2> QED
    BY <1>4, <2>1, AddTunnelPromised
<1>5. ASSUME NEW n \in Names, StartTunnel(n) \/ StopTunnel(n) PROVE Tunnels' = Tunnels
  BY <1>1, <1>5 DEF StartTunnel, StopTunnel, registryVars
<1>6. ASSUME NEW i \in Procs, StartRequested(i) \/ ChildExits(i) PROVE Tunnels' = Tunnels
  BY <1>1, <1>6 DEF StartRequested, ChildExits, registryVars
<1>7. ASSUME NEW i \in Procs, Monitor(i) PROVE Tunnels' = Tunnels
  BY <1>1, <1>7 DEF Monitor, MonitorHealthy, MonitorCtxDone, MonitorReceives, MonitorTickFails,
                    CascadeStop, CascadeEnds, Restart, registryVars
<1>8. CASE UNCHANGED vars
  BY <1>1, <1>8 DEF vars, registryVars
<1> QED
  BY <1>2, <1>3, <1>4, <1>5, <1>6, <1>7, <1>8, RemoveTunnelPromised DEF Next, Run, Terminated

(* The supervisor keeps the promise of Registry: its initial registry is    *)
(* the empty one, and every step of Run, handlers, monitors and children    *)
(* adds one acceptable tunnel, removes one, or leaves the tunnels alone.    *)
THEOREM KeepsPromise == ASSUME ~ApiEarly PROVE Spec => ImplementsRegistry
<1>1. Init => Promise!Init
  BY DEF Init, Promise!Init, Promise!NoTunnels, Registered
<1>2. /\ TInv /\ RInv /\ DependenciesAcyclic /\ OrderInv /\ [Next]_vars
      => [Promise!Next]_([n \in Registered |-> spec[processes[n]]])
  BY StepPromised DEF Tunnels
<1>3. Spec => [](TInv /\ RInv /\ DependenciesAcyclic /\ OrderInv)
  BY OrderHolds
<1> QED
  BY <1>1, <1>2, <1>3, PTL DEF Spec, ImplementsRegistry, Promise!Spec
=============================================================================
