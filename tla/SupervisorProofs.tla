-------------------------- MODULE SupervisorProofs --------------------------
(* Proofs about Supervisor and the planner it uses, for any tunnels.       *)
EXTENDS Supervisor, FiniteSetTheorems, TLAPS

(* A map from names to specs.                                              *)
SpecMap(m) == DOMAIN m \subseteq Names /\ m \in [DOMAIN m -> Specs]

LEMMA SpecMapDef == ASSUME NEW m PROVE SpecMap(m) <=> \E N \in SUBSET Names : m \in [N -> Specs]
  BY DEF SpecMap

LEMMA AddSpecMap ==
  ASSUME NEW m, SpecMap(m), NEW n \in Names, NEW sp \in Specs
  PROVE  SpecMap(AddSpec(m, n, sp))
  BY DEF SpecMap, AddSpec

LEMMA RemoveSpecMap ==
  ASSUME NEW m, SpecMap(m), NEW n
  PROVE  SpecMap(RemoveSpec(m, n))
  BY DEF SpecMap, RemoveSpec

(* RemoveSpec cannot close a cycle, nor can taking back a rejected spec.   *)
LEMMA RestrictAcyclic ==
  ASSUME NEW m, Acyclic(m), NEW r, DOMAIN r \subseteq DOMAIN m,
         \A n \in DOMAIN r : r[n] = m[n]
  PROVE  Acyclic(r)
  BY DEF Acyclic

(* Plan leaves a graph over the names of the specs.                        *)
LEMMA PlanGraphsType ==
  ASSUME NEW m, SpecMap(m), NEW g \in PlanGraphs(m) PROVE g \in Graphs
<1>1. \A N : EdgesInto(m, N) \in SUBSET (Names \X Names)
  BY DEF EdgesInto, SpecMap
<1>2. PICK E \in PlanEdges(m) : g = [vertices |-> DOMAIN m, edges |-> E]
  BY DEF PlanGraphs
<1>3. E \in SUBSET (Names \X Names)
  BY <1>1, <1>2 DEF PlanEdges
<1> QED
  BY <1>2, <1>3 DEF Graphs, SpecMap

-----------------------------------------------------------------------------
(* The types of everything but the planner's map, which SpecMap covers.    *)
RestType ==
    /\ graph \in Graphs
    /\ processes \in [Names -> 0 .. MaxProcs]
    /\ made \in 0 .. MaxProcs
    /\ name \in [Procs -> Names]
    /\ spec \in [Procs -> Specs]
    /\ status \in [Procs -> Statuses]
    /\ expected \in [Procs -> {"running", "stopped"}]
    /\ live \in SUBSET Procs
    /\ watch \in SUBSET Procs
    /\ handler \in [Procs -> HandlerPcs]
    /\ target \in [Procs -> 0 .. MaxProcs]
    /\ todo \in [Procs -> SUBSET Names]
    /\ starters \in SUBSET Procs
    /\ main \in {"boot", "loop", "await", "exited", "fatal"}
    /\ order \in Seq(Entries)
    /\ booting \in 0 .. MaxProcs
    /\ down \in BOOLEAN

LEMMA TypeSplit == TypeOK <=> SpecMap(specs) /\ RestType
  BY SpecMapDef DEF TypeOK, RestType

LEMMA TypeSplitPrime == TypeOK' <=> SpecMap(specs') /\ RestType'
  BY SpecMapDef DEF TypeOK, RestType

(* The part of the invariant that types need: a handler at work has an     *)
(* object to work on, and the planner's map is finite.                     *)
Working ==
    /\ IsFiniteSet(DOMAIN specs)
    /\ \A i \in Procs : handler[i] # "none" => target[i] \in Procs

TInv == TypeOK /\ Working

LEMMA TypeInit == Init => TInv
<1> SUFFICES ASSUME Init PROVE TInv
  OBVIOUS
<1> USE SupervisorAssumption
<1>1. specs \in Configs
  BY DEF Init
<1>2. (\E N \in SUBSET Names : specs \in [N -> Specs]) /\ IsFiniteSet(DOMAIN specs)
  BY <1>1
<1>3. graph \in Graphs
  BY DEF Init, Graphs, EmptyGraph
<1>4. spec \in [Procs -> Specs]
  BY DEF Init, NoSpec, Specs
<1>5. name \in [Procs -> Names]
  BY DEF Init
<1>6. /\ processes \in [Names -> 0 .. MaxProcs]
      /\ made \in 0 .. MaxProcs
      /\ target \in [Procs -> 0 .. MaxProcs]
      /\ booting \in 0 .. MaxProcs
  BY DEF Init
<1>7. /\ status \in [Procs -> Statuses]
      /\ expected \in [Procs -> {"running", "stopped"}]
      /\ handler \in [Procs -> HandlerPcs]
      /\ todo \in [Procs -> SUBSET Names]
      /\ main \in {"boot", "loop", "await", "exited", "fatal"}
  BY DEF Init, Statuses, HandlerPcs
<1>8. /\ live \in SUBSET Procs /\ watch \in SUBSET Procs /\ starters \in SUBSET Procs
      /\ down \in BOOLEAN
  BY DEF Init
<1>10. order \in Seq(Entries)
  BY DEF Init
<1>9. Working
  BY <1>2 DEF Init, Working
<1> QED
  BY <1>2, <1>3, <1>4, <1>5, <1>6, <1>7, <1>8, <1>9, <1>10 DEF TInv, TypeOK

(* What Start and Stop change, in types.                                   *)
LEMMA StartAndNotifyType ==
  ASSUME TypeOK, NEW i \in Procs, StartAndNotify(i)
  PROVE  /\ expected' \in [Procs -> {"running", "stopped"}]
         /\ status' \in [Procs -> Statuses]
         /\ live' \in SUBSET Procs
         /\ watch' \in SUBSET Procs
<1>1. expected' \in [Procs -> {"running", "stopped"}]
  BY DEF TypeOK, StartAndNotify
<1>2. status' \in [Procs -> Statuses]
  BY DEF TypeOK, StartAndNotify, Statuses
<1>3. live' \in SUBSET Procs /\ watch' \in SUBSET Procs
  BY DEF TypeOK, StartAndNotify
<1> QED
  BY <1>1, <1>2, <1>3

LEMMA StopObjectsType ==
  ASSUME TypeOK, NEW I, StopObjects(I)
  PROVE  /\ expected' \in [Procs -> {"running", "stopped"}]
         /\ status' \in [Procs -> Statuses]
         /\ live' \in SUBSET Procs
<1>1. expected' \in [Procs -> {"running", "stopped"}]
  BY DEF TypeOK, StopObjects
<1>2. status' \in [Procs -> Statuses]
  BY DEF TypeOK, StopObjects, Statuses
<1>3. live' \in SUBSET Procs
  BY DEF TypeOK, StopObjects
<1> QED
  BY <1>1, <1>2, <1>3

LEMMA RegisterType ==
  ASSUME TypeOK, NEW n \in Names, NEW sp \in Specs, Register(n, sp)
  PROVE  /\ made + 1 \in Procs
         /\ made' \in 0 .. MaxProcs
         /\ name' \in [Procs -> Names]
         /\ spec' \in [Procs -> Specs]
         /\ processes' \in [Names -> 0 .. MaxProcs]
<1>1. made + 1 \in Procs /\ made' = made + 1 /\ made + 1 \in 0 .. MaxProcs
  BY SupervisorAssumption DEF TypeOK, Register, Procs
<1> QED
  BY <1>1 DEF TypeOK, Register

LEMMA FailureLookupType ==
  ASSUME TInv, NEW i \in Procs, FailureLookup(i)
  PROVE  /\ handler' \in [Procs -> HandlerPcs]
         /\ target' \in [Procs -> 0 .. MaxProcs]
         /\ todo' \in [Procs -> SUBSET Names]
         /\ \A j \in Procs : handler'[j] # "none" => target'[j] \in Procs
<1> DEFINE j == processes[name[i]]
<1> DEFINE goesOn == j # 0 /\ expected[j] = "running"
<1>1. name[i] \in Names /\ j \in 0 .. MaxProcs
  BY DEF TInv, TypeOK
<1>2. DependentsOf(graph, name[i]) \in SUBSET Names
  BY DEF TInv, TypeOK, DependentsOf, Reachable, Graphs
<1>3. handler' = [handler EXCEPT ![i] = IF goesOn THEN "cascade" ELSE "none"]
  BY DEF FailureLookup
<1>4. target' = [target EXCEPT ![i] = IF goesOn THEN j ELSE 0]
  BY DEF FailureLookup
<1>5. todo' = [todo EXCEPT ![i] = IF goesOn THEN DependentsOf(graph, name[i]) ELSE {}]
  BY DEF FailureLookup
<1>6. goesOn => j \in Procs
  BY <1>1, SupervisorAssumption DEF Procs
<1> HIDE DEF goesOn, j
<1>7. handler' \in [Procs -> HandlerPcs]
  BY <1>3 DEF TInv, TypeOK, HandlerPcs
<1>8. target' \in [Procs -> 0 .. MaxProcs]
  BY <1>1, <1>4, SupervisorAssumption DEF TInv, TypeOK
<1>9. todo' \in [Procs -> SUBSET Names]
  BY <1>2, <1>5 DEF TInv, TypeOK
<1>10. \A k \in Procs : handler'[k] # "none" => target'[k] \in Procs
  BY <1>3, <1>4, <1>6 DEF TInv, TypeOK, Working
<1> QED
  BY <1>7, <1>8, <1>9, <1>10

-----------------------------------------------------------------------------
(* Plan returns a sequence, since the planner's map is finite.             *)
LEMMA RunPlansOrder ==
  ASSUME TInv, RunPlans PROVE order' \in Seq(Entries)
<1>1. PICK o \in PlanOrders(specs) :
         order' = [k \in DOMAIN o |-> [name |-> o[k], spec |-> specs[o[k]]]]
  BY DEF RunPlans
<1> DEFINE N == Cardinality(DOMAIN specs)
<1>2. N \in Nat
  BY FS_CardinalityType DEF TInv, Working
<1>3. o \in [1 .. N -> DOMAIN specs]
  BY DEF PlanOrders
<1>4. SpecMap(specs)
  BY TypeSplit DEF TInv
<1> HIDE DEF N
<1>5. \A k \in 1 .. N : [name |-> o[k], spec |-> specs[o[k]]] \in Entries
  BY <1>3, <1>4 DEF SpecMap, Entries
<1>6. order' \in [1 .. N -> Entries]
  BY <1>1, <1>3, <1>5
<1> QED
  BY <1>2, <1>6

-----------------------------------------------------------------------------
LEMMA RunType == ASSUME TInv, Run PROVE TInv'
<1> USE SupervisorAssumption DEF TInv, Working
<1>1. CASE RunFails
  <2>1. graph' \in Graphs
    BY <1>1, PlanGraphsType, TypeSplit DEF RunFails
  <2> QED
    BY <1>1, <2>1 DEF RunFails, TypeOK, registryVars, handlerVars
<1>2. CASE RunPlans
  <2>1. graph' \in Graphs
    BY <1>2, PlanGraphsType, TypeSplit DEF RunPlans
  <2> QED
    BY <1>2, <2>1, RunPlansOrder DEF RunPlans, TypeOK, registryVars, handlerVars
<1>3. CASE RunRegisters
  <2>1. Head(order) \in Entries /\ Tail(order) \in Seq(Entries)
    BY <1>3 DEF RunRegisters, TypeOK
  <2>2. Head(order).name \in Names /\ Head(order).spec \in Specs
    BY <2>1 DEF Entries
  <2>3. /\ made + 1 \in Procs
        /\ made' \in 0 .. MaxProcs
        /\ name' \in [Procs -> Names]
        /\ spec' \in [Procs -> Specs]
        /\ processes' \in [Names -> 0 .. MaxProcs]
    BY <1>3, <2>2, RegisterType DEF RunRegisters
  <2>4. booting' \in 0 .. MaxProcs
    BY <1>3, <2>3 DEF RunRegisters, Procs
  <2> QED
    BY <1>3, <2>1, <2>3, <2>4 DEF RunRegisters, TypeOK, plannerVars, handlerVars
<1>4. CASE RunStarts
  <2>1. booting \in Procs
    BY <1>4 DEF RunStarts, TypeOK, Procs
  <2>2. /\ expected' \in [Procs -> {"running", "stopped"}]
        /\ status' \in [Procs -> Statuses]
        /\ live' \in SUBSET Procs
        /\ watch' \in SUBSET Procs
    BY <1>4, <2>1, StartAndNotifyType DEF RunStarts
  <2> QED
    BY <1>4, <2>2 DEF RunStarts, TypeOK, plannerVars, registryVars, handlerVars
<1>5. CASE RunAwaits
  BY <1>5 DEF RunAwaits, TypeOK, plannerVars, registryVars, handlerVars
<1>6. CASE StopAll
  <2>1. /\ expected' \in [Procs -> {"running", "stopped"}]
        /\ status' \in [Procs -> Statuses]
        /\ live' \in SUBSET Procs
    BY <1>6, StopObjectsType DEF StopAll
  <2> QED
    BY <1>6, <2>1 DEF StopAll, TypeOK, plannerVars, registryVars, handlerVars
<1> QED
  BY <1>1, <1>2, <1>3, <1>4, <1>5, <1>6 DEF Run

LEMMA AddTunnelType ==
  ASSUME TInv, NEW n \in Names, NEW sp \in Specs, AddTunnel(n, sp) PROVE TInv'
<1> DEFINE added == AddSpec(specs, n, sp)
<1>1. SpecMap(specs) /\ SpecMap(added)
  BY TypeSplit, AddSpecMap DEF TInv
<1>2. graph' \in Graphs
  BY <1>1, PlanGraphsType DEF AddTunnel
<1>3. IsFiniteSet(DOMAIN added)
  <2>1. DOMAIN added = DOMAIN specs \cup {n}
    BY DEF AddSpec
  <2> QED
    BY <2>1, FS_AddElement DEF TInv, Working
<1>4. CASE AddTunnelAccepted(n, sp)
  <2>1. SpecMap(specs') /\ IsFiniteSet(DOMAIN specs')
    BY <1>1, <1>3, <1>4 DEF AddTunnelAccepted
  <2>2. /\ made + 1 \in Procs
        /\ made' \in 0 .. MaxProcs
        /\ name' \in [Procs -> Names]
        /\ spec' \in [Procs -> Specs]
        /\ processes' \in [Names -> 0 .. MaxProcs]
    BY <1>4, RegisterType DEF AddTunnelAccepted, TInv
  <2>3. starters' \in SUBSET Procs
    BY <1>4, <2>2 DEF AddTunnelAccepted, TInv, TypeOK
  <2>4. RestType'
    BY <1>2, <2>2, <2>3 DEF AddTunnel, TInv, TypeOK, RestType, handlerVars, runVars
  <2> QED
    BY <2>1, <2>4, TypeSplitPrime DEF TInv, Working, AddTunnel, handlerVars
<1>5. CASE AddTunnelRejected(n, sp)
  <2>1. SpecMap(specs')
    BY <1>1, <1>5, RemoveSpecMap DEF AddTunnelRejected
  <2>2. IsFiniteSet(DOMAIN specs')
    <3>1. DOMAIN specs' = DOMAIN added \ {n}
      BY <1>5 DEF AddTunnelRejected, RemoveSpec
    <3> QED
      BY <1>3, <3>1, FS_RemoveElement
  <2>3. RestType'
    BY <1>2, <1>5 DEF AddTunnel, AddTunnelRejected, TInv, TypeOK, RestType, registryVars, handlerVars, runVars
  <2> QED
    BY <2>1, <2>2, <2>3, TypeSplitPrime DEF TInv, Working, AddTunnel, handlerVars
<1> QED
  BY <1>4, <1>5 DEF AddTunnel

LEMMA RemoveTunnelType ==
  ASSUME TInv, NEW n \in Names, RemoveTunnel(n) PROVE TInv'
<1>1. SpecMap(specs')
  BY TypeSplit, RemoveSpecMap DEF TInv, RemoveTunnel
<1>2. IsFiniteSet(DOMAIN specs')
  <2>1. DOMAIN specs' = DOMAIN specs \ {n}
    BY DEF RemoveTunnel, RemoveSpec
  <2> QED
    BY <2>1, FS_RemoveElement DEF TInv, Working
<1>3. /\ expected' \in [Procs -> {"running", "stopped"}]
      /\ status' \in [Procs -> Statuses]
      /\ live' \in SUBSET Procs
  BY StopObjectsType DEF RemoveTunnel, TInv
<1>4. processes' \in [Names -> 0 .. MaxProcs]
  BY SupervisorAssumption DEF RemoveTunnel, TInv, TypeOK
<1>5. RestType'
  BY <1>3, <1>4 DEF RemoveTunnel, TInv, TypeOK, RestType, handlerVars, runVars
<1> QED
  BY <1>1, <1>2, <1>5, TypeSplitPrime DEF TInv, Working, RemoveTunnel, handlerVars

LEMMA RequestType ==
  ASSUME TInv, NEW n \in Names, StartTunnel(n) \/ StopTunnel(n) PROVE TInv'
<1>1. CASE StartTunnel(n)
  <2>1. processes[n] \in Procs
    BY <1>1, SupervisorAssumption DEF StartTunnel, Request, Registered, TInv, TypeOK, Procs
  <2> QED
    BY <1>1, <2>1 DEF StartTunnel, TInv, TypeOK, Working, plannerVars, registryVars, handlerVars, runVars
<1>2. CASE StopTunnel(n)
  <2>1. /\ expected' \in [Procs -> {"running", "stopped"}]
        /\ status' \in [Procs -> Statuses]
        /\ live' \in SUBSET Procs
    BY <1>2, StopObjectsType DEF StopTunnel, TInv
  <2> QED
    BY <1>2, <2>1 DEF StopTunnel, TInv, TypeOK, Working, plannerVars, registryVars, handlerVars, runVars
<1> QED
  BY <1>1, <1>2

LEMMA StartRequestedType ==
  ASSUME TInv, NEW i \in Procs, StartRequested(i) PROVE TInv'
<1>1. /\ expected' \in [Procs -> {"running", "stopped"}]
      /\ status' \in [Procs -> Statuses]
      /\ live' \in SUBSET Procs
      /\ watch' \in SUBSET Procs
  BY StartAndNotifyType DEF StartRequested, TInv
<1> QED
  BY <1>1 DEF StartRequested, TInv, TypeOK, Working, plannerVars, registryVars, handlerVars, runVars

LEMMA ChildExitsType ==
  ASSUME TInv, NEW i \in Procs, ChildExits(i) PROVE TInv'
<1>1. status' \in [Procs -> Statuses]
  BY DEF ChildExits, TInv, TypeOK, Statuses
<1> QED
  BY <1>1 DEF ChildExits, TInv, TypeOK, Working, plannerVars, registryVars, handlerVars, runVars

LEMMA MonitorType == ASSUME TInv, NEW i \in Procs, Monitor(i) PROVE TInv'
<1> USE DEF TInv, plannerVars, registryVars, runVars
<1>1. CASE MonitorHealthy(i)
  <2>1. status' \in [Procs -> Statuses]
    BY <1>1 DEF MonitorHealthy, TypeOK, Statuses
  <2> QED
    BY <1>1, <2>1 DEF MonitorHealthy, TypeOK, Working, handlerVars
<1>2. CASE MonitorCtxDone(i)
  BY <1>2 DEF MonitorCtxDone, TypeOK, Working, handlerVars
<1>3. ASSUME FailureLookup(i)
      PROVE  /\ handler' \in [Procs -> HandlerPcs]
             /\ target' \in [Procs -> 0 .. MaxProcs]
             /\ todo' \in [Procs -> SUBSET Names]
             /\ \A j \in Procs : handler'[j] # "none" => target'[j] \in Procs
  BY <1>3, FailureLookupType
<1>4. CASE MonitorReceives(i)
  BY <1>3, <1>4 DEF MonitorReceives, TypeOK, Working
<1>5. CASE MonitorTickFails(i)
  <2>1. status' \in [Procs -> Statuses]
    BY <1>5 DEF MonitorTickFails, TypeOK, Statuses
  <2> QED
    BY <1>3, <1>5, <2>1 DEF MonitorTickFails, TypeOK, Working
<1>6. ASSUME NEW n \in Names, CascadeStop(i, n) PROVE TInv'
  <2>1. /\ expected' \in [Procs -> {"running", "stopped"}]
        /\ status' \in [Procs -> Statuses]
        /\ live' \in SUBSET Procs
    BY <1>6, StopObjectsType DEF CascadeStop
  <2>2. todo' \in [Procs -> SUBSET Names]
    BY <1>6 DEF CascadeStop, TypeOK
  <2> QED
    BY <1>6, <2>1, <2>2 DEF CascadeStop, TypeOK, Working
<1>7. CASE CascadeEnds(i)
  <2>1. target[i] \in Procs
    BY <1>7 DEF CascadeEnds, Working
  <2>2. handler' \in [Procs -> HandlerPcs]
    BY <1>7 DEF CascadeEnds, TypeOK, HandlerPcs
  <2>3. target' \in [Procs -> 0 .. MaxProcs]
    BY <1>7, SupervisorAssumption DEF CascadeEnds, TypeOK
  <2>4. \A j \in Procs : handler'[j] # "none" => target'[j] \in Procs
    BY <1>7, <2>1 DEF CascadeEnds, TypeOK, Working
  <2> QED
    BY <1>7, <2>2, <2>3, <2>4 DEF CascadeEnds, TypeOK, Working
<1>8. CASE Restart(i)
  <2>1. target[i] \in Procs
    BY <1>8 DEF Restart, Working
  <2>2. /\ expected' \in [Procs -> {"running", "stopped"}]
        /\ status' \in [Procs -> Statuses]
        /\ live' \in SUBSET Procs
        /\ watch' \in SUBSET Procs
    BY <1>8, <2>1, StartAndNotifyType DEF Restart
  <2>3. handler' \in [Procs -> HandlerPcs]
    BY <1>8 DEF Restart, TypeOK, HandlerPcs
  <2>4. target' \in [Procs -> 0 .. MaxProcs]
    BY <1>8, SupervisorAssumption DEF Restart, TypeOK
  <2>5. \A j \in Procs : handler'[j] # "none" => target'[j] \in Procs
    BY <1>8 DEF Restart, TypeOK, Working
  <2> QED
    BY <1>8, <2>2, <2>3, <2>4, <2>5 DEF Restart, TypeOK, Working
<1> QED
  BY <1>1, <1>2, <1>4, <1>5, <1>6, <1>7, <1>8 DEF Monitor

LEMMA TypeNext == ASSUME TInv, [Next]_vars PROVE TInv'
<1>1. CASE UNCHANGED vars
  BY <1>1 DEF vars, TInv, TypeOK, Working, plannerVars, registryVars, handlerVars, runVars
<1>2. CASE Run
  BY <1>2, RunType
<1>3. CASE Shutdown
  BY <1>3 DEF Shutdown, TInv, TypeOK, Working, plannerVars, registryVars, handlerVars
<1>4. ASSUME NEW o \in Offers, AddTunnel(o.name, o.spec) PROVE TInv'
  <2>1. o.name \in Names /\ o.spec \in Specs
    BY SupervisorAssumption DEF Entries
  <2> QED
    BY <1>4, <2>1, AddTunnelType
<1>5. ASSUME NEW n \in Names, RemoveTunnel(n) \/ StartTunnel(n) \/ StopTunnel(n) PROVE TInv'
  BY <1>5, RemoveTunnelType, RequestType
<1>6. ASSUME NEW i \in Procs, StartRequested(i) \/ ChildExits(i) \/ Monitor(i) PROVE TInv'
  BY <1>6, StartRequestedType, ChildExitsType, MonitorType
<1> QED
  BY <1>1, <1>2, <1>3, <1>4, <1>5, <1>6 DEF Next, Terminated

(* The supervisor's state keeps its types, in particular every handler of  *)
(* a failure has an object to restart, however many tunnels, objects and   *)
(* requests there are.                                                     *)
THEOREM TypeCorrect == Spec => []TypeOK
<1>1. TInv /\ [Next]_vars => TInv'
  BY TypeNext
<1>2. TInv => TypeOK
  BY DEF TInv
<1> QED
  BY TypeInit, <1>1, <1>2, PTL DEF Spec

-----------------------------------------------------------------------------
(* Requests cannot close a cycle of dependencies: AddTunnel keeps a new    *)
(* spec only if Plan sorted it with the others, and taking a spec away     *)
(* leaves a part of an acyclic map.                                        *)
LEMMA AcyclicNext ==
  ASSUME TInv, DependenciesAcyclic, [Next]_vars PROVE DependenciesAcyclic'
<1> USE DEF DependenciesAcyclic
<1>1. CASE RunPlans
  BY <1>1 DEF RunPlans, PlanSucceeds
<1>2. ASSUME NEW o \in Offers, AddTunnel(o.name, o.spec) PROVE DependenciesAcyclic'
  <2>1. main' = main /\ main \in {"loop", "await"}
    BY <1>2 DEF AddTunnel, ApiOpen, runVars
  <2>2. CASE AddTunnelAccepted(o.name, o.spec)
    BY <2>1, <2>2 DEF AddTunnelAccepted, PlanSucceeds
  <2>3. CASE AddTunnelRejected(o.name, o.spec)
    <3>1. /\ DOMAIN specs' \subseteq DOMAIN specs
          /\ \A n \in DOMAIN specs' : specs'[n] = specs[n]
      BY <2>3 DEF AddTunnelRejected, RemoveSpec, AddSpec
    <3> QED
      BY <2>1, <3>1, RestrictAcyclic
  <2> QED
    BY <1>2, <2>2, <2>3 DEF AddTunnel
<1>3. ASSUME NEW n \in Names, RemoveTunnel(n) PROVE DependenciesAcyclic'
  <2>1. main' = main /\ main \in {"loop", "await"}
    BY <1>3 DEF RemoveTunnel, Request, ApiOpen, runVars
  <2>2. /\ DOMAIN specs' \subseteq DOMAIN specs
        /\ \A m \in DOMAIN specs' : specs'[m] = specs[m]
    BY <1>3 DEF RemoveTunnel, RemoveSpec
  <2> QED
    BY <2>1, <2>2, RestrictAcyclic
<1>4. ASSUME specs' = specs,
             main' = main \/ main' = "fatal" \/ main \in {"loop", "await"}
      PROVE  DependenciesAcyclic'
  BY <1>4
<1>5. CASE RunFails \/ RunRegisters \/ RunStarts \/ RunAwaits \/ StopAll \/ Shutdown
  BY <1>4, <1>5 DEF RunFails, RunRegisters, RunStarts, RunAwaits, StopAll, Shutdown, plannerVars
<1>6. ASSUME NEW n \in Names, StartTunnel(n) \/ StopTunnel(n) PROVE DependenciesAcyclic'
  BY <1>4, <1>6 DEF StartTunnel, StopTunnel, plannerVars, runVars
<1>7. ASSUME NEW i \in Procs, StartRequested(i) \/ ChildExits(i) PROVE DependenciesAcyclic'
  BY <1>4, <1>7 DEF StartRequested, ChildExits, plannerVars, runVars
<1>8. ASSUME NEW i \in Procs, Monitor(i) PROVE DependenciesAcyclic'
  BY <1>4, <1>8 DEF Monitor, MonitorHealthy, MonitorCtxDone, MonitorReceives, MonitorTickFails,
                    CascadeStop, CascadeEnds, Restart, plannerVars, runVars
<1>9. CASE UNCHANGED vars
  BY <1>4, <1>9 DEF vars, plannerVars, runVars
<1> QED
  BY <1>1, <1>2, <1>3, <1>5, <1>6, <1>7, <1>8, <1>9 DEF Next, Run, Terminated

(* No sequence of requests, failures and restarts makes the tunnels of a   *)
(* planned daemon depend on each other in a circle.                        *)
THEOREM NeverCyclic == Spec => []DependenciesAcyclic
<1>1. Init => DependenciesAcyclic
  BY DEF Init, DependenciesAcyclic
<1>2. TInv /\ DependenciesAcyclic /\ [Next]_vars => TInv' /\ DependenciesAcyclic'
  BY TypeNext, AcyclicNext
<1> QED
  BY TypeInit, <1>1, <1>2, PTL DEF Spec

-----------------------------------------------------------------------------
(* The registry, the planner and the ports, when clients wait for Run to   *)
(* have started every tunnel.                                              *)

NoClash(m) == \A x, y \in DOMAIN m : x # y => ~PortsClash(m[x], m[y])

(* The tunnels Run has still to register.                                  *)
Waiting == {order[k].name : k \in DOMAIN order}

(* Every registered tunnel runs the spec the planner has, the specs still  *)
(* to be registered are the planner's, nothing is in neither set, and the  *)
(* planner's specs never share a port.                                     *)
Agreement ==
    /\ NoClash(specs)
    /\ \A n \in Registered : n \in DOMAIN specs /\ spec[processes[n]] = specs[n]
    /\ \A k \in DOMAIN order : order[k].name \in DOMAIN specs /\ order[k].spec = specs[order[k].name]
    /\ DOMAIN specs \subseteq Registered \cup Waiting

RInv ==
    /\ \A n \in Names : processes[n] <= made
    /\ main \in {"boot", "fatal"} => Registered = {}
    /\ main \in {"loop", "await", "exited"} => Agreement
    /\ main \in {"await", "exited"} => order = <<>>

(* Plan returns every tunnel: as many names as there are, none twice.      *)
LEMMA PlanOrdersComplete ==
  ASSUME NEW m, IsFiniteSet(DOMAIN m), NEW o \in PlanOrders(m), NEW n \in DOMAIN m
  PROVE  \E k \in DOMAIN o : o[k] = n
<1> DEFINE N == Cardinality(DOMAIN m)
<1>1. N \in Nat
  BY FS_CardinalityType
<1>2. o \in [1 .. N -> DOMAIN m] /\ \A i, j \in 1 .. N : o[i] = o[j] => i = j
  BY DEF PlanOrders
<1>3. o \in Injection(1 .. N, DOMAIN m)
  BY <1>2 DEF Injection, IsInjective
<1>4. IsFiniteSet(1 .. N) /\ Cardinality(1 .. N) = N
  BY <1>1, FS_Interval
<1>5. o \in Surjection(1 .. N, DOMAIN m)
  BY <1>3, <1>4, FS_Injection
<1> QED
  BY <1>2, <1>5 DEF Surjection

LEMMA RInvRunPlans == ASSUME TInv, RInv, RunPlans PROVE RInv'
<1>1. PICK o \in PlanOrders(specs) :
         order' = [k \in DOMAIN o |-> [name |-> o[k], spec |-> specs[o[k]]]]
  BY DEF RunPlans
<1>2. \A n \in DOMAIN specs : \E k \in DOMAIN o : o[k] = n
  BY PlanOrdersComplete DEF TInv, Working
<1>3. \A k \in DOMAIN o : o[k] \in DOMAIN specs
  BY DEF PlanOrders
<1>4. main = "boot" /\ main' = "loop" /\ UNCHANGED <<specs, processes, made, spec>>
  BY DEF RunPlans, registryVars
<1>5. NoClash(specs')
  BY <1>4 DEF RunPlans, NoClash
<1>6. Registered' = {}
  BY <1>4 DEF RInv, Registered
<1>7. \A k \in DOMAIN order' : order'[k].name = o[k] /\ order'[k].spec = specs[o[k]]
  BY <1>1
<1>8. DOMAIN order' = DOMAIN o
  BY <1>1
<1>9. DOMAIN specs' \subseteq Waiting'
  BY <1>2, <1>4, <1>7, <1>8 DEF Waiting
<1> QED
  BY <1>3, <1>4, <1>5, <1>6, <1>7, <1>8, <1>9 DEF RInv, Agreement

LEMMA RInvRegisters == ASSUME TInv, RInv, RunRegisters PROVE RInv'
<1> DEFINE e == Head(order)
<1>1. /\ main = "loop" /\ main' = "loop" /\ specs' = specs
      /\ order # <<>> /\ order' = Tail(order) /\ order \in Seq(Entries)
  BY DEF RunRegisters, plannerVars, TInv, TypeOK
<1>2. /\ made \in Nat /\ made' = made + 1
      /\ processes' = [processes EXCEPT ![e.name] = made + 1]
      /\ spec' = [spec EXCEPT ![made + 1] = e.spec]
      /\ made + 1 \in Procs
  BY SupervisorAssumption DEF RunRegisters, Register, TInv, TypeOK, Procs
<1>3. Len(order) \in Nat /\ Len(order) > 0 /\ DOMAIN order = 1 .. Len(order) /\ e = order[1]
  BY <1>1
<1>4. /\ DOMAIN order' = 1 .. (Len(order) - 1)
      /\ \A k \in DOMAIN order' : k + 1 \in DOMAIN order /\ order'[k] = order[k + 1]
  BY <1>1, <1>3
<1>5. Agreement
  BY <1>1 DEF RInv
<1>6. e.name \in DOMAIN specs /\ e.spec = specs[e.name] /\ e.name \in Names
  <2>1. e \in Entries
    BY <1>1
  <2>2. 1 \in DOMAIN order
    BY <1>3
  <2> QED
    BY <1>3, <1>5, <2>1, <2>2 DEF Agreement, Entries
<1>7. /\ processes \in [Names -> 0 .. MaxProcs] /\ spec \in [Procs -> Specs]
      /\ \A n \in Names : processes[n] <= made
  BY DEF TInv, TypeOK, RInv
<1> HIDE DEF e
<1>8. \A n \in Names : processes'[n] <= made'
  BY <1>2, <1>6, <1>7, SupervisorAssumption
<1>9. Registered' = Registered \cup {e.name}
  BY <1>2, <1>6, <1>7 DEF Registered
<1>10. \A n \in Registered' : n \in DOMAIN specs' /\ spec'[processes'[n]] = specs'[n]
  <2> TAKE n \in Registered'
  <2>1. CASE n = e.name
    BY <1>1, <1>2, <1>6, <1>7, <2>1
  <2>2. CASE n # e.name
    <3>1. n \in Registered /\ n \in Names
      BY <1>9, <2>2 DEF Registered
    <3>2. processes'[n] = processes[n] /\ processes[n] # made + 1
      BY <1>2, <1>7, <2>2, <3>1, SupervisorAssumption
    <3>3. spec'[processes'[n]] = spec[processes[n]]
      BY <1>2, <1>7, <3>1, <3>2, SupervisorAssumption DEF Registered, Procs
    <3> QED
      BY <1>1, <1>5, <3>1, <3>3 DEF Agreement
  <2> QED
    BY <2>1, <2>2
<1>11. \A k \in DOMAIN order' : order'[k].name \in DOMAIN specs' /\ order'[k].spec = specs'[order'[k].name]
  BY <1>1, <1>4, <1>5 DEF Agreement
<1>12. Waiting \subseteq Waiting' \cup {e.name}
  <2> SUFFICES ASSUME NEW k \in DOMAIN order, k # 1 PROVE order[k].name \in Waiting'
    BY <1>3 DEF Waiting
  <2>1. k - 1 \in DOMAIN order' /\ order'[k - 1] = order[k]
    BY <1>3, <1>4
  <2> QED
    BY <2>1 DEF Waiting
<1>13. NoClash(specs') /\ DOMAIN specs' \subseteq Registered' \cup Waiting'
  BY <1>1, <1>5, <1>9, <1>12 DEF Agreement
<1>14. Agreement'
  BY <1>10, <1>11, <1>13 DEF Agreement
<1> QED
  BY <1>1, <1>8, <1>14 DEF RInv

LEMMA AllRegistered ==
  ASSUME RInv, main \in {"await", "exited"}
  PROVE  order = <<>> /\ Agreement /\ DOMAIN specs = Registered
<1>1. order = <<>> /\ Agreement
  BY DEF RInv
<1>2. Waiting = {}
  BY <1>1 DEF Waiting
<1> QED
  BY <1>1, <1>2 DEF Agreement

LEMMA RInvAddTunnel ==
  ASSUME TInv, RInv, ~ApiEarly, NEW n \in Names, NEW sp \in Specs, AddTunnel(n, sp)
  PROVE  RInv'
<1>1. /\ main = "await" /\ main' = "await" /\ order = <<>> /\ order' = <<>>
      /\ Agreement
  BY DEF AddTunnel, ApiOpen, runVars, RInv
<1>2. n \notin Registered /\ DOMAIN specs = Registered
  BY <1>1, AllRegistered DEF AddTunnel
<1>3. /\ processes \in [Names -> 0 .. MaxProcs] /\ spec \in [Procs -> Specs] /\ made \in Nat
      /\ \A x \in Names : processes[x] <= made
  BY SupervisorAssumption DEF TInv, TypeOK, RInv
<1>4. CASE AddTunnelAccepted(n, sp)
  <2>1. /\ made' = made + 1 /\ made + 1 \in Procs
        /\ processes' = [processes EXCEPT ![n] = made + 1]
        /\ spec' = [spec EXCEPT ![made + 1] = sp]
        /\ specs' = AddSpec(specs, n, sp)
    BY <1>3, <1>4, SupervisorAssumption DEF AddTunnelAccepted, Register, TInv, TypeOK, Procs
  <2>2. \A x \in Names : processes'[x] <= made'
    BY <1>3, <2>1, SupervisorAssumption
  <2>3. Registered' = Registered \cup {n}
    BY <1>3, <2>1 DEF Registered
  <2>4. DOMAIN specs' = Registered' /\ specs'[n] = sp /\ \A x \in Registered : specs'[x] = specs[x]
    BY <1>2, <2>1, <2>3 DEF AddSpec
  <2>5. \A x \in Registered' : spec'[processes'[x]] = specs'[x]
    <3> TAKE x \in Registered'
    <3>1. CASE x = n
      BY <1>3, <2>1, <2>4, <3>1
    <3>2. CASE x # n
      <4>1. x \in Registered /\ x \in Names
        BY <2>3, <3>2 DEF Registered
      <4>2. processes'[x] = processes[x] /\ processes[x] # made + 1
        BY <1>3, <2>1, <3>2, <4>1, SupervisorAssumption
      <4>3. spec'[processes'[x]] = spec[processes[x]]
        BY <1>3, <2>1, <4>1, <4>2, SupervisorAssumption DEF Registered, Procs
      <4> QED
        BY <1>1, <2>4, <4>1, <4>3 DEF Agreement
    <3> QED
      BY <3>1, <3>2
  <2>6. NoClash(specs')
    <3>1. \A x \in Registered : ~PortsClash(specs[x], sp) /\ ~PortsClash(sp, specs[x])
      BY <1>1 DEF AddTunnel, checkPortConflicts, PortsClash, Agreement
    <3>2. \A x, y \in Registered : x # y => ~PortsClash(specs[x], specs[y])
      BY <1>1, <1>2 DEF Agreement, NoClash
    <3> QED
      BY <2>3, <2>4, <3>1, <3>2 DEF NoClash
  <2> QED
    BY <1>1, <2>2, <2>4, <2>5, <2>6 DEF RInv, Agreement
<1>5. CASE AddTunnelRejected(n, sp)
  <2>1. /\ specs' = RemoveSpec(AddSpec(specs, n, sp), n)
        /\ UNCHANGED <<processes, made, spec>>
    BY <1>5 DEF AddTunnelRejected, registryVars
  <2>2. DOMAIN specs' = Registered /\ \A x \in Registered : specs'[x] = specs[x]
    BY <1>2, <2>1 DEF RemoveSpec, AddSpec
  <2>3. Registered' = Registered
    BY <2>1 DEF Registered
  <2> QED
    BY <1>1, <1>2, <2>1, <2>2, <2>3 DEF RInv, Agreement, NoClash
<1> QED
  BY <1>4, <1>5 DEF AddTunnel

LEMMA RInvRemoveTunnel ==
  ASSUME TInv, RInv, ~ApiEarly, NEW n \in Names, RemoveTunnel(n) PROVE RInv'
<1>1. /\ main = "await" /\ main' = "await" /\ order = <<>> /\ order' = <<>>
      /\ Agreement
  BY DEF RemoveTunnel, Request, ApiOpen, runVars, RInv
<1>2. /\ specs' = RemoveSpec(specs, n) /\ processes' = [processes EXCEPT ![n] = 0]
      /\ UNCHANGED <<made, spec>>
  BY DEF RemoveTunnel
<1>3. processes \in [Names -> 0 .. MaxProcs] /\ made \in Nat /\ DOMAIN specs = Registered
  BY <1>1, AllRegistered, SupervisorAssumption DEF TInv, TypeOK
<1>4. Registered' = Registered \ {n} /\ \A x \in Registered' : processes'[x] = processes[x]
  BY <1>2, <1>3 DEF Registered
<1>5. DOMAIN specs' = Registered' /\ \A x \in Registered' : specs'[x] = specs[x]
  BY <1>2, <1>3, <1>4 DEF RemoveSpec
<1>6. \A x \in Names : processes'[x] <= made'
  BY <1>2, <1>3, SupervisorAssumption DEF RInv
<1> QED
  BY <1>1, <1>2, <1>3, <1>4, <1>5, <1>6 DEF RInv, Agreement, NoClash

LEMMA RInvNext == ASSUME TInv, RInv, ~ApiEarly, [Next]_vars PROVE RInv'
<1>1. ASSUME UNCHANGED <<specs, processes, made, spec, order>>,
             \/ main' = main
             \/ main = "boot" /\ main' = "fatal"
             \/ main = "loop" /\ main' = "await" /\ order = <<>>
             \/ main = "await" /\ main' = "exited"
      PROVE  RInv'
  BY <1>1 DEF RInv, Agreement, Waiting, Registered
<1>2. CASE RunFails \/ RunStarts \/ RunAwaits \/ StopAll \/ Shutdown
  BY <1>1, <1>2 DEF RunFails, RunStarts, RunAwaits, StopAll, Shutdown, plannerVars, registryVars
<1>3. ASSUME NEW o \in Offers, AddTunnel(o.name, o.spec) PROVE RInv'
  <2>1. o.name \in Names /\ o.spec \in Specs
    BY SupervisorAssumption DEF Entries
  <2> QED
    BY <1>3, <2>1, RInvAddTunnel
<1>4. ASSUME NEW n \in Names, StartTunnel(n) \/ StopTunnel(n) PROVE RInv'
  BY <1>1, <1>4 DEF StartTunnel, StopTunnel, plannerVars, registryVars, runVars
<1>5. ASSUME NEW i \in Procs, StartRequested(i) \/ ChildExits(i) PROVE RInv'
  BY <1>1, <1>5 DEF StartRequested, ChildExits, plannerVars, registryVars, runVars
<1>6. ASSUME NEW i \in Procs, Monitor(i) PROVE RInv'
  BY <1>1, <1>6 DEF Monitor, MonitorHealthy, MonitorCtxDone, MonitorReceives, MonitorTickFails,
                    CascadeStop, CascadeEnds, Restart, plannerVars, registryVars, runVars
<1>7. CASE UNCHANGED vars
  BY <1>1, <1>7 DEF vars, plannerVars, registryVars, runVars
<1> QED
  BY <1>2, <1>3, <1>4, <1>5, <1>6, <1>7, RInvRunPlans, RInvRegisters, RInvRemoveTunnel
     DEF Next, Run, Terminated

LEMMA RInvInit == Init => RInv
  BY DEF Init, RInv, Registered

LEMMA RInvHolds == ASSUME ~ApiEarly PROVE Spec => [](TInv /\ RInv)
<1>1. TInv /\ RInv /\ [Next]_vars => TInv' /\ RInv'
  BY TypeNext, RInvNext
<1> QED
  BY TypeInit, RInvInit, <1>1, PTL DEF Spec

(* The planner and the registry agree after every request, accepted or     *)
(* rejected, if requests come once Run has started every tunnel.           *)
THEOREM RegistryInStep == ASSUME ~ApiEarly PROVE Spec => []RegistryMatchesPlanner
<1>1. RInv => RegistryMatchesPlanner
  BY AllRegistered DEF Agreement, RegistryMatchesPlanner
<1> QED
  BY RInvHolds, <1>1, PTL

(* No two registered tunnels claim one local port, if requests come once   *)
(* Run has started every tunnel.                                           *)
THEOREM PortsNeverShared == ASSUME ~ApiEarly PROVE Spec => []PortsExclusive
<1>1. TInv /\ RInv => PortsExclusive
  <2> SUFFICES ASSUME TInv, RInv, NEW m \in Registered, NEW n \in Registered, m # n
               PROVE  ~PortsClash(spec[processes[m]], spec[processes[n]])
    BY DEF PortsExclusive
  <2>1. Agreement
    BY DEF RInv, TInv, TypeOK
  <2> QED
    BY <2>1 DEF Agreement, NoClash
<1> QED
  BY RInvHolds, <1>1, PTL
=============================================================================
