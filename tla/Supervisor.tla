----------------------------- MODULE Supervisor -----------------------------
(***************************************************************************)
(* The supervisor (internal/daemon/supervisor.go): the registry of tunnels,*)
(* the planner it feeds, Run, the requests of the API, and the handling of *)
(* failures with its cascade to the dependents.                            *)
(*                                                                         *)
(* A Process object is a number; the registry maps a name to an object, 0  *)
(* standing for none.  An object that was removed or overwritten keeps its *)
(* goroutines.  Start and Stop are single steps here: what happens inside  *)
(* them is the subject of TunnelProcess.  What s.mu protects is one step,  *)
(* and whatever the code does after it unlocked is a step of its own.      *)
(***************************************************************************)
EXTENDS Planner, Sequences

CONSTANTS
    Names,         \* names of tunnels
    Ports,         \* local ports a spec can claim
    Configs,       \* the maps from names to specs the config file may hold
    Offers,        \* the tunnels clients may create: records [name, spec]
    Requests,      \* the other requests they may make: pairs of an operation and a name
    RestartPolicy, \* restart.policy of every spec
    MaxProcs,      \* bound: Process objects in one behaviour
    ApiEarly       \* clients may call before Run has started every tunnel

Specs == [deps : SUBSET Names, ports : SUBSET Ports]
Entries == [name : Names, spec : Specs]
Procs == 1 .. MaxProcs

ASSUME SupervisorAssumption ==
    /\ Names # {}
    /\ \A config \in Configs :
          /\ \E N \in SUBSET Names : config \in [N -> Specs]
          /\ IsFiniteSet(DOMAIN config)
    /\ Offers \subseteq Entries
    /\ Requests \subseteq {"StartTunnel", "StopTunnel", "RemoveTunnel"} \X Names
    /\ RestartPolicy \in {"nil", "never", "on-failure", "always"}
    /\ MaxProcs \in Nat
    /\ ApiEarly \in BOOLEAN

VARIABLES
    specs,      \* planner.specs
    graph,      \* planner.graph and planner.indices
    processes,  \* s.processes
    made,       \* Process objects made so far
    name,       \* name[i]: the name of object i
    spec,       \* spec[i]: p.spec
    status,     \* status[i]: p.status
    expected,   \* expected[i]: p.expectedState
    live,       \* the objects whose child is alive
    watch,      \* the objects with a monitor in its select
    handler,    \* handler[i]: where handleFailure, called by i's monitor, is
    target,     \* target[i]: the object that handler works on
    todo,       \* todo[i]: the dependents it has still to stop
    starters,   \* objects a request is about to start, s.mu released
    main,       \* where Run is
    order,      \* the specs Plan returned that Run has still to register
    booting,    \* the object Run is about to start, or 0
    down        \* the daemon's context is done

plannerVars == <<specs, graph>>
registryVars == <<processes, made, name, spec>>
handlerVars == <<handler, target, todo>>
runVars == <<main, order, booting, down>>
vars == <<plannerVars, registryVars, status, expected, live, watch, handlerVars, starters, runVars>>

Statuses == {"stopped", "starting", "running", "failed"}
HandlerPcs == {"none", "cascade", "sleep"}
Graphs == [vertices : SUBSET Names, edges : SUBSET (Names \X Names)]

TypeOK ==
    /\ \E N \in SUBSET Names : specs \in [N -> Specs]
    /\ graph \in Graphs
    /\ processes \in [Names -> 0 .. MaxProcs]
    /\ made \in 0 .. MaxProcs
    /\ name \in [Procs -> Names]
    /\ spec \in [Procs -> Specs]
    /\ status \in [Procs -> Statuses]
    /\ expected \in [Procs -> {"running", "stopped"}]
    /\ live \in SUBSET Procs
    /\ watch \in SUBSET Procs
    /\ handler \in [Procs -> HandlerPcs]
    /\ target \in [Procs -> 0 .. MaxProcs]
    /\ todo \in [Procs -> SUBSET Names]
    /\ starters \in SUBSET Procs
    /\ main \in {"boot", "loop", "await", "exited", "fatal"}
    /\ order \in Seq(Entries)
    /\ booting \in 0 .. MaxProcs
    /\ down \in BOOLEAN

-----------------------------------------------------------------------------
Registered == {n \in Names : processes[n] # 0}

NoSpec == [deps |-> {}, ports |-> {}]

Init ==
    /\ specs \in Configs
    /\ graph = EmptyGraph
    /\ processes = [n \in Names |-> 0]
    /\ made = 0
    /\ name = [i \in Procs |-> CHOOSE n \in Names : TRUE]
    /\ spec = [i \in Procs |-> NoSpec]
    /\ status = [i \in Procs |-> "stopped"]
    /\ expected = [i \in Procs |-> "stopped"]
    /\ live = {}
    /\ watch = {}
    /\ handler = [i \in Procs |-> "none"]
    /\ target = [i \in Procs |-> 0]
    /\ todo = [i \in Procs |-> {}]
    /\ starters = {}
    /\ main = "boot"
    /\ order = <<>>
    /\ booting = 0
    /\ down = FALSE

DaemonUp == main \notin {"exited", "fatal"}

(* NewProcess(sp), stored in the registry under n.                         *)
Register(n, sp) ==
    /\ made < MaxProcs
    /\ made' = made + 1
    /\ name' = [name EXCEPT ![made + 1] = n]
    /\ spec' = [spec EXCEPT ![made + 1] = sp]
    /\ processes' = [processes EXCEPT ![n] = made + 1]

(* startAndNotify: Start refuses an object that is starting or running,    *)
(* fails for lack of a key, a port or a live context, or launches a child  *)
(* and a monitor.                                                          *)
StartAndNotify(i) ==
    IF status[i] \in {"stopped", "failed"}
    THEN /\ expected' = [expected EXCEPT ![i] = "running"]
         /\ \/ UNCHANGED <<status, live, watch>>
            \/ /\ ~down
               /\ status' = [status EXCEPT ![i] = "starting"]
               /\ live' = live \cup {i}
               /\ watch' = watch \cup {i}
    ELSE UNCHANGED <<expected, status, live, watch>>

(* Stop of the objects I: the child is killed, and its waiter finds an     *)
(* error.                                                                  *)
StopObjects(I) ==
    /\ expected' = [i \in Procs |-> IF i \in I THEN "stopped" ELSE expected[i]]
    /\ status' = [i \in Procs |-> IF i \in I /\ i \in live THEN "failed" ELSE status[i]]
    /\ live' = live \ I

-----------------------------------------------------------------------------
(* Supervisor.Run.                                                         *)

PortsClash(sp1, sp2) == sp1.ports \cap sp2.ports # {}

(* Run gives up on a bad dependency or when two specs claim a port.        *)
RunFails ==
    /\ DaemonUp
    /\ main = "boot"
    /\ \/ ~PlanSucceeds(specs)
       \/ \E m, n \in DOMAIN specs : m # n /\ PortsClash(specs[m], specs[n])
    /\ graph' \in PlanGraphs(specs)
    /\ main' = "fatal"
    /\ UNCHANGED <<specs, registryVars, status, expected, live, watch, handlerVars, starters, order, booting, down>>

RunPlans ==
    /\ DaemonUp
    /\ main = "boot"
    /\ PlanSucceeds(specs)
    /\ \A m, n \in DOMAIN specs : m # n => ~PortsClash(specs[m], specs[n])
    /\ graph' \in PlanGraphs(specs)
    /\ \E o \in PlanOrders(specs) :
          order' = [k \in DOMAIN o |-> [name |-> o[k], spec |-> specs[o[k]]]]
    /\ main' = "loop"
    /\ UNCHANGED <<specs, registryVars, status, expected, live, watch, handlerVars, starters, booting, down>>

(* The loop registers the specs Plan returned, whatever the registry holds *)
(* under their names by now.                                               *)
RunRegisters ==
    /\ DaemonUp
    /\ main = "loop"
    /\ booting = 0
    /\ order # <<>>
    /\ Register(Head(order).name, Head(order).spec)
    /\ booting' = made + 1
    /\ order' = Tail(order)
    /\ UNCHANGED <<plannerVars, status, expected, live, watch, handlerVars, starters, main, down>>

RunStarts ==
    /\ DaemonUp
    /\ main = "loop"
    /\ booting # 0
    /\ StartAndNotify(booting)
    /\ booting' = 0
    /\ UNCHANGED <<plannerVars, registryVars, handlerVars, starters, main, order, down>>

RunAwaits ==
    /\ DaemonUp
    /\ main = "loop"
    /\ booting = 0
    /\ order = <<>>
    /\ main' = "await"
    /\ UNCHANGED <<plannerVars, registryVars, status, expected, live, watch, handlerVars, starters, order, booting, down>>

Shutdown ==
    /\ DaemonUp
    /\ ~down
    /\ down' = TRUE
    /\ UNCHANGED <<plannerVars, registryVars, status, expected, live, watch, handlerVars, starters, main, order, booting>>

StopAll ==
    /\ DaemonUp
    /\ main = "await"
    /\ down
    /\ StopObjects({processes[n] : n \in Registered})
    /\ main' = "exited"
    /\ UNCHANGED <<plannerVars, registryVars, watch, handlerVars, starters, order, booting, down>>

Run == RunFails \/ RunPlans \/ RunRegisters \/ RunStarts \/ RunAwaits \/ StopAll

-----------------------------------------------------------------------------
(* Requests.                                                               *)

ApiOpen == main = "await" \/ (ApiEarly /\ main = "loop")

(* Mutant: only tunnels that are up are compared.                          *)
checkPortConflictsUp(sp) ==
    \E n \in Registered : processes[n] \in live /\ PortsClash(spec[processes[n]], sp)

(* A request for a tunnel that exists.                                     *)
Request(op, n) == ApiOpen /\ <<op, n>> \in Requests /\ n \in Registered

(* checkPortConflicts compares with the registered tunnels.                *)
checkPortConflicts(sp) == \E n \in Registered : PortsClash(spec[processes[n]], sp)

(* Mutant: only missing dependencies are an error.                         *)
AddTunnelAcceptedUnsorted(n, sp) ==
    /\ Dangling(AddSpec(specs, n, sp)) = {}
    /\ specs' = AddSpec(specs, n, sp)
    /\ Register(n, sp)
    /\ starters' = starters \cup {made + 1}

(* AddTunnel: refused when the name is taken or a port is; the spec is     *)
(* given to the planner and taken back when Plan fails.  The new object is *)
(* started once s.mu is released.                                          *)
AddTunnelAccepted(n, sp) ==
    /\ PlanSucceeds(AddSpec(specs, n, sp))
    /\ specs' = AddSpec(specs, n, sp)
    /\ Register(n, sp)
    /\ starters' = starters \cup {made + 1}

(* Mutant: the rejected spec stays with the planner.                       *)
AddTunnelRejectedKept(n, sp) ==
    /\ ~PlanSucceeds(AddSpec(specs, n, sp))
    /\ specs' = AddSpec(specs, n, sp)
    /\ UNCHANGED <<registryVars, starters>>

AddTunnelRejected(n, sp) ==
    /\ ~PlanSucceeds(AddSpec(specs, n, sp))
    /\ specs' = RemoveSpec(AddSpec(specs, n, sp), n)
    /\ UNCHANGED <<registryVars, starters>>

AddTunnel(n, sp) ==
    /\ ApiOpen
    /\ n \notin Registered
    /\ ~checkPortConflicts(sp)
    /\ graph' \in PlanGraphs(AddSpec(specs, n, sp))
    /\ AddTunnelAccepted(n, sp) \/ AddTunnelRejected(n, sp)
    /\ UNCHANGED <<status, expected, live, watch, handlerVars, runVars>>

RemoveTunnel(n) ==
    /\ Request("RemoveTunnel", n)
    /\ StopObjects({processes[n]})
    /\ processes' = [processes EXCEPT ![n] = 0]
    /\ specs' = RemoveSpec(specs, n)
    /\ UNCHANGED <<graph, made, name, spec, watch, handlerVars, starters, runVars>>

(* StartTunnel and EnableTunnel look the tunnel up and start it later.     *)
StartTunnel(n) ==
    /\ Request("StartTunnel", n)
    /\ ~(status[processes[n]] \in {"starting", "running"} /\ processes[n] \in live)
    /\ starters' = starters \cup {processes[n]}
    /\ UNCHANGED <<plannerVars, registryVars, status, expected, live, watch, handlerVars, runVars>>

StartRequested(i) ==
    /\ DaemonUp
    /\ i \in starters
    /\ starters' = starters \ {i}
    /\ StartAndNotify(i)
    /\ UNCHANGED <<plannerVars, registryVars, handlerVars, runVars>>

StopTunnel(n) ==
    /\ Request("StopTunnel", n)
    /\ StopObjects({processes[n]})
    /\ UNCHANGED <<plannerVars, registryVars, watch, handlerVars, starters, runVars>>

-----------------------------------------------------------------------------
(* The child and the monitor of object i.                                  *)

ChildExits(i) ==
    /\ DaemonUp
    /\ i \in live
    /\ live' = live \ {i}
    /\ \E s \in {"stopped", "failed"} : status' = [status EXCEPT ![i] = s]
    /\ UNCHANGED <<plannerVars, registryVars, expected, watch, handlerVars, starters, runVars>>

(* Mutant: the status the API declares and the daemon never sets.          *)
MonitorDegraded(i) ==
    /\ DaemonUp
    /\ i \in watch
    /\ status[i] # "running"
    /\ status' = [status EXCEPT ![i] = "degraded"]
    /\ UNCHANGED <<plannerVars, registryVars, expected, live, watch, handlerVars, starters, runVars>>

(* A check succeeds: without a probe it always does, and a probe may have  *)
(* been answered just before the child died.                               *)
MonitorHealthy(i) ==
    /\ DaemonUp
    /\ i \in watch
    /\ status[i] # "running"
    /\ status' = [status EXCEPT ![i] = "running"]
    /\ UNCHANGED <<plannerVars, registryVars, expected, live, watch, handlerVars, starters, runVars>>

MonitorCtxDone(i) ==
    /\ DaemonUp
    /\ i \in watch /\ down
    /\ watch' = watch \ {i}
    /\ UNCHANGED <<plannerVars, registryVars, status, expected, live, handlerVars, starters, runVars>>

(* handleFailure begins: the tunnel is looked up by name, left alone if it *)
(* is gone or should not run; its dependents are read from the graph.      *)
FailureLookup(i) ==
    LET j == processes[name[i]]
        goesOn == j # 0 /\ expected[j] = "running"
    IN  /\ handler[i] = "none"
        /\ handler' = [handler EXCEPT ![i] = IF goesOn THEN "cascade" ELSE "none"]
        /\ target' = [target EXCEPT ![i] = IF goesOn THEN j ELSE 0]
        /\ todo' = [todo EXCEPT ![i] = IF goesOn THEN DependentsOf(graph, name[i]) ELSE {}]

(* The exit of the child reaches the monitor.                              *)
MonitorReceives(i) ==
    /\ DaemonUp
    /\ i \in watch \ live
    /\ watch' = watch \ {i}
    /\ FailureLookup(i)
    /\ UNCHANGED <<plannerVars, registryVars, status, expected, live, starters, runVars>>

(* A check fails after the startup timeout; a live child stays.            *)
MonitorTickFails(i) ==
    /\ DaemonUp
    /\ i \in watch
    /\ watch' = watch \ {i}
    /\ status' = [status EXCEPT ![i] = "failed"]
    /\ FailureLookup(i)
    /\ UNCHANGED <<plannerVars, registryVars, expected, live, starters, runVars>>

(* One dependent is stopped, unless it is gone or has stopped.             *)
CascadeStop(i, n) ==
    /\ DaemonUp
    /\ handler[i] = "cascade"
    /\ n \in todo[i]
    /\ todo' = [todo EXCEPT ![i] = @ \ {n}]
    /\ StopObjects({processes[n]} \ ({0} \cup {j \in Procs : status[j] = "stopped"}))
    /\ UNCHANGED <<plannerVars, registryVars, watch, handler, target, starters, runVars>>

(* The restart policy decides; the delay follows.                          *)
CascadeEnds(i) ==
    /\ DaemonUp
    /\ handler[i] = "cascade"
    /\ todo[i] = {}
    /\ LET restarts == RestartPolicy \notin {"nil", "never"}
       IN  /\ handler' = [handler EXCEPT ![i] = IF restarts THEN "sleep" ELSE "none"]
           /\ target' = [target EXCEPT ![i] = IF restarts THEN @ ELSE 0]
    /\ UNCHANGED <<plannerVars, registryVars, status, expected, live, watch, todo, starters, runVars>>

Restart(i) ==
    /\ DaemonUp
    /\ handler[i] = "sleep"
    /\ StartAndNotify(target[i])
    /\ handler' = [handler EXCEPT ![i] = "none"]
    /\ target' = [target EXCEPT ![i] = 0]
    /\ UNCHANGED <<plannerVars, registryVars, todo, starters, runVars>>

Monitor(i) ==
    \/ MonitorHealthy(i) \/ MonitorCtxDone(i) \/ MonitorReceives(i) \/ MonitorTickFails(i)
    \/ (\E n \in Names : CascadeStop(i, n)) \/ CascadeEnds(i) \/ Restart(i)

Terminated == ~DaemonUp /\ UNCHANGED vars

Next ==
    \/ Run
    \/ Shutdown
    \/ \E o \in Offers : AddTunnel(o.name, o.spec)
    \/ \E n \in Names : RemoveTunnel(n) \/ StartTunnel(n) \/ StopTunnel(n)
    \/ \E i \in Procs : StartRequested(i) \/ ChildExits(i) \/ Monitor(i)
    \/ Terminated

Spec == Init /\ [][Next]_vars

(* Goroutines run, delays end, a live child answers its probe in the end.  *)
(* Clients, exits, failing probes and the shutdown signal are free.        *)
CascadeRuns(i) == (\E n \in Names : CascadeStop(i, n)) \/ CascadeEnds(i) \/ Restart(i)

Fairness ==
    /\ WF_vars(Run)
    /\ \A i \in Procs :
          /\ WF_vars(StartRequested(i))
          /\ WF_vars(i \in live /\ MonitorHealthy(i))
          /\ WF_vars(MonitorReceives(i))
          /\ WF_vars(CascadeRuns(i))

FairSpec == Spec /\ Fairness

-----------------------------------------------------------------------------
(* Properties.                                                             *)

(* The planner knows exactly the registered tunnels, with the specs their  *)
(* processes run: a rejected AddTunnel leaves nothing behind and           *)
(* RemoveTunnel forgets both.                                              *)
RegistryMatchesPlanner ==
    main = "await" =>
        /\ Registered = DOMAIN specs
        /\ \A n \in Registered : spec[processes[n]] = specs[n]

(* Once Run has planned, no sequence of requests closes a dependency cycle,*)
(* not even by removing a tunnel others depend on and adding it again.     *)
DependenciesAcyclic == main \in {"loop", "await", "exited"} => Acyclic(specs)

(* No two registered tunnels claim the same local port.                    *)
PortsExclusive ==
    \A m, n \in Registered : m # n => ~PortsClash(spec[processes[m]], spec[processes[n]])

(* After a request was accepted the cascade of any tunnel covers exactly   *)
(* the tunnels that depend on it, directly or indirectly (planner.go:80).  *)
AcceptedGraphExact ==
    [][made' # made /\ main = "await" =>
          \A n \in DOMAIN specs' : DependentsOf(graph', n) = TrueDependents(specs', n)]_vars

(* The tunnels as their callers see them.                                  *)
Promise == INSTANCE Registry WITH reg <- [n \in Registered |-> spec[processes[n]]]

(* The supervisor keeps the promise of a registry: through start-up,       *)
(* requests, failures and restarts the tunnels change one at a time, and   *)
(* each that joins had its name and ports free and an order with the rest  *)
(* (supervisor.go:138).                                                    *)
ImplementsRegistry == Promise!Spec

(* Stopped by a cascade, where no client ever stops a tunnel.              *)
Cascaded(n) == main = "await" /\ n \in Registered /\ expected[processes[n]] = "stopped"

DependenciesRunning(n) ==
    \A d \in spec[processes[n]].deps : processes[d] # 0 /\ status[processes[d]] = "running"

(* A tunnel the cascade stopped is restarted once the tunnels it depends   *)
(* on are healthy again: "When the `bastion` is back, `api-server` is      *)
(* automatically restarted" (docs/examples/bastion-kubernetes.md:53).      *)
DependentsRestarted ==
    \A n \in Names : (Cascaded(n) /\ DependenciesRunning(n))
                        ~> (~Cascaded(n) \/ ~DependenciesRunning(n) \/ down)
=============================================================================
