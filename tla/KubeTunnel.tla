----------------------------- MODULE KubeTunnel -----------------------------
(***************************************************************************)
(* One Tunnel object in a cluster: the controller (k8s/controllers), which *)
(* assigns it to a node and publishes it as a Service with Endpoints, and  *)
(* the agent of every node (k8s/agent), which applies it to the tunneld of *)
(* its node and reports what it sees.  They share nothing but the object.  *)
(*                                                                         *)
(* The API server, its client caches and work queues are external: every   *)
(* change of the object queues a request for every reconciler; a write     *)
(* based on an old version is refused and the request queued again; what a *)
(* deleted object owned is collected.  Versions are not counted: based is  *)
(* the set of reconcilers whose copy in hand is of the current version.  A *)
(* cache that lags is a Reconcile that read long before its next step.     *)
(***************************************************************************)
EXTENDS Naturals, FiniteSets

CONSTANTS
    Nodes,      \* the nodes by the order of their names, a finite set of numbers
    Bodies,     \* the specs a tunneld can be given
    Invalid,    \* a spec with neither or both of ssh and kubectl
    None,       \* nothing
    MaxPort,    \* bound: the ports a node gives out
    MaxEvents   \* bound: edits, node changes, failures and crashes

ASSUME KubeAssumption ==
    /\ Nodes \subseteq Nat \ {0} /\ IsFiniteSet(Nodes)
    /\ Invalid \notin Bodies /\ None \notin Bodies \cup {Invalid}
    /\ MaxPort \in Nat \ {0}
    /\ MaxEvents \in Nat

Controller == 0
Reconcilers == {Controller} \cup Nodes

(* A dynamic port, with the node that gave it out.                         *)
ActualPorts == Nodes \X (1 .. MaxPort)
Phases == {"", "Pending", "Healthy", "Degraded", "Failed", "Stopped"}

Tunnels ==
    [exists : BOOLEAN, body : Bodies \cup {Invalid}, expose : BOOLEAN,
     node : Nodes \cup {0}, phase : Phases, port : ActualPorts \cup {None}, serviceRef : BOOLEAN]

VARIABLES
    tunnel,     \* the Tunnel object
    ready,      \* the nodes that are Ready and match the selector
    service,    \* the Service object exists
    endpoints,  \* the address and port of the Endpoints object, or None
    queue,      \* the reconcilers with a request queued
    pc,         \* pc[r]: where Reconcile is
    copy,       \* copy[r]: the object in hand, or None
    based,      \* the reconcilers whose copy is of the current version
    daemon,     \* daemon[n]: the tunnel in the tunneld of n, or None
    missed,     \* the agents that were restarted after the object was deleted, or whose
                \* request to delete the tunnel failed
    events      \* disturbances so far

objects == <<tunnel, service, endpoints>>
reconcilers == <<queue, pc, copy, based>>
vars == <<objects, ready, reconcilers, daemon, missed, events>>

(* Before a Status().Update that returns or is repeated later; fail and    *)
(* degrade of the controller also set a condition with the current time.   *)
Stamped == {"writeFailed", "writeDegraded"}
WriteLabels == {"write", "writeRequeue"} \cup Stamped

DaemonTunnels == [body : Bodies, port : ActualPorts, status : {"starting", "running", "stopped", "failed"}]

TypeOK ==
    /\ tunnel \in Tunnels
    /\ ready \in SUBSET Nodes
    /\ service \in BOOLEAN
    /\ endpoints \in [node : Nodes, port : ActualPorts] \cup {None}
    /\ queue \in SUBSET Reconcilers
    /\ pc \in [Reconcilers -> {"idle", "service", "endpoints", "withdraw", "push", "status"} \cup WriteLabels]
    /\ copy \in [Reconcilers -> Tunnels \cup {None}]
    /\ based \in SUBSET Reconcilers
    /\ daemon \in [Nodes -> DaemonTunnels \cup {None}]
    /\ missed \in SUBSET Nodes
    /\ events \in 0 .. MaxEvents

-----------------------------------------------------------------------------
(* The object has been created and nobody has seen it.                     *)
Init ==
    /\ \E b \in Bodies :
          tunnel = [exists |-> TRUE, body |-> b, expose |-> TRUE,
                    node |-> 0, phase |-> "", port |-> None, serviceRef |-> FALSE]
    /\ ready = Nodes
    /\ service = FALSE
    /\ endpoints = None
    /\ queue = Reconcilers
    /\ based = {}
    /\ pc = [r \in Reconcilers |-> "idle"]
    /\ copy = [r \in Reconcilers |-> None]
    /\ daemon = [n \in Nodes |-> None]
    /\ missed = {}
    /\ events = 0

(* A request is taken from the queue.                                      *)
Takes(r) ==
    /\ r \in queue
    /\ pc[r] = "idle"
    /\ queue' = queue \ {r}

(* Reconcile goes on at the label, with the object, modified to t, in hand.*)
Continues(r, t, label) ==
    /\ copy' = [copy EXCEPT ![r] = t]
    /\ based' = based \cup {r}
    /\ pc' = [pc EXCEPT ![r] = label]

Goes(r, label) == pc' = [pc EXCEPT ![r] = label]

Returns(r) ==
    /\ pc' = [pc EXCEPT ![r] = "idle"]
    /\ copy' = [copy EXCEPT ![r] = None]

(* A change of the object makes copies old and is watched by everyone: the *)
(* predicate of the agents lets every event through.                       *)
Changes == based' = {} /\ queue' = Reconcilers

(* Mutant: the update overwrites whatever is there.                        *)
UpdateStatusForced(r, label) ==
    /\ tunnel' = IF tunnel.exists THEN copy[r] ELSE tunnel
    /\ Changes

(* Status().Update: refused unless the copy is current; it makes a new     *)
(* version only if something differs, of the time only whole seconds.  An  *)
(* error queues the request again.                                         *)
UpdateStatus(r, label) ==
    IF r \in based
    THEN /\ tunnel' = copy[r]
         /\ \/ (copy[r] # tunnel \/ label \in Stamped) /\ Changes
            \/ /\ copy[r] = tunnel
               /\ based' = based \ {r}
               /\ queue' = IF label \in {"writeRequeue", "writeDegraded"} THEN queue \cup {r} ELSE queue
    ELSE /\ queue' = queue \cup {r}
         /\ UNCHANGED <<tunnel, based>>

Write(r) ==
    /\ pc[r] \in WriteLabels
    /\ UpdateStatus(r, pc[r])
    /\ Returns(r)
    /\ UNCHANGED <<service, endpoints, ready, daemon, events>>

Disturb == events < MaxEvents /\ events' = events + 1

-----------------------------------------------------------------------------
(* Reconcile of the controller.                                            *)

(* Not scheduled, or the node is gone, not Ready, or not selected any more.*)
Unscheduled(t) == t.node = 0 \/ t.node \notin ready

(* The candidate with the least name.                                      *)
pickNode == CHOOSE n \in ready : \A m \in ready : n <= m

(* The status keeps the ports the old node reported.                       *)
ControllerSchedules ==
    /\ Takes(Controller)
    /\ tunnel.exists /\ tunnel.body # Invalid /\ Unscheduled(tunnel) /\ ready # {}
    /\ Continues(Controller, [tunnel EXCEPT !.node = pickNode, !.phase = "Pending"], "writeRequeue")
    /\ UNCHANGED <<objects, ready, daemon, events>>

(* An invalid spec fails the tunnel; without a candidate it is degraded.   *)
(* Both set a condition that carries the time.                             *)
ControllerRejects ==
    /\ Takes(Controller)
    /\ tunnel.exists
    /\ \/ tunnel.body = Invalid /\ Continues(Controller, [tunnel EXCEPT !.phase = "Failed"], "writeFailed")
       \/ /\ tunnel.body # Invalid /\ Unscheduled(tunnel) /\ ready = {}
          /\ Continues(Controller, [tunnel EXCEPT !.phase = "Degraded"], "writeDegraded")
    /\ UNCHANGED <<objects, ready, daemon, events>>

(* Mutant: without waiting for a port.                                     *)
PublishesAnyPort(t) == t.expose

(* The Service is published once the agent has reported a port, withdrawn  *)
(* if the status says there is one.                                        *)
Publishes(t) == t.expose /\ t.port # None
Withdraws(t) == ~t.expose /\ t.serviceRef

ControllerServes ==
    /\ Takes(Controller)
    /\ tunnel.exists /\ tunnel.body # Invalid /\ ~Unscheduled(tunnel)
    /\ \/ Publishes(tunnel) /\ Continues(Controller, tunnel, "service")
       \/ Withdraws(tunnel) /\ Continues(Controller, tunnel, "withdraw")
    /\ UNCHANGED <<objects, ready, daemon, events>>

(* The object is gone, or there is nothing to publish or withdraw.         *)
ControllerReturns ==
    /\ Takes(Controller)
    /\ tunnel.exists => /\ tunnel.body # Invalid /\ ~Unscheduled(tunnel)
                        /\ ~Publishes(tunnel) /\ ~Withdraws(tunnel)
    /\ UNCHANGED <<objects, ready, pc, copy, based, daemon, events>>

(* The node is gone when its address is looked up.                         *)
ControllerLosesNode ==
    /\ pc[Controller] = "service"
    /\ copy[Controller].node \notin ready
    /\ copy' = [copy EXCEPT ![Controller].phase = "Degraded"]
    /\ Goes(Controller, "writeDegraded")
    /\ UNCHANGED <<objects, ready, queue, based, daemon, events>>

(* reconcileTunnelService, first the Service and then the Endpoints.       *)
ControllerService ==
    /\ pc[Controller] = "service"
    /\ service' = TRUE
    /\ Goes(Controller, "endpoints")
    /\ UNCHANGED <<tunnel, endpoints, ready, queue, copy, based, daemon, events>>

(* Mutant: existing Endpoints are left as they are.                        *)
ControllerEndpointsOnce ==
    /\ pc[Controller] = "endpoints"
    /\ endpoints' = IF endpoints # None THEN endpoints
                    ELSE [node |-> copy[Controller].node, port |-> copy[Controller].port]
    /\ copy' = [copy EXCEPT ![Controller].serviceRef = TRUE]
    /\ Goes(Controller, "write")
    /\ UNCHANGED <<tunnel, service, ready, queue, based, daemon, events>>

ControllerEndpoints ==
    /\ pc[Controller] = "endpoints"
    /\ endpoints' = [node |-> copy[Controller].node, port |-> copy[Controller].port]
    /\ copy' = [copy EXCEPT ![Controller].serviceRef = TRUE]
    /\ Goes(Controller, "write")
    /\ UNCHANGED <<tunnel, service, ready, queue, based, daemon, events>>

(* deleteTunnelService.                                                    *)
ControllerWithdraws ==
    /\ pc[Controller] = "withdraw"
    /\ service' = FALSE
    /\ endpoints' = None
    /\ copy' = [copy EXCEPT ![Controller].serviceRef = FALSE]
    /\ Goes(Controller, "write")
    /\ UNCHANGED <<tunnel, ready, queue, based, daemon, events>>

(* A call fails, of the two deletions perhaps the second: the error queues *)
(* the request again.                                                      *)
ControllerFails ==
    /\ Disturb
    /\ pc[Controller] \in {"service", "endpoints", "withdraw"}
    /\ service' \in IF pc[Controller] = "withdraw" THEN {service, FALSE} ELSE {service}
    /\ queue' = queue \cup {Controller}
    /\ based' = based \ {Controller}
    /\ Returns(Controller)
    /\ UNCHANGED <<tunnel, endpoints, ready, daemon>>

ControllerNext ==
    /\ \/ ControllerSchedules \/ ControllerRejects \/ ControllerServes \/ ControllerReturns
       \/ ControllerService \/ ControllerLosesNode \/ ControllerEndpoints \/ ControllerWithdraws
       \/ ControllerFails \/ Write(Controller)
    /\ UNCHANGED missed

-----------------------------------------------------------------------------
(* Reconcile of the agent of node n.                                       *)

(* A tunneld starts a tunnel on any free port.                             *)
Starts(n, b) ==
    \E p \in 1 .. MaxPort : daemon' = [daemon EXCEPT ![n] = [body |-> b, port |-> <<n, p>>, status |-> "starting"]]

(* Mutant: a deleted object is forgotten.                                  *)
AgentForgets(n) ==
    /\ Takes(n)
    /\ ~tunnel.exists
    /\ UNCHANGED <<objects, ready, pc, copy, based, daemon, events>>

(* The object is gone: so is the tunnel.                                   *)
AgentDeletes(n) ==
    /\ Takes(n)
    /\ ~tunnel.exists
    /\ daemon' = [daemon EXCEPT ![n] = None]
    /\ UNCHANGED <<objects, ready, pc, copy, based, events>>

(* The tunneld cannot be reached: the error is dropped with the request.   *)
AgentDeleteFails(n) ==
    /\ Disturb
    /\ Takes(n)
    /\ ~tunnel.exists
    /\ missed' = missed \cup {n}
    /\ UNCHANGED <<objects, ready, pc, copy, based, daemon>>

(* The tunnel belongs to another node, or to none yet.                     *)
AgentIgnores(n) ==
    /\ Takes(n)
    /\ tunnel.exists /\ tunnel.node # n
    /\ UNCHANGED <<objects, ready, pc, copy, based, daemon, events>>

AgentAccepts(n) ==
    /\ Takes(n)
    /\ tunnel.exists /\ tunnel.node = n
    /\ Continues(n, tunnel, "push")
    /\ UNCHANGED <<objects, ready, daemon, events>>

(* degrade: the status says so and the request is repeated later.          *)
Degrades(n) ==
    /\ copy' = [copy EXCEPT ![n].phase = "Degraded"]
    /\ Goes(n, "writeRequeue")
    /\ UNCHANGED <<objects, ready, queue, based>>

(* ToProto refuses the spec.                                               *)
AgentCannotConvert(n) ==
    /\ pc[n] = "push"
    /\ copy[n].body = Invalid
    /\ Degrades(n)
    /\ UNCHANGED <<daemon, events>>

(* The key is missing or refused, or Update fails, perhaps between         *)
(* removing the old tunnel and adding the new one.                         *)
AgentDegrades(n) ==
    /\ Disturb
    /\ pc[n] = "push"
    /\ daemon' \in {daemon, [daemon EXCEPT ![n] = None]}
    /\ Degrades(n)

(* Update: an equal spec is started unless it is up, a different one       *)
(* replaces the old one.                                                   *)
AgentPushes(n) ==
    /\ pc[n] = "push"
    /\ copy[n].body # Invalid
    /\ IF daemon[n] # None /\ daemon[n].body = copy[n].body /\ daemon[n].status \in {"starting", "running"}
       THEN UNCHANGED daemon
       ELSE Starts(n, copy[n].body)
    /\ Goes(n, "status")
    /\ UNCHANGED <<objects, ready, queue, copy, based, events>>

mapDaemonPhase == [starting |-> "Pending", running |-> "Healthy", stopped |-> "Stopped", failed |-> "Failed"]

(* What the daemon says of the tunnel goes to the status.                  *)
AgentReports(n) ==
    /\ pc[n] = "status"
    /\ copy' = [copy EXCEPT ![n] =
          IF daemon[n] = None THEN [@ EXCEPT !.phase = "Pending"]
          ELSE [@ EXCEPT !.phase = mapDaemonPhase[daemon[n].status], !.port = daemon[n].port]]
    /\ Goes(n, "writeRequeue")
    /\ UNCHANGED <<objects, ready, queue, based, daemon, events>>

AgentNext(n) ==
    \/ /\ \/ AgentDeletes(n) \/ AgentIgnores(n) \/ AgentAccepts(n)
          \/ AgentCannotConvert(n) \/ AgentDegrades(n) \/ AgentPushes(n) \/ AgentReports(n) \/ Write(n)
       /\ UNCHANGED missed
    \/ AgentDeleteFails(n)

-----------------------------------------------------------------------------
(* The tunneld of node n: the supervisor seen from outside.                *)

DaemonHealthy(n) ==
    /\ daemon[n] # None /\ daemon[n].status = "starting"
    /\ daemon' = [daemon EXCEPT ![n].status = "running"]
    /\ UNCHANGED <<objects, ready, reconcilers, missed, events>>

(* A restart resolves dynamic ports again.                                 *)
DaemonRestarts(n) ==
    /\ daemon[n] # None /\ daemon[n].status \in {"stopped", "failed"}
    /\ Starts(n, daemon[n].body)
    /\ UNCHANGED <<objects, ready, reconcilers, missed, events>>

(* The child ends, with an error or without, or the tunneld crashes and    *)
(* forgets its tunnels, which are not persistent.                          *)
DaemonFails(n) ==
    /\ Disturb
    /\ daemon[n] # None
    /\ \/ \E s \in {"stopped", "failed"} : daemon' = [daemon EXCEPT ![n].status = s]
       \/ daemon' = [daemon EXCEPT ![n] = None]
    /\ UNCHANGED <<objects, ready, reconcilers, missed>>

-----------------------------------------------------------------------------
(* The cluster.                                                            *)

(* A client edits the spec.                                                *)
Edit ==
    /\ Disturb
    /\ tunnel.exists
    /\ \E b \in Bodies \cup {Invalid}, e \in BOOLEAN :
          /\ <<b, e>> # <<tunnel.body, tunnel.expose>>
          /\ tunnel' = [tunnel EXCEPT !.body = b, !.expose = e]
    /\ Changes
    /\ UNCHANGED <<service, endpoints, ready, pc, copy, daemon, missed>>

Delete ==
    /\ tunnel.exists
    /\ tunnel' = [tunnel EXCEPT !.exists = FALSE]
    /\ Changes
    /\ UNCHANGED <<service, endpoints, ready, pc, copy, daemon, missed, events>>

(* Nobody watches nodes: the change is seen by the next Reconcile.         *)
NodeChanges(n) ==
    /\ Disturb
    /\ ready' = IF n \in ready THEN ready \ {n} ELSE ready \cup {n}
    /\ UNCHANGED <<objects, reconcilers, daemon, missed>>

(* The periodic resync of the controller's cache.                          *)
Resync ==
    /\ tunnel.exists
    /\ Controller \notin queue
    /\ queue' = queue \cup {Controller}
    /\ UNCHANGED <<objects, ready, pc, copy, based, daemon, missed, events>>

(* The Service and the Endpoints are owned by the Tunnel.                  *)
Collect ==
    /\ ~tunnel.exists
    /\ service \/ endpoints # None
    /\ service' = FALSE /\ endpoints' = None
    /\ UNCHANGED <<tunnel, ready, reconcilers, daemon, missed, events>>

(* The controller or an agent dies, wherever it is, and comes up again: it *)
(* lists the objects that exist.                                           *)
Restarts(r) ==
    /\ Disturb
    /\ Returns(r)
    /\ based' = based \ {r}
    /\ queue' = IF tunnel.exists THEN queue \cup {r} ELSE queue \ {r}
    /\ missed' = IF tunnel.exists THEN missed ELSE missed \cup ({r} \cap Nodes)
    /\ UNCHANGED <<objects, ready, daemon>>

Next ==
    \/ ControllerNext
    \/ \E n \in Nodes :
          \/ AgentNext(n) \/ NodeChanges(n)
          \/ DaemonHealthy(n) \/ DaemonRestarts(n) \/ DaemonFails(n)
    \/ Edit \/ Delete \/ Resync \/ Collect
    \/ \E r \in Reconcilers : Restarts(r)

Spec == Init /\ [][Next]_vars

(* Queued requests are handled, children come up, and what a deleted       *)
(* object owned is collected.  Disturbances are free.                      *)
Fairness ==
    /\ WF_vars(ControllerNext)
    /\ \A n \in Nodes :
          /\ WF_vars(AgentNext(n))
          /\ WF_vars(DaemonHealthy(n)) /\ WF_vars(DaemonRestarts(n))
    /\ WF_vars(Collect)

FairSpec == Spec /\ Fairness

-----------------------------------------------------------------------------
(* Properties.                                                             *)

(* A report of an agent reaches the object only while the tunnel is still  *)
(* assigned to its node: one that was overtaken by rescheduling is refused *)
(* (reconciler.go:98).                                                     *)
ReportsAreCurrent ==
    [][\A n \in Nodes :
          pc[n] = "writeRequeue" /\ pc'[n] = "idle" /\ tunnel' # tunnel => tunnel.node = n]_vars

(* The tunnel can be published: it is wanted, valid, and on a ready node.  *)
Publishable ==
    tunnel.exists /\ tunnel.expose /\ tunnel.body # Invalid /\ tunnel.node \in ready

(* Once the disturbances end the Endpoints come to lead to the port the    *)
(* tunnel really has on its node (tunnel_controller.go:74), although three *)
(* parties write, every dynamic port changes with each restart, and        *)
(* controller, agent or tunneld may die between any two of their steps.    *)
EndpointsConverge ==
    <>[](Publishable =>
            /\ daemon[tunnel.node] # None
            /\ endpoints = [node |-> tunnel.node, port |-> daemon[tunnel.node].port])

(* A deleted tunnel disappears from every node that ever ran it, and its   *)
(* Service with it (reconciler.go:43), whatever was under way: only an     *)
(* agent that dies after the deletion never hears of it, and only one      *)
(* whose tunneld fails the request that follows does not try again.        *)
DeletedIsCleaned ==
    ~tunnel.exists ~> (endpoints = None /\ \A n \in Nodes \ missed : daemon[n] = None)
=============================================================================
