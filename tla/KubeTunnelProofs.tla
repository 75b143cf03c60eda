-------------------------- MODULE KubeTunnelProofs --------------------------
(* Proofs about KubeTunnel, for any set of nodes, ports and disturbances.  *)
EXTENDS KubeTunnel, FiniteSetTheorems, WellFoundedInduction, TLAPS

AgentPcs == {"idle", "push", "status", "writeRequeue"}
ControllerPcs == {"idle", "service", "endpoints", "withdraw"} \cup WriteLabels

(* What a Reconcile under way has in hand.                                 *)
HandOK ==
    /\ \A r \in Reconcilers : pc[r] # "idle" => copy[r] \in Tunnels
    /\ \A r \in based : pc[r] # "idle"
    /\ pc[Controller] \in ControllerPcs
    /\ pc[Controller] \in {"service", "endpoints"} =>
          copy[Controller].node \in Nodes /\ copy[Controller].port # None
    /\ \A n \in Nodes : pc[n] \in AgentPcs /\ (pc[n] # "idle" => copy[n].node = n)

(* What a current copy shares with the object: all but the part of the     *)
(* status that its reconciler writes.                                      *)
Shares(r, t, u) ==
    /\ t.exists = u.exists /\ t.body = u.body /\ t.expose = u.expose
    /\ IF r = Controller THEN t.port = u.port
       ELSE t.node = u.node /\ t.serviceRef = u.serviceRef

BasedOK == \A r \in based : Shares(r, copy[r], tunnel)

KInv == TypeOK /\ HandOK /\ BasedOK

LEMMA Distinct ==
  /\ Controller \notin Nodes /\ Controller \in Reconcilers /\ Nodes \subseteq Reconcilers
  /\ \A r \in Reconcilers : r = Controller \/ r \in Nodes
  BY KubeAssumption DEF Controller, Reconcilers

(* A finite set of numbers has a least one: the strict subset ordering is  *)
(* well founded, and so one of its initial segments is least.              *)
LEMMA Least ==
  ASSUME NEW S, S \subseteq Nat, IsFiniteSet(S), S # {}
  PROVE  \E n \in S : \A m \in S : n <= m
<1> DEFINE Below(n) == {m \in S : m <= n}
           T == {Below(n) : n \in S}
<1>1. IsWellFoundedOn(StrictSubsetOrdering(S), SUBSET S)
  BY FS_StrictSubsetOrderingWellFounded, FS_FiniteSubsetsOfFinite
<1>2. T \subseteq SUBSET S /\ T # {}
  OBVIOUS
<1>3. PICK x \in T : \A y \in T : ~(<<y, x>> \in StrictSubsetOrdering(S))
  <2> DEFINE R == StrictSubsetOrdering(S)
             W == SUBSET S
  <2>1. IsWellFoundedOn(R, W) /\ T \subseteq W /\ T # {}
    BY <1>1, <1>2
  <2>2. \E x \in T : \A y \in T : ~(<<y, x>> \in R)
    <3> HIDE DEF T, R, W
    <3> QED
      BY <2>1, WFMin
  <2> QED
    BY <2>2
<1>4. PICK n \in S : x = Below(n)
  OBVIOUS
<1>5. ASSUME NEW m \in S, m < n PROVE FALSE
  <2>1. n \in Nat /\ m \in Nat /\ \A i \in S : i \in Nat
    OBVIOUS
  <2>2. n \notin Below(m) /\ n \in Below(n) /\ \A i \in Below(m) : i \in Below(n)
    BY <1>5, <2>1
  <2>3. <<Below(m), Below(n)>> \in StrictSubsetOrdering(S)
    BY <2>2 DEF StrictSubsetOrdering
  <2> QED
    BY <1>3, <1>4, <2>3
<1> QED
  BY <1>5

(* The order of the names has a least candidate.                           *)
LEMMA Picked == ASSUME ready \in SUBSET Nodes, ready # {} PROVE pickNode \in Nodes
<1>1. IsFiniteSet(ready) /\ ready \subseteq Nat
  BY FS_Subset, KubeAssumption
<1>2. \E n \in ready : \A m \in ready : n <= m
  BY <1>1, Least
<1> QED
  BY <1>2 DEF pickNode

(* The updates of a Tunnel object the reconcilers and clients make.        *)
LEMMA Updated ==
  ASSUME NEW t \in Tunnels
  PROVE  /\ \A n \in Nodes \cup {0}, p \in Phases : [t EXCEPT !.node = n, !.phase = p] \in Tunnels
         /\ \A p \in Phases : [t EXCEPT !.phase = p] \in Tunnels
         /\ \A p \in Phases, q \in ActualPorts : [t EXCEPT !.phase = p, !.port = q] \in Tunnels
         /\ \A s \in BOOLEAN : [t EXCEPT !.serviceRef = s] \in Tunnels
         /\ \A b \in Bodies \cup {Invalid}, e \in BOOLEAN : [t EXCEPT !.body = b, !.expose = e] \in Tunnels
         /\ \A e \in BOOLEAN : [t EXCEPT !.exists = e] \in Tunnels
  BY DEF Tunnels

LEMMA KubeInit == Init => KInv
<1> SUFFICES ASSUME Init PROVE KInv
  OBVIOUS
<1>1. tunnel \in Tunnels
  <2>1. PICK b \in Bodies :
           tunnel = [exists |-> TRUE, body |-> b, expose |-> TRUE,
                     node |-> 0, phase |-> "", port |-> None, serviceRef |-> FALSE]
    BY DEF Init
  <2> QED
    BY <2>1 DEF Tunnels, Phases
<1>2. TypeOK
  <2>1. pc \in [Reconcilers -> {"idle", "service", "endpoints", "withdraw", "push", "status"} \cup WriteLabels]
    BY DEF Init
  <2>2. copy \in [Reconcilers -> Tunnels \cup {None}] /\ daemon \in [Nodes -> DaemonTunnels \cup {None}]
    BY DEF Init
  <2>3. events \in 0 .. MaxEvents
    <3>1. events = 0 /\ MaxEvents \in Nat
      BY KubeAssumption DEF Init
    <3> QED
      BY <3>1
  <2> QED
    BY <1>1, <2>1, <2>2, <2>3 DEF Init, TypeOK
<1>3. HandOK /\ BasedOK
  BY Distinct DEF Init, HandOK, BasedOK, ControllerPcs, AgentPcs
<1> QED
  BY <1>2, <1>3 DEF KInv

(* A change of the object leaves no copy current.                          *)
LEMMA KubeWrite ==
  ASSUME KInv, NEW r \in Reconcilers, Write(r), missed' = missed
  PROVE  /\ KInv'
         /\ tunnel' # tunnel => Shares(r, tunnel', tunnel)
<1> USE DEF KInv, TypeOK
<1>1. copy[r] \in Tunnels /\ pc[r] # "idle"
  BY DEF Write, WriteLabels, Stamped, HandOK
<1>2. tunnel' \in Tunnels /\ queue' \in SUBSET Reconcilers /\ based' \in SUBSET Reconcilers
  BY <1>1 DEF Write, UpdateStatus, Changes
<1>3. /\ pc' = [pc EXCEPT ![r] = "idle"] /\ copy' = [copy EXCEPT ![r] = None]
      /\ UNCHANGED <<service, endpoints, ready, daemon, events, missed>>
  BY DEF Write, Returns
<1>4. TypeOK'
  BY <1>2, <1>3
<1>5. based' = {} \/ (based' \subseteq based \ {r} /\ tunnel' = tunnel)
  BY <1>1 DEF Write, UpdateStatus, Changes
<1>6. HandOK'
  BY <1>3, <1>5, Distinct DEF HandOK, ControllerPcs, AgentPcs
<1>7. BasedOK'
  BY <1>3, <1>5 DEF BasedOK, Shares
<1>8. tunnel' # tunnel => r \in based /\ tunnel' = copy[r]
  BY DEF Write, UpdateStatus
<1> QED
  BY <1>4, <1>6, <1>7, <1>8 DEF BasedOK

(* Reconcile reads the object and goes on with a copy that is current.     *)
LEMMA KubeTakes ==
  ASSUME KInv, NEW r \in Reconcilers, Takes(r), NEW t \in Tunnels, NEW label,
         label \in {"service", "endpoints", "withdraw", "push", "status"} \cup WriteLabels,
         Continues(r, t, label), Shares(r, t, tunnel),
         IF r = Controller
         THEN \/ label \in ControllerPcs \ {"idle", "service", "endpoints"}
              \/ label = "service" /\ t.node \in Nodes /\ t.port # None
         ELSE label = "push" /\ t.node = r,
         UNCHANGED <<objects, ready, daemon, missed, events>>
  PROVE  KInv'
<1> USE DEF KInv, TypeOK, Takes, Continues, objects
<1>1. TypeOK'
  OBVIOUS
<1>2. HandOK'
  <2>1. label # "idle"
    BY DEF WriteLabels, Stamped
  <2>2. CASE r = Controller
    BY <2>1, <2>2, Distinct DEF HandOK, ControllerPcs
  <2>3. CASE r \in Nodes
    BY <2>1, <2>3, Distinct DEF HandOK, AgentPcs
  <2> QED
    BY <2>2, <2>3, Distinct
<1>3. BasedOK'
  BY DEF BasedOK, Shares
<1> QED
  BY <1>1, <1>2, <1>3

(* A request that leads to nothing.                                        *)
LEMMA KubeIgnores ==
  ASSUME KInv, NEW r \in Reconcilers, Takes(r), daemon' \in [Nodes -> DaemonTunnels \cup {None}],
         missed' \in SUBSET Nodes, events' \in 0 .. MaxEvents,
         UNCHANGED <<objects, ready, pc, copy, based>>
  PROVE  KInv'
  BY DEF KInv, TypeOK, HandOK, BasedOK, Shares, Takes, objects

LEMMA KubeDisturbs == TypeOK /\ Disturb => events' \in 0 .. MaxEvents
<1> SUFFICES ASSUME TypeOK, Disturb PROVE events' \in 0 .. MaxEvents
  OBVIOUS
<1>1. MaxEvents \in Nat
  BY KubeAssumption
<1> QED
  BY <1>1 DEF TypeOK, Disturb

(* A step of a reconciler under way that does not touch the object.        *)
LEMMA KubeGoes ==
  ASSUME KInv, NEW r \in Reconcilers, pc[r] # "idle", NEW label,
         label \in {"service", "endpoints", "withdraw", "push", "status"} \cup WriteLabels,
         Goes(r, label), copy'[r] \in Tunnels, copy' = [copy EXCEPT ![r] = copy'[r]],
         Shares(r, copy'[r], copy[r]),
         IF r = Controller THEN label \in ControllerPcs \ {"idle", "service"}
                                /\ (label = "endpoints" => copy'[r].node \in Nodes /\ copy'[r].port # None)
         ELSE label \in AgentPcs \ {"idle"} /\ copy'[r].node = copy[r].node,
         service' \in BOOLEAN, endpoints' \in [node : Nodes, port : ActualPorts] \cup {None},
         daemon' \in [Nodes -> DaemonTunnels \cup {None}], events' \in 0 .. MaxEvents,
         UNCHANGED <<tunnel, ready, queue, based, missed>>
  PROVE  KInv'
<1> USE DEF KInv, TypeOK, Goes
<1> DEFINE t == copy'[r]
<1>0. t \in Tunnels /\ copy' = [copy EXCEPT ![r] = t]
  OBVIOUS
<1>1. TypeOK'
  BY <1>0
<1>2. HandOK'
  <2>1. label # "idle"
    BY DEF WriteLabels, Stamped
  <2>2. CASE r = Controller
    BY <1>0, <2>1, <2>2, Distinct DEF HandOK, ControllerPcs
  <2>3. CASE r \in Nodes
    BY <1>0, <2>1, <2>3, Distinct DEF HandOK, AgentPcs
  <2> QED
    BY <2>2, <2>3, Distinct
<1>3. BasedOK'
  BY <1>0 DEF BasedOK, Shares
<1> QED
  BY <1>1, <1>2, <1>3

(* A step that drops what a reconciler had in hand.                        *)
LEMMA KubeDrops ==
  ASSUME KInv, NEW r \in Reconcilers, Returns(r), based' = based \ {r},
         queue' \in SUBSET Reconcilers, service' \in BOOLEAN, missed' \in SUBSET Nodes, Disturb,
         UNCHANGED <<tunnel, endpoints, ready, daemon>>
  PROVE  KInv'
<1> USE DEF KInv, TypeOK, Returns
<1>1. TypeOK'
  BY KubeDisturbs
<1>2. HandOK'
  BY Distinct DEF HandOK, ControllerPcs, AgentPcs
<1>3. BasedOK'
  BY DEF BasedOK, Shares
<1> QED
  BY <1>1, <1>2, <1>3

-----------------------------------------------------------------------------
LEMMA ControllerTakes ==
  ASSUME KInv, Takes(Controller), NEW t \in Tunnels, NEW label,
         \/ label \in {"withdraw", "writeRequeue", "writeFailed", "writeDegraded"}
         \/ label = "service" /\ t.node \in Nodes /\ t.port # None,
         Continues(Controller, t, label), Shares(Controller, t, tunnel),
         UNCHANGED <<objects, ready, daemon, missed, events>>
  PROVE  KInv'
<1>1. /\ label \in {"service", "endpoints", "withdraw", "push", "status"} \cup WriteLabels
      /\ \/ label \in ControllerPcs \ {"idle", "service", "endpoints"}
         \/ label = "service" /\ t.node \in Nodes /\ t.port # None
  BY DEF ControllerPcs, WriteLabels, Stamped
<1> QED
  BY <1>1, KubeTakes, Distinct

LEMMA KubeReads ==
  ASSUME KInv, missed' = missed,
         ControllerSchedules \/ ControllerRejects \/ ControllerServes \/ ControllerReturns
  PROVE  KInv'
<1>0. tunnel \in Tunnels /\ ready \in SUBSET Nodes /\ tunnel.node \in Nodes \cup {0}
  BY DEF KInv, TypeOK, Tunnels
<1>1. CASE ControllerSchedules
  <2> DEFINE t == [tunnel EXCEPT !.node = pickNode, !.phase = "Pending"]
  <2>1. pickNode \in Nodes
    BY <1>0, <1>1, Picked DEF ControllerSchedules
  <2>2. t \in Tunnels
    BY <1>0, <2>1, Updated DEF Phases
  <2>3. Shares(Controller, t, tunnel)
    BY <1>0 DEF Shares, Tunnels
  <2>4. Takes(Controller) /\ Continues(Controller, t, "writeRequeue")
        /\ UNCHANGED <<objects, ready, daemon, missed, events>>
    BY <1>1 DEF ControllerSchedules
  <2> HIDE DEF t
  <2> QED
    BY <2>2, <2>3, <2>4, ControllerTakes
<1>2. CASE ControllerRejects
  <2>1. PICK p \in {"Failed", "Degraded"}, label \in {"writeFailed", "writeDegraded"} :
           Continues(Controller, [tunnel EXCEPT !.phase = p], label)
    BY <1>2 DEF ControllerRejects
  <2> DEFINE t == [tunnel EXCEPT !.phase = p]
  <2>2. t \in Tunnels
    BY <1>0, Updated DEF Phases
  <2>3. Shares(Controller, t, tunnel)
    BY <1>0 DEF Shares, Tunnels
  <2>4. Takes(Controller) /\ Continues(Controller, t, label)
        /\ UNCHANGED <<objects, ready, daemon, missed, events>>
    BY <1>2, <2>1 DEF ControllerRejects
  <2> HIDE DEF t
  <2> QED
    BY <2>2, <2>3, <2>4, ControllerTakes
<1>3. CASE ControllerServes
  <2>1. Takes(Controller) /\ UNCHANGED <<objects, ready, daemon, missed, events>>
    BY <1>3 DEF ControllerServes
  <2>2. Shares(Controller, tunnel, tunnel) /\ tunnel.node \in Nodes
    BY <1>0, <1>3 DEF Shares, ControllerServes, Unscheduled
  <2>3. CASE Publishes(tunnel) /\ Continues(Controller, tunnel, "service")
    BY <1>0, <2>1, <2>2, <2>3, ControllerTakes DEF Publishes
  <2>4. CASE Continues(Controller, tunnel, "withdraw")
    BY <1>0, <2>1, <2>2, <2>4, ControllerTakes
  <2> QED
    BY <1>3, <2>3, <2>4 DEF ControllerServes
<1>4. CASE ControllerReturns
  BY <1>4, KubeIgnores, Distinct DEF ControllerReturns, KInv, TypeOK
<1> QED
  BY <1>1, <1>2, <1>3, <1>4

LEMMA KubePublishes ==
  ASSUME KInv, missed' = missed,
         ControllerService \/ ControllerLosesNode \/ ControllerEndpoints \/ ControllerWithdraws
  PROVE  KInv'
<1> DEFINE c == copy[Controller]
           d == copy'[Controller]
<1>1. /\ Controller \in Reconcilers /\ pc[Controller] \in {"service", "endpoints", "withdraw"}
      /\ UNCHANGED <<tunnel, ready, queue, based, missed, daemon, events>>
  BY Distinct DEF ControllerService, ControllerLosesNode, ControllerEndpoints, ControllerWithdraws, objects
<1>2. c \in Tunnels /\ TypeOK /\ copy \in [Reconcilers -> Tunnels \cup {None}]
  BY <1>1 DEF KInv, HandOK, TypeOK
<1>3. pc[Controller] \in {"service", "endpoints"} => c.node \in Nodes /\ c.port # None
  BY DEF KInv, HandOK
<1>4. d \in Tunnels /\ Shares(Controller, d, c) /\ copy' = [copy EXCEPT ![Controller] = d]
  <2>1. CASE ControllerService
    BY <1>1, <1>2, <2>1 DEF ControllerService, Shares
  <2>2. CASE ControllerLosesNode
    <3>1. copy' = [copy EXCEPT ![Controller] = [c EXCEPT !.phase = "Degraded"]]
      BY <2>2 DEF ControllerLosesNode
    <3>2. d = [c EXCEPT !.phase = "Degraded"]
      BY <1>1, <1>2, <3>1
    <3>3. d \in Tunnels
      BY <1>2, <3>2, Updated DEF Phases
    <3>4. Shares(Controller, d, c)
      BY <1>2, <3>2 DEF Shares, Tunnels
    <3> QED
      BY <3>1, <3>2, <3>3, <3>4
  <2>3. CASE ControllerEndpoints \/ ControllerWithdraws
    <3>1. PICK s \in BOOLEAN : copy' = [copy EXCEPT ![Controller] = [c EXCEPT !.serviceRef = s]]
      BY <2>3 DEF ControllerEndpoints, ControllerWithdraws
    <3>2. d = [c EXCEPT !.serviceRef = s]
      BY <1>1, <1>2, <3>1
    <3>3. d \in Tunnels
      BY <1>2, <3>2, Updated, ZenonT(60)
    <3>4. Shares(Controller, d, c)
      BY <1>2, <3>2 DEF Shares, Tunnels
    <3> QED
      BY <3>1, <3>2, <3>3, <3>4
  <2> QED
    BY <2>1, <2>2, <2>3
<1>5. service' \in BOOLEAN /\ endpoints' \in [node : Nodes, port : ActualPorts] \cup {None}
  <2>1. CASE ControllerEndpoints
    <3>1. c.node \in Nodes /\ c.port \in ActualPorts
      BY <1>2, <1>3, <2>1 DEF ControllerEndpoints, Tunnels
    <3> QED
      BY <1>2, <2>1, <3>1 DEF ControllerEndpoints, TypeOK
  <2>2. CASE ~ControllerEndpoints
    BY <1>2, <2>2 DEF ControllerService, ControllerLosesNode, ControllerWithdraws, TypeOK, objects
  <2> QED
    BY <2>1, <2>2
<1>6. PICK label \in {"endpoints", "write", "writeDegraded"} :
         Goes(Controller, label) /\ (label = "endpoints" => pc[Controller] = "service" /\ copy' = copy)
  BY DEF ControllerService, ControllerLosesNode, ControllerEndpoints, ControllerWithdraws
<1>7. label = "endpoints" => d.node \in Nodes /\ d.port # None
  BY <1>3, <1>6
<1>8. /\ label \in {"service", "endpoints", "withdraw", "push", "status"} \cup WriteLabels
      /\ label \in ControllerPcs \ {"idle", "service"}
      /\ daemon' \in [Nodes -> DaemonTunnels \cup {None}] /\ events' \in 0 .. MaxEvents
  BY <1>1, <1>2, <1>6 DEF ControllerPcs, WriteLabels, Stamped, TypeOK
<1> HIDE DEF c, d
<1> QED
  BY <1>1, <1>4, <1>5, <1>6, <1>7, <1>8, KubeGoes DEF c, d

LEMMA KubeFails ==
  ASSUME KInv, missed' = missed, ControllerFails PROVE KInv'
  BY KubeDrops, Distinct DEF ControllerFails, KInv, TypeOK

LEMMA KubeController ==
  ASSUME KInv, ControllerNext PROVE KInv'
  BY KubeReads, KubePublishes, KubeFails, KubeWrite, Distinct DEF ControllerNext

-----------------------------------------------------------------------------
LEMMA KubeStarts ==
  ASSUME TypeOK, NEW n \in Nodes, NEW b \in Bodies, Starts(n, b)
  PROVE  daemon' \in [Nodes -> DaemonTunnels \cup {None}]
<1>1. PICK p \in 1 .. MaxPort :
         daemon' = [daemon EXCEPT ![n] = [body |-> b, port |-> <<n, p>>, status |-> "starting"]]
  BY DEF Starts
<1>2. [body |-> b, port |-> <<n, p>>, status |-> "starting"] \in DaemonTunnels
  BY DEF DaemonTunnels, ActualPorts
<1> QED
  BY <1>1, <1>2 DEF TypeOK

(* A step of the agent of n at its daemon or towards its report.           *)
LEMMA AgentGoes ==
  ASSUME KInv, NEW n \in Nodes, pc[n] # "idle", NEW t \in Tunnels, NEW label \in {"status", "writeRequeue"},
         Goes(n, label), copy' = [copy EXCEPT ![n] = t], Shares(n, t, copy[n]), t.node = copy[n].node,
         daemon' \in [Nodes -> DaemonTunnels \cup {None}], events' \in 0 .. MaxEvents,
         UNCHANGED <<objects, ready, queue, based, missed>>
  PROVE  KInv'
<1>1. n \in Reconcilers /\ n # Controller
  BY Distinct
<1>2. copy'[n] = t
  BY <1>1 DEF KInv, TypeOK
<1>3. /\ label \in {"service", "endpoints", "withdraw", "push", "status"} \cup WriteLabels
      /\ label \in AgentPcs \ {"idle"}
  BY DEF WriteLabels, Stamped, AgentPcs
<1>4. UNCHANGED <<tunnel, service, endpoints>>
  BY DEF objects
<1>5. service' \in BOOLEAN /\ endpoints' \in [node : Nodes, port : ActualPorts] \cup {None}
  BY <1>4 DEF KInv, TypeOK
<1> QED
  BY <1>1, <1>2, <1>3, <1>4, <1>5, KubeGoes

(* The reports: another phase, and a port when the daemon has the tunnel.  *)
LEMMA Reported ==
  ASSUME NEW n \in Nodes, NEW t \in Tunnels, NEW u,
         \/ \E p \in Phases : u = [t EXCEPT !.phase = p]
         \/ \E p \in Phases, q \in ActualPorts : u = [t EXCEPT !.phase = p, !.port = q]
  PROVE  u \in Tunnels /\ Shares(n, u, t) /\ u.node = t.node
<1>1. u \in Tunnels
  <2>1. ASSUME NEW p \in Phases, u = [t EXCEPT !.phase = p] PROVE u \in Tunnels
    BY <2>1, Updated
  <2>2. ASSUME NEW p \in Phases, NEW q \in ActualPorts, u = [t EXCEPT !.phase = p, !.port = q]
        PROVE  u \in Tunnels
    BY <2>2, Updated
  <2> QED
    BY <2>1, <2>2
<1>2. n # Controller
  BY Distinct
<1>3. u.exists = t.exists /\ u.body = t.body /\ u.expose = t.expose /\ u.node = t.node
      /\ u.serviceRef = t.serviceRef
  BY DEF Tunnels
<1> QED
  BY <1>1, <1>2, <1>3 DEF Shares

LEMMA KubeAgent ==
  ASSUME KInv, NEW n \in Nodes, AgentNext(n) PROVE KInv'
<1>0. /\ n \in Reconcilers /\ n # Controller /\ missed \in SUBSET Nodes /\ events \in 0 .. MaxEvents
      /\ TypeOK /\ tunnel \in Tunnels /\ daemon \in [Nodes -> DaemonTunnels \cup {None}]
      /\ copy \in [Reconcilers -> Tunnels \cup {None}]
      /\ pc[n] # "idle" => copy[n] \in Tunnels
  BY Distinct DEF KInv, TypeOK, HandOK
<1>1. CASE AgentDeleteFails(n)
  <2>1. missed' \in SUBSET Nodes /\ events' \in 0 .. MaxEvents
    BY <1>0, <1>1, KubeDisturbs DEF AgentDeleteFails
  <2> QED
    BY <1>0, <1>1, <2>1, KubeIgnores DEF AgentDeleteFails
<1>2. AgentDeleteFails(n) \/ missed' = missed
  BY DEF AgentNext
<1>3. CASE AgentDeletes(n) /\ missed' = missed
  <2>1. daemon' \in [Nodes -> DaemonTunnels \cup {None}]
    BY <1>0, <1>3 DEF AgentDeletes
  <2> QED
    BY <1>0, <1>3, <2>1, KubeIgnores DEF AgentDeletes
<1>4. CASE AgentIgnores(n) /\ missed' = missed
  BY <1>0, <1>4, KubeIgnores DEF AgentIgnores
<1>5. CASE AgentAccepts(n) /\ missed' = missed
  BY <1>0, <1>5, KubeTakes DEF AgentAccepts, Shares
<1>6. CASE (AgentCannotConvert(n) \/ AgentDegrades(n)) /\ missed' = missed
  <2> DEFINE t == [copy[n] EXCEPT !.phase = "Degraded"]
  <2>1. pc[n] = "push" /\ Degrades(n)
    BY <1>6 DEF AgentCannotConvert, AgentDegrades
  <2>2. copy' = [copy EXCEPT ![n] = t] /\ Goes(n, "writeRequeue") /\ UNCHANGED <<objects, ready, queue, based>>
    BY <2>1 DEF Degrades
  <2>3. t \in Tunnels /\ Shares(n, t, copy[n]) /\ t.node = copy[n].node
    BY <1>0, <2>1, Reported DEF Phases
  <2>4. daemon' \in [Nodes -> DaemonTunnels \cup {None}]
    BY <1>0, <1>6 DEF AgentCannotConvert, AgentDegrades
  <2>5. events' \in 0 .. MaxEvents
    BY <1>0, <1>6, KubeDisturbs DEF AgentCannotConvert, AgentDegrades, TypeOK
  <2> HIDE DEF t
  <2> QED
    BY <1>0, <1>6, <2>1, <2>2, <2>3, <2>4, <2>5, AgentGoes
<1>7. CASE AgentPushes(n) /\ missed' = missed
  <2>1. pc[n] = "push" /\ copy[n].body \in Bodies
    BY <1>0, <1>7 DEF AgentPushes, Tunnels
  <2>2. daemon' \in [Nodes -> DaemonTunnels \cup {None}]
    BY <1>0, <1>7, <2>1, KubeStarts DEF AgentPushes
  <2>3. copy' = [copy EXCEPT ![n] = copy[n]] /\ Shares(n, copy[n], copy[n])
    BY <1>0, <1>7 DEF AgentPushes, Shares
  <2>4. events' \in 0 .. MaxEvents /\ Goes(n, "status") /\ UNCHANGED <<objects, ready, queue, based>>
    BY <1>0, <1>7 DEF AgentPushes, TypeOK
  <2> QED
    BY <1>0, <1>7, <2>1, <2>2, <2>3, <2>4, AgentGoes
<1>8. CASE AgentReports(n) /\ missed' = missed
  <2> DEFINE t == IF daemon[n] = None THEN [copy[n] EXCEPT !.phase = "Pending"]
                  ELSE [copy[n] EXCEPT !.phase = mapDaemonPhase[daemon[n].status], !.port = daemon[n].port]
  <2>1. pc[n] = "status" /\ copy' = [copy EXCEPT ![n] = t] /\ Goes(n, "writeRequeue")
        /\ UNCHANGED <<objects, ready, queue, based, daemon, events>>
    BY <1>8 DEF AgentReports
  <2>2. daemon[n] # None => mapDaemonPhase[daemon[n].status] \in Phases /\ daemon[n].port \in ActualPorts
    <3> SUFFICES ASSUME daemon[n] # None
                 PROVE  mapDaemonPhase[daemon[n].status] \in Phases /\ daemon[n].port \in ActualPorts
      OBVIOUS
    <3>1. daemon[n] \in DaemonTunnels
      BY <1>0
    <3>2. daemon[n].port \in ActualPorts /\ daemon[n].status \in {"starting", "running", "stopped", "failed"}
      BY <3>1 DEF DaemonTunnels
    <3>3. /\ mapDaemonPhase["starting"] = "Pending"
          /\ mapDaemonPhase["running"] = "Healthy"
          /\ mapDaemonPhase["stopped"] = "Stopped"
          /\ mapDaemonPhase["failed"] = "Failed"
      BY DEF mapDaemonPhase
    <3> QED
      BY <3>2, <3>3 DEF Phases
  <2>3. t \in Tunnels /\ Shares(n, t, copy[n]) /\ t.node = copy[n].node
    <3>1. CASE daemon[n] = None
      BY <1>0, <2>1, <3>1, Reported DEF Phases
    <3>2. CASE daemon[n] # None
      BY <1>0, <2>1, <2>2, <3>2, Reported
    <3> QED
      BY <3>1, <3>2
  <2>4. daemon' \in [Nodes -> DaemonTunnels \cup {None}] /\ events' \in 0 .. MaxEvents
    BY <1>0, <2>1 DEF TypeOK
  <2> HIDE DEF t
  <2> QED
    BY <1>0, <1>8, <2>1, <2>3, <2>4, AgentGoes
<1> QED
  BY <1>0, <1>1, <1>2, <1>3, <1>4, <1>5, <1>6, <1>7, <1>8, KubeWrite DEF AgentNext

-----------------------------------------------------------------------------
LEMMA KubeDaemon ==
  ASSUME KInv, NEW n \in Nodes, DaemonHealthy(n) \/ DaemonRestarts(n) \/ DaemonFails(n)
  PROVE  KInv'
<1>0. TypeOK
  BY DEF KInv
<1>1. UNCHANGED <<objects, ready, reconcilers, missed>>
  BY DEF DaemonHealthy, DaemonRestarts, DaemonFails
<1>2. daemon[n] # None => /\ daemon[n] \in DaemonTunnels /\ daemon[n].body \in Bodies
                          /\ \A s \in {"running", "stopped", "failed"} : [daemon[n] EXCEPT !.status = s] \in DaemonTunnels
  BY <1>0 DEF TypeOK, DaemonTunnels
<1>3. daemon' \in [Nodes -> DaemonTunnels \cup {None}]
  <2>1. CASE DaemonRestarts(n)
    BY <1>0, <1>2, <2>1, KubeStarts DEF DaemonRestarts
  <2>2. CASE DaemonHealthy(n) \/ DaemonFails(n)
    BY <1>0, <1>2, <2>2 DEF DaemonHealthy, DaemonFails, TypeOK
  <2> QED
    BY <2>1, <2>2
<1>4. events' \in 0 .. MaxEvents
  BY <1>0, KubeDisturbs DEF DaemonHealthy, DaemonRestarts, DaemonFails, TypeOK
<1> QED
  BY <1>1, <1>3, <1>4 DEF KInv, TypeOK, HandOK, BasedOK, Shares, objects, reconcilers

LEMMA KubeCluster ==
  ASSUME KInv, Edit \/ Delete \/ Resync \/ Collect \/ \E n \in Nodes : NodeChanges(n)
  PROVE  KInv'
<1>0. TypeOK /\ HandOK /\ tunnel \in Tunnels
  BY DEF KInv, TypeOK
<1> USE DEF objects, reconcilers
<1>1. CASE Edit
  <2>1. tunnel' \in Tunnels
    <3>1. PICK b \in Bodies \cup {Invalid}, e \in BOOLEAN : tunnel' = [tunnel EXCEPT !.body = b, !.expose = e]
      BY <1>1 DEF Edit
    <3> QED
      BY <1>0, <3>1, Updated
  <2>2. TypeOK'
    BY <1>0, <1>1, <2>1, KubeDisturbs DEF Edit, Changes, TypeOK
  <2> QED
    BY <1>0, <1>1, <2>2 DEF Edit, Changes, KInv, HandOK, BasedOK
<1>2. CASE Delete
  <2>1. tunnel' \in Tunnels
    BY <1>0, <1>2, Updated DEF Delete
  <2>2. TypeOK'
    BY <1>0, <1>2, <2>1 DEF Delete, Changes, TypeOK
  <2> QED
    BY <1>0, <1>2, <2>2 DEF Delete, Changes, KInv, HandOK, BasedOK
<1>3. CASE Resync
  BY <1>0, <1>3, Distinct DEF Resync, KInv, TypeOK, HandOK, BasedOK, Shares
<1>4. CASE Collect
  BY <1>0, <1>4 DEF Collect, KInv, TypeOK, HandOK, BasedOK, Shares
<1>5. ASSUME NEW n \in Nodes, NodeChanges(n) PROVE KInv'
  <2>1. ready' \in SUBSET Nodes
    BY <1>0, <1>5 DEF NodeChanges, TypeOK
  <2>2. TypeOK'
    BY <1>0, <1>5, <2>1, KubeDisturbs DEF NodeChanges, TypeOK
  <2> QED
    BY <1>0, <1>5, <2>2 DEF NodeChanges, KInv, HandOK, BasedOK, Shares
<1> QED
  BY <1>1, <1>2, <1>3, <1>4, <1>5

LEMMA KubeRestarts ==
  ASSUME KInv, NEW r \in Reconcilers, Restarts(r) PROVE KInv'
<1>1. queue' \in SUBSET Reconcilers /\ missed' \in SUBSET Nodes
  BY DEF Restarts, KInv, TypeOK
<1> QED
  BY <1>1, KubeDrops DEF Restarts, KInv, TypeOK, objects

LEMMA KubeNext == KInv /\ [Next]_vars => KInv'
<1> SUFFICES ASSUME KInv, [Next]_vars PROVE KInv'
  OBVIOUS
<1>1. CASE UNCHANGED vars
  BY <1>1 DEF vars, objects, reconcilers, KInv, TypeOK, HandOK, BasedOK, Shares
<1> QED
  BY <1>1, KubeController, KubeAgent, KubeDaemon, KubeCluster, KubeRestarts DEF Next

LEMMA KubeInvariant == Spec => []KInv
  BY KubeInit, KubeNext, PTL DEF Spec

(* The Tunnel object, what the reconcilers hold and what the daemons run   *)
(* keep their types for any number of nodes: an agent is never asked for   *)
(* the port of another, nor the controller for one that was not reported   *)
(* (tunnel_controller.go:74, reconciler.go:43).                            *)
THEOREM KubeTypeCorrect == Spec => []TypeOK
<1>1. KInv => TypeOK
  BY DEF KInv
<1> QED
  BY <1>1, KubeInvariant, PTL

-----------------------------------------------------------------------------
(* What a step of a reconciler leaves alone.                               *)
LEMMA Written ==
  ASSUME KInv, NEW r \in Reconcilers, Write(r)
  PROVE  /\ tunnel' # tunnel => Changes /\ r \in based /\ tunnel' = copy[r]
         /\ tunnel'.exists = tunnel.exists
         /\ queue' = queue \cup {r} \/ queue' = queue \/ queue' = Reconcilers
         /\ pc[r] \in {"writeRequeue", "writeDegraded"} \/ r \notin based => r \in queue'
         /\ based' \subseteq based \ {r}
         /\ pc' = [pc EXCEPT ![r] = "idle"] /\ copy' = [copy EXCEPT ![r] = None]
         /\ UNCHANGED <<service, endpoints, ready, daemon, events>>
<1>1. r \in based => copy[r].exists = tunnel.exists
  BY DEF KInv, BasedOK, Shares
<1>2. r \notin based => based \subseteq based \ {r}
  OBVIOUS
<1> QED
  BY <1>1, <1>2 DEF Write, UpdateStatus, Changes, Returns

LEMMA ControllerFrame ==
  ASSUME KInv, ControllerNext
  PROVE  /\ \A n \in Nodes : pc'[n] = pc[n] /\ copy'[n] = copy[n] /\ (n \in queue => n \in queue')
         /\ UNCHANGED <<daemon, missed>>
         /\ tunnel' # tunnel => Changes
         /\ tunnel'.exists = tunnel.exists
         /\ based' \subseteq based \cup {Controller}
         /\ ~tunnel.exists => based' \subseteq based
<1>1. CASE Write(Controller)
  BY <1>1, Written, Distinct DEF ControllerNext, KInv, TypeOK, Changes
<1>2. CASE ~Write(Controller)
  BY <1>2, Distinct DEF ControllerNext, KInv, TypeOK, Takes, Continues, Returns, Goes, objects, Disturb,
     ControllerSchedules, ControllerRejects, ControllerServes, ControllerReturns, ControllerService,
     ControllerLosesNode, ControllerEndpoints, ControllerWithdraws, ControllerFails
<1> QED
  BY <1>1, <1>2

LEMMA AgentFrame ==
  ASSUME KInv, NEW n \in Nodes, AgentNext(n)
  PROVE  /\ \A r \in Reconcilers \ {n} : /\ pc'[r] = pc[r] /\ copy'[r] = copy[r]
                                         /\ r \in queue => r \in queue'
         /\ \A m \in Nodes \ {n} : daemon'[m] = daemon[m]
         /\ UNCHANGED <<service, endpoints, ready>>
         /\ missed' \in {missed, missed \cup {n}}
         /\ tunnel' # tunnel => Changes
         /\ tunnel'.exists = tunnel.exists
         /\ based' \subseteq based \cup {n}
         /\ ~tunnel.exists => based' \subseteq based
<1>1. CASE Write(n)
  <2>1. missed' \in {missed, missed \cup {n}}
    BY DEF AgentNext, AgentDeleteFails
  <2> QED
    BY <1>1, <2>1, Written, Distinct DEF KInv, TypeOK, Changes
<1>2. CASE ~Write(n)
  BY <1>2, Distinct DEF AgentNext, KInv, TypeOK, Takes, Continues, Goes, objects, Degrades, Starts,
     AgentDeletes, AgentDeleteFails, AgentIgnores, AgentAccepts, AgentCannotConvert, AgentDegrades, AgentPushes, AgentReports
<1> QED
  BY <1>1, <1>2

LEMMA Changed ==
  ASSUME KInv, Edit \/ Delete
  PROVE  Changes /\ UNCHANGED <<service, endpoints, ready, pc, copy, daemon, missed>>
  BY DEF Edit, Delete

(* A reconciler that moves while the object changes is the one that writes.*)
LEMMA Writer ==
  ASSUME KInv, [Next]_vars, NEW r \in Reconcilers, pc'[r] # pc[r], tunnel' # tunnel
  PROVE  Write(r) /\ missed' = missed
<1>1. ~(Edit \/ Delete \/ Resync \/ Collect) /\ Next
  BY DEF Edit, Delete, Resync, Collect, reconcilers, vars, objects
<1>2. ASSUME NEW n \in Nodes, NodeChanges(n) \/ DaemonHealthy(n) \/ DaemonRestarts(n) \/ DaemonFails(n)
      PROVE  FALSE
  BY <1>2 DEF NodeChanges, DaemonHealthy, DaemonRestarts, DaemonFails, objects
<1>3. ~\E q \in Reconcilers : Restarts(q)
  BY DEF Restarts, objects
<1>4. CASE ControllerNext
  <2>1. r = Controller
    BY <1>4, ControllerFrame, Distinct
  <2>2. Write(Controller) /\ missed' = missed
    BY <1>4 DEF ControllerNext, ControllerSchedules, ControllerRejects, ControllerServes,
       ControllerReturns, ControllerService, ControllerLosesNode, ControllerEndpoints,
       ControllerWithdraws, ControllerFails, objects
  <2> QED
    BY <2>1, <2>2
<1>5. ASSUME NEW n \in Nodes, AgentNext(n) PROVE Write(r) /\ missed' = missed
  <2>1. r = n
    BY <1>5, AgentFrame
  <2>2. Write(n) /\ missed' = missed
    BY <1>5 DEF AgentNext, AgentDeletes, AgentDeleteFails, AgentIgnores, AgentAccepts, AgentCannotConvert,
       AgentDegrades, AgentPushes, AgentReports, Degrades, objects
  <2> QED
    BY <2>1, <2>2
<1> QED
  BY <1>1, <1>2, <1>3, <1>4, <1>5 DEF Next

(* A status write loses nothing somebody else wrote: an edit of the spec,  *)
(* the assignment to a node, the reported port, although the update sends  *)
(* the whole status, read several calls earlier (reconciler.go:98,         *)
(* tunnel_controller.go:92).                                               *)
WritesOwnPart ==
    [][\A r \in Reconcilers :
          pc[r] \in WriteLabels /\ pc'[r] = "idle" => Shares(r, tunnel', tunnel)]_vars

(* Nobody's status write undoes what another party wrote: as long as the   *)
(* copy of a reconciler is current, it shares with the object all that     *)
(* this reconciler does not itself write (tunnel_controller.go:92).        *)
THEOREM NoLostUpdate == Spec => WritesOwnPart
<1>1. KInv /\ [Next]_vars =>
        [\A r \in Reconcilers :
           pc[r] \in WriteLabels /\ pc'[r] = "idle" => Shares(r, tunnel', tunnel)]_vars
  <2> SUFFICES ASSUME KInv, [Next]_vars, NEW r \in Reconcilers, pc[r] \in WriteLabels, pc'[r] = "idle"
               PROVE  Shares(r, tunnel', tunnel)
    OBVIOUS
  <2>1. CASE tunnel' = tunnel
    BY <2>1 DEF Shares
  <2>2. CASE tunnel' # tunnel
    BY <2>2, Writer, KubeWrite DEF WriteLabels, Stamped
  <2> QED
    BY <2>1, <2>2
<1> QED
  BY <1>1, KubeInvariant, PTL DEF Spec, WritesOwnPart

(* No report of an agent reaches a tunnel that has been given to another   *)
(* node in the meantime (reconciler.go:98): the agent read an object of    *)
(* its own node, and its write is refused unless that is still the object. *)
THEOREM NoStaleReport == Spec => ReportsAreCurrent
<1>1. KInv /\ [Next]_vars =>
        [\A n \in Nodes :
           pc[n] = "writeRequeue" /\ pc'[n] = "idle" /\ tunnel' # tunnel => tunnel.node = n]_vars
  <2> SUFFICES ASSUME KInv, [Next]_vars, NEW n \in Nodes,
                      pc[n] = "writeRequeue", pc'[n] = "idle", tunnel' # tunnel
               PROVE  tunnel.node = n
    OBVIOUS
  <2>1. n \in Reconcilers /\ n # Controller
    BY Distinct
  <2>2. n \in based
    BY <2>1, Writer, Written
  <2> QED
    BY <2>1, <2>2 DEF KInv, HandOK, BasedOK, Shares
<1> QED
  BY <1>1, KubeInvariant, PTL DEF Spec, ReportsAreCurrent

-----------------------------------------------------------------------------
(* What the queues do not lose.                                            *)

(* No agent forgets a deletion: a node that still runs a tunnel whose      *)
(* object is gone has a request queued, even if its agent was about to     *)
(* push the tunnel again or to report it when the object went; unless the  *)
(* agent died since or its daemon failed the request, which is not         *)
(* repeated (reconciler.go:43).                                            *)
DeletionIsHeard ==
    ~tunnel.exists => \A n \in Nodes \ missed : daemon[n] = None \/ n \in queue

(* Inductive: an agent under way at the deletion has a request too, and    *)
(* nobody's copy is current any more.                                      *)
GoneOK ==
    ~tunnel.exists =>
       /\ based = {}
       /\ \A n \in Nodes \ missed : n \in queue \/ (daemon[n] = None /\ pc[n] = "idle")

LEMMA GoneAgent ==
  ASSUME KInv, GoneOK, NEW n \in Nodes, AgentNext(n) PROVE GoneOK'
<1> SUFFICES ASSUME ~tunnel.exists
             PROVE  based' = {} /\ (n \notin missed' => n \in queue' \/ (daemon'[n] = None /\ pc'[n] = "idle"))
  BY AgentFrame, Distinct DEF GoneOK
<1>0. based = {} /\ based' = {}
  BY AgentFrame DEF GoneOK
<1>1. CASE AgentDeleteFails(n)
  BY <1>0, <1>1 DEF AgentDeleteFails
<1>2. AgentDeleteFails(n) \/ missed' = missed
  BY DEF AgentNext
<1>3. CASE Write(n) /\ missed' = missed
  BY <1>0, <1>3, Written, Distinct
<1>4. CASE AgentDeletes(n) /\ missed' = missed
  BY <1>0, <1>4 DEF AgentDeletes, Takes, KInv, TypeOK
<1>5. CASE /\ AgentCannotConvert(n) \/ AgentDegrades(n) \/ AgentPushes(n) \/ AgentReports(n)
           /\ missed' = missed
  <2>1. pc[n] # "idle" /\ queue' = queue
    BY <1>5 DEF AgentCannotConvert, AgentDegrades, AgentPushes, AgentReports, Degrades
  <2> QED
    BY <1>0, <1>5, <2>1 DEF GoneOK
<1>6. CASE AgentIgnores(n) \/ AgentAccepts(n)
  BY <1>6 DEF AgentIgnores, AgentAccepts
<1> QED
  BY <1>1, <1>2, <1>3, <1>4, <1>5, <1>6 DEF AgentNext

LEMMA GoneNext == KInv /\ GoneOK /\ [Next]_vars => GoneOK'
<1> SUFFICES ASSUME KInv, GoneOK, [Next]_vars PROVE GoneOK'
  OBVIOUS
<1> USE DEF GoneOK
<1>1. CASE UNCHANGED vars
  BY <1>1 DEF vars, objects, reconcilers
<1>2. CASE ControllerNext
  BY <1>2, ControllerFrame, Distinct
<1>3. ASSUME NEW n \in Nodes, AgentNext(n) PROVE GoneOK'
  BY <1>3, GoneAgent
<1>4. CASE Edit \/ Delete
  BY <1>4, Changed, Distinct DEF Changes
<1>5. CASE Resync \/ Collect
  BY <1>5 DEF Resync, Collect, objects, reconcilers
<1>6. ASSUME NEW n \in Nodes, NodeChanges(n) \/ DaemonHealthy(n) \/ DaemonRestarts(n) \/ DaemonFails(n)
      PROVE  GoneOK'
  <2>1. UNCHANGED <<tunnel, based, missed, queue, pc>> /\ (daemon[n] = None => daemon' = daemon)
        /\ \A m \in Nodes \ {n} : daemon'[m] = daemon[m]
    BY <1>6 DEF NodeChanges, DaemonHealthy, DaemonRestarts, DaemonFails, Starts, objects, reconcilers, KInv, TypeOK
  <2> QED
    BY <2>1
<1>7. ASSUME NEW r \in Reconcilers, Restarts(r) PROVE GoneOK'
  <2>1. /\ UNCHANGED <<tunnel, daemon>> /\ based' \subseteq based /\ missed \subseteq missed'
        /\ ~tunnel.exists => (r \in Nodes => r \in missed') /\ queue' = queue \ {r}
        /\ pc' = [pc EXCEPT ![r] = "idle"]
    BY <1>7 DEF Restarts, Returns, objects
  <2> QED
    BY <2>1, Distinct DEF KInv, TypeOK
<1> QED
  BY <1>1, <1>2, <1>3, <1>4, <1>5, <1>6, <1>7 DEF Next

LEMMA GoneInvariant == Spec => []GoneOK
<1>1. Init => GoneOK
  <2>1. ASSUME Init PROVE tunnel.exists
    <3>1. PICK b \in Bodies :
             tunnel = [exists |-> TRUE, body |-> b, expose |-> TRUE,
                       node |-> 0, phase |-> "", port |-> None, serviceRef |-> FALSE]
      BY <2>1 DEF Init
    <3> QED
      BY <3>1
  <2> QED
    BY <2>1 DEF GoneOK
<1> QED
  BY <1>1, GoneNext, KubeInvariant, PTL DEF Spec

(* A deletion is not lost on the way to the nodes, however it meets the    *)
(* pushes, the reports and the failures under way: what remains to be done *)
(* is queued, and only an agent that dies after the deletion or whose      *)
(* daemon fails the request to delete leaves the tunnel behind.            *)
THEOREM DeletionsAreHeard == Spec => []DeletionIsHeard
<1>1. GoneOK => DeletionIsHeard
  BY DEF GoneOK, DeletionIsHeard
<1> QED
  BY <1>1, GoneInvariant, PTL

(* The agent of the assigned node never stops looking at its tunnel, which *)
(* is how a restarted child or a lost tunneld is noticed: whatever failed, *)
(* a request is queued or under way (reconciler.go:98).                    *)
AssignedIsPolled ==
    tunnel.exists => \A n \in Nodes : tunnel.node = n => n \in queue \/ pc[n] # "idle"

LEMMA PolledAgent ==
  ASSUME KInv, AssignedIsPolled, NEW n \in Nodes, AgentNext(n) PROVE AssignedIsPolled'
<1>1. CASE tunnel' # tunnel
  BY <1>1, AgentFrame, Distinct DEF Changes, AssignedIsPolled
<1>2. CASE tunnel' = tunnel
  <2> SUFFICES ASSUME tunnel.exists, tunnel.node = n PROVE n \in queue' \/ pc'[n] # "idle"
    BY <1>2, AgentFrame, Distinct DEF AssignedIsPolled
  <2>1. CASE Write(n)
    <3>1. pc[n] = "writeRequeue"
      BY <2>1 DEF Write, WriteLabels, Stamped, KInv, HandOK, AgentPcs
    <3> QED
      BY <2>1, <3>1, Written, Distinct
  <2>2. CASE AgentDeletes(n) \/ AgentDeleteFails(n) \/ AgentIgnores(n)
    BY <2>2 DEF AgentDeletes, AgentDeleteFails, AgentIgnores
  <2>3. CASE AgentAccepts(n) \/ AgentCannotConvert(n) \/ AgentDegrades(n) \/ AgentPushes(n) \/ AgentReports(n)
    BY <2>3, Distinct DEF AgentAccepts, AgentCannotConvert, AgentDegrades, AgentPushes, AgentReports,
       Degrades, Continues, Goes, KInv, TypeOK
  <2> QED
    BY <2>1, <2>2, <2>3 DEF AgentNext
<1> QED
  BY <1>1, <1>2

LEMMA PolledNext == KInv /\ AssignedIsPolled /\ [Next]_vars => AssignedIsPolled'
<1> SUFFICES ASSUME KInv, AssignedIsPolled, [Next]_vars PROVE AssignedIsPolled'
  OBVIOUS
<1> USE DEF AssignedIsPolled
<1>1. CASE UNCHANGED vars
  BY <1>1 DEF vars, objects, reconcilers
<1>2. CASE ControllerNext
  BY <1>2, ControllerFrame, Distinct DEF Changes
<1>3. ASSUME NEW n \in Nodes, AgentNext(n) PROVE AssignedIsPolled'
  BY <1>3, PolledAgent
<1>4. CASE Edit \/ Delete
  BY <1>4, Changed, Distinct DEF Changes
<1>5. CASE Resync \/ Collect
  BY <1>5 DEF Resync, Collect, objects, reconcilers
<1>6. ASSUME NEW n \in Nodes, NodeChanges(n) \/ DaemonHealthy(n) \/ DaemonRestarts(n) \/ DaemonFails(n)
      PROVE  AssignedIsPolled'
  BY <1>6 DEF NodeChanges, DaemonHealthy, DaemonRestarts, DaemonFails, objects, reconcilers
<1>7. ASSUME NEW r \in Reconcilers, Restarts(r) PROVE AssignedIsPolled'
  BY <1>7 DEF Restarts, Returns, objects, KInv, TypeOK
<1> QED
  BY <1>1, <1>2, <1>3, <1>4, <1>5, <1>6, <1>7 DEF Next

(* The agent of the assigned node keeps its tunnel under observation after *)
(* every refused write, failed call, rescheduling and restart: no path of  *)
(* Reconcile ends without a request for another one.                       *)
THEOREM AssignedStaysPolled == Spec => []AssignedIsPolled
<1>1. Init => AssignedIsPolled
  BY Distinct DEF Init, AssignedIsPolled
<1> QED
  BY <1>1, PolledNext, KubeInvariant, PTL DEF Spec

(* The Service and the Endpoints say what a status says, and the status    *)
(* says that there is a Service.                                           *)
Settled(t) ==
    /\ Publishes(t) => /\ service /\ t.serviceRef
                       /\ endpoints = [node |-> t.node, port |-> t.port]
    /\ ~t.expose => ~t.serviceRef

(* A controller with nothing to do has done it: an invalid tunnel is       *)
(* failed, any other assigned, and published where the status says it is   *)
(* (tunnel_controller.go:74).                                              *)
QuietIsPublished ==
    tunnel.exists /\ Controller \notin queue /\ pc[Controller] = "idle" =>
       IF tunnel.body = Invalid THEN tunnel.phase = "Failed"
       ELSE tunnel.node \in Nodes /\ Settled(tunnel)

(* Inductive: what has been done at each label, while the copy is current. *)
ServedOK ==
    Controller \in based =>
       /\ pc[Controller] \in {"service", "endpoints", "withdraw", "write"} =>
             copy[Controller].body # Invalid /\ copy[Controller].node \in Nodes
       /\ pc[Controller] \in {"service", "endpoints"} => Publishes(copy[Controller])
       /\ pc[Controller] = "endpoints" => service
       /\ pc[Controller] = "withdraw" => ~copy[Controller].expose
       /\ pc[Controller] = "write" => Settled(copy[Controller])
       /\ pc[Controller] = "writeFailed" => copy[Controller].body = Invalid /\ copy[Controller].phase = "Failed"

LEMMA ServedReads ==
  ASSUME KInv, ServedOK, QuietIsPublished, missed' = missed,
         ControllerSchedules \/ ControllerRejects \/ ControllerServes \/ ControllerReturns
  PROVE  ServedOK' /\ QuietIsPublished'
<1>0. /\ tunnel \in Tunnels /\ ready \subseteq Nodes /\ pc \in [Reconcilers -> {pc[r] : r \in Reconcilers}]
      /\ copy \in [Reconcilers -> Tunnels \cup {None}] /\ Controller \in Reconcilers
      /\ Controller \in based => pc[Controller] # "idle"
  BY Distinct DEF KInv, TypeOK, HandOK
<1>1. CASE ControllerSchedules
  <2>1. pc'[Controller] = "writeRequeue"
    BY <1>0, <1>1 DEF ControllerSchedules, Continues
  <2> QED
    BY <2>1 DEF ServedOK, QuietIsPublished
<1>2. CASE ControllerRejects
  <2>1. CASE tunnel.body = Invalid /\ Continues(Controller, [tunnel EXCEPT !.phase = "Failed"], "writeFailed")
    <3>1. pc'[Controller] = "writeFailed" /\ copy'[Controller] = [tunnel EXCEPT !.phase = "Failed"]
      BY <1>0, <2>1 DEF Continues
    <3>2. copy'[Controller].body = Invalid /\ copy'[Controller].phase = "Failed"
      BY <1>0, <2>1, <3>1 DEF Tunnels
    <3> QED
      BY <3>1, <3>2 DEF ServedOK, QuietIsPublished
  <2>2. CASE Continues(Controller, [tunnel EXCEPT !.phase = "Degraded"], "writeDegraded")
    <3>1. pc'[Controller] = "writeDegraded"
      BY <1>0, <2>2 DEF Continues
    <3> QED
      BY <3>1 DEF ServedOK, QuietIsPublished
  <2> QED
    BY <1>2, <2>1, <2>2 DEF ControllerRejects
<1>3. CASE ControllerServes
  <2>1. copy'[Controller] = tunnel /\ pc'[Controller] \in {"service", "withdraw"}
        /\ tunnel.body # Invalid /\ tunnel.node \in Nodes
        /\ (pc'[Controller] = "service" => Publishes(tunnel))
        /\ (pc'[Controller] = "withdraw" => ~tunnel.expose)
    BY <1>0, <1>3 DEF ControllerServes, Continues, Unscheduled, Withdraws
  <2> QED
    BY <2>1 DEF ServedOK, QuietIsPublished, Publishes
<1>4. CASE ControllerReturns
  <2>1. UNCHANGED <<tunnel, service, endpoints, pc, copy, based>> /\ Controller \notin based
    BY <1>0, <1>4 DEF ControllerReturns, objects, Takes
  <2>2. tunnel.exists => tunnel.body # Invalid /\ tunnel.node \in Nodes /\ Settled(tunnel)
    BY <1>0, <1>4 DEF ControllerReturns, Unscheduled, Settled, Withdraws
  <2> QED
    BY <2>1, <2>2 DEF ServedOK, QuietIsPublished, Settled, Publishes
<1> QED
  BY <1>1, <1>2, <1>3, <1>4

LEMMA ServedPublishes ==
  ASSUME KInv, ServedOK, QuietIsPublished, missed' = missed,
         ControllerService \/ ControllerLosesNode \/ ControllerEndpoints \/ ControllerWithdraws
  PROVE  ServedOK' /\ QuietIsPublished'
<1>0. /\ pc \in [Reconcilers -> {pc[r] : r \in Reconcilers}] /\ based' = based /\ Controller \in Reconcilers
      /\ copy \in [Reconcilers -> Tunnels \cup {None}] /\ copy[Controller] \in Tunnels
  BY Distinct DEF KInv, TypeOK, HandOK, ControllerService, ControllerLosesNode, ControllerEndpoints,
     ControllerWithdraws
<1>1. CASE ControllerService
  <2>1. pc'[Controller] = "endpoints" /\ copy' = copy /\ service' /\ pc[Controller] = "service"
    BY <1>0, <1>1 DEF ControllerService, Goes
  <2> QED
    BY <1>0, <2>1 DEF ServedOK, QuietIsPublished, Publishes
<1>2. CASE ControllerLosesNode
  <2>1. pc'[Controller] = "writeDegraded"
    BY <1>0, <1>2 DEF ControllerLosesNode, Goes
  <2> QED
    BY <2>1 DEF ServedOK, QuietIsPublished
<1>3. CASE ControllerEndpoints
  <2> DEFINE c == copy[Controller]
  <2>1. /\ pc'[Controller] = "write" /\ service' = service /\ pc[Controller] = "endpoints"
        /\ endpoints' = [node |-> c.node, port |-> c.port]
        /\ copy'[Controller] = [c EXCEPT !.serviceRef = TRUE]
    BY <1>0, <1>3 DEF ControllerEndpoints, Goes
  <2>2. /\ copy'[Controller].node = c.node /\ copy'[Controller].port = c.port
        /\ copy'[Controller].body = c.body /\ copy'[Controller].expose = c.expose
        /\ copy'[Controller].serviceRef
    BY <1>0, <2>1 DEF Tunnels
  <2> HIDE DEF c
  <2>3. Controller \in based => c.body # Invalid /\ c.node \in Nodes /\ c.expose /\ service
    BY <2>1 DEF ServedOK, Publishes, c
  <2> QED
    BY <1>0, <2>1, <2>2, <2>3 DEF ServedOK, QuietIsPublished, Settled, Publishes
<1>4. CASE ControllerWithdraws
  <2> DEFINE c == copy[Controller]
  <2>1. /\ pc'[Controller] = "write" /\ pc[Controller] = "withdraw"
        /\ copy'[Controller] = [c EXCEPT !.serviceRef = FALSE]
    BY <1>0, <1>4 DEF ControllerWithdraws, Goes
  <2>2. /\ copy'[Controller].node = c.node /\ copy'[Controller].body = c.body
        /\ copy'[Controller].expose = c.expose /\ ~copy'[Controller].serviceRef
    BY <1>0, <2>1 DEF Tunnels
  <2> HIDE DEF c
  <2>3. Controller \in based => c.body # Invalid /\ c.node \in Nodes /\ ~c.expose
    BY <2>1 DEF ServedOK, c
  <2> QED
    BY <1>0, <2>1, <2>2, <2>3 DEF ServedOK, QuietIsPublished, Settled, Publishes
<1> QED
  BY <1>1, <1>2, <1>3, <1>4

LEMMA ServedWrites ==
  ASSUME KInv, ServedOK, QuietIsPublished, Write(Controller)
  PROVE  ServedOK' /\ QuietIsPublished'
<1>1. Controller \notin based' /\ Controller \in Reconcilers
  BY Written, Distinct
<1>2. CASE Controller \in queue'
  BY <1>1, <1>2 DEF ServedOK, QuietIsPublished
<1>3. CASE Controller \notin queue'
  <2>1. Controller \in based /\ pc[Controller] \notin {"writeRequeue", "writeDegraded"}
        /\ UNCHANGED <<service, endpoints>>
    BY <1>1, <1>3, Written
  <2>2. tunnel' = copy[Controller] /\ tunnel' = tunnel
    BY <1>1, <1>3, <2>1, Written DEF Write, UpdateStatus, Changes
  <2>3. pc[Controller] \in {"write", "writeFailed"}
    BY <2>1 DEF Write, WriteLabels, Stamped
  <2> QED
    BY <1>1, <2>1, <2>2, <2>3 DEF ServedOK, QuietIsPublished, Settled, Publishes
<1> QED
  BY <1>2, <1>3

LEMMA ServedNext ==
  KInv /\ GoneOK /\ ServedOK /\ QuietIsPublished /\ [Next]_vars => ServedOK' /\ QuietIsPublished'
<1> SUFFICES ASSUME KInv, GoneOK, ServedOK, QuietIsPublished, [Next]_vars
             PROVE  ServedOK' /\ QuietIsPublished'
  OBVIOUS
<1> USE DEF ServedOK, QuietIsPublished, Settled, Publishes
<1>1. CASE UNCHANGED vars
  BY <1>1 DEF vars, objects, reconcilers
<1>2. CASE ControllerNext
  <2>1. CASE ControllerFails
    <3>1. Controller \in queue' /\ Controller \notin based'
      BY <2>1 DEF ControllerFails
    <3> QED
      BY <3>1
  <2> QED
    BY <1>2, <2>1, ServedReads, ServedPublishes, ServedWrites DEF ControllerNext
<1>3. ASSUME NEW n \in Nodes, AgentNext(n) PROVE ServedOK' /\ QuietIsPublished'
  <2>1. Controller \in Reconcilers \ {n}
    BY Distinct
  <2> QED
    BY <1>3, <2>1, AgentFrame DEF Changes
<1>4. CASE Edit \/ Delete
  BY <1>4, Changed, Distinct DEF Changes
<1>5. CASE Resync
  BY <1>5 DEF Resync, objects
<1>6. CASE Collect
  <2>1. ~tunnel'.exists /\ Controller \notin based'
    BY <1>6 DEF Collect, reconcilers, GoneOK
  <2> QED
    BY <2>1
<1>7. ASSUME NEW n \in Nodes, NodeChanges(n) \/ DaemonHealthy(n) \/ DaemonRestarts(n) \/ DaemonFails(n)
      PROVE  ServedOK' /\ QuietIsPublished'
  BY <1>7 DEF NodeChanges, DaemonHealthy, DaemonRestarts, DaemonFails, objects, reconcilers
<1>8. ASSUME NEW r \in Reconcilers, Restarts(r) PROVE ServedOK' /\ QuietIsPublished'
  <2>1. UNCHANGED <<tunnel, service, endpoints>> /\ based' = based \ {r}
        /\ (tunnel.exists => queue \subseteq queue' /\ r \in queue')
        /\ \A q \in Reconcilers \ {r} : pc'[q] = pc[q] /\ copy'[q] = copy[q]
    BY <1>8 DEF Restarts, Returns, objects, KInv, TypeOK
  <2> QED
    BY <2>1, Distinct
<1> QED
  BY <1>1, <1>2, <1>3, <1>4, <1>5, <1>6, <1>7, <1>8 DEF Next

(* When the controller has nothing queued and nothing under way the        *)
(* cluster is as the object wants it, whatever was refused, failed or      *)
(* restarted on the way: the safety half of the convergence of the         *)
(* Endpoints, for any number of nodes.                                     *)
THEOREM QuietControllerHasPublished == Spec => []QuietIsPublished
<1>1. Init => ServedOK /\ QuietIsPublished
  BY Distinct DEF Init, ServedOK, QuietIsPublished
<1> QED
  BY <1>1, ServedNext, KubeInvariant, GoneInvariant, PTL DEF Spec
=============================================================================
