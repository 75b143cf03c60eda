------------------------------ MODULE KubeGroup ------------------------------
(***************************************************************************)
(* The controllers of TunnelGroup and TunnelKey objects                    *)
(* (k8s/controllers/tunnelgroup_controller.go, tunnelkey_controller.go)    *)
(* with what they depend on: the tunnel controller's scheduling of the     *)
(* group's Tunnel objects, the reports of the agents, nodes, Secrets, the  *)
(* API server's version check and the garbage collector.                   *)
(*                                                                         *)
(* At most one group and one key; the two share nothing.  A reconciler     *)
(* takes a copy, then works on it in steps while everybody else writes.    *)
(***************************************************************************)
EXTENDS Naturals, Sequences, FiniteSets

CONSTANTS
    Members,     \* names of members of the group
    Nodes,       \* nodes, numbered in the order of their names
    Templates,   \* the specs the group may have: [members, rev], rev being the rest of a member's spec
    Revs,        \* the revs
    None,        \* no phase, no node or no rev
    MaxChanges   \* bound: changes by users, nodes and agents in one behaviour

Phases == {"Pending", "Healthy", "Degraded", "Failed", "Stopped"}

ASSUME GroupAssumption ==
    /\ \A t \in Templates : t.members \in Seq(Members) /\ t.members # <<>> /\ t.rev \in Revs
    /\ Nodes \subseteq Nat /\ MaxChanges \in Nat
    /\ None \notin Nodes \cup Revs /\ None \notin Phases

VARIABLES
    group,     \* the TunnelGroup: [exists, template, phase]
    child,     \* child[m]: the Tunnel of member m: [exists, owned, rev, node, phase]
    dirty,     \* the group is in the work queue
    work,      \* its reconciler
    ready,     \* the nodes that are Ready
    flapped,   \* a node has changed
    secret,    \* the Secret is "missing", "other" (without the key) or "full"
    key,       \* the TunnelKey: [exists, ref, gen, result, observed]
    keyDirty,  \* the key is in the work queue
    keyWork,   \* its reconciler
    changes    \* changes so far

groupVars == <<group, child, dirty, work>>
keyVars == <<key, keyDirty, keyWork>>
vars == <<groupVars, keyVars, ready, flapped, secret, changes>>

(* The phase of a key with the reason it has it.                           *)
Results == {"noRef", "noSecret", "noEntry", "ready"}

NoChild == [exists |-> FALSE, owned |-> FALSE, rev |-> None, node |-> None, phase |-> None]
Resting == [pc |-> "idle", members |-> <<>>, rev |-> None, phases |-> <<>>, fresh |-> FALSE, current |-> FALSE]
KeyResting == [pc |-> "idle", result |-> None, gen |-> 0, current |-> FALSE]

TypeOK ==
    /\ group \in [exists : BOOLEAN, template : Templates, phase : Phases \cup {None}]
    /\ child \in [Members -> [exists : BOOLEAN, owned : BOOLEAN, rev : Revs \cup {None},
                              node : Nodes \cup {None}, phase : Phases \cup {None}]]
    /\ dirty \in BOOLEAN /\ keyDirty \in BOOLEAN /\ flapped \in BOOLEAN
    /\ ready \subseteq Nodes /\ changes \in 0 .. MaxChanges
    /\ secret \in {"missing", "other", "full"}
    /\ key \in [exists : BOOLEAN, ref : BOOLEAN, gen : 0 .. MaxChanges, result : Results \cup {None}, observed : 0 .. MaxChanges]
    /\ work.pc \in {"idle", "get", "put", "read", "status"}
    /\ work.pc \in {"get", "put", "read"} => Len(work.phases) < Len(work.members)
    /\ work.pc = "status" => Len(work.phases) = Len(work.members)
    /\ keyWork.pc \in {"idle", "write"}

Init ==
    /\ \E t \in Templates, e \in BOOLEAN : group = [exists |-> e, template |-> t, phase |-> None]
    /\ child = [m \in Members |-> NoChild]
    /\ dirty = group.exists /\ work = Resting
    /\ ready \in SUBSET Nodes /\ flapped = FALSE
    /\ secret \in {"missing", "other", "full"}
    /\ \E e, r \in BOOLEAN : key = [exists |-> e, ref |-> r, gen |-> 0, result |-> None, observed |-> 0]
    /\ keyDirty = key.exists /\ keyWork = KeyResting
    /\ changes = 0

-----------------------------------------------------------------------------
(* Reconcile of the group.                                                 *)

Current == work.members[Len(work.phases) + 1]

(* An error: the request goes back to the queue.                           *)
Requeues == work' = Resting /\ dirty' = TRUE

(* The copy a reconciler works on; a group that is not found is left.      *)
GroupGets ==
    /\ work.pc = "idle" /\ dirty
    /\ dirty' = FALSE
    /\ work' = IF ~group.exists THEN Resting
               ELSE [pc |-> "get", members |-> group.template.members, rev |-> group.template.rev,
                     phases |-> <<>>, fresh |-> FALSE, current |-> TRUE]
    /\ UNCHANGED <<group, child>>

(* CreateOrUpdate gets the child ...                                       *)
MemberGets ==
    /\ work.pc = "get"
    /\ work' = [work EXCEPT !.pc = "put", !.fresh = TRUE]
    /\ UNCHANGED <<group, child, dirty>>

(* Mutant: a child that exists is left as it is.                           *)
MemberPutsNew ==
    LET m == Current
    IN  /\ work.pc = "put"
        /\ child' = IF child[m].exists THEN child ELSE [child EXCEPT ![m] = [NoChild EXCEPT !.exists = TRUE, !.owned = TRUE, !.rev = work.rev]]
        /\ dirty' = (dirty \/ ~child[m].exists)
        /\ work' = [work EXCEPT !.pc = "read"]
        /\ UNCHANGED group

(* Mutant: SetControllerReference is forgotten.                            *)
MemberPutsUnowned ==
    LET m == Current
    IN  /\ work.pc = "put"
        /\ child' = [child EXCEPT ![m].exists = TRUE, ![m].rev = work.rev]
        /\ dirty' = (dirty \/ child[m].rev # work.rev)
        /\ work' = [work EXCEPT !.pc = "read"]
        /\ UNCHANGED group

(* ... and creates it, or writes the spec of the copy over the child's, or *)
(* leaves it when they agree; a write meets the version check.             *)
MemberPuts ==
    LET m == Current
    IN  /\ work.pc = "put"
        /\ \/ /\ ~child[m].exists /\ work.fresh
              /\ child' = [child EXCEPT ![m] = [NoChild EXCEPT !.exists = TRUE, !.owned = TRUE, !.rev = work.rev]]
              /\ dirty' = TRUE /\ work' = [work EXCEPT !.pc = "read"]
           \/ /\ child[m].exists /\ child[m].rev # work.rev /\ work.fresh
              /\ child' = [child EXCEPT ![m].rev = work.rev]
              /\ dirty' = TRUE /\ work' = [work EXCEPT !.pc = "read"]
           \/ /\ child[m].exists /\ child[m].rev = work.rev
              /\ work' = [work EXCEPT !.pc = "read"]
              /\ UNCHANGED <<child, dirty>>
           \/ /\ ~work.fresh /\ child[m].rev # work.rev
              /\ Requeues /\ UNCHANGED child
        /\ UNCHANGED group

(* Mutant: the phase of a member is not collected.                         *)
MemberReadsNot ==
    /\ work.pc = "read"
    /\ work' = [work EXCEPT !.pc = IF Len(work.phases) + 1 = Len(work.members) THEN "status" ELSE "get"]
    /\ UNCHANGED <<group, child, dirty>>

(* The phase is read back, once the child is written.                      *)
MemberReads ==
    /\ work.pc = "read"
    /\ work' = [work EXCEPT !.phases = Append(@, child[Current].phase),
                            !.pc = IF Len(work.phases) + 1 = Len(work.members) THEN "status" ELSE "get"]
    /\ UNCHANGED <<group, child, dirty>>

(* Mutant: a member that is pending hides one that has failed.             *)
aggregatePhaseEager(phases) ==
    IF phases \cap {"Pending", None} # {} THEN "Pending"
    ELSE IF "Failed" \in phases THEN "Failed"
    ELSE IF "Degraded" \in phases THEN "Degraded" ELSE "Healthy"

aggregatePhase(phases) ==
    IF "Failed" \in phases THEN "Failed"
    ELSE IF "Degraded" \in phases THEN "Degraded"
    ELSE IF phases = {} \/ phases \cap {"Pending", None} # {} THEN "Pending"
    ELSE "Healthy"

(* The status of the copy is written: refused when the group has changed   *)
(* or is gone.                                                             *)
GroupReports ==
    LET p == aggregatePhase({work.phases[k] : k \in DOMAIN work.phases})
    IN  /\ work.pc = "status"
        /\ \/ /\ work.current
              /\ group' = [group EXCEPT !.phase = p]
              /\ dirty' = (dirty \/ group.phase # p)
              /\ work' = Resting
           \/ ~work.current /\ Requeues /\ UNCHANGED group
        /\ UNCHANGED child

GroupSteps == GroupGets \/ MemberGets \/ MemberPuts \/ MemberReads \/ GroupReports

GroupReconciles == GroupSteps /\ UNCHANGED <<keyVars, ready, flapped, secret, changes>>

-----------------------------------------------------------------------------
(* Writes of the other parties to a child: the group is requeued (Owns).   *)

ChildBecomes(m, record) ==
    /\ child' = [child EXCEPT ![m] = record]
    /\ dirty' = TRUE
    /\ work' = IF work.pc = "put" /\ m = Current THEN [work EXCEPT !.fresh = FALSE] ELSE work
    /\ UNCHANGED <<group, keyVars, secret>>

(* Mutant: any node will do.                                               *)
pickNodeAny(N) == N

(* The Ready node whose name comes first.                                  *)
pickNode(N) == {n \in N : \A o \in N : n <= o}

(* The tunnel controller schedules each child by itself.                   *)
ControllerSchedules(m) ==
    /\ child[m].exists /\ child[m].node \notin ready
    /\ \/ \E n \in pickNode(ready) : ChildBecomes(m, [child[m] EXCEPT !.node = n, !.phase = "Pending"])
       \/ ready = {} /\ child[m].phase # "Degraded" /\ ChildBecomes(m, [child[m] EXCEPT !.phase = "Degraded"])
    /\ UNCHANGED <<ready, flapped, changes>>

(* The agent of the child's node reports what it sees.                     *)
AgentReports(m, p) ==
    /\ child[m].exists /\ child[m].node # None /\ child[m].phase # p
    /\ changes < MaxChanges /\ changes' = changes + 1
    /\ ChildBecomes(m, [child[m] EXCEPT !.phase = p])
    /\ UNCHANGED <<ready, flapped>>

(* The garbage collector: the owner is gone.                               *)
Collect(m) ==
    /\ child[m].exists /\ child[m].owned /\ ~group.exists
    /\ ChildBecomes(m, NoChild)
    /\ UNCHANGED <<ready, flapped, changes>>

-----------------------------------------------------------------------------
(* Users and nodes.                                                        *)

GroupBecomes(g) ==
    /\ changes < MaxChanges /\ changes' = changes + 1
    /\ group' = g
    /\ dirty' = TRUE
    /\ work' = [work EXCEPT !.current = FALSE]
    /\ UNCHANGED <<child, keyVars, ready, flapped, secret>>

Edit(t) == group.exists /\ t # group.template /\ GroupBecomes([group EXCEPT !.template = t])

Delete == group.exists /\ GroupBecomes([group EXCEPT !.exists = FALSE])

NodeChanges(n) ==
    /\ changes < MaxChanges /\ changes' = changes + 1
    /\ ready' = IF n \in ready THEN ready \ {n} ELSE ready \cup {n}
    /\ flapped' = TRUE
    /\ UNCHANGED <<groupVars, keyVars, secret>>

SecretChanges(s) ==
    /\ key.exists /\ s # secret
    /\ changes < MaxChanges /\ changes' = changes + 1
    /\ secret' = s
    /\ UNCHANGED <<groupVars, keyVars, ready, flapped>>

KeyBecomes(k) ==
    /\ key.exists
    /\ changes < MaxChanges /\ changes' = changes + 1
    /\ key' = k
    /\ keyDirty' = TRUE
    /\ keyWork' = [keyWork EXCEPT !.current = FALSE]
    /\ UNCHANGED <<groupVars, ready, flapped, secret>>

EditKey == KeyBecomes([key EXCEPT !.ref = ~@, !.gen = @ + 1])

DeleteKey == KeyBecomes([key EXCEPT !.exists = FALSE])

-----------------------------------------------------------------------------
(* Reconcile of the key.                                                   *)

Lookup ==
    IF ~key.ref THEN "noRef"
    ELSE CASE secret = "missing" -> "noSecret" [] secret = "other" -> "noEntry" [] secret = "full" -> "ready"

KeyGets ==
    /\ keyWork.pc = "idle" /\ keyDirty
    /\ keyDirty' = FALSE
    /\ keyWork' = IF key.exists THEN [pc |-> "write", result |-> Lookup, gen |-> key.gen, current |-> TRUE]
                  ELSE KeyResting
    /\ UNCHANGED key

(* Mutant: a status with the same phase is left alone.                     *)
setPhaseOnce ==
    LET old == keyWork.result = key.result
    IN  /\ keyWork.pc = "write"
        /\ key' = IF old \/ ~keyWork.current THEN key ELSE [key EXCEPT !.result = keyWork.result, !.observed = keyWork.gen]
        /\ keyDirty' = (keyDirty \/ ~old)
        /\ keyWork' = KeyResting

(* setPhase: a status that would not change is left alone, a write meets   *)
(* the version check.                                                      *)
setPhase ==
    /\ keyWork.pc = "write"
    /\ \/ /\ keyWork.result = key.result /\ keyWork.gen = key.observed
          /\ UNCHANGED <<key, keyDirty>>
       \/ /\ <<keyWork.result, keyWork.gen>> # <<key.result, key.observed>>
          /\ keyDirty' = TRUE
          /\ key' = IF keyWork.current THEN [key EXCEPT !.result = keyWork.result, !.observed = keyWork.gen] ELSE key
    /\ keyWork' = KeyResting

(* Secrets are not watched: a change of one is noticed by the periodic     *)
(* resync alone.                                                           *)
Resync == key.exists /\ ~keyDirty /\ keyDirty' = TRUE /\ UNCHANGED <<key, keyWork>>

KeyReconciles == (KeyGets \/ setPhase) /\ UNCHANGED <<groupVars, ready, flapped, secret, changes>>
Resyncs == Resync /\ UNCHANGED <<groupVars, ready, flapped, secret, changes>>

-----------------------------------------------------------------------------
Next ==
    \/ GroupReconciles \/ KeyReconciles \/ Resyncs
    \/ \E m \in Members : ControllerSchedules(m) \/ Collect(m)
    \/ \E m \in Members, p \in Phases : AgentReports(m, p)
    \/ \E t \in Templates : Edit(t)
    \/ Delete \/ EditKey \/ DeleteKey
    \/ \E n \in Nodes : NodeChanges(n)
    \/ \E s \in {"missing", "other", "full"} : SecretChanges(s)

(* The reconcilers, the garbage collector and the resync run.              *)
Fairness ==
    /\ WF_vars(GroupReconciles) /\ WF_vars(KeyReconciles) /\ WF_vars(Resyncs)
    /\ \A m \in Members : WF_vars(ControllerSchedules(m)) /\ WF_vars(Collect(m))

Spec == Init /\ [][Next]_vars
FairSpec == Spec /\ Fairness

-----------------------------------------------------------------------------
(* Properties.                                                             *)

InTemplate == {group.template.members[k] : k \in DOMAIN group.template.members}

(* Severity of a phase, and the worst of a group's members.                *)
Severity(p) == CASE p = "Failed" -> 3 [] p = "Degraded" -> 2 [] p \in {"Pending", None} -> 1 [] OTHER -> 0
Worst(p) == \E m \in InTemplate : Severity(child[m].phase) = Severity(p)
                                  /\ \A o \in InTemplate : Severity(child[o].phase) <= Severity(p)

(* When users, nodes and agents come to rest the phase of the group is the *)
(* worst of its members' phases for good, whatever copies the reconciler   *)
(* was working on (tunnelgroup_controller.go:76).                          *)
GroupConverges == <>[](group.exists => group.phase # None /\ Worst(group.phase))

(* And every member of the template has its Tunnel, with the spec of the   *)
(* template (tunnelgroup_controller.go:44).                                *)
ChildrenFollow == <>[](group.exists => \A m \in InTemplate : child[m].exists /\ child[m].rev = group.template.rev)

(* A group that is deleted leaves no Tunnel behind, not even one that its  *)
(* reconciler was about to create (tunnelgroup_controller.go:63).          *)
DeletedLeavesNothing == <>[](~group.exists => \A m \in Members : ~child[m].exists)

(* As long as no node changes, the members that are scheduled share one    *)
(* node, though each is scheduled by itself (scheduler.go:16).             *)
ColocatedIfStable ==
    ~flapped => \A m, o \in Members : None \notin {child[m].node, child[o].node} => child[m].node = child[o].node

(* The status of the key comes to tell what became of its Secret, for the  *)
(* generation it has (tunnelkey_controller.go:59).                         *)
KeyConverges == <>[](key.exists => key.result = Lookup /\ key.observed = key.gen)
=============================================================================
