----------------------------- MODULE GroupProofs -----------------------------
(* Proofs about KubeGroup, for any members, nodes, templates and revs.     *)
EXTENDS KubeGroup, SequenceTheorems, TLAPS

(* The reconcilers: one at work on a member has a member to work on, and   *)
(* the generation a key's reconciler has seen is one the key has had.      *)
Children == [exists : BOOLEAN, owned : BOOLEAN, rev : Revs \cup {None}, node : Nodes \cup {None}, phase : Phases \cup {None}]

Works == [pc : {"idle", "get", "put", "read", "status"}, members : Seq(Members), rev : Revs \cup {None},
          phases : Seq(Phases \cup {None}), fresh : BOOLEAN, current : BOOLEAN]

WorkOK ==
    /\ work \in Works
    /\ work.pc \in {"put", "get", "read"} => Len(work.phases) < Len(work.members)
    /\ work.pc = "status" => Len(work.phases) = Len(work.members)
    /\ work.pc # "idle" => work.rev \in Revs

KeyWorks == [pc : {"idle", "write"}, result : Results \cup {None}, gen : 0 .. MaxChanges, current : BOOLEAN]

KeyOK == key.gen <= changes /\ keyWork \in KeyWorks

TInv == TypeOK /\ WorkOK /\ KeyOK

LEMMA TypeInit == Init => TInv
<1> SUFFICES ASSUME Init PROVE TInv
  OBVIOUS
<1> USE GroupAssumption DEF Init
<1>1. work \in Works /\ work.pc = "idle" /\ keyWork \in KeyWorks /\ keyWork.pc = "idle"
  BY EmptySeq DEF Resting, KeyResting, Works, KeyWorks
<1>2. child \in [Members -> Children]
  BY DEF NoChild, Children
<1>3. group \in [exists : BOOLEAN, template : Templates, phase : Phases \cup {None}] /\ dirty \in BOOLEAN
  OBVIOUS
<1>4. /\ key \in [exists : BOOLEAN, ref : BOOLEAN, gen : 0 .. MaxChanges, result : Results \cup {None}, observed : 0 .. MaxChanges]
      /\ keyDirty \in BOOLEAN /\ key.gen <= changes /\ changes \in 0 .. MaxChanges
  OBVIOUS
<1>5. TypeOK
  BY <1>1, <1>2, <1>3, <1>4 DEF TypeOK, Children
<1> QED
  BY <1>1, <1>4, <1>5 DEF TInv, WorkOK, KeyOK

LEMMA CurrentMember ==
  ASSUME WorkOK, work.pc \in {"put", "get", "read"}
  PROVE  Current \in Members
  BY DEF WorkOK, Works, Current

(* The steps of the group's reconciler.                                    *)
LEMMA TypeGroup == ASSUME TInv, GroupReconciles PROVE TInv'
<1> USE GroupAssumption DEF TInv
<1>1. UNCHANGED <<keyVars, ready, flapped, secret, changes>>
  BY DEF GroupReconciles
<1>2. ASSUME group' \in [exists : BOOLEAN, template : Templates, phase : Phases \cup {None}],
             child' \in [Members -> Children], dirty' \in BOOLEAN, WorkOK'
      PROVE  TInv'
  BY <1>1, <1>2 DEF TypeOK, KeyOK, WorkOK, Works, KeyWorks, Children, keyVars
<1>3. /\ group \in [exists : BOOLEAN, template : Templates, phase : Phases \cup {None}]
      /\ child \in [Members -> Children] /\ dirty \in BOOLEAN
  BY DEF TypeOK, Children
<1>4. WorkOK /\ work \in Works
  BY DEF WorkOK
<1>5. Resting \in Works /\ Resting.pc = "idle"
  BY EmptySeq DEF Resting, Works
<1>6. ASSUME work' = Resting PROVE WorkOK'
  BY <1>5, <1>6 DEF WorkOK
<1>7. ASSUME work' = work PROVE WorkOK'
  BY <1>4, <1>7 DEF WorkOK
<1>8. CASE GroupGets
  <2>1. CASE ~group.exists
    BY <1>2, <1>3, <1>6, <1>8, <2>1 DEF GroupGets
  <2>2. CASE group.exists
    <3> DEFINE w == [pc |-> "get", members |-> group.template.members, rev |-> group.template.rev,
                     phases |-> <<>>, fresh |-> FALSE, current |-> TRUE]
    <3>1. group.template.members \in Seq(Members) /\ group.template.members # <<>> /\ group.template.rev \in Revs
      BY <1>3
    <3>2. Len(group.template.members) > 0
      BY <3>1, EmptySeq
    <3>3. w \in Works
      BY <3>1, EmptySeq DEF Works
    <3>4. work' = w
      BY <1>8, <2>2 DEF GroupGets
    <3>5. WorkOK'
      BY <3>1, <3>2, <3>3, <3>4, EmptySeq DEF WorkOK
    <3> QED
      BY <1>2, <1>3, <1>8, <3>5 DEF GroupGets
  <2> QED
    BY <2>1, <2>2
<1>9. CASE MemberGets
  <2>1. WorkOK'
    BY <1>4, <1>9 DEF MemberGets, WorkOK, Works
  <2> QED
    BY <1>2, <1>3, <1>9, <2>1 DEF MemberGets
<1>10. CASE MemberPuts
  <2>1. Current \in Members /\ work.rev \in Revs
    BY <1>4, <1>10, CurrentMember DEF MemberPuts, WorkOK
  <2>2. work' = [work EXCEPT !.pc = "read"] \/ work' = Resting
    BY <1>10 DEF MemberPuts, Requeues
  <2>3. ASSUME work' = [work EXCEPT !.pc = "read"] PROVE WorkOK'
    <3>1. /\ work' \in Works /\ work'.pc = "read"
          /\ work'.members = work.members /\ work'.phases = work.phases /\ work'.rev = work.rev
      BY <1>4, <2>3 DEF Works
    <3>2. work.pc = "put"
      BY <1>10 DEF MemberPuts
    <3> QED
      BY <1>4, <3>1, <3>2 DEF WorkOK
  <2> DEFINE new == [NoChild EXCEPT !.exists = TRUE, !.owned = TRUE, !.rev = work.rev]
             old == [child[Current] EXCEPT !.rev = work.rev]
  <2>4. new \in Children /\ old \in Children
    BY <1>3, <2>1 DEF NoChild, Children
  <2>5. \/ child' = [child EXCEPT ![Current] = new]
        \/ child' = [child EXCEPT ![Current] = old]
        \/ child' = child
    BY <1>10 DEF MemberPuts
  <2> HIDE DEF new, old
  <2>6. child' \in [Members -> Children]
    BY <1>3, <2>1, <2>4, <2>5
  <2>7. dirty' \in BOOLEAN /\ group' = group
    BY <1>3, <1>10 DEF MemberPuts, Requeues
  <2> QED
    BY <1>2, <1>3, <1>6, <2>2, <2>3, <2>6, <2>7
<1>11. CASE MemberReads
  <2>1. Current \in Members
    BY <1>4, <1>11, CurrentMember DEF MemberReads
  <2>2. child[Current].phase \in Phases \cup {None}
    BY <1>3, <2>1 DEF Children
  <2> DEFINE p == Append(work.phases, child[Current].phase)
  <2>3. p \in Seq(Phases \cup {None}) /\ Len(p) = Len(work.phases) + 1
    BY <1>4, <2>2, AppendProperties DEF Works
  <2>4. work' = [work EXCEPT !.phases = p,
                             !.pc = IF Len(work.phases) + 1 = Len(work.members) THEN "status" ELSE "get"]
    BY <1>11 DEF MemberReads
  <2>5. Len(work.phases) \in Nat /\ Len(work.members) \in Nat /\ Len(work.phases) < Len(work.members)
    BY <1>4, <1>11 DEF WorkOK, Works, MemberReads
  <2> DEFINE l == IF Len(work.phases) + 1 = Len(work.members) THEN "status" ELSE "get"
  <2>6. /\ l \in {"status", "get"}
        /\ l = "status" => Len(p) = Len(work.members)
        /\ l = "get" => Len(p) < Len(work.members)
    BY <2>3, <2>5
  <2> HIDE DEF p, l
  <2>7. /\ work' \in Works /\ work'.pc = l /\ work'.phases = p
        /\ work'.members = work.members /\ work'.rev = work.rev
    BY <1>4, <2>3, <2>4, <2>6 DEF Works, l
  <2>8. work.rev \in Revs
    BY <1>4, <1>11 DEF WorkOK, MemberReads
  <2>9. WorkOK'
    BY <2>6, <2>7, <2>8 DEF WorkOK
  <2> QED
    BY <1>2, <1>3, <1>11, <2>9 DEF MemberReads
<1>12. CASE GroupReports
  <2>1. aggregatePhase({work.phases[k] : k \in DOMAIN work.phases}) \in Phases
    BY DEF aggregatePhase, Phases
  <2>2. work' = Resting /\ group' \in [exists : BOOLEAN, template : Templates, phase : Phases \cup {None}]
    BY <1>3, <1>12, <2>1 DEF GroupReports, Requeues
  <2> QED
    BY <1>2, <1>3, <1>6, <1>12, <2>2 DEF GroupReports, Requeues
<1> QED
  BY <1>8, <1>9, <1>10, <1>11, <1>12 DEF GroupReconciles, GroupSteps

(* The steps of the others to a child.                                     *)
LEMMA ChildStep ==
  ASSUME TInv, NEW m \in Members, NEW r \in Children, ChildBecomes(m, r),
         changes' \in 0 .. MaxChanges, changes' >= changes, UNCHANGED <<ready, flapped>>
  PROVE  TInv' /\ child' = [child EXCEPT ![m] = r]
<1> USE GroupAssumption DEF TInv
<1>1. child \in [Members -> Children] /\ work \in Works
  BY DEF TypeOK, WorkOK, Children
<1>2. child' = [child EXCEPT ![m] = r] /\ UNCHANGED <<group, keyVars, secret>> /\ dirty' = TRUE
  BY DEF ChildBecomes
<1>3. child' \in [Members -> Children]
  BY <1>1, <1>2
<1>4. work' = work \/ work' = [work EXCEPT !.fresh = FALSE]
  BY DEF ChildBecomes
<1>5. /\ work' \in Works /\ work'.pc = work.pc /\ work'.rev = work.rev
      /\ work'.members = work.members /\ work'.phases = work.phases
  BY <1>1, <1>4 DEF Works
<1>6. WorkOK'
  BY <1>5 DEF WorkOK
<1>7. KeyOK'
  BY <1>2 DEF KeyOK, keyVars, TypeOK
<1>8. TypeOK'
  BY <1>2, <1>3, <1>6 DEF TypeOK, WorkOK, Works, Children, keyVars
<1> QED
  BY <1>2, <1>6, <1>7, <1>8

(* The steps about a child, and the record each leaves.                    *)
ChildActions(m) == ControllerSchedules(m) \/ Collect(m) \/ \E p \in Phases : AgentReports(m, p)

LEMMA ChildRecords ==
  ASSUME TInv, NEW m \in Members, ChildActions(m)
  PROVE  /\ TInv'
         /\ \E r \in Children :
               /\ child' = [child EXCEPT ![m] = r]
               /\ r.node = child[m].node \/ r.node = None \/ r.node \in pickNode(ready)
<1> USE GroupAssumption DEF TInv
<1>1. child[m] \in Children /\ changes \in 0 .. MaxChanges /\ ready \subseteq Nodes
  BY DEF TypeOK, Children
<1>2. CASE ControllerSchedules(m)
  <2>1. UNCHANGED <<ready, flapped, changes>>
    BY <1>2, Zenon DEF ControllerSchedules
  <2>2. changes' \in 0 .. MaxChanges /\ changes' >= changes /\ UNCHANGED <<ready, flapped>>
    BY <1>1, <2>1
  <2>3. CASE \E n \in pickNode(ready) : ChildBecomes(m, [child[m] EXCEPT !.node = n, !.phase = "Pending"])
    <3>1. PICK n \in pickNode(ready) : ChildBecomes(m, [child[m] EXCEPT !.node = n, !.phase = "Pending"])
      BY <2>3
    <3> DEFINE r == [child[m] EXCEPT !.node = n, !.phase = "Pending"]
    <3>2. n \in Nodes
      BY <1>1 DEF pickNode
    <3>3. r \in Children /\ r.node = n
      BY <1>1, <3>2 DEF Children, Phases
    <3> HIDE DEF r
    <3>4. ChildBecomes(m, r)
      BY <3>1 DEF r
    <3>5. TInv' /\ child' = [child EXCEPT ![m] = r]
      BY <2>2, <3>3, <3>4, ChildStep
    <3> QED
      BY <3>3, <3>5
  <2>4. CASE ChildBecomes(m, [child[m] EXCEPT !.phase = "Degraded"])
    <3> DEFINE r == [child[m] EXCEPT !.phase = "Degraded"]
    <3>1. r \in Children /\ r.node = child[m].node
      BY <1>1 DEF Children, Phases
    <3>2. ChildBecomes(m, r)
      BY <2>4
    <3> HIDE DEF r
    <3>3. TInv' /\ child' = [child EXCEPT ![m] = r]
      BY <2>2, <3>1, <3>2, ChildStep
    <3> QED
      BY <3>1, <3>3
  <2> QED
    BY <1>2, <2>3, <2>4 DEF ControllerSchedules
<1>3. CASE Collect(m)
  <2>1. NoChild \in Children /\ NoChild.node = None
    BY DEF NoChild, Children
  <2>2. TInv' /\ child' = [child EXCEPT ![m] = NoChild]
    BY <1>1, <1>3, <2>1, ChildStep DEF Collect
  <2> QED
    BY <2>1, <2>2
<1>4. CASE \E p \in Phases : AgentReports(m, p)
  <2>1. PICK p \in Phases : AgentReports(m, p)
    BY <1>4
  <2> DEFINE r == [child[m] EXCEPT !.phase = p]
  <2>2. r \in Children /\ r.node = child[m].node
    BY <1>1 DEF Children
  <2>3. ChildBecomes(m, r) /\ changes' \in 0 .. MaxChanges /\ changes' >= changes /\ UNCHANGED <<ready, flapped>>
    BY <1>1, <2>1 DEF AgentReports
  <2> HIDE DEF r
  <2>4. TInv' /\ child' = [child EXCEPT ![m] = r]
    BY <2>2, <2>3, ChildStep
  <2> QED
    BY <2>2, <2>4
<1> QED
  BY <1>2, <1>3, <1>4 DEF ChildActions

(* The steps of users and nodes.                                           *)
UserSteps ==
    \/ \E t \in Templates : Edit(t)
    \/ Delete \/ EditKey \/ DeleteKey
    \/ \E n \in Nodes : NodeChanges(n)
    \/ \E s \in {"missing", "other", "full"} : SecretChanges(s)

LEMMA TypeUsers == ASSUME TInv, UserSteps PROVE TInv' /\ (flapped' \/ (child' = child /\ ready' = ready /\ flapped' = flapped))
<1> USE GroupAssumption DEF TInv
<1>1. changes < MaxChanges /\ changes' = changes + 1
  BY DEF UserSteps, Edit, Delete, GroupBecomes, EditKey, DeleteKey, KeyBecomes, NodeChanges, SecretChanges
<1>2. changes' \in 0 .. MaxChanges /\ changes \in Nat /\ key.gen <= changes
  BY <1>1 DEF TypeOK, KeyOK
<1>3. WorkOK /\ work \in Works /\ keyWork \in KeyWorks
  BY DEF WorkOK, KeyOK
<1>4. CASE (\E t \in Templates : Edit(t)) \/ Delete
  <2>1. group' \in [exists : BOOLEAN, template : Templates, phase : Phases \cup {None}]
    BY <1>4 DEF Edit, Delete, GroupBecomes, TypeOK
  <2>2. UNCHANGED <<child, keyVars, ready, flapped, secret>> /\ dirty' = TRUE /\ work' = [work EXCEPT !.current = FALSE]
    BY <1>4 DEF Edit, Delete, GroupBecomes
  <2>3. /\ work' \in Works /\ work'.pc = work.pc /\ work'.rev = work.rev
        /\ work'.members = work.members /\ work'.phases = work.phases
    BY <1>3, <2>2 DEF Works
  <2>4. WorkOK'
    BY <1>3, <2>3 DEF WorkOK
  <2>5. KeyOK'
    BY <1>1, <1>2, <2>2 DEF KeyOK, keyVars, TypeOK
  <2>6. TypeOK'
    BY <1>2, <2>1, <2>2, <2>4 DEF TypeOK, WorkOK, Works, keyVars
  <2> QED
    BY <2>2, <2>4, <2>5, <2>6
<1>5. CASE EditKey \/ DeleteKey
  <2>1. /\ key' \in [exists : BOOLEAN, ref : BOOLEAN, gen : 0 .. MaxChanges, result : Results \cup {None}, observed : 0 .. MaxChanges]
        /\ key'.gen <= changes'
    <3>1. /\ key \in [exists : BOOLEAN, ref : BOOLEAN, gen : 0 .. MaxChanges, result : Results \cup {None}, observed : 0 .. MaxChanges]
          /\ key.gen + 1 \in 0 .. MaxChanges /\ key.gen + 1 <= changes' /\ key.gen <= changes'
      BY <1>1, <1>2 DEF TypeOK
    <3>2. key' = [key EXCEPT !.ref = ~key.ref, !.gen = key.gen + 1] \/ key' = [key EXCEPT !.exists = FALSE]
      BY <1>5 DEF EditKey, DeleteKey, KeyBecomes
    <3>3. (~key.ref) \in BOOLEAN
      OBVIOUS
    <3> QED
      BY <3>1, <3>2, <3>3
  <2>2. UNCHANGED <<groupVars, ready, flapped, secret>> /\ keyDirty' = TRUE /\ keyWork' = [keyWork EXCEPT !.current = FALSE]
    BY <1>5 DEF EditKey, DeleteKey, KeyBecomes
  <2>3. keyWork' \in KeyWorks
    BY <1>3, <2>2 DEF KeyWorks
  <2>4. WorkOK' /\ KeyOK'
    BY <1>3, <2>1, <2>2, <2>3 DEF WorkOK, KeyOK, groupVars
  <2>5. TypeOK'
    BY <1>2, <2>1, <2>2, <2>3 DEF TypeOK, KeyWorks, groupVars
  <2> QED
    BY <2>2, <2>4, <2>5 DEF groupVars
<1>6. CASE (\E n \in Nodes : NodeChanges(n)) \/ \E s \in {"missing", "other", "full"} : SecretChanges(s)
  <2>1. /\ ready' \subseteq Nodes /\ secret' \in {"missing", "other", "full"} /\ flapped' \in BOOLEAN
        /\ UNCHANGED <<groupVars, keyVars>>
    BY <1>6 DEF NodeChanges, SecretChanges, TypeOK
  <2>2. WorkOK' /\ KeyOK'
    BY <1>1, <1>2, <1>3, <2>1 DEF WorkOK, KeyOK, groupVars, keyVars, TypeOK
  <2>3. TypeOK'
    BY <1>2, <2>1 DEF TypeOK, groupVars, keyVars
  <2> QED
    BY <1>6, <2>2, <2>3 DEF NodeChanges, SecretChanges, groupVars
<1> QED
  BY <1>4, <1>5, <1>6 DEF UserSteps

LEMMA TypeKey == ASSUME TInv, KeyReconciles \/ Resyncs PROVE TInv'
<1> USE GroupAssumption DEF TInv
<1>1. UNCHANGED <<groupVars, ready, flapped, secret, changes>>
  BY DEF KeyReconciles, Resyncs
<1>2. /\ keyWork \in KeyWorks /\ key.gen \in 0 .. MaxChanges /\ key.gen <= changes
      /\ key \in [exists : BOOLEAN, ref : BOOLEAN, gen : 0 .. MaxChanges, result : Results \cup {None}, observed : 0 .. MaxChanges]
  BY DEF KeyOK, TypeOK
<1>3. Lookup \in Results
  BY DEF Lookup, Results, TypeOK
<1>4. KeyResting \in KeyWorks
  BY DEF KeyResting, KeyWorks
<1>5. /\ keyWork' \in KeyWorks /\ keyDirty' \in BOOLEAN /\ key'.gen = key.gen
      /\ key' \in [exists : BOOLEAN, ref : BOOLEAN, gen : 0 .. MaxChanges, result : Results \cup {None}, observed : 0 .. MaxChanges]
  <2>1. CASE KeyGets
    BY <1>2, <1>3, <1>4, <2>1 DEF KeyGets, KeyWorks
  <2>2. CASE setPhase
    BY <1>2, <1>4, <2>2, ZenonT(60) DEF setPhase, KeyWorks, TypeOK
  <2>3. CASE Resync
    BY <1>2, <2>3 DEF Resync
  <2> QED
    BY <2>1, <2>2, <2>3 DEF KeyReconciles, Resyncs
<1>6. WorkOK' /\ KeyOK'
  BY <1>1, <1>2, <1>5 DEF WorkOK, KeyOK, groupVars
<1>7. TypeOK'
  BY <1>1, <1>5 DEF TypeOK, KeyWorks, groupVars
<1> QED
  BY <1>6, <1>7

LEMMA TypeNext == TInv /\ [Next]_vars => TInv'
<1> SUFFICES ASSUME TInv, [Next]_vars PROVE TInv'
  OBVIOUS
<1>1. CASE UNCHANGED vars
  BY <1>1 DEF vars, groupVars, keyVars, TInv, TypeOK, WorkOK, KeyOK
<1> QED
  BY <1>1, TypeGroup, TypeKey, TypeUsers, ChildRecords DEF Next, UserSteps, ChildActions

(* Every variable has its type, and a reconciler at work on a member has   *)
(* one to work on (tunnelgroup_controller.go:44).                          *)
THEOREM TypeCorrect == Spec => []TypeOK
<1>1. Spec => []TInv
  BY TypeInit, TypeNext, PTL DEF Spec
<1>2. TInv => TypeOK
  BY DEF TInv
<1> QED
  BY <1>1, <1>2, PTL

-----------------------------------------------------------------------------
(* Members of a group share a node.                                        *)

(* Before any node changes each member is where the scheduler would put it *)
(* now.                                                                    *)
OnPickedNode == ~flapped => \A m \in Members : child[m].node # None => child[m].node \in pickNode(ready)

LEMMA PickedNext == TInv /\ OnPickedNode /\ [Next]_vars => OnPickedNode'
<1> SUFFICES ASSUME TInv, OnPickedNode, [Next]_vars PROVE OnPickedNode'
  OBVIOUS
<1>1. child \in [Members -> Children]
  BY DEF TInv, TypeOK, Children
<1>2. ASSUME child' = child, ready' = ready, flapped' = flapped PROVE OnPickedNode'
  BY <1>2 DEF OnPickedNode, pickNode
<1>3. CASE UNCHANGED vars \/ KeyReconciles \/ Resyncs
  BY <1>2, <1>3 DEF vars, groupVars, KeyReconciles, Resyncs
<1>4. CASE GroupReconciles
  <2>1. ready' = ready /\ flapped' = flapped
    BY <1>4 DEF GroupReconciles
  <2>2. CASE MemberPuts
    <3>1. Current \in Members
      BY <2>2, CurrentMember DEF TInv, MemberPuts
    <3> DEFINE new == [NoChild EXCEPT !.exists = TRUE, !.owned = TRUE, !.rev = work.rev]
               old == [child[Current] EXCEPT !.rev = work.rev]
    <3>2. new.node = None /\ old.node = child[Current].node
      BY <1>1, <3>1 DEF NoChild, Children
    <3>3. \/ child' = [child EXCEPT ![Current] = new]
          \/ child' = [child EXCEPT ![Current] = old]
          \/ child' = child
      BY <2>2 DEF MemberPuts
    <3> HIDE DEF new, old
    <3>4. \A m \in Members : child'[m].node = child[m].node \/ child'[m].node = None
      BY <1>1, <3>1, <3>2, <3>3
    <3> QED
      BY <2>1, <3>4 DEF OnPickedNode, pickNode
  <2>3. CASE GroupGets \/ MemberGets \/ MemberReads \/ GroupReports
    BY <1>2, <2>1, <2>3 DEF GroupGets, MemberGets, MemberReads, GroupReports
  <2> QED
    BY <1>4, <2>2, <2>3 DEF GroupReconciles, GroupSteps
<1>5. ASSUME NEW m \in Members, ChildActions(m) PROVE OnPickedNode'
  <2>1. PICK r \in Children : /\ child' = [child EXCEPT ![m] = r]
                              /\ r.node = child[m].node \/ r.node = None \/ r.node \in pickNode(ready)
    BY <1>5, ChildRecords
  <2>2. ready' = ready /\ flapped' = flapped
    BY <1>5, Zenon DEF ChildActions, ControllerSchedules, Collect, AgentReports
  <2>3. child'[m] = r /\ \A o \in Members \ {m} : child'[o] = child[o]
    BY <1>1, <2>1
  <2> QED
    BY <2>1, <2>2, <2>3 DEF OnPickedNode, pickNode
<1>6. CASE UserSteps
  BY <1>2, <1>6, TypeUsers DEF OnPickedNode
<1> QED
  BY <1>3, <1>4, <1>5, <1>6 DEF Next, UserSteps, ChildActions

(* As long as no node changes the members of a group that are scheduled    *)
(* share a node, though each is scheduled by itself (scheduler.go:16).     *)
THEOREM MembersShareNode == Spec => []ColocatedIfStable
<1>1. Init => OnPickedNode
  BY DEF Init, OnPickedNode, NoChild
<1>2. Spec => [](TInv /\ OnPickedNode)
  BY <1>1, TypeInit, TypeNext, PickedNext, PTL DEF Spec
<1>3. ASSUME TInv, OnPickedNode PROVE ColocatedIfStable
  <2>1. ready \subseteq Nat
    BY <1>3, GroupAssumption DEF TInv, TypeOK
  <2>2. \A a, b \in pickNode(ready) : a = b
    BY <2>1 DEF pickNode
  <2> QED
    BY <1>3, <2>2 DEF OnPickedNode, ColocatedIfStable
<1> QED
  BY <1>2, <1>3, PTL
-----------------------------------------------------------------------------
(* What a reconciler with nothing left to do has done.                     *)

(* The Tunnel of m is as the template has it.                              *)
Follows(m) == child[m].exists /\ child[m].rev = group.template.rev

Reported == (\A m \in InTemplate : Follows(m)) /\ group.phase \in Phases /\ Worst(group.phase)

(* As long as nothing is queued the copy is the group, and what has been   *)
(* visited is as it was then.                                              *)
VisitedOK ==
    group.exists /\ ~dirty =>
       /\ work.pc = "idle" => Reported
       /\ work.pc # "idle" =>
             /\ work.current
             /\ work.members = group.template.members /\ work.rev = group.template.rev
             /\ \A k \in 1 .. Len(work.phases) :
                   Follows(work.members[k]) /\ work.phases[k] = child[work.members[k]].phase
       /\ work.pc = "read" => Follows(Current)

(* The phase reported is the worst of those collected.                     *)
LEMMA AggregateIsWorst ==
  ASSUME NEW S \in SUBSET (Phases \cup {None}), S # {}
  PROVE  /\ aggregatePhase(S) \in Phases
         /\ \E p \in S : Severity(p) = Severity(aggregatePhase(S))
         /\ \A p \in S : Severity(p) <= Severity(aggregatePhase(S))
<1>1. /\ Severity("Failed") = 3 /\ Severity("Degraded") = 2 /\ Severity("Pending") = 1
      /\ Severity(None) = 1 /\ Severity("Healthy") = 0 /\ Severity("Stopped") = 0
  BY GroupAssumption DEF Severity, Phases
<1>2. \A p \in S : p \in {"Pending", "Healthy", "Degraded", "Failed", "Stopped", None}
  BY DEF Phases
<1>3. CASE "Failed" \in S
  BY <1>1, <1>2, <1>3 DEF aggregatePhase, Phases
<1>4. CASE "Failed" \notin S /\ "Degraded" \in S
  BY <1>1, <1>2, <1>4 DEF aggregatePhase, Phases
<1>5. CASE "Failed" \notin S /\ "Degraded" \notin S /\ S \cap {"Pending", None} # {}
  <2>1. aggregatePhase(S) = "Pending" /\ "Pending" \in Phases
    BY <1>5 DEF aggregatePhase, Phases
  <2>2. PICK q \in S : q \in {"Pending", None}
    BY <1>5
  <2>3. Severity(q) = 1 /\ \A p \in S : Severity(p) \in {0, 1}
    BY <1>1, <1>2, <1>5, <2>2
  <2> QED
    BY <1>1, <2>1, <2>3
<1>6. CASE "Failed" \notin S /\ "Degraded" \notin S /\ S \cap {"Pending", None} = {}
  <2>1. aggregatePhase(S) = "Healthy" /\ "Healthy" \in Phases
    BY <1>6 DEF aggregatePhase, Phases
  <2>2. \A p \in S : p \in {"Healthy", "Stopped"}
    BY <1>2, <1>6
  <2>3. \A p \in S : Severity(p) = 0
    BY <1>1, <2>2
  <2> QED
    BY <1>1, <2>1, <2>3
<1> QED
  BY <1>3, <1>4, <1>5, <1>6

LEMMA VisitedReports == ASSUME TInv, VisitedOK, GroupReports PROVE VisitedOK'
<1> USE GroupAssumption
<1>1. SUFFICES ASSUME group'.exists, ~dirty' PROVE Reported'
  BY DEF VisitedOK, GroupReports, Requeues, Resting
<1> DEFINE S == {work.phases[k] : k \in DOMAIN work.phases}
<1>2. /\ work \in Works /\ work.pc = "status" /\ Len(work.phases) = Len(work.members)
      /\ DOMAIN work.phases = 1 .. Len(work.phases) /\ DOMAIN work.members = 1 .. Len(work.members)
      /\ S \subseteq Phases \cup {None}
  <2>1. work \in Works /\ work.pc = "status" /\ Len(work.phases) = Len(work.members)
    BY DEF TInv, WorkOK, GroupReports
  <2>2. work.phases \in Seq(Phases \cup {None}) /\ work.members \in Seq(Members)
    BY <2>1 DEF Works
  <2>3. \A k \in 1 .. Len(work.phases) : work.phases[k] \in Phases \cup {None}
    BY <2>2, ElementOfSeq
  <2> QED
    BY <2>1, <2>2, <2>3, LenProperties
<1>3. /\ work.current /\ group.phase = aggregatePhase(S) /\ ~dirty
      /\ group' = [group EXCEPT !.phase = aggregatePhase(S)] /\ child' = child
  BY <1>1 DEF GroupReports, Requeues
<1>4. group' = group
  BY <1>3 DEF TInv, TypeOK
<1>5. /\ work.members = group.template.members
      /\ \A k \in 1 .. Len(work.phases) :
            Follows(work.members[k]) /\ work.phases[k] = child[work.members[k]].phase
  BY <1>1, <1>2, <1>3, <1>4 DEF VisitedOK
<1>6. \A m \in InTemplate : Follows(m) /\ child[m].phase \in S
  BY <1>2, <1>5 DEF InTemplate
<1>7. \A p \in S : \E m \in InTemplate : p = child[m].phase
  BY <1>2, <1>5 DEF InTemplate
<1>8. S # {}
  <2>1. group.template.members \in Seq(Members) /\ group.template.members # <<>>
    BY DEF TInv, TypeOK
  <2>2. Len(group.template.members) \in Nat \ {0}
    BY <2>1, EmptySeq, LenProperties
  <2>3. 1 \in DOMAIN work.phases
    BY <1>2, <1>5, <2>2
  <2> QED
    BY <2>3
<1> HIDE DEF S
<1>9. Reported
  BY <1>2, <1>3, <1>6, <1>7, <1>8, AggregateIsWorst DEF Reported, Worst
<1> QED
  BY <1>3, <1>4, <1>9 DEF Reported, Worst, InTemplate, Follows

LEMMA VisitedNext == TInv /\ VisitedOK /\ [Next]_vars => VisitedOK'
<1> SUFFICES ASSUME TInv, VisitedOK, [Next]_vars PROVE VisitedOK'
  OBVIOUS
<1> USE GroupAssumption
<1>1. ASSUME UNCHANGED groupVars PROVE VisitedOK'
  BY <1>1 DEF groupVars, VisitedOK, Reported, Worst, InTemplate, Follows, Current
<1>2. ASSUME dirty' = TRUE PROVE VisitedOK'
  BY <1>2 DEF VisitedOK
<1>3. WorkOK /\ work \in Works
  BY DEF TInv, WorkOK
<1>4. CASE GroupGets
  <2> SUFFICES ASSUME group.exists PROVE VisitedOK'
    BY <1>4 DEF GroupGets, VisitedOK
  <2> DEFINE w == [pc |-> "get", members |-> group.template.members, rev |-> group.template.rev,
                   phases |-> <<>>, fresh |-> FALSE, current |-> TRUE]
  <2>1. work' = w /\ UNCHANGED <<group, child>> /\ Len(<<>>) = 0
    BY <1>4, EmptySeq DEF GroupGets
  <2>2. /\ work'.pc = "get" /\ work'.current /\ work'.members = group.template.members
        /\ work'.rev = group.template.rev /\ Len(work'.phases) = 0
    BY <2>1
  <2> QED
    BY <2>1, <2>2 DEF VisitedOK
<1>5. CASE MemberGets
  <2>1. /\ work'.pc = "put" /\ work.pc = "get" /\ work'.current = work.current /\ work'.rev = work.rev
        /\ work'.members = work.members /\ work'.phases = work.phases /\ UNCHANGED <<group, child, dirty>>
    BY <1>3, <1>5 DEF MemberGets, Works
  <2> QED
    BY <2>1 DEF VisitedOK, Follows
<1>6. CASE MemberPuts
  <2> SUFFICES ASSUME ~dirty' PROVE VisitedOK'
    BY DEF VisitedOK
  <2>1. /\ work' = [work EXCEPT !.pc = "read"] /\ work.pc = "put" /\ UNCHANGED <<group, child, dirty>>
        /\ child[Current].exists /\ child[Current].rev = work.rev
    BY <1>6 DEF MemberPuts, Requeues
  <2>2. /\ work'.pc = "read" /\ work'.current = work.current /\ work'.rev = work.rev
        /\ work'.members = work.members /\ work'.phases = work.phases
    BY <1>3, <2>1 DEF Works
  <2>3. Current' = Current
    BY <2>2 DEF Current
  <2> QED
    BY <2>1, <2>2, <2>3 DEF VisitedOK, Follows
<1>7. CASE MemberReads
  <2>1. Current \in Members /\ work.pc = "read" /\ UNCHANGED <<group, child, dirty>>
    BY <1>3, <1>7, CurrentMember DEF MemberReads
  <2>2. child[Current].phase \in Phases \cup {None}
    BY <2>1 DEF TInv, TypeOK
  <2> DEFINE p == Append(work.phases, child[Current].phase)
             l == IF Len(work.phases) + 1 = Len(work.members) THEN "status" ELSE "get"
  <2>3. /\ Len(p) = Len(work.phases) + 1 /\ Len(work.phases) \in Nat
        /\ \A k \in 1 .. Len(work.phases) : p[k] = work.phases[k]
        /\ p[Len(work.phases) + 1] = child[Current].phase
    BY <1>3, <2>2, AppendProperties, LenProperties DEF Works
  <2>4. work' = [work EXCEPT !.phases = p, !.pc = l] /\ l \in {"status", "get"}
    BY <1>7 DEF MemberReads
  <2> HIDE DEF p, l
  <2>5. /\ work'.pc = l /\ work'.current = work.current /\ work'.rev = work.rev
        /\ work'.members = work.members /\ work'.phases = p
    BY <1>3, <2>4 DEF Works
  <2> SUFFICES ASSUME group.exists, ~dirty PROVE VisitedOK'
    BY <2>1 DEF VisitedOK
  <2>6. /\ work.current /\ work.members = group.template.members /\ work.rev = group.template.rev
        /\ Follows(Current)
        /\ \A k \in 1 .. Len(work.phases) :
              Follows(work.members[k]) /\ work.phases[k] = child[work.members[k]].phase
    BY <2>1 DEF VisitedOK
  <2>7. \A k \in 1 .. Len(p) : Follows(work.members[k]) /\ p[k] = child[work.members[k]].phase
    <3> SUFFICES ASSUME NEW k \in 1 .. Len(p) PROVE Follows(work.members[k]) /\ p[k] = child[work.members[k]].phase
      OBVIOUS
    <3>1. CASE k \in 1 .. Len(work.phases)
      BY <2>3, <2>6, <3>1
    <3>2. CASE k = Len(work.phases) + 1
      BY <2>3, <2>6, <3>2 DEF Current
    <3> QED
      BY <2>3, <3>1, <3>2
  <2> QED
    BY <2>1, <2>4, <2>5, <2>6, <2>7 DEF VisitedOK, Follows
<1>8. CASE GroupReconciles
  BY <1>4, <1>5, <1>6, <1>7, <1>8, VisitedReports DEF GroupReconciles, GroupSteps
<1>9. CASE KeyReconciles \/ Resyncs \/ UNCHANGED vars
  BY <1>1, <1>9, Zenon DEF KeyReconciles, Resyncs, vars
<1>10. ASSUME NEW m \in Members, ChildActions(m) PROVE VisitedOK'
  <2>1. dirty' = TRUE
    BY <1>10, Zenon DEF ChildActions, ControllerSchedules, Collect, AgentReports, ChildBecomes
  <2> QED
    BY <1>2, <2>1
<1>11. CASE UserSteps
  <2>1. CASE (\E t \in Templates : Edit(t)) \/ Delete
    BY <1>2, <2>1 DEF Edit, Delete, GroupBecomes
  <2>2. CASE EditKey \/ DeleteKey
    BY <1>1, <2>2, Zenon DEF EditKey, DeleteKey, KeyBecomes
  <2>3. CASE (\E n \in Nodes : NodeChanges(n)) \/ \E s \in {"missing", "other", "full"} : SecretChanges(s)
    BY <1>1, <2>3, Zenon DEF NodeChanges, SecretChanges
  <2> QED
    BY <1>11, <2>1, <2>2, <2>3 DEF UserSteps
<1> QED
  BY <1>8, <1>9, <1>10, <1>11 DEF Next, UserSteps, ChildActions

(* A group whose reconciler has nothing queued and nothing under way has a *)
(* Tunnel with the template's spec for every member, and a phase that is   *)
(* the worst of theirs, whatever was edited, reported or refused while the *)
(* reconciler worked on its copy (tunnelgroup_controller.go:76).           *)
QuietGroupReported == group.exists /\ ~dirty /\ work.pc = "idle" => Reported

(* No change of a group or of its members is lost between the copy and the *)
(* report: the safety half of GroupConverges and ChildrenFollow.           *)
THEOREM QuietGroupHasReported == Spec => []QuietGroupReported
<1>1. Init => VisitedOK
  BY DEF Init, VisitedOK
<1>2. VisitedOK => QuietGroupReported
  BY DEF VisitedOK, QuietGroupReported
<1> QED
  BY <1>1, <1>2, TypeInit, TypeNext, VisitedNext, PTL DEF Spec

-----------------------------------------------------------------------------
(* The same for a key.                                                     *)

KeySeenOK ==
    key.exists /\ ~keyDirty =>
       /\ keyWork.pc = "idle" => key.observed = key.gen /\ (key.result = "noRef" <=> ~key.ref)
       /\ keyWork.pc = "write" =>
             keyWork.current /\ keyWork.gen = key.gen /\ (keyWork.result = "noRef" <=> ~key.ref)

LEMMA KeySeenNext == TInv /\ KeySeenOK /\ [Next]_vars => KeySeenOK'
<1> SUFFICES ASSUME TInv, KeySeenOK, [Next]_vars PROVE KeySeenOK'
  OBVIOUS
<1>1. ASSUME UNCHANGED keyVars PROVE KeySeenOK'
  BY <1>1 DEF keyVars, KeySeenOK
<1>2. ASSUME keyDirty' = TRUE PROVE KeySeenOK'
  BY <1>2 DEF KeySeenOK
<1>3. CASE KeyGets
  <2>1. Lookup = "noRef" <=> ~key.ref
    BY DEF Lookup, TInv, TypeOK
  <2> SUFFICES ASSUME key.exists PROVE KeySeenOK'
    BY <1>3 DEF KeyGets, KeySeenOK
  <2>2. key' = key /\ keyWork' = [pc |-> "write", result |-> Lookup, gen |-> key.gen, current |-> TRUE]
    BY <1>3 DEF KeyGets
  <2>3. keyWork'.pc = "write" /\ keyWork'.result = Lookup /\ keyWork'.gen = key.gen /\ keyWork'.current
    BY <2>2
  <2> QED
    BY <2>1, <2>2, <2>3 DEF KeySeenOK
<1>4. CASE setPhase
  BY <1>4 DEF setPhase, KeySeenOK, KeyResting
<1>5. CASE KeyReconciles \/ Resyncs
  BY <1>2, <1>3, <1>4, <1>5 DEF KeyReconciles, Resyncs, Resync
<1>6. CASE GroupReconciles \/ UNCHANGED vars
  BY <1>1, <1>6, Zenon DEF GroupReconciles, vars
<1>7. ASSUME NEW m \in Members, ChildActions(m) PROVE KeySeenOK'
  <2>1. UNCHANGED keyVars
    BY <1>7, Zenon DEF ChildActions, ControllerSchedules, Collect, AgentReports, ChildBecomes
  <2> QED
    BY <1>1, <2>1
<1>8. CASE UserSteps
  <2>1. CASE EditKey \/ DeleteKey
    BY <1>2, <2>1 DEF EditKey, DeleteKey, KeyBecomes
  <2>2. CASE (\E t \in Templates : Edit(t)) \/ Delete
    BY <1>1, <2>2, Zenon DEF Edit, Delete, GroupBecomes
  <2>3. CASE (\E n \in Nodes : NodeChanges(n)) \/ \E s \in {"missing", "other", "full"} : SecretChanges(s)
    BY <1>1, <2>3, Zenon DEF NodeChanges, SecretChanges
  <2> QED
    BY <1>8, <2>1, <2>2, <2>3 DEF UserSteps
<1> QED
  BY <1>5, <1>6, <1>7, <1>8 DEF Next, UserSteps, ChildActions

(* A key whose reconciler has nothing queued and nothing under way carries *)
(* the result of its own generation; nothing but a change of the Secret,   *)
(* which is not watched, can make it stale (tunnelkey_controller.go:43).   *)
QuietKeyReported ==
    key.exists /\ ~keyDirty /\ keyWork.pc = "idle" => key.observed = key.gen /\ (key.result = "noRef" <=> ~key.ref)

(* A write of a key's status that is refused, or that meets a newer        *)
(* generation, is made again (tunnelkey_controller.go:57).                 *)
THEOREM QuietKeyHasReported == Spec => []QuietKeyReported
<1>1. Init => KeySeenOK
  BY DEF Init, KeySeenOK
<1>2. KeySeenOK => QuietKeyReported
  BY DEF KeySeenOK, QuietKeyReported
<1> QED
  BY <1>1, <1>2, TypeInit, TypeNext, KeySeenNext, PTL DEF Spec
=============================================================================
