---------------------------- MODULE LaunchProofs ----------------------------
(* Proofs about TunnelProcess: who works on what a launch owns and who     *)
(* holds s.mu, for any clients; and the daemon that is left alone, for any *)
(* number of restarts.                                                     *)
EXTENDS TunnelProcessProofs

(* Start has forked the child and not yet spawned its waiter.              *)
Forked == {"startPublish", "startStatus"}

(* A goroutine between the creation of a run context and the return of     *)
(* Start alone works on the launch it holds.                               *)
OwnersOK ==
    /\ \A k \in Launches : k > launched => child[k] = "none" /\ pc[k] = "none"
    /\ \A a \in Actors : pc[a] \in LaunchPcs =>
          /\ my[a] \in 1 .. launched
          /\ pc[my[a]] = "none"
          /\ pc[a] \in Forked <=> child[my[a]] # "none"
    /\ \A a, b \in Actors :
          pc[a] \in LaunchPcs /\ pc[b] \in LaunchPcs /\ my[a] = my[b] => a = b

(* Where the waiter of a launch is, by its child and its monitor.          *)
WaitersOK ==
    \A k \in Launches :
        /\ waiter[k] = "none" <=> pc[k] = "none"
        /\ child[k] = "reaped" <=> waiter[k] \in {"send", "done"}
        /\ child[k] = "none" => waiter[k] = "none"
        /\ waiter[k] = "none" /\ child[k] # "none" =>
              \E a \in Actors : pc[a] \in Forked /\ my[a] = k

(* A panic ends every goroutine where it is.                               *)
OInv == TInv /\ (DaemonUp => OwnersOK /\ WaitersOK)

LEMMA OwnersInit == Init => OInv
<1> SUFFICES ASSUME Init PROVE OwnersOK /\ WaitersOK
  BY TypeInit DEF OInv
<1> USE ActorsAssumption DEF Init, Launches, Actors, Callers
<1>1. \A k \in Launches : child[k] = "none" /\ waiter[k] = "none" /\ pc[k] = "none"
  OBVIOUS
<1>2. \A a \in Actors : pc[a] \notin LaunchPcs
  BY DEF LaunchPcs
<1> QED
  BY <1>1, <1>2 DEF OwnersOK, WaitersOK

(* A step that leaves the launches under way and the waiters alone, and    *)
(* neither makes nor reaps a child.                                        *)
LEMMA OwnersFrame ==
  ASSUME OwnersOK, WaitersOK, launched' = launched, waiter' = waiter,
         \A k \in Launches : /\ child'[k] = "none" <=> child[k] = "none"
                             /\ child'[k] = "reaped" <=> child[k] = "reaped",
         \A b \in Actors : /\ pc'[b] = "none" <=> pc[b] = "none"
                           /\ pc[b] \in LaunchPcs \/ pc'[b] \in LaunchPcs =>
                                 pc'[b] = pc[b] /\ my'[b] = my[b],
         TypeOK
  PROVE  OwnersOK' /\ WaitersOK'
<1>0. Launches \subseteq Actors /\ 1 .. launched \subseteq Launches
  BY ConstantsAssumption DEF Actors, Launches, TypeOK
<1>1. \A k \in Launches : k > launched' => child'[k] = "none" /\ pc'[k] = "none"
  BY <1>0 DEF OwnersOK
<1>2. ASSUME NEW a \in Actors, pc'[a] \in LaunchPcs
      PROVE  /\ my'[a] \in 1 .. launched'
             /\ pc'[my'[a]] = "none"
             /\ pc'[a] \in Forked <=> child'[my'[a]] # "none"
  <2>1. pc[a] \in LaunchPcs /\ pc'[a] = pc[a] /\ my'[a] = my[a]
    BY <1>2
  <2>2. my[a] \in 1 .. launched /\ pc[my[a]] = "none" /\ (pc[a] \in Forked <=> child[my[a]] # "none")
    BY <2>1 DEF OwnersOK
  <2> QED
    BY <1>0, <2>1, <2>2 DEF Forked
<1>3. \A a, b \in Actors : pc'[a] \in LaunchPcs /\ pc'[b] \in LaunchPcs /\ my'[a] = my'[b] => a = b
  BY DEF OwnersOK
<1>4. OwnersOK'
  BY <1>1, <1>2, <1>3 DEF OwnersOK
<1>5. ASSUME NEW k \in Launches, waiter'[k] = "none", child'[k] # "none"
      PROVE  \E a \in Actors : pc'[a] \in Forked /\ my'[a] = k
  <2>1. PICK a \in Actors : pc[a] \in Forked /\ my[a] = k
    BY <1>5 DEF WaitersOK
  <2> QED
    BY <2>1 DEF LaunchPcs, Forked
<1>6. WaitersOK'
  BY <1>0, <1>5 DEF WaitersOK
<1> QED
  BY <1>4, <1>6

LEMMA OwnersStart ==
  ASSUME OInv, NEW a \in Actors, Start(a) PROVE OwnersOK' /\ WaitersOK'
<1> USE ConstantsAssumption, ActorsAssumption, AfterStartType
    DEF TInv, TypeOK, fields, owned, supervisor, GoTo, Forget, Forked
<1>0. OwnersOK /\ WaitersOK /\ TypeOK
  BY DEF OInv, Start, StartCheck, StartLogFails, StartCancel, StartFails, StartCmd, StartExec, StartFork, StartPublish, StartStatus
<1>1. Launches \subseteq Actors /\ \A i \in 1 .. launched : i \in Launches
  BY <1>0 DEF Actors, Launches
<1>2. CASE StartCheck(a) \/ StartLogFails(a) \/ StartCmd(a) \/ StartExec(a) \/ StartPublish(a)
  <2>1. CASE StartCheck(a) \/ StartLogFails(a)
    BY <1>0, <2>1, OwnersFrame DEF StartCheck, StartLogFails, LaunchPcs
  <2>2. CASE StartCmd(a)
    <3>1. OwnersOK'
      BY <1>0, <1>1, <2>2 DEF StartCmd, OwnersOK, LaunchPcs
    <3>2. WaitersOK'
      BY <1>0, <1>1, <2>2 DEF StartCmd, WaitersOK
    <3> QED
      BY <3>1, <3>2
  <2>3. CASE StartExec(a)
    <3>1. OwnersOK'
      BY <1>0, <1>1, <2>3 DEF StartExec, OwnersOK, LaunchPcs
    <3>2. WaitersOK'
      BY <1>0, <1>1, <2>3 DEF StartExec, WaitersOK
    <3> QED
      BY <3>1, <3>2
  <2>4. CASE StartPublish(a)
    <3>1. OwnersOK'
      BY <1>0, <1>1, <2>4 DEF StartPublish, OwnersOK, LaunchPcs
    <3>2. WaitersOK'
      BY <1>0, <1>1, <2>4 DEF StartPublish, WaitersOK
    <3> QED
      BY <3>1, <3>2
  <2> QED
    BY <1>2, <2>1, <2>2, <2>3, <2>4
<1>3. CASE StartCancel(a)
  <2> DEFINE n == launched + 1
  <2>1. n \in Launches /\ child[n] = "none" /\ pc[n] = "none" /\ a # n
    BY <1>0, <1>3 DEF StartCancel, OwnersOK, Launches
  <2>2. OwnersOK'
    <3>1. \A j \in Launches : j > launched' => child'[j] = "none" /\ pc'[j] = "none"
      BY <1>0, <1>1, <1>3, <2>1 DEF StartCancel, OwnersOK, Launches
    <3>2. ASSUME NEW b \in Actors, pc'[b] \in LaunchPcs
          PROVE  /\ my'[b] \in 1 .. launched'
                 /\ pc'[my'[b]] = "none"
                 /\ pc'[b] \in Forked <=> child'[my'[b]] # "none"
                 /\ b # a => my'[b] # n
      <4>1. CASE b = a
        BY <1>0, <1>3, <2>1, <4>1 DEF StartCancel
      <4>2. CASE b # a
        <5>1. pc[b] \in LaunchPcs /\ my'[b] = my[b]
          BY <1>3, <3>2, <4>2 DEF StartCancel
        <5>2. my[b] \in 1 .. launched /\ pc[my[b]] = "none" /\ (pc[b] \in Forked <=> child[my[b]] # "none")
          BY <1>0, <5>1 DEF OwnersOK
        <5>3. my[b] # a /\ my[b] # n
          BY <1>0, <1>3, <5>2 DEF StartCancel
        <5> QED
          BY <1>0, <1>1, <1>3, <4>2, <5>1, <5>2, <5>3 DEF StartCancel
      <4> QED
        BY <4>1, <4>2
    <3>3. \A b, d \in Actors :
             pc'[b] \in LaunchPcs /\ pc'[d] \in LaunchPcs /\ my'[b] = my'[d] => b = d
      BY <1>0, <1>3, <3>2 DEF StartCancel, OwnersOK
    <3> QED
      BY <3>1, <3>2, <3>3 DEF OwnersOK
  <2>3. WaitersOK'
    BY <1>0, <1>1, <1>3, <2>1 DEF StartCancel, WaitersOK
  <2> QED
    BY <2>2, <2>3
<1>4. CASE StartFails(a)
  <2>1. my[a] \in Launches /\ child[my[a]] = "none"
    BY <1>0, <1>1, <1>4 DEF StartFails, OwnersOK, LaunchPcs
  <2>2. OwnersOK'
    BY <1>0, <1>1, <1>4 DEF StartFails, OwnersOK, LaunchPcs
  <2>3. WaitersOK'
    BY <1>0, <1>1, <1>4, <2>1 DEF StartFails, WaitersOK
  <2> QED
    BY <2>2, <2>3
<1>5. CASE StartFork(a)
  <2> DEFINE k == my[a]
  <2>1. k \in Launches /\ pc[k] = "none" /\ child[k] = "none" /\ k <= launched /\ k # a
    BY <1>0, <1>1, <1>5 DEF StartFork, OwnersOK, LaunchPcs
  <2>2. OwnersOK'
    BY <1>0, <1>1, <1>5, <2>1 DEF StartFork, OwnersOK, LaunchPcs
  <2>3. WaitersOK'
    BY <1>0, <1>1, <1>5, <2>1 DEF StartFork, WaitersOK
  <2> QED
    BY <2>2, <2>3
<1>6. CASE StartStatus(a)
  <2> DEFINE k == my[a]
  <2>1. k \in Launches /\ pc[k] = "none" /\ child[k] # "none" /\ k <= launched /\ k # a
    BY <1>0, <1>1, <1>6 DEF StartStatus, OwnersOK, LaunchPcs
  <2>2. waiter[k] = "none" /\ child[k] # "reaped"
    BY <1>0, <2>1 DEF WaitersOK
  <2>3. OwnersOK'
    BY <1>0, <1>1, <1>6, <2>1 DEF StartStatus, OwnersOK, LaunchPcs
  <2>4. WaitersOK'
    BY <1>0, <1>1, <1>6, <2>1, <2>2 DEF StartStatus, WaitersOK
  <2> QED
    BY <2>3, <2>4
<1> QED
  BY <1>2, <1>3, <1>4, <1>5, <1>6 DEF Start

LEMMA OwnersWaiter ==
  ASSUME OInv, NEW k \in Launches, Waiter(k) PROVE OwnersOK' /\ WaitersOK'
<1> USE DEF TInv, TypeOK, fields, control, supervisor
<1>0. OwnersOK /\ WaitersOK /\ TypeOK /\ Launches \subseteq Actors
  BY DEF OInv, Waiter, WaiterReaps, WaiterSends, Actors
<1>1. CASE WaiterReaps(k)
  <2>0. \A j \in Launches : child'[j] = "none" <=> child[j] = "none"
    BY <1>0, <1>1 DEF WaiterReaps
  <2>1. OwnersOK'
    <3>1. \A b \in Actors : pc[b] \in LaunchPcs => my[b] \in Launches
      BY <1>0, ConstantsAssumption DEF OwnersOK, Launches
    <3> QED
      BY <1>0, <1>1, <2>0, <3>1 DEF WaiterReaps, OwnersOK
  <2>2. WaitersOK'
    BY <1>0, <1>1 DEF WaiterReaps, WaitersOK
  <2> QED
    BY <2>1, <2>2
<1>2. CASE WaiterSends(k)
  BY <1>0, <1>2 DEF WaiterSends, OwnersOK, WaitersOK
<1> QED
  BY <1>1, <1>2 DEF Waiter

LEMMA OwnersStop ==
  ASSUME OInv, DaemonUp', NEW a \in Callers, Stop(a) PROVE OwnersOK' /\ WaitersOK'
<1> USE ActorsAssumption DEF TInv, TypeOK, fields, owned, supervisor, GoTo, Forget, LaunchPcs
<1>0. OwnersOK /\ WaitersOK /\ TypeOK /\ a \in Actors /\ Main \in Actors
  BY DEF OInv, Stop, StopExpect, StopCancel, StopCheck, StopReceive, StopTimeout, StopPanics, Actors, Callers
<1>1. CASE StopExpect(a) \/ StopCancel(a)
  BY <1>0, <1>1, OwnersFrame DEF StopExpect, StopCancel
<1>2. CASE StopCheck(a) /\ HasProcess
  BY <1>0, <1>2, OwnersFrame DEF StopCheck
<1>3. CASE StopCheck(a) /\ ~HasProcess
  BY <1>0, <1>3, OwnersFrame DEF StopCheck, StopReturn
<1>4. CASE StopReceive(a)
  BY <1>0, <1>4, OwnersFrame DEF StopReceive, StopReturn
<1>5. CASE StopTimeout(a)
  <2>1. \A k \in Launches : /\ child'[k] = "none" <=> child[k] = "none"
                            /\ child'[k] = "reaped" <=> child[k] = "reaped"
    BY <1>0, <1>5 DEF StopTimeout
  <2> QED
    BY <1>0, <1>5, <2>1, OwnersFrame DEF StopTimeout, StopReturn
<1>6. CASE StopPanics(a)
  BY <1>0, <1>6 DEF StopPanics, DaemonUp
<1> QED
  BY <1>1, <1>2, <1>3, <1>4, <1>5, <1>6 DEF Stop

LEMMA OwnersMonitor ==
  ASSUME OInv, NEW k \in Launches, Monitor(k) PROVE OwnersOK' /\ WaitersOK'
<1> USE DEF TInv, TypeOK, fields, owned, supervisor, GoTo, Forget, LaunchPcs
<1>0. OwnersOK /\ WaitersOK /\ TypeOK /\ k \in Actors
  BY DEF OInv, Actors, Monitor, MonitorCtxDone, MonitorReceives, MonitorTickIdle, MonitorTickOk,
         MonitorHealthy, MonitorTickFails, FailureDecides, FailureIncrement
<1>1. CASE MonitorCtxDone(k)
  BY <1>0, <1>1, OwnersFrame DEF MonitorCtxDone
<1>2. CASE MonitorReceives(k)
  BY <1>0, <1>2, OwnersFrame DEF MonitorReceives
<1>3. CASE MonitorTickIdle(k)
  BY <1>0, <1>3, OwnersFrame DEF MonitorTickIdle
<1>4. CASE MonitorTickOk(k)
  BY <1>0, <1>4, OwnersFrame DEF MonitorTickOk
<1>5. CASE MonitorHealthy(k)
  BY <1>0, <1>5, OwnersFrame DEF MonitorHealthy
<1>6. CASE MonitorTickFails(k)
  BY <1>0, <1>6, OwnersFrame DEF MonitorTickFails
<1>7. CASE FailureDecides(k)
  BY <1>0, <1>7, OwnersFrame DEF FailureDecides
<1>8. CASE FailureIncrement(k)
  BY <1>0, <1>8, OwnersFrame DEF FailureIncrement
<1> QED
  BY <1>1, <1>2, <1>3, <1>4, <1>5, <1>6, <1>7, <1>8 DEF Monitor

LEMMA OwnersOther ==
  ASSUME OInv, DaemonUp,
         \/ \E k \in Launches : ChildExits(k) \/ ChildKilled(k)
         \/ \E c \in Clients : Client(c)
         \/ Shutdown \/ StopAll \/ UNCHANGED vars
  PROVE  OwnersOK' /\ WaitersOK'
<1> USE DEF TInv, TypeOK, fields, owned, control, supervisor, GoTo, LaunchPcs
<1>0. OwnersOK /\ WaitersOK /\ TypeOK /\ Clients \subseteq Actors /\ Main \in Actors
  BY DEF OInv, Actors, Callers
<1>1. ASSUME NEW k \in Launches, ChildExits(k) \/ ChildKilled(k) PROVE OwnersOK' /\ WaitersOK'
  <2>1. \A j \in Launches : /\ child'[j] = "none" <=> child[j] = "none"
                            /\ child'[j] = "reaped" <=> child[j] = "reaped"
    BY <1>0, <1>1 DEF ChildExits, ChildKilled
  <2> QED
    BY <1>0, <1>1, <2>1, OwnersFrame DEF ChildExits, ChildKilled
<1>2. ASSUME NEW c \in Clients, Client(c) PROVE OwnersOK' /\ WaitersOK'
  BY <1>0, <1>2, OwnersFrame DEF Client, StartTunnel, EnableTunnel, StopTunnel, RemoveTunnel, Request
<1>3. CASE Shutdown
  BY <1>0, <1>3, OwnersFrame DEF Shutdown
<1>4. CASE StopAll
  BY <1>0, <1>4, OwnersFrame DEF StopAll
<1>5. CASE UNCHANGED vars
  BY <1>0, <1>5, OwnersFrame DEF vars
<1> QED
  BY <1>1, <1>2, <1>3, <1>4, <1>5

(* A daemon that has ended takes no step any more.                         *)
LEMMA DaemonEnds == ~DaemonUp /\ [Next]_vars => UNCHANGED vars
  BY DEF Next, Start, StartCheck, StartLogFails, StartCancel, StartFails, StartCmd, StartExec, StartFork,
         StartPublish, StartStatus, Stop, StopExpect, StopCancel, StopCheck, StopReceive, StopTimeout, StopPanics,
         ChildExits, ChildKilled, Waiter, WaiterReaps, WaiterSends, Monitor, MonitorCtxDone,
         MonitorReceives, MonitorTickIdle, MonitorTickOk, MonitorHealthy, MonitorTickFails,
         FailureDecides, FailureIncrement, Client, StartTunnel, EnableTunnel, StopTunnel,
         RemoveTunnel, Request, Shutdown, StopAll, Terminated

LEMMA OwnersNext == OInv /\ [Next]_vars => OInv'
<1> SUFFICES ASSUME OInv, [Next]_vars PROVE OInv'
  OBVIOUS
<1>1. TInv'
  BY TypeNext DEF OInv
<1>2. CASE ~DaemonUp
  <2>1. UNCHANGED vars
    BY <1>2, DaemonEnds
  <2>2. ~DaemonUp'
    BY <1>2, <2>1 DEF vars, control, DaemonUp
  <2> QED
    BY <1>1, <2>2 DEF OInv
<1>3. ASSUME DaemonUp, DaemonUp' PROVE OwnersOK' /\ WaitersOK'
  BY <1>3, OwnersStart, OwnersStop, OwnersWaiter, OwnersMonitor, OwnersOther DEF Next, Terminated
<1> QED
  BY <1>1, <1>2, <1>3 DEF OInv

(* While the daemon runs, a child that is alive or has ended is waited for *)
(* by its own waiter, or the Start that launched it is about to spawn that *)
(* waiter: cmd.Wait reaps every child, so none is left behind as a zombie, *)
(* however clients and restarts race (process.go:188).                     *)
Attended ==
    DaemonUp => \A k \in Launches : child[k] \in {"live", "exitOk", "exitErr"} =>
        waiter[k] = "wait" \/ \E a \in Actors : pc[a] \in Forked /\ my[a] = k

(* No exit of a child goes unnoticed by cmd.Wait (process.go:188).         *)
THEOREM EveryChildIsWaitedFor == Spec => []Attended
<1>1. Spec => []OInv
  BY OwnersInit, OwnersNext, PTL DEF Spec
<1>2. OInv => Attended
  BY DEF OInv, TInv, TypeOK, WaitersOK, Attended, WaiterStates, ChildStates
<1> QED
  BY <1>1, <1>2, PTL

-----------------------------------------------------------------------------
(* s.mu: one goroutine at a time holds it for writing, and while the       *)
(* daemon runs the holder is inside Process.Stop.                          *)
LockOK ==
    /\ \A a, b \in lock : a = b
    /\ \A a \in lock : pc[a] \in StopPcs

LInv == TInv /\ (DaemonUp => LockOK)

LEMMA LockNext == LInv /\ [Next]_vars => LInv'
<1> SUFFICES ASSUME LInv, [Next]_vars PROVE LInv'
  OBVIOUS
<1> USE ActorsAssumption DEF TInv, TypeOK, GoTo, StopPcs
<1>0. TypeOK /\ Main \in Actors /\ Clients \subseteq Actors /\ Callers \subseteq Actors /\ Launches \subseteq Actors
  BY DEF LInv, Actors, Callers
<1>1. TInv'
  BY TypeNext DEF LInv
<1>2. SUFFICES ASSUME DaemonUp' PROVE LockOK'
  BY <1>1 DEF LInv
<1>3. DaemonUp /\ LockOK
  <2>1. CASE ~DaemonUp
    <3>1. UNCHANGED vars
      BY <2>1, DaemonEnds
    <3> QED
      BY <1>2, <2>1, <3>1 DEF vars, control, DaemonUp
  <2> QED
    BY <2>1 DEF LInv
<1>4. ASSUME NEW a \in Actors, Start(a) PROVE LockOK'
  <2>0. AfterStart(a) \notin StopPcs /\ a \notin lock
    BY <1>3, <1>4, AfterStartType DEF LockOK, Start, StartCheck, StartLogFails, StartCancel, StartFails,
       StartCmd, StartExec, StartFork, StartPublish, StartStatus
  <2>1. lock' = lock
    BY <1>4 DEF Start, StartCheck, StartLogFails, StartCancel, StartFails,
       StartCmd, StartExec, StartFork, StartPublish, StartStatus, supervisor
  <2>2. CASE StartStatus(a)
    <3>1. \A b \in lock : pc[b] \in StopPcs /\ b \in Callers
      BY <1>0, <1>3 DEF LockOK
    <3>2. my[a] \notin lock
      BY <1>0, <2>2, <3>1, ActorsAssumption, ConstantsAssumption DEF StartStatus, Callers
    <3> QED
      BY <1>0, <1>3, <2>0, <2>1, <2>2, <3>2 DEF LockOK, StartStatus
  <2>3. CASE ~StartStatus(a)
    BY <1>0, <1>3, <1>4, <2>0, <2>1, <2>3 DEF LockOK, Start, StartCheck, StartLogFails, StartCancel,
       StartFails, StartCmd, StartExec, StartFork, StartPublish
  <2> QED
    BY <2>2, <2>3
<1>5. ASSUME NEW a \in Callers, Stop(a) PROVE LockOK'
  <2>1. CASE StopExpect(a) \/ StopCancel(a)
    BY <1>0, <1>3, <2>1 DEF LockOK, StopExpect, StopCancel, supervisor
  <2>2. CASE StopCheck(a) /\ HasProcess
    BY <1>0, <1>3, <2>2 DEF LockOK, StopCheck, supervisor
  <2>3. CASE StopReturn(a)
    BY <1>0, <1>3, <2>3 DEF LockOK, StopReturn
  <2>4. CASE StopPanics(a)
    BY <1>0, <1>2, <2>4 DEF StopPanics, DaemonUp
  <2> QED
    BY <1>5, <2>1, <2>2, <2>3, <2>4 DEF Stop, StopCheck, StopReceive, StopTimeout
<1>6. ASSUME NEW k \in Launches,
             ChildExits(k) \/ ChildKilled(k) \/ WaiterReaps(k) \/ WaiterSends(k)
      PROVE  LockOK'
  BY <1>3, <1>6 DEF ChildExits, ChildKilled, WaiterReaps, WaiterSends, LockOK, control, supervisor
<1>7. ASSUME NEW k \in Launches, Monitor(k) PROVE LockOK'
  <2>1. lock' = lock /\ \A b \in Actors : b # k => pc'[b] = pc[b]
    BY <1>0, <1>7 DEF Monitor, MonitorCtxDone, MonitorReceives, MonitorTickIdle, MonitorTickOk,
       MonitorHealthy, MonitorTickFails, FailureDecides, FailureIncrement, supervisor
  <2>2. pc[k] \notin StopPcs
    BY <1>7 DEF Monitor, MonitorCtxDone, MonitorReceives, MonitorTickIdle, MonitorTickOk,
       MonitorHealthy, MonitorTickFails, FailureDecides, FailureIncrement
  <2> QED
    BY <1>0, <1>3, <2>1, <2>2 DEF LockOK
<1>8. ASSUME NEW c \in Clients, Client(c) PROVE LockOK'
  BY <1>0, <1>3, <1>8 DEF Client, StartTunnel, EnableTunnel, StopTunnel, RemoveTunnel, Request, LockOK, supervisor
<1>9. CASE Shutdown
  BY <1>3, <1>9 DEF Shutdown, LockOK, control
<1>10. CASE StopAll
  BY <1>0, <1>3, <1>10 DEF StopAll, LockOK
<1>11. CASE UNCHANGED vars
  BY <1>3, <1>11 DEF vars, control, supervisor, LockOK
<1> QED
  BY <1>4, <1>5, <1>6, <1>7, <1>8, <1>9, <1>10, <1>11 DEF Next, Terminated, Waiter

(* s.mu is never held by two goroutines, nor by one that has left Stop:    *)
(* what RemoveTunnel and StopAll lock they hold only while they stop the   *)
(* tunnel (supervisor.go:186, 441).                                        *)
LockDiscipline == DaemonUp => LockOK

(* Whoever holds s.mu is in Stop, and is the only one (supervisor.go:186). *)
THEOREM LockHeldOnlyInStop == Spec => []LockDiscipline
<1>1. Init => LInv
  BY TypeInit DEF Init, LInv, LockOK
<1> QED
  BY <1>1, LockNext, PTL DEF Spec, LInv, LockDiscipline

-----------------------------------------------------------------------------
(* A child process is launched once, and its end is not undone: no Start   *)
(* uses the command of another, and a kill after the exit changes nothing. *)
ChildLivesOnce ==
    [][\A k \in Launches :
          /\ child[k] # "none" => child'[k] # "none"
          /\ child[k] \in {"exitOk", "exitErr", "reaped"} => child'[k] \in {child[k], "reaped"}]_vars

LEMMA ChildMovesOn ==
  ASSUME OInv, Next, NEW k \in Launches
  PROVE  /\ child[k] # "none" => child'[k] # "none"
         /\ child[k] \in {"exitOk", "exitErr", "reaped"} => child'[k] \in {child[k], "reaped"}
<1> USE DEF TInv, TypeOK, fields, owned, control, supervisor
<1>0. TypeOK
  BY DEF OInv
<1>1. ASSUME NEW a \in Actors, StartFork(a) PROVE child[my[a]] = "none"
  BY <1>1 DEF OInv, StartFork, OwnersOK, LaunchPcs, Forked
<1>2. ASSUME NEW a \in Actors, Start(a)
      PROVE  child'[k] = child[k] \/ (child[k] = "none" /\ child'[k] = "live")
  BY <1>0, <1>1, <1>2 DEF Start, StartCheck, StartLogFails, StartCancel, StartFails, StartCmd,
              StartExec, StartFork, StartPublish, StartStatus
<1>3. ASSUME NEW a \in Callers, Stop(a)
      PROVE  child'[k] = child[k] \/ (child[k] = "live" /\ child'[k] = "exitErr")
  BY <1>0, <1>3 DEF Stop, StopExpect, StopCancel, StopCheck, StopReceive, StopTimeout, StopPanics
<1>4. ASSUME NEW j \in Launches, ChildExits(j) \/ ChildKilled(j)
      PROVE  child'[k] = child[k] \/ (child[k] = "live" /\ child'[k] \in {"exitOk", "exitErr"})
  BY <1>0, <1>4 DEF ChildExits, ChildKilled
<1>5. ASSUME NEW j \in Launches, Waiter(j)
      PROVE  child'[k] = child[k] \/ (child[k] \in {"exitOk", "exitErr"} /\ child'[k] = "reaped")
  BY <1>0, <1>5 DEF Waiter, WaiterReaps, WaiterSends
<1>6. ASSUME NEW j \in Launches, Monitor(j) PROVE child' = child
  BY <1>6 DEF Monitor, MonitorCtxDone, MonitorReceives, MonitorTickIdle, MonitorTickOk,
              MonitorHealthy, MonitorTickFails, FailureDecides, FailureIncrement
<1>7. ASSUME NEW c \in Clients, Client(c) PROVE child' = child
  BY <1>7 DEF Client, StartTunnel, EnableTunnel, StopTunnel, RemoveTunnel
<1>8. CASE Shutdown \/ StopAll \/ Terminated
  BY <1>8 DEF Shutdown, StopAll, Terminated, vars
<1> QED
  BY <1>2, <1>3, <1>4, <1>5, <1>6, <1>7, <1>8 DEF Next

THEOREM ChildLifeCycle == Spec => ChildLivesOnce
<1>1. Spec => []OInv
  BY OwnersInit, OwnersNext, PTL DEF Spec
<1>2. OInv /\ [Next]_vars =>
        [\A k \in Launches :
          /\ child[k] # "none" => child'[k] # "none"
          /\ child[k] \in {"exitOk", "exitErr", "reaped"} => child'[k] \in {child[k], "reaped"}]_vars
  BY ChildMovesOn
<1> QED
  BY <1>1, <1>2, PTL DEF Spec, ChildLivesOnce

-----------------------------------------------------------------------------
(* A tunnel nobody but the daemon starts: there are no clients, or they    *)
(* only stop, disable and remove it.  Main and the monitors then form a    *)
(* chain in which one goroutine at a time works on the tunnel.             *)
OnlyStops == Ops \cap {"StartTunnel", "EnableTunnel"} = {}

Busy(a) == pc[a] \in StartPcs \cup MonitorPcs

OneBusy == \A a, b \in Actors : Busy(a) /\ Busy(b) => a = b

(* Between the comparison with the maximum and the increment the counter   *)
(* does not grow.                                                          *)
Counted ==
    MaxAttempts # 0 =>
        /\ restartAttempts <= MaxAttempts
        /\ \A k \in Launches : pc[k] = "increment" => restartAttempts < MaxAttempts

CInv == OInv /\ (DaemonUp => OneBusy) /\ Counted

LEMMA BusyStart ==
  ASSUME OInv, OneBusy, NEW a \in Actors, Start(a) PROVE OneBusy'
<1> USE ActorsAssumption, ConstantsAssumption, AfterStartType
    DEF TInv, TypeOK, Busy, StartPcs, MonitorPcs, LaunchPcs
<1>0. TypeOK /\ OwnersOK /\ Launches \subseteq Actors
  BY DEF OInv, Actors, Start, StartCheck, StartLogFails, StartCancel, StartFails, StartCmd,
         StartExec, StartFork, StartPublish, StartStatus
<1>1. CASE StartStatus(a)
  <2>1. my[a] \in Actors
    BY <1>0, <1>1 DEF StartStatus, OwnersOK, Launches
  <2>2. \A b \in Actors : Busy(b)' => b = my[a]
    BY <1>0, <1>1, <2>1 DEF StartStatus, OneBusy
  <2> QED
    BY <2>2 DEF OneBusy
<1>2. CASE ~StartStatus(a)
  <2>1. \A b \in Actors : b # a => pc'[b] = pc[b]
    BY <1>0, <1>2 DEF Start, StartCheck, StartLogFails, StartCancel, StartFails, StartCmd, StartExec,
       StartFork, StartPublish, GoTo
  <2>2. Busy(a)
    BY DEF Start, StartCheck, StartLogFails, StartCancel, StartFails, StartCmd,
             StartExec, StartFork, StartPublish, StartStatus
  <2> QED
    BY <2>1, <2>2 DEF OneBusy
<1> QED
  BY <1>1, <1>2

LEMMA BusyOther ==
  ASSUME OInv, OneBusy, DaemonUp, OnlyStops, [Next]_vars,
         \A a \in Actors : ~Start(a)
  PROVE  OneBusy'
<1> USE ActorsAssumption DEF TInv, TypeOK, Busy, StartPcs, MonitorPcs, GoTo, control, supervisor
<1>0. TypeOK /\ Launches \subseteq Actors /\ Main \in Actors /\ Callers \subseteq Actors
  BY DEF OInv, Actors, Callers
<1>1. ASSUME NEW a \in Callers, Stop(a) PROVE OneBusy'
  <2>1. \A b \in Actors : pc'[b] = pc[b] \/ ~Busy(b)'
    BY <1>0, <1>1 DEF Stop, StopExpect, StopCancel, StopCheck, StopReceive, StopTimeout, StopPanics,
       StopReturn
  <2> QED
    BY <2>1 DEF OneBusy
<1>2. ASSUME NEW k \in Launches, ChildExits(k) \/ ChildKilled(k) \/ Waiter(k) PROVE OneBusy'
  BY <1>2 DEF ChildExits, ChildKilled, Waiter, WaiterReaps, WaiterSends, OneBusy
<1>3. ASSUME NEW k \in Launches, Monitor(k) PROVE OneBusy'
  <2>1. Busy(k) /\ \A b \in Actors : b # k => pc'[b] = pc[b]
    BY <1>0, <1>3 DEF Monitor, MonitorCtxDone, MonitorReceives, MonitorTickIdle, MonitorTickOk,
       MonitorHealthy, MonitorTickFails, FailureDecides, FailureIncrement
  <2> QED
    BY <1>0, <2>1 DEF OneBusy
<1>4. CASE Shutdown \/ UNCHANGED vars
  BY <1>4 DEF Shutdown, vars, OneBusy
<1>5. CASE StopAll
  BY <1>0, <1>5 DEF StopAll, OneBusy
<1>6. ASSUME NEW c \in Clients, Client(c) PROVE OneBusy'
  <2>1. c \in Callers /\ \A b \in Actors : pc'[b] = pc[b] \/ ~Busy(b)'
    BY <1>0, <1>6 DEF Client, StartTunnel, EnableTunnel, StopTunnel, RemoveTunnel, Request, OnlyStops, Callers
  <2> QED
    BY <2>1 DEF OneBusy
<1> QED
  BY <1>1, <1>2, <1>3, <1>4, <1>5, <1>6 DEF Next, Terminated

LEMMA CountedNext ==
  ASSUME CInv, OnlyStops, [Next]_vars PROVE CInv'
<1> USE ActorsAssumption, ConstantsAssumption
    DEF TInv, TypeOK, GoTo, fields, owned, control, supervisor, AfterStart
<1>0. TypeOK /\ Launches \subseteq Actors /\ Main \in Actors /\ Callers \subseteq Actors
  BY DEF CInv, OInv, Actors, Callers
<1>1. OInv'
  BY OwnersNext DEF CInv
<1>2. CASE ~DaemonUp
  <2>1. UNCHANGED vars
    BY <1>2, DaemonEnds
  <2>2. Counted' /\ ~DaemonUp'
    BY <1>2, <2>1 DEF CInv, Counted, vars, DaemonUp
  <2> QED
    BY <1>1, <2>2 DEF CInv
<1>3. CASE DaemonUp
  <2>1. OneBusy'
    BY <1>3, BusyStart, BusyOther DEF CInv
  <2>2. ASSUME NEW k \in Launches, FailureIncrement(k) PROVE Counted'
    <3>1. \A j \in Launches : pc'[j] # "increment"
      BY <1>0, <1>3, <2>2 DEF CInv, OneBusy, Busy, FailureIncrement, MonitorPcs, StartPcs
    <3>2. MaxAttempts # 0 => restartAttempts' <= MaxAttempts
      BY <1>0, <2>2 DEF CInv, Counted, FailureIncrement
    <3> QED
      BY <3>1, <3>2 DEF Counted
  <2>3. ASSUME NEW k \in Launches, FailureDecides(k) PROVE Counted'
    BY <1>0, <2>3 DEF CInv, Counted, FailureDecides, AttemptsLeft
  <2>4. ASSUME NEW k \in Launches, MonitorHealthy(k) PROVE Counted'
    BY <1>0, <2>4 DEF CInv, Counted, MonitorHealthy
  <2>5. ASSUME restartAttempts' = restartAttempts,
               \A j \in Launches : pc'[j] = "increment" => pc[j] = "increment"
        PROVE  Counted'
    BY <2>5 DEF CInv, Counted
  <2>6. ASSUME NEW a \in Actors, Start(a) PROVE Counted'
    <3>1. restartAttempts' = restartAttempts
      BY <2>6 DEF Start, StartCheck, StartLogFails, StartCancel, StartFails, StartCmd,
             StartExec, StartFork, StartPublish, StartStatus
    <3>2. \A j \in Launches : pc'[j] = "increment" => pc[j] = "increment"
      BY <1>0, <2>6 DEF Start, StartCheck, StartLogFails, StartCancel, StartFails, StartCmd,
             StartExec, StartFork, StartPublish, StartStatus
    <3> QED
      BY <2>5, <3>1, <3>2
  <2>7. ASSUME NEW a \in Callers, Stop(a) PROVE Counted'
    <3>1. restartAttempts' = restartAttempts
      BY <2>7 DEF Stop, StopExpect, StopCancel, StopCheck, StopReceive, StopTimeout, StopPanics
    <3>2. \A j \in Launches : pc'[j] = "increment" => pc[j] = "increment"
      BY <1>0, <2>7 DEF Stop, StopExpect, StopCancel, StopCheck, StopReceive, StopTimeout, StopPanics, StopReturn
    <3> QED
      BY <2>5, <3>1, <3>2
  <2>8. ASSUME NEW k \in Launches, ChildExits(k) \/ ChildKilled(k) \/ Waiter(k) PROVE Counted'
    BY <2>5, <2>8 DEF ChildExits, ChildKilled, Waiter, WaiterReaps, WaiterSends
  <2>9. ASSUME NEW k \in Launches,
               \/ MonitorCtxDone(k) \/ MonitorReceives(k) \/ MonitorTickIdle(k)
               \/ MonitorTickOk(k) \/ MonitorTickFails(k)
        PROVE  Counted'
    BY <1>0, <2>5, <2>9 DEF MonitorCtxDone, MonitorReceives, MonitorTickIdle, MonitorTickOk, MonitorTickFails
  <2>10. ASSUME NEW k \in Launches, Monitor(k) PROVE Counted'
    BY <2>2, <2>3, <2>4, <2>9, <2>10 DEF Monitor
  <2>11. ASSUME Shutdown \/ UNCHANGED vars PROVE Counted'
    BY <2>5, <2>11 DEF Shutdown, vars
  <2>12. ASSUME StopAll PROVE Counted'
    BY <1>0, <2>5, <2>12 DEF StopAll
  <2>13. ASSUME NEW c \in Clients, Client(c) PROVE Counted'
    BY <1>0, <2>5, <2>13 DEF Client, StartTunnel, EnableTunnel, StopTunnel, RemoveTunnel, Callers
  <2>14. Counted'
    BY <2>6, <2>7, <2>8, <2>10, <2>11, <2>12, <2>13 DEF Next, Terminated
  <2> QED
    BY <1>1, <2>1, <2>14 DEF CInv
<1> QED
  BY <1>2, <1>3

LEMMA CountedInit == Init => CInv
<1> SUFFICES ASSUME Init PROVE OneBusy /\ Counted
  BY OwnersInit DEF CInv
<1>1. \A a \in Actors : Busy(a) => a = Main
  BY DEF Init, Busy, StartPcs, MonitorPcs
<1>2. OneBusy
  BY <1>1 DEF OneBusy
<1>3. Counted
  BY ActorsAssumption, ConstantsAssumption DEF Init, Counted, Actors, Callers
<1> QED
  BY <1>2, <1>3

(* While only the daemon starts the tunnel it never counts more restarts   *)
(* than max_attempts, although handleFailure reads the counter in one      *)
(* critical section and increments it in another (supervisor.go:411, 434). *)
THEOREM RestartsAreBounded == ASSUME OnlyStops PROVE Spec => []AttemptsBounded
<1>1. Init => CInv
  BY CountedInit
<1>2. CInv /\ [Next]_vars => CInv'
  BY CountedNext
<1>3. CInv => AttemptsBounded
  BY DEF CInv, Counted, AttemptsBounded
<1> QED
  BY <1>1, <1>2, <1>3, PTL DEF Spec

-----------------------------------------------------------------------------
(* ... and no health probe, which alone gives a tunnel up while its child  *)
(* lives: then a launch is over before the next one begins.                *)
NoProbe == HealthType = "none"

(* Something of launch k is still to come or to be fetched.                *)
Unfinished(k) ==
    \/ child[k] \in {"live", "exitOk", "exitErr"}
    \/ waiter[k] \in {"wait", "send"}
    \/ k \in full

(* On the way from the end of one launch to the child of the next.         *)
BetweenLaunches == {"start", "sleep", "startCancel", "startCmd", "startExec", "startFork",
                    "failure", "increment"}

LastOK ==
    \A k \in Launches :
        /\ Unfinished(k) => k = launched
        /\ child[k] = "live" => cmd = k
        /\ waiter[k] # "none" /\ k = launched => waitCh = k
        /\ k \in full => waiter[k] = "done"

ChainOK ==
    /\ (\E k \in Launches : Unfinished(k)) => \A a \in Actors : pc[a] \notin BetweenLaunches
    /\ \A a \in Actors : pc[a] \in LaunchPcs => my[a] = launched
    /\ \A a \in Actors : pc[a] \in LaunchPcs \ {"startCmd"} => cmd = launched
    /\ \A k \in Launches : pc[k] = "select" => my[k] = k
    /\ \A k \in Launches : pc[k] \in {"select", "healthy"} => k = launched

SInv == OInv /\ LastOK /\ (DaemonUp => OneBusy /\ ChainOK)

LEMMA LastStart ==
  ASSUME SInv, NEW a \in Actors, Start(a), OneBusy' PROVE LastOK' /\ ChainOK'
<1> USE ActorsAssumption, ConstantsAssumption, AfterStartType
    DEF TypeOK, fields, owned, supervisor, GoTo, Forget
<1>0. TypeOK /\ OwnersOK /\ WaitersOK /\ LastOK /\ ChainOK /\ OneBusy /\ Launches \subseteq Actors
  BY DEF SInv, OInv, TInv, Actors, Start, StartCheck, StartLogFails, StartCancel, StartFails, StartCmd,
         StartExec, StartFork, StartPublish, StartStatus
<1>1. \A b \in Actors : b # a => pc[b] \notin StartPcs \cup MonitorPcs
  BY <1>0 DEF OneBusy, Busy, Start, StartCheck, StartLogFails, StartCancel, StartFails, StartCmd,
              StartExec, StartFork, StartPublish, StartStatus, StartPcs
<1> USE DEF StartPcs, MonitorPcs, LaunchPcs, BetweenLaunches
<1>2. ~StartStatus(a) /\ ~StartPublish(a) => \A k \in Launches : ~Unfinished(k)
  BY <1>0 DEF ChainOK, Start, StartCheck, StartLogFails, StartCancel, StartFails, StartCmd, StartExec, StartFork
<1>3. CASE StartCheck(a) \/ StartLogFails(a) \/ StartFails(a)
  <2>1. \A k \in Launches : ~Unfinished(k)'
    BY <1>0, <1>2, <1>3 DEF Unfinished, StartCheck, StartLogFails, StartFails, StartStatus, StartPublish
  <2>2. LastOK'
    BY <1>0, <1>3, <2>1 DEF LastOK, Unfinished, StartCheck, StartLogFails, StartFails
  <2>3. ChainOK'
    BY <1>0, <1>1, <1>3, <2>1 DEF ChainOK, StartCheck, StartLogFails, StartFails
  <2> QED
    BY <2>2, <2>3
<1>4. CASE StartCancel(a)
  <2>1. \A k \in Launches : ~Unfinished(k)'
    BY <1>0, <1>2, <1>4 DEF Unfinished, StartCancel, StartStatus, StartPublish
  <2>2. \A k \in Launches : k > launched => waiter[k] = "none"
    BY <1>0 DEF OwnersOK, WaitersOK
  <2>3. LastOK'
    BY <1>0, <1>4, <2>1, <2>2 DEF LastOK, Unfinished, StartCancel, Launches
  <2>4. ChainOK'
    BY <1>0, <1>1, <1>4, <2>1 DEF ChainOK, StartCancel
  <2> QED
    BY <2>3, <2>4
<1>5. CASE StartCmd(a)
  <2>1. \A k \in Launches : ~Unfinished(k)'
    BY <1>0, <1>2, <1>5 DEF Unfinished, StartCmd, StartStatus, StartPublish
  <2>2. LastOK'
    BY <1>0, <1>5, <2>1 DEF LastOK, Unfinished, StartCmd
  <2>3. ChainOK'
    BY <1>0, <1>1, <1>5, <2>1 DEF ChainOK, StartCmd
  <2> QED
    BY <2>2, <2>3
<1>6. CASE StartExec(a)
  <2>1. \A k \in Launches : ~Unfinished(k)'
    BY <1>0, <1>2, <1>6 DEF Unfinished, StartExec, StartStatus, StartPublish
  <2>2. LastOK'
    BY <1>0, <1>6, <2>1 DEF LastOK, Unfinished, StartExec
  <2>3. ChainOK'
    BY <1>0, <1>1, <1>6, <2>1 DEF ChainOK, StartExec
  <2> QED
    BY <2>2, <2>3
<1>7. CASE StartFork(a)
  <2>1. \A k \in Launches : ~Unfinished(k)
    BY <1>2, <1>7 DEF StartFork, StartPublish, StartStatus
  <2>2. my[a] = launched /\ cmd = launched
    BY <1>0, <1>7 DEF ChainOK, StartFork
  <2>3. LastOK'
    BY <1>0, <1>7, <2>1, <2>2 DEF LastOK, Unfinished, StartFork
  <2>4. ChainOK'
    BY <1>0, <1>1, <1>7, <2>2 DEF ChainOK, StartFork
  <2> QED
    BY <2>3, <2>4
<1>8. CASE StartPublish(a)
  <2>1. LastOK'
    BY <1>0, <1>8 DEF LastOK, Unfinished, StartPublish
  <2>2. ChainOK'
    BY <1>0, <1>1, <1>8 DEF ChainOK, Unfinished, StartPublish
  <2> QED
    BY <2>1, <2>2
<1>9. CASE StartStatus(a)
  <2> DEFINE k == my[a]
  <2>1. k = launched /\ cmd = launched /\ k \in Launches /\ pc[k] = "none" /\ child[k] # "none" /\ k # a
    BY <1>0, <1>9 DEF ChainOK, OwnersOK, StartStatus, Launches, Forked
  <2>2. waiter[k] = "none"
    BY <1>0, <2>1 DEF WaitersOK
  <2>3. LastOK'
    BY <1>0, <1>9, <2>1, <2>2 DEF LastOK, Unfinished, StartStatus
  <2>4. ChainOK'
    BY <1>0, <1>1, <1>9, <2>1 DEF ChainOK, StartStatus
  <2> QED
    BY <2>3, <2>4
<1> QED
  BY <1>3, <1>4, <1>5, <1>6, <1>7, <1>8, <1>9 DEF Start

LEMMA LastStop ==
  ASSUME SInv, NEW a \in Callers, Stop(a) PROVE LastOK' /\ (DaemonUp' => ChainOK')
<1> USE ActorsAssumption DEF TypeOK, fields, owned, supervisor, GoTo, Forget
<1>0. TypeOK /\ LastOK /\ ChainOK /\ a \in Actors /\ Main \in Actors /\ a \notin Launches
  BY DEF SInv, OInv, TInv, Actors, Callers, Launches, Stop, StopExpect, StopCancel, StopCheck,
         StopReceive, StopTimeout, StopPanics
<1> USE DEF LaunchPcs, BetweenLaunches
<1>1. /\ UNCHANGED <<cmd, waitCh, waiter, launched>>
      /\ full' \subseteq full
      /\ \A k \in Launches : child'[k] = child[k] \/ (child[k] = "live" /\ child'[k] = "exitErr")
  BY <1>0 DEF Stop, StopExpect, StopCancel, StopCheck, StopReceive, StopTimeout, StopPanics, StopReturn
<1>2. LastOK' /\ \A k \in Launches : Unfinished(k)' => Unfinished(k)
  BY <1>0, <1>1 DEF LastOK, Unfinished
<1>3. CASE StopPanics(a)
  BY <1>0, <1>2, <1>3 DEF StopPanics, DaemonUp
<1>4. CASE ~StopPanics(a)
  <2>1. /\ \A b \in Actors : b # a => pc'[b] = pc[b] /\ my'[b] = my[b]
        /\ pc'[a] \notin BetweenLaunches \cup LaunchPcs \cup {"select", "healthy"}
    BY <1>0, <1>4 DEF Stop, StopExpect, StopCancel, StopCheck, StopReceive, StopTimeout, StopReturn
  <2>2. ChainOK'
    BY <1>0, <1>1, <1>2, <2>1 DEF ChainOK, Actors
  <2> QED
    BY <1>2, <2>2
<1> QED
  BY <1>3, <1>4

LEMMA LastLaunch ==
  ASSUME SInv, NEW k \in Launches, ChildExits(k) \/ ChildKilled(k) \/ Waiter(k)
  PROVE  LastOK' /\ ChainOK'
<1> USE DEF TypeOK, fields, control, supervisor
<1>0. TypeOK /\ LastOK /\ ChainOK
  BY DEF SInv, OInv, TInv, ChildExits, ChildKilled, Waiter, WaiterReaps, WaiterSends
<1>1. /\ \A j \in Launches : Unfinished(j)' => Unfinished(j)
      /\ LastOK'
  <2>1. CASE ChildExits(k) \/ ChildKilled(k)
    BY <1>0, <2>1 DEF ChildExits, ChildKilled, Unfinished, LastOK
  <2>2. CASE WaiterReaps(k)
    BY <1>0, <2>2 DEF WaiterReaps, Unfinished, LastOK
  <2>3. CASE WaiterSends(k)
    <3>1. waitCh = k
      BY <1>0, <2>3 DEF WaiterSends, LastOK, Unfinished
    <3> QED
      BY <1>0, <2>3, <3>1 DEF WaiterSends, LastOK, Unfinished
  <2> QED
    BY <2>1, <2>2, <2>3 DEF Waiter
<1>2. UNCHANGED <<pc, my, launched, cmd>>
  BY DEF ChildExits, ChildKilled, Waiter, WaiterReaps, WaiterSends
<1>3. ChainOK'
  BY <1>0, <1>1, <1>2 DEF ChainOK
<1> QED
  BY <1>1, <1>3

LEMMA LastMonitor ==
  ASSUME SInv, NoProbe, NEW k \in Launches, Monitor(k) PROVE LastOK' /\ ChainOK'
<1> USE DEF TypeOK, fields, owned, supervisor, GoTo, Forget
<1>0. TypeOK /\ WaitersOK /\ LastOK /\ ChainOK /\ OneBusy /\ Launches \subseteq Actors /\ ~MonitorTickFails(k)
  BY DEF SInv, OInv, TInv, Actors, Monitor, MonitorCtxDone, MonitorReceives, MonitorTickIdle, MonitorTickOk,
         MonitorHealthy, MonitorTickFails, FailureDecides, FailureIncrement, NoProbe
<1>1. /\ UNCHANGED <<cmd, waitCh, child, waiter, launched>>
      /\ full' \subseteq full
      /\ \A b \in Actors : b # k => pc'[b] = pc[b] /\ my'[b] = my[b]
  BY <1>0 DEF Monitor, MonitorCtxDone, MonitorReceives, MonitorTickIdle, MonitorTickOk,
         MonitorHealthy, FailureDecides, FailureIncrement
<1>2. LastOK' /\ \A j \in Launches : Unfinished(j)' => Unfinished(j)
  BY <1>0, <1>1 DEF LastOK, Unfinished
<1> USE DEF LaunchPcs, BetweenLaunches
<1>3. CASE MonitorReceives(k)
  <2>1. my[k] = k /\ k = launched /\ k \in full
    BY <1>0, <1>3 DEF MonitorReceives, ChainOK
  <2>2. waiter[k] = "done" /\ child[k] = "reaped"
    BY <1>0, <2>1 DEF LastOK, WaitersOK
  <2>3. \A j \in Launches : ~Unfinished(j)'
    BY <1>0, <1>1, <1>2, <1>3, <2>1, <2>2 DEF MonitorReceives, LastOK, Unfinished
  <2>4. ChainOK'
    BY <1>0, <1>1, <1>3, <2>3 DEF ChainOK, MonitorReceives
  <2> QED
    BY <1>2, <2>4
<1>4. CASE MonitorTickIdle(k) \/ MonitorHealthy(k)
  <2>1. pc[k] \in {"select", "healthy"} /\ pc'[k] = "select" /\ my'[k] = waitCh
    BY <1>0, <1>4 DEF MonitorTickIdle, MonitorHealthy
  <2>2. k = launched /\ waiter[k] # "none" /\ waitCh = k
    BY <1>0, <2>1 DEF ChainOK, WaitersOK, LastOK
  <2>3. ChainOK'
    BY <1>0, <1>1, <1>2, <2>1, <2>2 DEF ChainOK
  <2> QED
    BY <1>2, <2>3
<1>5. CASE MonitorCtxDone(k) \/ MonitorTickOk(k)
  BY <1>0, <1>1, <1>2, <1>5 DEF MonitorCtxDone, MonitorTickOk, ChainOK
<1>6. CASE FailureDecides(k) \/ FailureIncrement(k)
  <2>1. \A j \in Launches : ~Unfinished(j)'
    BY <1>0, <1>2, <1>6 DEF FailureDecides, FailureIncrement, ChainOK
  <2>2. ChainOK'
    BY <1>0, <1>1, <1>6, <2>1 DEF FailureDecides, FailureIncrement, ChainOK
  <2> QED
    BY <1>2, <2>2
<1> QED
  BY <1>0, <1>3, <1>4, <1>5, <1>6 DEF Monitor

LEMMA LastOther ==
  ASSUME SInv, DaemonUp, OnlyStops,
         (\E c \in Clients : Client(c)) \/ Shutdown \/ StopAll \/ UNCHANGED vars
  PROVE  LastOK' /\ ChainOK'
<1> USE ActorsAssumption DEF TypeOK, fields, owned, control, supervisor, GoTo
<1>0. TypeOK /\ LastOK /\ ChainOK /\ Clients \subseteq Actors /\ Main \in Actors
  BY DEF SInv, OInv, TInv, Actors, Callers
<1>1. UNCHANGED <<cmd, waitCh, child, waiter, full, my, launched>>
  BY DEF Client, StartTunnel, EnableTunnel, StopTunnel, RemoveTunnel, Shutdown, StopAll, vars
<1>2. LastOK' /\ \A j \in Launches : Unfinished(j)' <=> Unfinished(j)
  BY <1>0, <1>1 DEF LastOK, Unfinished
<1>3. \A b \in Actors : pc'[b] = pc[b] \/ pc'[b] \in {"stop", "exited"}
  <2>1. ASSUME NEW c \in Clients, Client(c) PROVE pc' = [pc EXCEPT ![c] = "stop"]
    BY <2>1 DEF Client, StartTunnel, EnableTunnel, StopTunnel, RemoveTunnel, Request, OnlyStops
  <2>2. ASSUME StopAll PROVE \A b \in Actors : pc'[b] = pc[b] \/ pc'[b] \in {"stop", "exited"}
    BY <1>0, <2>2 DEF StopAll
  <2>3. ASSUME Shutdown \/ UNCHANGED vars PROVE pc' = pc
    BY <2>3 DEF Shutdown, vars
  <2> QED
    BY <1>0, <2>1, <2>2, <2>3
<1>4. ChainOK'
  BY <1>0, <1>1, <1>2, <1>3 DEF ChainOK, LaunchPcs, BetweenLaunches, Actors
<1> QED
  BY <1>2, <1>4

LEMMA LastNext ==
  ASSUME OnlyStops, NoProbe PROVE SInv /\ [Next]_vars => SInv'
<1> SUFFICES ASSUME SInv, [Next]_vars PROVE SInv'
  OBVIOUS
<1>1. OInv'
  BY OwnersNext DEF SInv
<1>2. CASE ~DaemonUp
  <2>1. UNCHANGED vars
    BY <1>2, DaemonEnds
  <2>2. LastOK' /\ ~DaemonUp'
    BY <1>2, <2>1 DEF SInv, LastOK, Unfinished, vars, fields, owned, control, DaemonUp
  <2> QED
    BY <1>1, <2>2 DEF SInv
<1>3. CASE DaemonUp
  <2>1. OneBusy'
    BY <1>3, BusyStart, BusyOther DEF SInv
  <2>2. LastOK' /\ (DaemonUp' => ChainOK')
    BY <1>3, <2>1, LastStart, LastStop, LastLaunch, LastMonitor, LastOther DEF Next, Terminated
  <2> QED
    BY <1>1, <2>1, <2>2 DEF SInv
<1> QED
  BY <1>2, <1>3

LEMMA LastInit == Init => SInv
<1> SUFFICES ASSUME Init PROVE LastOK /\ ChainOK
  BY CountedInit DEF CInv, SInv
<1>1. \A k \in Launches : child[k] = "none" /\ waiter[k] = "none" /\ k \notin full /\ pc[k] = "none"
  BY ActorsAssumption DEF Init, Actors, Callers, Launches
<1>2. \A a \in Actors : pc[a] \in {"start", "idle", "none"}
  BY DEF Init
<1> QED
  BY <1>1, <1>2 DEF LastOK, ChainOK, Unfinished, LaunchPcs, BetweenLaunches

LEMMA LastAlways == ASSUME OnlyStops, NoProbe PROVE Spec => []SInv
<1>1. SInv /\ [Next]_vars => SInv'
  BY LastNext
<1> QED
  BY LastInit, <1>1, PTL DEF Spec

(* A tunnel without a probe that only the daemon starts never has two live *)
(* children, whatever exits, stops and the shutdown do meanwhile           *)
(* (process.go:114).                                                       *)
THEOREM NeverTwoChildren == ASSUME OnlyStops, NoProbe PROVE Spec => []OneLiveChild
<1>1. SInv => OneLiveChild
  BY DEF SInv, LastOK, Unfinished, OneLiveChild
<1> QED
  BY LastAlways, <1>1, PTL

(* Its waiters send on p.Wait()'s channel of the moment, and yet each finds*)
(* room there: the channel is that of its own launch (process.go:197).     *)
THEOREM WaitersNeverBlock == ASSUME OnlyStops, NoProbe PROVE Spec => []WaiterNeverBlocks
<1>1. SInv => WaiterNeverBlocks
  BY DEF SInv, LastOK, Unfinished, WaiterNeverBlocks
<1> QED
  BY LastAlways, <1>1, PTL

-----------------------------------------------------------------------------
(* The child that lives is the one of p.cmd.                               *)
EInv == SInv /\ ExitKillsPublished

LEMMA ExitStop ==
  ASSUME SInv, ~(pc[Main] = "exited"), NEW a \in Callers, Stop(a), ShutdownTimeout # 0
  PROVE  ExitKillsPublished'
<1> USE ActorsAssumption DEF TypeOK, fields, owned, supervisor, GoTo
<1>0. TypeOK /\ LastOK /\ WaitersOK /\ a \in Actors /\ Main \in Actors
  BY DEF SInv, OInv, TInv, Actors, Callers, Stop, StopExpect, StopCancel, StopCheck,
         StopReceive, StopTimeout, StopPanics
<1>1. SUFFICES ASSUME pc'[Main] = "exited", NEW k \in published', child'[k] = "live" PROVE FALSE
  BY DEF ExitKillsPublished
<1>2. \/ StopCheck(a) /\ ~HasProcess
      \/ StopReceive(a) \/ StopTimeout(a)
  BY <1>0, <1>1 DEF Stop, StopExpect, StopCancel, StopCheck, StopPanics
<1>3. k \in published /\ k \in Launches /\ child[k] = "live"
  BY <1>0, <1>1, <1>2 DEF StopCheck, StopReceive, StopTimeout
<1>4. k = launched /\ cmd = k
  BY <1>0, <1>3 DEF LastOK, Unfinished
<1>5. HasProcess
  BY <1>3, <1>4 DEF HasProcess
<1>6. CASE StopReceive(a)
  <2>1. my[a] \in full /\ my[a] \in Launches
    BY <1>0, <1>6 DEF StopReceive
  <2>2. my[a] = launched /\ waiter[my[a]] = "done"
    BY <1>0, <2>1 DEF LastOK, Unfinished
  <2> QED
    BY <1>0, <1>3, <1>4, <2>1, <2>2 DEF WaitersOK
<1>7. CASE StopTimeout(a)
  BY <1>0, <1>1, <1>3, <1>4, <1>7 DEF StopTimeout
<1> QED
  BY <1>2, <1>5, <1>6, <1>7

LEMMA ExitNext ==
  ASSUME OnlyStops, NoProbe, ShutdownTimeout # 0
  PROVE  EInv /\ [Next]_vars => EInv'
<1> SUFFICES ASSUME EInv, [Next]_vars PROVE EInv'
  OBVIOUS
<1> USE ActorsAssumption DEF TypeOK, fields, owned, control, supervisor, GoTo
<1>1. SInv'
  BY LastNext DEF EInv
<1>2. CASE UNCHANGED vars
  BY <1>1, <1>2 DEF EInv, ExitKillsPublished, vars
<1>3. CASE DaemonUp /\ Next
  <2>0. TypeOK /\ SInv /\ pc[Main] # "exited" /\ Main \in Actors /\ Launches \subseteq Actors /\ Callers \subseteq Actors
    BY <1>3 DEF EInv, SInv, OInv, TInv, DaemonUp, Actors, Callers
  <2>1. ASSUME NEW a \in Callers, Stop(a) PROVE ExitKillsPublished'
    BY <2>0, <2>1, ExitStop
  <2>2. ASSUME NEW a \in Actors, Start(a) PROVE pc'[Main] # "exited"
    BY <2>0, <2>2, AfterStartType DEF Start, StartCheck, StartLogFails, StartCancel, StartFails, StartCmd,
           StartExec, StartFork, StartPublish, StartStatus
  <2>3. ASSUME NEW k \in Launches, ChildExits(k) \/ ChildKilled(k) \/ Waiter(k)
        PROVE  pc'[Main] # "exited"
    BY <2>0, <2>3 DEF ChildExits, ChildKilled, Waiter, WaiterReaps, WaiterSends
  <2>4. ASSUME NEW k \in Launches, Monitor(k) PROVE pc'[Main] # "exited"
    BY <2>0, <2>4 DEF Monitor, MonitorCtxDone, MonitorReceives, MonitorTickIdle, MonitorTickOk,
         MonitorHealthy, MonitorTickFails, FailureDecides, FailureIncrement
  <2>5. ASSUME NEW c \in Clients, Client(c) PROVE pc'[Main] # "exited"
    BY <2>0, <2>5 DEF Client, StartTunnel, EnableTunnel, StopTunnel, RemoveTunnel, Request, OnlyStops
  <2>6. ASSUME Shutdown PROVE pc'[Main] # "exited"
    BY <2>0, <2>6 DEF Shutdown
  <2>7. ASSUME StopAll PROVE pc'[Main] # "exited" \/ ~registered'
    BY <2>0, <2>7 DEF StopAll
  <2>8. ExitKillsPublished'
    BY <1>3, <2>1, <2>2, <2>3, <2>4, <2>5, <2>6, <2>7 DEF Next, Terminated, ExitKillsPublished
  <2> QED
    BY <1>1, <2>8 DEF EInv
<1> QED
  BY <1>2, <1>3, DaemonEnds

(* When Run returns and nobody has removed the tunnel, StopAll has killed  *)
(* the one child p.cmd can lead to, even when the signal came in the middle*)
(* of a restart; only a child being forked at that moment can be left      *)
(* (supervisor.go:441, process.go:209).                                    *)
THEOREM ExitLeavesOnlyFork ==
  ASSUME OnlyStops, NoProbe, ShutdownTimeout # 0
  PROVE  Spec => []ExitKillsPublished
<1>1. Init => EInv
  BY LastInit, ActorsAssumption DEF Init, EInv, ExitKillsPublished, Actors, Callers
<1>2. EInv /\ [Next]_vars => EInv'
  BY ExitNext
<1>3. EInv => ExitKillsPublished
  BY DEF EInv
<1> QED
  BY <1>1, <1>2, <1>3, PTL DEF Spec
=============================================================================
