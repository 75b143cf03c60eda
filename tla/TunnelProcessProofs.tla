------------------------ MODULE TunnelProcessProofs ------------------------
(* Proofs about TunnelProcess, for any number of clients and launches.     *)
EXTENDS TunnelProcess, TLAPS

(* A goroutine past the creation of its run context holds its launch, and  *)
(* a waiter sends only after some launch has made a channel.               *)
LaunchPcs == {"startCmd", "startExec", "startFork", "startPublish", "startStatus"}

LocalsOK ==
    /\ \A a \in Actors : pc[a] \in LaunchPcs => my[a] # 0
    /\ \A k \in Launches : waiter[k] # "none" => waitCh # 0

TInv == TypeOK /\ LocalsOK

LEMMA TypeInit == Init => TInv
<1> SUFFICES ASSUME Init PROVE TInv
  OBVIOUS
<1> USE ConstantsAssumption, ActorsAssumption DEF Init
<1>1. pc \in [Actors -> Pcs]
  BY DEF Pcs, StartPcs, RestPcs
<1>2. child \in [Launches -> ChildStates] /\ waiter \in [Launches -> WaiterStates]
  BY DEF ChildStates, WaiterStates
<1>3. my \in [Actors -> 0 .. MaxLaunch] /\ launched \in 0 .. MaxLaunch
  OBVIOUS
<1>4. TypeOK
  BY <1>1, <1>2, <1>3 DEF TypeOK, Statuses, ExpectedStates
<1>5. LocalsOK
  BY DEF LocalsOK, LaunchPcs
<1> QED
  BY <1>4, <1>5 DEF TInv

LEMMA AfterStartType == \A a : AfterStart(a) \in {"await", "idle", "done"}
  BY DEF AfterStart

LEMMA TypeStart ==
  ASSUME TInv, NEW a \in Actors, Start(a) PROVE TInv'
<1> USE ConstantsAssumption, ActorsAssumption, AfterStartType
    DEF TInv, LocalsOK, LaunchPcs, TypeOK, fields, owned, supervisor, GoTo, Forget
<1> USE DEF Pcs, StartPcs, RestPcs
<1>1. CASE StartCheck(a)
  BY <1>1 DEF StartCheck, ExpectedStates
<1>2. CASE StartLogFails(a)
  BY <1>2 DEF StartLogFails
<1>3. CASE StartCancel(a)
  BY <1>3 DEF StartCancel
<1>4. CASE StartFails(a)
  <2>1. my[a] \in Launches
    BY <1>4 DEF StartFails, Launches
  <2>2. cancelled' \in SUBSET Launches
    BY <1>4, <2>1 DEF StartFails
  <2>3. pc' \in [Actors -> Pcs] /\ my' \in [Actors -> 0 .. MaxLaunch]
    BY <1>4 DEF StartFails
  <2>4. TypeOK'
    BY <1>4, <2>2, <2>3 DEF StartFails
  <2>5. LocalsOK'
    BY <1>4 DEF StartFails
  <2> QED
    BY <2>4, <2>5
<1>5. CASE StartCmd(a)
  BY <1>5 DEF StartCmd
<1>6. CASE StartExec(a)
  BY <1>6 DEF StartExec
<1>7. CASE StartFork(a)
  BY <1>7 DEF StartFork, ChildStates
<1>8. CASE StartPublish(a)
  <2>1. my[a] \in Launches
    BY <1>8 DEF StartPublish, Launches
  <2> QED
    BY <1>8, <2>1 DEF StartPublish
<1>9. CASE StartStatus(a)
  <2>1. my[a] \in Launches /\ my[a] \in Actors
    BY <1>9 DEF StartStatus, Actors, Launches
  <2>2. pc' \in [Actors -> Pcs]
    BY <1>9, <2>1 DEF StartStatus, MonitorPcs
  <2>3. my' \in [Actors -> 0 .. MaxLaunch]
    BY <1>9, <2>1 DEF StartStatus
  <2>4. waiter' \in [Launches -> WaiterStates]
    BY <1>9, <2>1 DEF StartStatus, WaiterStates
  <2>5. TypeOK'
    BY <1>9, <2>1, <2>2, <2>3, <2>4 DEF StartStatus, Statuses
  <2>6. LocalsOK'
    BY <1>9, <2>1 DEF StartStatus, Launches
  <2> QED
    BY <2>5, <2>6
<1> QED
  BY <1>1, <1>2, <1>3, <1>4, <1>5, <1>6, <1>7, <1>8, <1>9 DEF Start

LEMMA TypeStopReturn ==
  ASSUME TInv, NEW a \in Callers, StopReturn(a)
  PROVE  /\ pc' \in [Actors -> Pcs] /\ my' \in [Actors -> 0 .. MaxLaunch]
         /\ lock' \in SUBSET Callers /\ registered' \in BOOLEAN
         /\ launched' \in 0 .. MaxLaunch /\ down' \in BOOLEAN
         /\ \A b \in Actors :
               pc'[b] \in LaunchPcs => my'[b] # 0
<1> USE ActorsAssumption DEF TInv, TypeOK, StopReturn, GoTo, Forget
<1>1. a \in Actors
  BY DEF Actors
<1>2. pc' \in [Actors -> Pcs]
  BY <1>1 DEF Pcs, RestPcs
<1>3. my' \in [Actors -> 0 .. MaxLaunch]
  BY <1>1, ConstantsAssumption
<1>4. lock' \in SUBSET Callers /\ launched' \in 0 .. MaxLaunch
  OBVIOUS
<1>5. registered' \in BOOLEAN /\ down' \in BOOLEAN
  OBVIOUS
<1>6. \A b \in Actors : pc'[b] \in LaunchPcs => my'[b] # 0
  BY <1>1 DEF LocalsOK, LaunchPcs
<1> QED
  BY <1>2, <1>3, <1>4, <1>5, <1>6

LEMMA TypeStop ==
  ASSUME TInv, NEW a \in Callers, Stop(a) PROVE TInv'
<1> USE ConstantsAssumption, ActorsAssumption
    DEF TInv, LocalsOK, LaunchPcs, TypeOK, Launches, fields, owned, supervisor
<1>1. CASE StopExpect(a)
  BY <1>1 DEF StopExpect, GoTo, Pcs, StopPcs, ExpectedStates, Actors
<1>2. CASE StopCancel(a)
  <2>1. cancelled' \in SUBSET Launches
    BY <1>2 DEF StopCancel
  <2> QED
    BY <1>2, <2>1 DEF StopCancel, GoTo, Pcs, StopPcs, Actors
<1>3. CASE StopReceive(a)
  BY <1>3, TypeStopReturn DEF StopReceive
<1>4. CASE StopTimeout(a)
  <2>1. child' \in [Launches -> ChildStates]
    BY <1>4 DEF StopTimeout, ChildStates
  <2> QED
    BY <1>4, <2>1, TypeStopReturn DEF StopTimeout
<1>5. CASE StopPanics(a)
  BY <1>5 DEF StopPanics, GoTo, Pcs, RestPcs, Actors
<1>6. CASE StopCheck(a) /\ HasProcess
  BY <1>6 DEF StopCheck, GoTo, Pcs, StopPcs, Actors
<1>7. CASE StopCheck(a) /\ ~HasProcess
  BY <1>7, TypeStopReturn DEF StopCheck
<1> QED
  BY <1>1, <1>2, <1>3, <1>4, <1>5, <1>6, <1>7 DEF Stop

LEMMA TypeLaunch ==
  ASSUME TInv, NEW k \in Launches, ChildExits(k) \/ ChildKilled(k) \/ Waiter(k)
  PROVE  TInv'
<1> USE ConstantsAssumption
    DEF TInv, LocalsOK, LaunchPcs, TypeOK, ChildStates, fields, control, supervisor
<1>1. CASE ChildExits(k)
  BY <1>1 DEF ChildExits
<1>2. CASE ChildKilled(k)
  BY <1>2 DEF ChildKilled
<1>3. CASE WaiterReaps(k)
  BY <1>3 DEF WaiterReaps, WaiterStates, Statuses
<1>4. CASE WaiterSends(k)
  <2>1. waitCh \in Launches
    BY <1>4 DEF WaiterSends, Launches
  <2> QED
    BY <1>4, <2>1 DEF WaiterSends, WaiterStates
<1> QED
  BY <1>1, <1>2, <1>3, <1>4 DEF Waiter

LEMMA TypeMonitor ==
  ASSUME TInv, NEW k \in Launches, Monitor(k) PROVE TInv'
<1> USE ConstantsAssumption
    DEF TInv, LocalsOK, LaunchPcs, TypeOK, fields, owned, supervisor, GoTo, Forget, Pcs
<1>0. k \in Actors
  BY DEF Actors
<1>1. CASE MonitorCtxDone(k)
  BY <1>0, <1>1 DEF MonitorCtxDone, RestPcs
<1>2. CASE MonitorReceives(k)
  BY <1>0, <1>2 DEF MonitorReceives, MonitorPcs
<1>3. CASE MonitorTickIdle(k)
  BY <1>0, <1>3 DEF MonitorTickIdle
<1>4. CASE MonitorTickOk(k)
  BY <1>0, <1>4 DEF MonitorTickOk, MonitorPcs
<1>5. CASE MonitorHealthy(k)
  BY <1>0, <1>5 DEF MonitorHealthy, MonitorPcs, Statuses
<1>6. CASE MonitorTickFails(k)
  BY <1>0, <1>6 DEF MonitorTickFails, MonitorPcs, Statuses
<1>7. CASE FailureDecides(k)
  BY <1>0, <1>7 DEF FailureDecides, MonitorPcs, RestPcs, Statuses
<1>8. CASE FailureIncrement(k)
  BY <1>0, <1>8 DEF FailureIncrement, StartPcs
<1> QED
  BY <1>1, <1>2, <1>3, <1>4, <1>5, <1>6, <1>7, <1>8 DEF Monitor

LEMMA TypeClient ==
  ASSUME TInv, NEW c \in Clients, Client(c) PROVE TInv'
<1> USE DEF TInv, LocalsOK, LaunchPcs, TypeOK, fields, owned, supervisor, GoTo, Pcs
<1>0. c \in Actors /\ {c} \in SUBSET Callers
  BY DEF Actors, Callers
<1>1. CASE StartTunnel(c)
  BY <1>0, <1>1 DEF StartTunnel, StartPcs
<1>2. CASE EnableTunnel(c)
  BY <1>0, <1>2 DEF EnableTunnel, StartPcs
<1>3. CASE StopTunnel(c)
  BY <1>0, <1>3 DEF StopTunnel, StopPcs
<1>4. CASE RemoveTunnel(c)
  BY <1>0, <1>4 DEF RemoveTunnel, StopPcs
<1> QED
  BY <1>1, <1>2, <1>3, <1>4 DEF Client

LEMMA TypeNext == TInv /\ [Next]_vars => TInv'
<1> SUFFICES ASSUME TInv, [Next]_vars PROVE TInv'
  OBVIOUS
<1>0. Main \in Actors /\ {Main} \in SUBSET Callers
  BY DEF Actors, Callers
<1>1. CASE UNCHANGED vars
  BY <1>1 DEF vars, fields, owned, control, supervisor, TInv, TypeOK, LocalsOK
<1>2. CASE Shutdown
  BY <1>2 DEF Shutdown, fields, owned, control, TInv, TypeOK, LocalsOK
<1>3. CASE StopAll
  BY <1>0, <1>3 DEF StopAll, fields, owned, TInv, TypeOK, LocalsOK, LaunchPcs, GoTo, Pcs, StopPcs, RestPcs
<1> QED
  BY <1>1, <1>2, <1>3, TypeStart, TypeStop, TypeLaunch, TypeMonitor, TypeClient
  DEF Next, Terminated

(* The fields of a Process, its launches and goroutines keep their types   *)
(* in every behaviour (process.go:30).                                     *)
THEOREM TypeCorrect == Spec => []TypeOK
<1>1. Spec => []TInv
  BY TypeInit, TypeNext, PTL DEF Spec
<1> QED
  BY <1>1, PTL DEF TInv

-----------------------------------------------------------------------------
(* cmd.Start refuses a run context derived from a daemon context that is   *)
(* done, and forks only past that test.                                    *)
LEMMA LaunchNeedsContext ==
  ASSUME TypeOK, Next, down, NEW k \in Launches, Unforked(k)
  PROVE  Unforked(k)'
<1> USE DEF TypeOK, fields, owned, control, supervisor, Unforked, GoTo, Forget
<1>0. Main \in Actors /\ Clients \subseteq Actors /\ Callers \subseteq Actors /\ Launches \subseteq Actors
  BY DEF Actors, Callers
<1>1. ASSUME NEW a \in Actors, Start(a) PROVE Unforked(k)'
  <2>1. CASE StartFork(a)
    BY <2>1 DEF StartFork
  <2>2. CASE StartStatus(a)
    BY <2>2, AfterStartType DEF StartStatus
  <2>3. CASE StartCheck(a) \/ StartLogFails(a) \/ StartFails(a)
    BY <2>3, AfterStartType DEF StartCheck, StartLogFails, StartFails
  <2>4. CASE StartCancel(a) \/ StartCmd(a) \/ StartPublish(a)
    BY <2>4 DEF StartCancel, StartCmd, StartPublish
  <2>5. ~StartExec(a)
    BY DEF StartExec, CtxDone
  <2> QED
    BY <1>1, <2>1, <2>2, <2>3, <2>4, <2>5 DEF Start
<1>2. ASSUME NEW a \in Callers, Stop(a) PROVE Unforked(k)'
  <2>1. CASE StopExpect(a) \/ StopCancel(a) \/ StopPanics(a)
    BY <1>0, <2>1 DEF StopExpect, StopCancel, StopPanics
  <2>2. CASE StopCheck(a) /\ HasProcess
    BY <1>0, <2>2 DEF StopCheck
  <2>3. CASE StopReturn(a) /\ (StopCheck(a) \/ StopReceive(a) \/ StopTimeout(a))
    BY <1>0, <2>3 DEF StopReturn, StopCheck, StopReceive, StopTimeout
  <2> QED
    BY <1>2, <2>1, <2>2, <2>3 DEF Stop, StopCheck, StopReceive, StopTimeout
<1>3. ASSUME NEW j \in Launches, ChildExits(j) \/ ChildKilled(j) \/ Waiter(j)
      PROVE  Unforked(k)'
  BY <1>3 DEF ChildExits, ChildKilled, Waiter, WaiterReaps, WaiterSends
<1>4. ASSUME NEW j \in Launches, Monitor(j) PROVE Unforked(k)'
  BY <1>0, <1>4 DEF Monitor, MonitorCtxDone, MonitorReceives, MonitorTickIdle, MonitorTickOk,
              MonitorHealthy, MonitorTickFails, FailureDecides, FailureIncrement
<1>5. ASSUME NEW c \in Clients, Client(c) PROVE Unforked(k)'
  BY <1>0, <1>5 DEF Client, StartTunnel, EnableTunnel, StopTunnel, RemoveTunnel
<1>6. CASE Shutdown \/ StopAll \/ Terminated
  BY <1>0, <1>6 DEF Shutdown, StopAll, Terminated, vars
<1> QED
  BY <1>1, <1>2, <1>3, <1>4, <1>5, <1>6 DEF Next

(* After SIGINT or SIGTERM no goroutine, neither a client's nor a restart  *)
(* that was sleeping, launches a child any more, unless cmd.Start had seen *)
(* the context before the signal (process.go:131, 171).                    *)
THEOREM ShutdownStopsLaunches == Spec => LaunchesEnd
<1>1. TypeOK /\ [Next]_vars =>
        [down => \A k \in Launches : Unforked(k) => Unforked(k)']_vars
  BY LaunchNeedsContext
<1> QED
  BY <1>1, TypeCorrect, PTL DEF Spec, LaunchesEnd

-----------------------------------------------------------------------------
(* Once a removed tunnel has no start under way, none begins: every path   *)
(* into Start goes through a lookup of the name.                           *)
LEMMA GoneStable == TypeOK /\ Gone /\ [Next]_vars => Gone'
<1> SUFFICES ASSUME TypeOK, Gone, [Next]_vars PROVE Gone'
  OBVIOUS
<1> USE DEF TypeOK, fields, owned, control, supervisor, Gone, StartPcs, GoTo
<1>0. Main \in Actors /\ Clients \subseteq Actors /\ Callers \subseteq Actors /\ Launches \subseteq Actors
  BY DEF Actors, Callers
<1>1. ASSUME NEW a \in Actors, Start(a) PROVE FALSE
  BY <1>1 DEF Start, StartCheck, StartLogFails, StartCancel, StartFails, StartCmd,
              StartExec, StartFork, StartPublish, StartStatus
<1>2. ASSUME NEW a \in Callers, Stop(a) PROVE Gone'
  <2>1. CASE StopReturn(a)
    BY <1>0, <2>1 DEF StopReturn
  <2>2. CASE StopExpect(a) \/ StopCancel(a) \/ StopPanics(a)
    BY <1>0, <2>2 DEF StopExpect, StopCancel, StopPanics
  <2>3. CASE StopCheck(a) /\ HasProcess
    BY <1>0, <2>3 DEF StopCheck
  <2> QED
    BY <1>2, <2>1, <2>2, <2>3 DEF Stop, StopCheck, StopReceive, StopTimeout
<1>3. ASSUME NEW k \in Launches, ChildExits(k) \/ ChildKilled(k) \/ Waiter(k)
      PROVE  Gone'
  BY <1>3 DEF ChildExits, ChildKilled, Waiter, WaiterReaps, WaiterSends
<1>4. ASSUME NEW k \in Launches, Monitor(k) PROVE Gone'
  BY <1>0, <1>4 DEF Monitor, MonitorCtxDone, MonitorReceives, MonitorTickIdle, MonitorTickOk,
              MonitorHealthy, MonitorTickFails, FailureDecides, FailureIncrement
<1>5. ASSUME NEW c \in Clients, Client(c) PROVE FALSE
  BY <1>5 DEF Client, StartTunnel, EnableTunnel, StopTunnel, RemoveTunnel, Request
<1>6. CASE Shutdown \/ StopAll
  BY <1>0, <1>6 DEF Shutdown, StopAll
<1>7. CASE UNCHANGED vars
  BY <1>7 DEF vars
<1> QED
  BY <1>1, <1>2, <1>3, <1>4, <1>5, <1>6, <1>7 DEF Next, Terminated

(* A removed tunnel stays down once the starts that raced with its removal *)
(* have ended (supervisor.go:186, 375).                                    *)
THEOREM RemovalIsFinal == Spec => RemovedStaysDown
<1>1. TypeOK /\ [Next]_vars => [Gone => Gone']_vars
  BY GoneStable
<1> QED
  BY <1>1, TypeCorrect, PTL DEF Spec, RemovedStaysDown
=============================================================================
