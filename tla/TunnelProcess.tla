---------------------------- MODULE TunnelProcess ----------------------------
(***************************************************************************)
(* One tunnel of the daemon: a Process object (internal/daemon/process.go) *)
(* and every goroutine that works on it.  The goroutines are the actors of *)
(* the module:                                                             *)
(*   - Main, the goroutine of Supervisor.Run: it starts the tunnel, waits  *)
(*     for the shutdown signal and stops the tunnel (StopAll);             *)
(*   - the Clients, gRPC handlers that start, stop or remove the tunnel;   *)
(*   - one monitor per successful start, the goroutine startAndNotify      *)
(*     spawns; after a failure it runs handleFailure and calls Start again;*)
(*   - one waiter per successful start, the goroutine that calls cmd.Wait. *)
(*                                                                         *)
(* A launch is one call of Start that got as far as its own run context.   *)
(* Launch k owns context k, command k (and the child process it runs),     *)
(* channel k, waiter k and monitor k; the fields cancel, cmd and waitCh of *)
(* the Process hold the number of a launch, 0 standing for nil.  They are  *)
(* read and written without p.mu, so Start and Stop are split where they   *)
(* write one of them or block.  cmd.Start is three steps of its own: it    *)
(* looks at the context, forks, and stores cmd.Process, by which alone     *)
(* others see the child.  Four pairs of accesses are one step each:        *)
(* cmd.Wait and the setting of the status; the status, the new channel and *)
(* the two goroutines at the end of Start; the test of p.cmd and the       *)
(* reading of p.waitCh in Stop; the lookup and the decision of             *)
(* handleFailure.                                                          *)
(***************************************************************************)
EXTENDS Naturals

CONSTANTS
    Clients,          \* gRPC handler goroutines
    Main,             \* the goroutine of Supervisor.Run
    Ops,              \* the requests clients make, a subset of Requests
    MaxLaunch,        \* bound: launches in one behaviour
    RestartPolicy,    \* restart.policy of the spec; "nil" when it has none
    MaxAttempts,      \* restart.max_attempts, 0 meaning unlimited
    HealthType,       \* health.type of the spec
    ShutdownTimeout   \* shutdown_timeout of the spec, 0 when it is not set

Requests == {"StartTunnel", "EnableTunnel", "StopTunnel", "DisableTunnel", "RemoveTunnel"}

Launches == 1 .. MaxLaunch

ASSUME ConstantsAssumption ==
    /\ MaxLaunch \in Nat
    /\ MaxAttempts \in Nat
    /\ ShutdownTimeout \in Nat
    /\ Ops \subseteq Requests
    /\ RestartPolicy \in {"nil", "never", "on-failure", "always"}
    /\ HealthType \in {"tcp", "none"}

ASSUME ActorsAssumption ==
    /\ Main \notin Clients
    /\ Main \notin Nat
    /\ Clients \cap Nat = {}

Callers == Clients \cup {Main}
Actors == Callers \cup Launches

VARIABLES
    \* The fields of the Process.
    status,           \* p.status
    expectedState,    \* p.expectedState
    restartAttempts,  \* p.restartAttempts
    cancel,           \* p.cancel: the launch whose context it cancels
    cmd,              \* p.cmd: the launch whose command it is
    waitCh,           \* p.waitCh: the launch that made the channel
    \* What a launch owns.
    cancelled,        \* the launches whose cancel function was called
    child,            \* child[k]: the operating system process of command k
    published,        \* the launches whose cmd.Process is not nil
    full,             \* the launches whose channel, of capacity 1, holds a message
    waiter,           \* waiter[k]: where the waiter of launch k is
    \* The goroutines.
    pc,               \* pc[a]: where actor a is
    my,               \* my[a]: the launch a holds in a local variable
    launched,         \* launches made so far
    \* The supervisor.
    lock,             \* the actors that hold s.mu for writing
    registered,       \* s.processes has the tunnel's name
    down              \* the daemon's context is done (SIGINT or SIGTERM)

fields == <<status, expectedState, restartAttempts, cancel, cmd, waitCh>>
owned == <<cancelled, child, published, full, waiter>>
control == <<pc, my, launched>>
supervisor == <<lock, registered, down>>
vars == <<fields, owned, control, supervisor>>

Statuses == {"stopped", "starting", "running", "failed"}
ExpectedStates == {"running", "stopped"}
ChildStates == {"none", "live", "exitOk", "exitErr", "reaped"}
WaiterStates == {"none", "wait", "send", "done"}

StartPcs == {"start", "sleep", "startCancel", "startCmd", "startExec", "startFork",
             "startPublish", "startStatus"}
StopPcs == {"stop", "stopCancel", "stopCheck", "stopSelect"}
MonitorPcs == {"select", "healthy", "failure", "increment"}
RestPcs == {"idle", "await", "exited", "panic", "none", "done"}
Pcs == StartPcs \cup StopPcs \cup MonitorPcs \cup RestPcs

TypeOK ==
    /\ status \in Statuses
    /\ expectedState \in ExpectedStates
    /\ restartAttempts \in Nat
    /\ cancel \in 0 .. MaxLaunch
    /\ cmd \in 0 .. MaxLaunch
    /\ waitCh \in 0 .. MaxLaunch
    /\ cancelled \in SUBSET Launches
    /\ child \in [Launches -> ChildStates]
    /\ published \in SUBSET Launches
    /\ full \in SUBSET Launches
    /\ waiter \in [Launches -> WaiterStates]
    /\ pc \in [Actors -> Pcs]
    /\ my \in [Actors -> 0 .. MaxLaunch]
    /\ launched \in 0 .. MaxLaunch
    /\ lock \in SUBSET Callers
    /\ registered \in BOOLEAN
    /\ down \in BOOLEAN

-----------------------------------------------------------------------------
(* NewProcess, registered by Run, which is about to start it.              *)
Init ==
    /\ status = "stopped"
    /\ expectedState = "stopped"
    /\ restartAttempts = 0
    /\ cancel = 0 /\ cmd = 0 /\ waitCh = 0
    /\ cancelled = {}
    /\ child = [k \in Launches |-> "none"]
    /\ published = {}
    /\ full = {}
    /\ waiter = [k \in Launches |-> "none"]
    /\ pc = [a \in Actors |-> IF a = Main THEN "start"
                              ELSE IF a \in Clients THEN "idle" ELSE "none"]
    /\ my = [a \in Actors |-> 0]
    /\ launched = 0
    /\ lock = {}
    /\ registered = TRUE
    /\ down = FALSE

(* The daemon's goroutines run until Run returns (main then exits) or one  *)
(* of them panics.                                                         *)
DaemonUp == pc[Main] \notin {"exited", "panic"}

(* The context of launch k: its own cancel function, or the daemon's       *)
(* context it is derived from.                                             *)
CtxDone(k) == k \in cancelled \/ down

(* p.cmd.Process is not nil; it is alive while p.cmd.ProcessState is nil.  *)
HasProcess == cmd \in published
IsProcessAlive == HasProcess /\ child[cmd] # "reaped"

GoTo(a, label) == pc' = [pc EXCEPT ![a] = label]
Forget(a) == my' = [my EXCEPT ![a] = 0]

(* Where an actor continues when Start returns: Run waits for shutdown, a  *)
(* handler answers its client, a monitor ends with handleFailure.          *)
AfterStart(a) == IF a = Main THEN "await" ELSE IF a \in Clients THEN "idle" ELSE "done"

-----------------------------------------------------------------------------
(* Process.Start, with the part of startAndNotify that spawns the monitor. *)

StartCheck(a) ==
    /\ DaemonUp
    /\ pc[a] \in {"start", "sleep"}
    /\ IF status \in {"stopped", "failed"}
       THEN expectedState' = "running" /\ GoTo(a, "startCancel")
       ELSE UNCHANGED expectedState /\ GoTo(a, AfterStart(a))
    /\ UNCHANGED <<status, restartAttempts, cancel, cmd, waitCh, owned, my, launched, supervisor>>

(* The log directory or the log file cannot be made.  At the bound on      *)
(* launches this is the only way on.                                       *)
StartLogFails(a) ==
    /\ DaemonUp
    /\ pc[a] = "startCancel"
    /\ GoTo(a, AfterStart(a))
    /\ UNCHANGED <<fields, owned, my, launched, supervisor>>

StartCancel(a) ==
    /\ DaemonUp
    /\ pc[a] = "startCancel"
    /\ launched < MaxLaunch
    /\ launched' = launched + 1
    /\ cancel' = launched + 1
    /\ my' = [my EXCEPT ![a] = launched + 1]
    /\ GoTo(a, "startCmd")
    /\ UNCHANGED <<status, expectedState, restartAttempts, cmd, waitCh, owned, supervisor>>

(* Ports cannot be resolved, the resolved spec or the command cannot be    *)
(* built, the pipes cannot be made, or cmd.Start fails: it refuses a       *)
(* context that is done, or it cannot fork.                                *)
StartFails(a) ==
    /\ DaemonUp
    /\ pc[a] \in {"startCmd", "startExec", "startFork"}
    /\ cancelled' = cancelled \cup {my[a]}
    /\ GoTo(a, AfterStart(a))
    /\ Forget(a)
    /\ UNCHANGED <<fields, child, published, full, waiter, launched, supervisor>>

StartCmd(a) ==
    /\ DaemonUp
    /\ pc[a] = "startCmd"
    /\ cmd' = my[a]
    /\ GoTo(a, "startExec")
    /\ UNCHANGED <<status, expectedState, restartAttempts, cancel, waitCh, owned, my, launched, supervisor>>

(* Mutant: the run context is not derived from the daemon's.               *)
StartExecDetached(a) ==
    /\ DaemonUp
    /\ pc[a] = "startExec"
    /\ my[a] \notin cancelled
    /\ GoTo(a, "startFork")
    /\ UNCHANGED <<fields, owned, my, launched, supervisor>>

(* cmd.Start goes on with a context that is not done yet.                  *)
StartExec(a) ==
    /\ DaemonUp
    /\ pc[a] = "startExec"
    /\ ~CtxDone(my[a])
    /\ GoTo(a, "startFork")
    /\ UNCHANGED <<fields, owned, my, launched, supervisor>>

(* The child is forked, whatever has become of the context.                *)
StartFork(a) ==
    /\ DaemonUp
    /\ pc[a] = "startFork"
    /\ child' = [child EXCEPT ![my[a]] = "live"]
    /\ GoTo(a, "startPublish")
    /\ UNCHANGED <<fields, cancelled, published, full, waiter, my, launched, supervisor>>

(* cmd.Start stores cmd.Process and begins to watch the context.           *)
StartPublish(a) ==
    /\ DaemonUp
    /\ pc[a] = "startPublish"
    /\ published' = published \cup {my[a]}
    /\ GoTo(a, "startStatus")
    /\ UNCHANGED <<fields, cancelled, child, full, waiter, my, launched, supervisor>>

(* Mutant: nobody calls cmd.Wait.                                          *)
StartStatusNoWaiter(a) ==
    /\ DaemonUp
    /\ pc[a] = "startStatus"
    /\ status' = "starting"
    /\ waitCh' = my[a]
    /\ pc' = [pc EXCEPT ![a] = AfterStart(a), ![my[a]] = "select"]
    /\ my' = [my EXCEPT ![a] = 0, ![my[a]] = my[a]]
    /\ UNCHANGED <<expectedState, restartAttempts, cancel, cmd, owned, launched, supervisor>>

(* The status is set, the channel made, the waiter and the monitor spawned.*)
StartStatus(a) ==
    /\ DaemonUp
    /\ pc[a] = "startStatus"
    /\ status' = "starting"
    /\ waitCh' = my[a]
    /\ waiter' = [waiter EXCEPT ![my[a]] = "wait"]
    /\ pc' = [pc EXCEPT ![a] = AfterStart(a), ![my[a]] = "select"]
    /\ my' = [my EXCEPT ![a] = 0, ![my[a]] = my[a]]
    /\ UNCHANGED <<expectedState, restartAttempts, cancel, cmd, cancelled, child, published, full, launched, supervisor>>

Start(a) ==
    \/ StartCheck(a) \/ StartLogFails(a) \/ StartCancel(a) \/ StartFails(a)
    \/ StartCmd(a) \/ StartExec(a) \/ StartFork(a) \/ StartPublish(a) \/ StartStatus(a)

-----------------------------------------------------------------------------
(* Process.Stop, and the return of its caller: a client that holds s.mu is *)
(* in RemoveTunnel, Main is in StopAll.                                    *)

(* Mutant: Stop records the third expected state.                          *)
StopExpectDisabled(a) ==
    /\ DaemonUp
    /\ pc[a] = "stop"
    /\ expectedState' = "disabled"
    /\ GoTo(a, "stopCancel")
    /\ UNCHANGED <<status, restartAttempts, cancel, cmd, waitCh, owned, my, launched, supervisor>>

StopExpect(a) ==
    /\ DaemonUp
    /\ pc[a] = "stop"
    /\ expectedState' = "stopped"
    /\ GoTo(a, "stopCancel")
    /\ UNCHANGED <<status, restartAttempts, cancel, cmd, waitCh, owned, my, launched, supervisor>>

StopReturn(a) ==
    /\ GoTo(a, IF a = Main THEN "exited" ELSE "idle")
    /\ Forget(a)
    /\ lock' = lock \ {a}
    /\ registered' = IF a \in Clients \cap lock THEN FALSE ELSE registered
    /\ UNCHANGED <<launched, down>>

StopCancel(a) ==
    /\ DaemonUp
    /\ pc[a] = "stopCancel"
    /\ cancelled' = cancelled \cup ({cancel} \ {0})
    /\ GoTo(a, "stopCheck")
    /\ UNCHANGED <<fields, child, published, full, waiter, my, launched, supervisor>>

(* The select takes the channel p.waitCh holds now and keeps it.           *)
StopCheck(a) ==
    /\ DaemonUp
    /\ pc[a] = "stopCheck"
    /\ IF HasProcess
       THEN /\ my' = [my EXCEPT ![a] = waitCh]
            /\ GoTo(a, "stopSelect")
            /\ UNCHANGED <<launched, supervisor>>
       ELSE StopReturn(a)
    /\ UNCHANGED <<fields, owned>>

StopReceive(a) ==
    /\ DaemonUp
    /\ pc[a] = "stopSelect"
    /\ my[a] \in full
    /\ full' = full \ {my[a]}
    /\ StopReturn(a)
    /\ UNCHANGED <<fields, cancelled, child, published, waiter>>

(* Mutant: the timeout gives up without killing the child.                 *)
StopTimeoutNoKill(a) ==
    /\ DaemonUp
    /\ pc[a] = "stopSelect"
    /\ StopReturn(a)
    /\ UNCHANGED <<fields, owned>>

(* Mutant: the timeout only logs, and waits again.                         *)
StopTimeoutRetries(a) ==
    /\ DaemonUp
    /\ pc[a] = "stopSelect"
    /\ UNCHANGED vars

(* time.After fired.  A zero timeout returns at once; otherwise the child  *)
(* of the command p.cmd holds now is killed.                               *)
StopTimeout(a) ==
    /\ DaemonUp
    /\ pc[a] = "stopSelect"
    /\ ShutdownTimeout = 0 \/ HasProcess
    /\ child' = IF ShutdownTimeout # 0 /\ child[cmd] = "live"
                THEN [child EXCEPT ![cmd] = "exitErr"] ELSE child
    /\ StopReturn(a)
    /\ UNCHANGED <<fields, cancelled, published, full, waiter>>

(* Another Start has stored a command that has no process yet: Kill is     *)
(* called on a nil *os.Process.                                            *)
StopPanics(a) ==
    /\ DaemonUp
    /\ pc[a] = "stopSelect"
    /\ ShutdownTimeout # 0 /\ ~HasProcess
    /\ GoTo(Main, "panic")
    /\ UNCHANGED <<fields, owned, my, launched, supervisor>>

Stop(a) ==
    \/ StopExpect(a) \/ StopCancel(a) \/ StopCheck(a) \/ StopReceive(a)
    \/ StopTimeout(a) \/ StopPanics(a)

-----------------------------------------------------------------------------
(* The child process and the waiter goroutine of launch k.                 *)

ChildExits(k) ==
    /\ DaemonUp
    /\ child[k] = "live"
    /\ \E s \in {"exitOk", "exitErr"} : child' = [child EXCEPT ![k] = s]
    /\ UNCHANGED <<fields, cancelled, published, full, waiter, control, supervisor>>

(* exec.CommandContext kills the child of a done context, once cmd.Start   *)
(* has come to watching it.                                                *)
ChildKilled(k) ==
    /\ DaemonUp
    /\ child[k] = "live" /\ k \in published
    /\ CtxDone(k)
    /\ child' = [child EXCEPT ![k] = "exitErr"]
    /\ UNCHANGED <<fields, cancelled, published, full, waiter, control, supervisor>>

(* Mutant: the end of the output is taken for the exit of the child.       *)
WaiterReapsEarly(k) ==
    /\ DaemonUp
    /\ waiter[k] = "wait"
    /\ child[k] # "none"
    /\ child' = [child EXCEPT ![k] = IF @ = "live" THEN @ ELSE "reaped"]
    /\ status' = IF child[k] = "exitOk" THEN "stopped" ELSE "failed"
    /\ waiter' = [waiter EXCEPT ![k] = "send"]
    /\ UNCHANGED <<expectedState, restartAttempts, cancel, cmd, waitCh, cancelled, published, full, control, supervisor>>

WaiterReaps(k) ==
    /\ DaemonUp
    /\ waiter[k] = "wait"
    /\ child[k] \in {"exitOk", "exitErr"}
    /\ child' = [child EXCEPT ![k] = "reaped"]
    /\ status' = IF child[k] = "exitOk" THEN "stopped" ELSE "failed"
    /\ waiter' = [waiter EXCEPT ![k] = "send"]
    /\ UNCHANGED <<expectedState, restartAttempts, cancel, cmd, waitCh, cancelled, published, full, control, supervisor>>

(* Mutant: an exit without error is not sent.                              *)
WaiterSendsErrors(k) ==
    /\ DaemonUp
    /\ waiter[k] = "send"
    /\ full' = IF status = "failed" THEN full \cup {waitCh} ELSE full
    /\ waiter' = [waiter EXCEPT ![k] = "done"]
    /\ UNCHANGED <<fields, cancelled, child, published, control, supervisor>>

(* The waiter sends on the channel p.waitCh holds now, not on its own.     *)
WaiterSends(k) ==
    /\ DaemonUp
    /\ waiter[k] = "send"
    /\ waitCh \notin full
    /\ full' = full \cup {waitCh}
    /\ waiter' = [waiter EXCEPT ![k] = "done"]
    /\ UNCHANGED <<fields, cancelled, child, published, control, supervisor>>

Waiter(k) == WaiterReaps(k) \/ WaiterSends(k)

-----------------------------------------------------------------------------
(* The monitor goroutine of startAndNotify, and handleFailure.             *)

MonitorCtxDone(k) ==
    /\ DaemonUp
    /\ pc[k] = "select"
    /\ down
    /\ GoTo(k, "done")
    /\ Forget(k)
    /\ UNCHANGED <<fields, owned, launched, supervisor>>

MonitorReceives(k) ==
    /\ DaemonUp
    /\ pc[k] = "select"
    /\ my[k] \in full
    /\ full' = full \ {my[k]}
    /\ GoTo(k, "failure")
    /\ Forget(k)
    /\ UNCHANGED <<fields, cancelled, child, published, waiter, launched, supervisor>>

(* A tick that changes nothing: the check fails before the startup timeout,*)
(* or it succeeds on a tunnel that is running.  Like every tick it ends    *)
(* with a new select, on the channel p.Wait() returns now.                 *)
MonitorTickIdle(k) ==
    /\ DaemonUp
    /\ pc[k] = "select"
    /\ HealthType = "tcp" \/ status = "running"
    /\ my' = [my EXCEPT ![k] = waitCh]
    /\ UNCHANGED <<fields, owned, pc, launched, supervisor>>

(* The check succeeds: always without a TCP probe, else when a child of    *)
(* the tunnel can be listening on the probed address.                      *)
MonitorTickOk(k) ==
    /\ DaemonUp
    /\ pc[k] = "select"
    /\ HealthType = "none" \/ \E j \in Launches : child[j] = "live"
    /\ GoTo(k, "healthy")
    /\ Forget(k)
    /\ UNCHANGED <<fields, owned, launched, supervisor>>

MonitorHealthy(k) ==
    /\ DaemonUp
    /\ pc[k] = "healthy"
    /\ status' = "running"
    /\ restartAttempts' = IF status # "running" THEN 0 ELSE restartAttempts
    /\ GoTo(k, "select")
    /\ my' = [my EXCEPT ![k] = waitCh]
    /\ UNCHANGED <<expectedState, cancel, cmd, waitCh, owned, launched, supervisor>>

(* Mutant: the check of a tunnel without a probe can fail.                 *)
MonitorTickFailsAny(k) ==
    /\ DaemonUp
    /\ pc[k] = "select"
    /\ status' = "failed"
    /\ GoTo(k, "failure")
    /\ Forget(k)
    /\ UNCHANGED <<expectedState, restartAttempts, cancel, cmd, waitCh, owned, launched, supervisor>>

(* A failed check after the startup timeout.                               *)
MonitorTickFails(k) ==
    /\ DaemonUp
    /\ pc[k] = "select"
    /\ HealthType = "tcp"
    /\ status' = "failed"
    /\ GoTo(k, "failure")
    /\ Forget(k)
    /\ UNCHANGED <<expectedState, restartAttempts, cancel, cmd, waitCh, owned, launched, supervisor>>

(* Mutant: one attempt too many.                                           *)
AttemptsLeftInclusive == MaxAttempts = 0 \/ restartAttempts <= MaxAttempts

(* The attempts are compared with the maximum.                             *)
AttemptsLeft == MaxAttempts = 0 \/ restartAttempts < MaxAttempts

(* Mutant: handleFailure works on the process it was given.                *)
FailureDecidesNoLookup(k) ==
    /\ DaemonUp
    /\ pc[k] = "failure"
    /\ lock = {}
    /\ LET restarts == expectedState = "running" /\ RestartPolicy \notin {"nil", "never"}
       IN  /\ GoTo(k, IF restarts /\ AttemptsLeft THEN "increment" ELSE "done")
           /\ status' = IF restarts /\ ~AttemptsLeft THEN "failed" ELSE status
    /\ UNCHANGED <<expectedState, restartAttempts, cancel, cmd, waitCh, owned, my, launched, supervisor>>

(* The tunnel is looked up again by name; one that should not run is left  *)
(* alone, and so is one without a policy or without attempts left.         *)
(* (Dependents are stopped in between: module Supervisor.)                 *)
FailureDecides(k) ==
    /\ DaemonUp
    /\ pc[k] = "failure"
    /\ lock = {}
    /\ LET wanted == registered /\ expectedState = "running"
           restarts == wanted /\ RestartPolicy \notin {"nil", "never"}
       IN  /\ GoTo(k, IF restarts /\ AttemptsLeft THEN "increment" ELSE "done")
           /\ status' = IF restarts /\ ~AttemptsLeft THEN "failed" ELSE status
    /\ UNCHANGED <<expectedState, restartAttempts, cancel, cmd, waitCh, owned, my, launched, supervisor>>

(* The attempt is counted; the backoff delay follows, then Start.          *)
FailureIncrement(k) ==
    /\ DaemonUp
    /\ pc[k] = "increment"
    /\ restartAttempts' = restartAttempts + 1
    /\ GoTo(k, "sleep")
    /\ UNCHANGED <<status, expectedState, cancel, cmd, waitCh, owned, my, launched, supervisor>>

Monitor(k) ==
    \/ MonitorCtxDone(k) \/ MonitorReceives(k) \/ MonitorTickIdle(k)
    \/ MonitorTickOk(k) \/ MonitorHealthy(k) \/ MonitorTickFails(k)
    \/ FailureDecides(k) \/ FailureIncrement(k)

-----------------------------------------------------------------------------
(* Requests of the clients, and the shutdown of the daemon.                *)

(* A handler looks the tunnel up under s.mu.                               *)
Request(c, op) ==
    /\ DaemonUp
    /\ op \in Ops
    /\ pc[c] = "idle"
    /\ lock = {} /\ registered

(* A running tunnel whose child is alive is left alone.                    *)
StartTunnel(c) ==
    /\ Request(c, "StartTunnel")
    /\ ~(status \in {"running", "starting"} /\ IsProcessAlive)
    /\ GoTo(c, "start")
    /\ UNCHANGED <<fields, owned, my, launched, supervisor>>

EnableTunnel(c) ==
    /\ Request(c, "EnableTunnel")
    /\ GoTo(c, "start")
    /\ UNCHANGED <<fields, owned, my, launched, supervisor>>

StopTunnel(c) ==
    /\ Request(c, "StopTunnel") \/ Request(c, "DisableTunnel")
    /\ GoTo(c, "stop")
    /\ UNCHANGED <<fields, owned, my, launched, supervisor>>

(* RemoveTunnel keeps s.mu until Stop has returned.                        *)
RemoveTunnel(c) ==
    /\ Request(c, "RemoveTunnel")
    /\ lock' = {c}
    /\ GoTo(c, "stop")
    /\ UNCHANGED <<fields, owned, my, launched, registered, down>>

Client(c) == StartTunnel(c) \/ EnableTunnel(c) \/ StopTunnel(c) \/ RemoveTunnel(c)

Shutdown ==
    /\ DaemonUp
    /\ ~down
    /\ down' = TRUE
    /\ UNCHANGED <<fields, owned, control, lock, registered>>

(* StopAll stops the tunnel under s.mu if it is still registered, and Run  *)
(* returns.                                                                *)
StopAll ==
    /\ DaemonUp
    /\ pc[Main] = "await"
    /\ down
    /\ lock = {}
    /\ GoTo(Main, IF registered THEN "stop" ELSE "exited")
    /\ lock' = IF registered THEN {Main} ELSE {}
    /\ UNCHANGED <<fields, owned, my, launched, registered, down>>

(* Nothing is left to run once the daemon has ended.                       *)
Terminated == ~DaemonUp /\ UNCHANGED vars

Next ==
    \/ \E a \in Actors : Start(a)
    \/ \E a \in Callers : Stop(a)
    \/ \E k \in Launches : ChildExits(k) \/ ChildKilled(k) \/ Waiter(k) \/ Monitor(k)
    \/ \E c \in Clients : Client(c)
    \/ Shutdown
    \/ StopAll
    \/ Terminated

Spec == Init /\ [][Next]_vars

(* The Go scheduler runs every goroutine that can run; a timer fires; a    *)
(* done context gets its child killed; and a select that finds a case      *)
(* ready again and again takes it some time, since it chooses at random    *)
(* among the ready ones.  Clients, exits of children, failing checks and   *)
(* the shutdown signal are the environment's and get no fairness.          *)
MonitorRuns(k) ==
    MonitorHealthy(k) \/ FailureDecides(k) \/ FailureIncrement(k)

Fairness ==
    /\ \A a \in Actors : WF_vars(Start(a))
    /\ \A a \in Callers : WF_vars(Stop(a))
    /\ \A k \in Launches :
          /\ WF_vars(ChildKilled(k))
          /\ WF_vars(Waiter(k))
          /\ WF_vars(MonitorRuns(k))
          /\ SF_vars(MonitorReceives(k))
          /\ SF_vars(MonitorCtxDone(k))
    /\ WF_vars(StopAll)

FairSpec == Spec /\ Fairness

-----------------------------------------------------------------------------
(* Properties.                                                             *)

(* The tunnel never has two live children: Start refuses a tunnel that is  *)
(* "already running" (process.go:112).                                     *)
OneLiveChild == \A j, k \in Launches : child[j] = "live" /\ child[k] = "live" => j = k

(* When Run has returned after StopAll, a child of a tunnel that nobody    *)
(* removed can outlive the daemon only if Start was forking it while Stop  *)
(* looked at p.cmd.Process; every child that others could see is dead.     *)
ExitKillsPublished ==
    pc[Main] = "exited" /\ registered => \A k \in published : child[k] # "live"

(* handleFailure never counts more restarts than max_attempts, although it *)
(* reads the counter and increments it in two critical sections.           *)
AttemptsBounded == MaxAttempts = 0 \/ restartAttempts <= MaxAttempts

(* The channel a waiter is about to send on has room: a waiter goroutine   *)
(* never stays behind.                                                     *)
WaiterNeverBlocks == \A k \in Launches : waiter[k] = "send" => waitCh \notin full

(* Launch k has no child and has not passed the test of its context.       *)
Unforked(k) ==
    /\ child[k] = "none"
    /\ \A a \in Actors : ~(pc[a] = "startFork" /\ my[a] = k)

(* After the shutdown signal no launch gets a child any more, except one   *)
(* that cmd.Start was already about to fork: every run context is derived  *)
(* from the daemon's.                                                      *)
LaunchesEnd ==
    [][down => \A k \in Launches : Unforked(k) => Unforked(k)']_vars

(* No goroutine is on its way to a launch of a removed tunnel.             *)
Gone ==
    /\ ~registered
    /\ \A a \in Actors : pc[a] \notin StartPcs \cup {"increment"}

(* A removed tunnel that has no start under way stays down: handlers and   *)
(* handleFailure look the name up before they start anything.              *)
RemovedStaysDown == [][Gone => Gone']_vars

(* handleFailure restarts only a tunnel that is still expected to run:     *)
(* "Expected state is %s, skipping restart" (supervisor.go:385).           *)
RestartOnlyIfExpected ==
    [][\A k \in Launches :
          pc[k] = "sleep" /\ pc'[k] = "startCancel" => expectedState = "running"]_vars

(* The exit of a child is noticed: its monitor leaves the select.          *)
ExitNoticed ==
    \A k \in Launches : child[k] = "reaped" ~> pc[k] \in {"done"} \cup StartPcs \/ ~DaemonUp

(* A child whose context is done is killed and reaped.                     *)
CondemnedIsReaped ==
    \A k \in Launches : (child[k] = "live" /\ CtxDone(k)) ~> (child[k] = "reaped" \/ ~DaemonUp)

(* Once the shutdown signal has come Run returns, whoever holds s.mu.      *)
ShutdownCompletes == down ~> ~DaemonUp

(* RemoveTunnel gives s.mu back although it waits for the child under it,  *)
(* and although the monitor may take the child's exit from the channel.    *)
LockReleased == \A c \in Clients : c \in lock ~> (c \notin lock \/ ~DaemonUp)
=============================================================================
