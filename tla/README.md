# tunneld in TLA+

tunneld is a daemon that keeps ssh and `kubectl port-forward` tunnels running:
it starts their processes in the order of their dependencies, watches them,
restarts them with a backoff, stops what depends on a tunnel that failed, and
takes requests over gRPC while all this goes on. A Kubernetes operator, made of
one controller and an agent per node, drives many such daemons from `Tunnel`
objects. This project models the parts of it where the order of events matters.

## 1. The system

| Part | State | Operations | Talks to |
|---|---|---|---|
| Process (`internal/daemon/process.go`) | status, expected state, attempts, and the fields `cancel`, `cmd`, `waitCh`, which are read and written without the mutex | `Start`, `Stop`, the waiter goroutine | its child; the monitor, over `waitCh` |
| Supervisor (`internal/daemon/supervisor.go`) | the registry `processes` under `s.mu`, the planner, one monitor goroutine per start | `Run`, `AddTunnel`, `RemoveTunnel`, `StartTunnel`, `StopTunnel`, `Enable`/`DisableTunnel`, `startAndNotify`, `handleFailure`, `StopAll`, `WaitHealthy` | process, planner, health checkers, config files |
| Planner (`internal/dependency/planner.go`) | the specs, the graph of the last `Plan` | `AddSpec`, `RemoveSpec`, `Plan`, `DependentsOf` | the gographs library |
| Health checkers (`internal/health`) | none | `Check` | the network |
| Daemon (`cmd/tunneld`) | the root context | load the config, serve the API, `Run`, react to the signal | all of the above |
| gRPC API (`internal/api`) | the locals of its handlers | `Create`, `Update`, `Delete`, `Start`, `Stop`, `Enable`, `Disable`, `Wait`, `Status`, `WatchStatus`, `Logs`, keys | supervisor, clients, the key directory |
| Clients (`cmd/tunnelctl`) | none | one call per command; `load` makes a sequence of them | the API |
| Configuration (`internal/config`) | the config file and its copy in memory, the files of persistent tunnels | `Load`, `Validate`, `SetEnabled`, `Save` | the file system |
| Specs and ports (`internal/tunnel`) | none | port keys, dynamic ports, command lines | the operating system |
| Tunnel controller (`k8s/controllers`) | none but the API objects | validate, schedule to a node, publish Service and Endpoints | the API server |
| Node agent (`k8s/agent`) | none but the API objects | push the tunnel to the local tunneld, report its state | the API server, tunneld |
| Group and key controllers (`k8s/controllers`) | none but the API objects | expand a group, check a key | the API server |

What is hard, and what would be correct:

* **Process.** `Start` gives its lock up between its guard and the status that
  makes the guard effective; four kinds of goroutine (Run, handlers, monitors,
  waiters) use three unprotected fields; `Stop` and the monitor compete for the
  single exit message; `cmd.Start` looks at the context, forks, and only then shows its
  child to others. Correct: one child at a time, no child left behind that `Stop` could
  see, no launch begun after shutdown, every exit noticed, every lock given back.
* **Supervisor and planner.** A creation touches planner, graph and registry and
  may be rejected in the middle; the graph is only as new as the last `Plan`;
  monitors look tunnels up by name, perhaps long after theirs was removed.
  Correct: registry and planner agree, no cycle and no port claimed twice after
  any sequence of requests, tunnels join after those they depend on, cascades reach
  every dependent.
* **API and clients.** A handler uses the supervisor several times and holds nothing
  in between; `Update` removes before it adds; waits and streams go on while the
  tunnel they are about is replaced or their client leaves. Correct: an `Update`
  takes effect or loses a tunnel only for a spec that was never acceptable or a file that
  could not be written, a batch does not lose an error, everything that waits ends.
* **Files.** Everything is truncated and written in place, by handlers that may fail
  between two steps, in a daemon that may die at any of them. Correct: acknowledged
  switches decide what comes up, the daemon starts again but for the sequences of
  requests that are known to prevent it, a key is whole when the tunnel that brought it is launched.
* **Kubernetes.** Controller and agents write the same objects from copies that
  may be old, agents restart, dynamic ports change with each launch. Correct: late
  writes are refused, the Endpoints come to lead to the tunnel, a deleted tunnel or
  group disappears everywhere, statuses settle on what the objects say.

The hazards are listed, each at its line, in `PROJECT.json`.

## 2. The modules

| Module | Models | Composed from |
|---|---|---|
| `TunnelProcess` | one Process object and every goroutine that works on it | |
| `TunnelProcessProofs` | its theorems about types, shutdown and removal | `TunnelProcess` |
| `LaunchProofs` | its theorems about children, waiters, restarts and the lock | `TunnelProcessProofs` |
| `Planner` | the planner, as operators on its state | |
| `Registry` | what the supervisor promises: a set of tunnels, changed one at a time | `Planner` |
| `Supervisor` | registry, planner, Run, requests, monitors and cascades of many tunnels; implements `Registry` | `Planner`, `Registry` |
| `MCSupervisor` | config files and requests for the runs | `Supervisor` |
| `SupervisorProofs` | its theorems about types, the registry and the planner | `Supervisor` |
| `RefinementProofs` | its theorems about the graph and `Registry` | `SupervisorProofs` |
| `Api`, `MCApi` | gRPC handlers and `tunnelctl load`, on top of the promise | `Registry` |
| `ApiProofs` | its theorems | `Api` |
| `Store`, `MCStore` | config file, `tunnels.d`, keys, calls and crashes, on top of the promise | `Registry` |
| `StoreProofs` | its theorems | `Store` |
| `Backoff` | the delay before a restart, in integers of a fixed width | |
| `KubeTunnel`, `MCKubeTunnel` | one Tunnel object with its controller, agents and daemons | |
| `KubeTunnelProofs` | its theorems | `KubeTunnel` |
| `KubeGroup`, `MCKubeGroup` | one TunnelGroup with its children, one TunnelKey | |
| `GroupProofs` | its theorems | `KubeGroup` |

Operators whose comment begins with "Mutant" are wrong variants of the next
definition; no specification uses them. They exist to show that each property
would notice such a mistake.

### TunnelProcess

A *launch* is one call of `Start` that got as far as its own run context. Launch
k owns context k, command and child k, channel k, waiter k and monitor k. The
fields `cancel`, `cmd` and `waitCh` hold the number of a launch, 0 for nil, so
that a goroutine which uses a field overwritten by a later launch really uses the
wrong one. The actors are `Main` (the goroutine of `Supervisor.Run`), the clients
(gRPC handlers) and the monitors.

`Start` is the steps `StartCheck` (guard and expected state, under `p.mu`),
`StartLogFails`, `StartCancel` (context and `p.cancel`), `StartCmd`, the three steps of
`cmd.Start`, that is `StartExec` (the test of the context), `StartFork` and `StartPublish`
(`cmd.Process`, kept in `published`), then `StartFails` or `StartStatus` (status, channel,
waiter, monitor). A `Stop` between fork and publication finds no process. `Stop` is
`StopExpect`, `StopCancel`, `StopCheck`, then `StopReceive` or `StopTimeout`;
`StopPanics` is the kill of a command that has no process yet. The
waiter is `WaiterReaps` and `WaiterSends`. The monitor's select is
`MonitorCtxDone`, `MonitorReceives` and the ticks; `FailureDecides` and
`FailureIncrement` are `handleFailure` without the cascade, and the backoff delay
is the label `sleep`, at which others step. `lock` is `s.mu` as far as
`RemoveTunnel` and `StopAll` hold it across `Stop`.

Four pairs of accesses are one step each, named in the module's header: `cmd.Wait` and
the status the waiter sets, the end of `Start`, the test of `p.cmd` and the reading of
`p.waitCh` in `Stop`, and the lookup with the decision of `handleFailure`.

### Planner and Supervisor

A spec is the set of names it depends on and the set of its local port keys
(`addr:port`, as `LocalPortKeys` makes them). `PlanGraphs` gives every graph `Plan`
may leave: the whole graph, or, when a dependency is missing, the edges visited
before it in the random order of a map. `TopologicalSort` and `Flood` are modelled
by what `planner.go` expects of them.

In `Supervisor` a Process object is a number, because an object that was removed
or overwritten keeps its goroutines. `RunPlans`, `RunRegisters`, `RunStarts` and
`RunAwaits` are the phases of `Run`; `RunFails` its errors. `AddTunnel` is one
step up to the release of `s.mu`, with the start of the new object (`starters`,
`StartRequested`) as a later step. `handleFailure` is `FailureLookup`, then one
`CascadeStop` per dependent in any order, then `CascadeEnds` (the policy), then
`Restart` after the delay. Abstractions:

* `Start` and `Stop` are single steps here; what happens inside them is the
  subject of `TunnelProcess`. `StopAll` is one step.
* An object has at most one failure handler at a time, and the monitors of an
  object are merged into one element of `watch`.
* Every spec has the same restart policy; attempts and delays are left out.
* A spec that claims the same port key twice cannot be told from one that claims
  it once.
* With `ApiEarly = FALSE` clients wait until `Run` has started every tunnel. The
  requests the API would take before `Run` has stored its context are left out.

### Registry, Api, Store

`Registry` is the abstract specification of the supervisor: a map from names to
specs, to which a step adds one acceptable tunnel (name free, ports free, an order
with the others exists) or from which it removes one. `Supervisor` implements it
(`ImplementsRegistry`), with `reg` mapped to the specs of the registered objects,
through start-up and through everything monitors do. `Api` and `Store` build on it
instead of on `Supervisor`: what they add would not fit beside cascades and graphs.

`Api` is a set of calls, each with the locals of its handler in `call[c]`; the label
`pc` is the next use of the supervisor. `Update` is `UpdateCompares` (the list), then
either `StartTunnel`, or `RemoveTunnel`, `AddTunnel` and `Launch`, other calls coming
between any two. Objects are numbers as in `Supervisor`: `WaitPolls` and `Launch` go
on with the object they looked up. `ObjectChanges` is everything monitors and children
may do to one that was `launched`, the cascade of another tunnel's failure included. An
inline key that cannot be saved ends the call before it begins (`Call`), the file of a
persistent tunnel that cannot be written refuses it in the middle (`WriteFails`), after
`Update` has removed the old one. `tunnelctl load` is a call of its own (`LoadBegins`, `LoadCreates`,
`LoadStarts`, `LoadEnds`) that takes the answers of the calls it makes.

`Store` keeps what is on disk (`file`, `dir`, `keys`) apart from what is in memory.
A write is two steps, the truncation (`...Opens`) and the content, because
`os.WriteFile` works in place: a crash or an error in between leaves `Torn`, or what
`Fragments` allows. Writes of the config file and of `tunnels.d` happen with `s.mu`
held (`lock`), writes of keys do not. `Boot` is `Load`, `Validate` and the plan;
`Crash` forgets everything but the disk; `PersistPanics` is the nil dereference in
`FromProto`. `SwitchOpens` and `Save` are `EnableTunnel` and `DisableTunnel`, which find
the tunnel in the registry but write the entry of the config file under its name. The
ghosts `acked`, `damaged`, `adopted`, `crossed` and `kept` only serve the properties;
`adopted` says that a tunnel was created under the name of an entry that is disabled.

### Backoff

`BackoffDelays` is the computation of `handleFailure`: a power of the multiplier,
converted, then capped. Go leaves the conversion of a float that does not fit to the
processor, so it is a choice between the least and the greatest duration. Multipliers
are whole and floats exact here.

### KubeTunnel

One `Tunnel` object is a record of what the reconcilers read and write: spec
(`body`, `expose`), `node`, `phase`, the reported `port`, `serviceRef`. A
reconciler takes a request, gets a copy of the object and goes on from it in
steps, while others write. The API server is external: a write is refused unless
its copy is current, a write that changes nothing makes no new version (one that
stamps a time may make one all the same: times have whole seconds), every change queues a request for everyone, and the objects a deleted one owned are
collected. A lagging cache is a Reconcile that read long before its next step. A
tunneld is reduced to the tunnel it runs, its status and its port; every start
may choose another port.

Controller: `ControllerRejects` (invalid, or no node), `ControllerSchedules`,
`ControllerServes` with `ControllerLosesNode`, `ControllerService` and
`ControllerEndpoints` (two separate writes), `ControllerWithdraws`,
`ControllerFails`, `ControllerReturns`. Agent: `AgentDeletes`, `AgentDeleteFails`, `AgentIgnores`,
`AgentAccepts`, `AgentCannotConvert`, `AgentDegrades`, `AgentPushes` (the daemon's `Update`),
`AgentReports`. `Write` ends both. `Restarts` is a controller or an agent that dies
wherever it is and lists what exists when it is back; an agent that was down when the
object was deleted is in `missed`, and so is one whose daemon failed the delete request,
since the agent drops that error. Nobody creates the object again.

### KubeGroup

The group's Reconcile is `GroupGets`, then `MemberGets`, `MemberPuts` (CreateOrUpdate)
and `MemberReads` for each member of the copy it works on, then `GroupReports`. A
write of a child is refused when the child has changed since it was read (`fresh`), a
write of the status when the group has (`current`). The tunnel controller appears as
`ControllerSchedules`, the agents as `AgentReports`, the garbage collector as `Collect`.
The key's Reconcile is `KeyGets` and `setPhase`; Secrets are not watched, so a change
of one is followed by nothing but `Resyncs`.

## 3. The runs

| Run | Question | Result |
|---|---|---|
| `unattended` | A tunnel nobody calls, no TCP probe: exits, restarts, shutdown at any point | one live child; no child left at the exit but one whose fork was under way; attempts bounded; no waiter blocked; every exit noticed |
| `handlers` | A handler makes every request at any point | types; no launch passes the test of its context after the shutdown; a removed tunnel stays down |
| `progress` | A probe that fails at will, a handler that removes the tunnel | condemned children are reaped; `s.mu` is given back; the shutdown ends |
| `supervisor` | Three config files, then creations, removals, starts, stops, failures | types; registry = planner; acyclic; ports exclusive; graph exact after an accepted request; implements `Registry`, in which a tunnel joins after those it depends on |
| `api` | Two calls of any kind side by side, and `tunnelctl load` | an `Update` that nobody crossed is in effect, or its spec was unacceptable or its file not written; `load` loses no error; waits and streams end |
| `store` | Two calls, failing writes, crashes and restarts at any point | acknowledged switches decide what comes up; the daemon starts again unless a needed tunnel was disabled, a disabled name given to another, or a write cut short; persistent tunnels have their file; inline keys are whole |
| `kube` | Edits, failures, rescheduling, deletion, restarts of agents and controller | types; late reports refused; Endpoints converge; deletion reaches every node whose agent was up and whose daemon took the request |
| `group` | A group that is edited and deleted while its reconciler works; a key whose Secret comes and goes | types; phase, children and key converge; nothing is left of a deleted group; members share a node while nodes are stable |
| `stop_undone` | Does a restart respect a stop made during its delay? | no |
| `two_children` | Does a failed check leave one child? | no |
| `no_restart` | Do cascaded dependents come back? | no |
| `backoff_collapse` | Does the backoff delay hold once the power overflows? | no |

The last four are violations: each states what a comment, a message or a
document of the repository says, quoted in `PROJECT.json` under `findings`.

Seen while modelling and not stated as a property, because the code does otherwise or
because a run above shows the part that does hold:

* `docs/configuration.md:17`, `README.md:33` and `README.md:41` and `docs/examples/bastion-kubernetes.md:50`
  promise that a dependency is healthy before its dependents start. `Run` calls `Start` in
  order and looks at no status in between (`RunStarts`). What holds is that the
  dependency is registered and its `Start` has been called, which is part of `ImplementsRegistry`.
* A `Stop` that looks between fork and publication of a child returns at once, and the
  daemon may exit with that child alive. `ExitKillsPublished` and `LaunchesEnd` leave this window out.
* A spec without `shutdown_timeout` has a timeout of zero, with which `Stop` does not wait.
  `docs/configuration.md:23` says five seconds; `DefaultShutdownTimeout` (`constants.go:25`) is used nowhere.
* A `Stop` that overlaps a start may take the exit message of the child, which the
  monitor then never sees; `Start` refuses a dead tunnel whose status was overwritten by a
  check that succeeded just before.
* With a client that sends `StartTunnel`, two children live, a waiter finds its channel
  full and `max_attempts` is passed: the passing runs have no such client.
* A creation rejected for a missing dependency leaves a partial graph; one rejected for a cycle
  leaves the edges of the rejected spec, so that a cascade may stop a tunnel that does not
  depend on the failed one.
* An `Update` of a persistent tunnel whose file cannot be written loses the tunnel.
* A tunnel that was disabled when the daemon came up cannot be enabled over the API.
  If another is created under its name it can, and what comes back at the next start is the
  old entry, whose ports may clash by now: the daemon does not start. Nor does it after
  `Disable` of a tunnel that an enabled one depends on.
* Files in `tunnels.d` are never read.
* After rescheduling the Endpoints name a port of the old node for a while. A tunnel whose
  deletion the daemon refused is not deleted again. A child whose member left its group
  is never deleted.

`OneLiveChild` appears twice: it holds without clients and without a probe and is
violated with a probe. The difference is the point: a check that fails after the
startup timeout restarts the tunnel without cancelling the child.

**Bounds.** `TunnelProcess`: two launches (`MaxLaunch`) are the fewest in which fields of one launch
are overwritten by another, and every race in `TunnelProcess` is between two;
`unattended` uses three, so that two attempts can be exceeded. One client is
enough for a race with `Run` and with monitors, which are there anyway. In
`supervisor`, three names give a chain whose beginning can be removed, two ports a clash,
and three objects (`MaxProcs`) one creation on top of the configured two, by which
the removed bastion could close a cycle with the tunnel that depended on it; config
files cover the good case, a cycle and a port claimed twice. In `api`, two calls are
what it takes for one to come between two steps of another, one of them possibly the
sequence that `load` makes; three objects (`MaxObjects`) are the configured one, one
that replaces it and one beside it; the requests hold a spec that is taken, one that
moves the tunnel and one that clashes. In `store`, two calls can hold and wait for the
lock, or write one key over each other; crashes are not bounded. In `kube`, two nodes
are what rescheduling needs, two ports what a restart changes; one disturbance
(`MaxEvents`) besides the deletion, which is free, gives each of edit, node
change, failed call, failed daemon and restarted agent followed by a deletion at any
point. In `group`, a second member is what the reconciler visits after the first, and
three changes (`MaxChanges`) are an edit, a report and a deletion in any order and at
any point; `MCSpec` has a group or a key, which share nothing. In `backoff_collapse` 16
bits stand for 64: a delay of 2 overflows after 14 doublings there, one of two seconds
(2^31 nanoseconds, about) after 33 in the code.

Deadlock is checked except in `kube`, `group`, `api`, `store` and `backoff_collapse`:
a cluster without the object and a server whose calls are all done have nothing left
to do, a daemon that refuses to start stays down, and restarts stop at the bound. In `TunnelProcess` and `Supervisor` the end of the
daemon is a stuttering step of its own, so any other standstill is reported.

**Fairness.** In `TunnelProcess`, weak fairness of every goroutine's steps: the Go
scheduler runs what can run and timers fire; of the kill that `exec.CommandContext`
promises for a done context; and strong fairness of the two cases of the monitor's
select that a tick may compete with, since `select` chooses at random among the
ready cases. In `Supervisor`, the same for Run, starts, monitors and handlers,
and a live child answers its probe in the end. In `Api`, weak fairness of
every handler, and strong fairness of the done context in the select of `WatchStatus`,
which a ready tick may win against only finitely often; `tunnelctl` itself may be
interrupted at any point. `Store` has safety properties only. In `KubeTunnel` and
`KubeGroup`, queued requests are handled, a child comes up, garbage is collected, the
resync comes round, each child is scheduled. Clients, exits, failing
probes, node changes, edits and the signal are the environment's: no fairness.

## 4. The proofs

All for any constants that satisfy the named assumptions.

`TunnelProcessProofs`, for any clients, launches, policies and timeouts:

* `TypeCorrect`: `Spec => []TypeOK`. The types alone are not inductive: a goroutine
  in the middle of `Start` writes to the launch it holds, and a waiter to the
  channel `waitCh` names. `TInv` adds that both exist (`LocalsOK`).
* `ShutdownStopsLaunches`: the action property `LaunchesEnd`. A launch without a child that
  is not about to fork (`Unforked`) stays so: the way to the fork leads through
  `StartExec`, which needs a context that is not done, while every context derives from
  the daemon's. What was about to fork at the signal may still do so.
* `RemovalIsFinal`: the action property `RemovedStaysDown`. `Gone` is stable: every
  way into a start passes a lookup that fails.

`LaunchProofs`, on top of these. The first three hold for any clients:

* `EveryChildIsWaitedFor`: `Attended`. The goroutine that has launched a child spawns its
  waiter before it does anything else, unless the daemon panics first.
* `LockHeldOnlyInStop`: `LockDiscipline`. While the daemon is up `s.mu` has at most one
  holder, and that is in `Stop`.
* `ChildLifeCycle`: the action property `ChildLivesOnce`. No step but `StartFork` makes a
  child live, and each launch has one goroutine there, once.

The other four are about a tunnel that only `Run` and its monitors start
(`OnlyStops`: no client sends `StartTunnel` or `EnableTunnel`; stops and removals may
come at any time). TLC finds a violation when any of the hypotheses is dropped: a
client's start is counted by no one and may run beside a restart.

* `RestartsAreBounded`: `AttemptsBounded`. `handleFailure` compares the counter in one
  critical section and increments it in another, which is safe (`Counted`) because
  `Run` and the monitors form a chain: one of them at a time works on the tunnel
  (`OneBusy`), and it ends when it has launched the next.
* `NeverTwoChildren`: `OneLiveChild`, without a TCP probe (`NoProbe`; with one it does
  not hold, see `two_children`). `SInv` says that only the last launch can be unfinished
  (`LastOK`), that the fields `cmd` and `waitCh` are its own, and that nobody is on the
  way to another one before it is over (`ChainOK`).
* `WaitersNeverBlock`: `WaiterNeverBlocks`, from the same invariant: a waiter sends at
  most once, on the channel of its own launch. The part of it about the channel is
  stated for a daemon that is up (`WaitersOK`): after a panic in the middle of `Start`
  the waiter was never made.
* `ExitLeavesOnlyFork`: `ExitKillsPublished`, for a timeout that is set (`ShutdownTimeout # 0`;
  without one the property is violated) and a tunnel nobody removes, which `StopAll` would no
  longer know. The tunnel stays registered and no client holds `s.mu` (`Kept`), so that
  `StopAll` does stop it, and the one child that others can see is the one `Stop` finds in
  `p.cmd`. A child between its fork and its publication has its launcher there (`Forked`).

`SupervisorProofs`, for any names, ports, config files, offers and requests:

* `TypeCorrect`. `TInv` adds that a failure handler at work has an object and that
  the planner's map is finite, without which the order of `Plan` need not be a
  sequence of known length.
* `NeverCyclic`: `DependenciesAcyclic`, for early requests too. A rejected creation
  and a removal restrict the map (`RestrictAcyclic`); an accepted one was sorted.
* `RegistryInStep`: `RegistryMatchesPlanner`, for `~ApiEarly`. The invariant `RInv`
  relates the registry to the planner *during* start-up: what is registered or
  still waiting in `order` is what the planner knows, with the same specs
  (`Agreement`). It rests on `PlanOrdersComplete`: an order without repetition and
  as long as the finite set of names leaves none out.
* `PortsNeverShared`: `PortsExclusive`, for `~ApiEarly`. `Agreement` also says no
  two specs of the planner clash, which the check of a creation against the
  registry preserves only because registry and planner agree.

`RefinementProofs`, on top of these:

* `CascadeCoversDependents`: `AcceptedGraphExact`, early requests included. When
  nothing is missing the graph has an edge for every dependency, so a set is closed
  under its edges exactly if it is closed under the specs (`CompleteGraph`).
* `KeepsPromise`: `ImplementsRegistry`, for `~ApiEarly`. Only `RunRegisters`,
  `AddTunnelAccepted` and `RemoveTunnel` change the tunnels. For a creation
  `Agreement` makes the planner's map equal to the registry, so that what Plan
  accepted is what `Registry` accepts. For start-up, `OrderInv` gives the
  dependencies (what waits in `order` has them registered or before it, without
  repetition), `Agreement` the ports, and `NeverCyclic` the order, since what has
  been registered is a part of the map that was planned.

`StoreProofs`, for any tunnels, keys, calls, config files and requests; all five
safety properties of `Store`:

* `TypeCorrect`. `TInv` adds what a call at a label knows of its request (`AtLabel`),
  that nothing is in progress while the daemon is down (`Quiet`), and what the holder
  of the lock has checked and nobody else can undo (`Held`). `OthersStay` and
  `NewLabel` say which step of a call moves what; the other four proofs rest on them.
* `SwitchesSurvive`: `SwitchSurvives`. The invariant follows a switch through the
  code: while its file is written the memory says it (`SavingKept`), once the file is
  written both do (`PendingKept`), and still do when it has been acknowledged
  (`AckedKept`), as long as no later write was cut short. A later switch of the same
  tunnel withdraws the promise, one of another tunnel writes the whole memory.
* `EnabledTunnelsFit`: `StartsAgain`. `EnableTunnel` checks neither ports nor order, so the
  invariant (`BootInv`) is about everything a switch may yet enable: the entries that are
  enabled in memory or in the file, and those whose name is registered (`Candidates`) have no
  port in common and no cycle (`Sound`). They shrink from `Boot` on, unless a disabled
  name is given to another tunnel (`adopted`). Dependencies are not part of it, since
  `DisableTunnel` may take one away.
* `PersistentStays`: `PersistentOnDisk`. Who writes a file holds the lock and a name
  that is free, so it is not the file of a registered tunnel.
* `KeyBeforeLaunch`: `KeyReadyAtLaunch`. From the write of the key to the launch
  (`KeySaved`), whoever touches the key crosses the call.

`ApiProofs`, for any tunnels, requests, files and number of calls:

* `ApiTypeCorrect`. `AInv` adds what a handler has in hand at each label (`HandOK`) and, for
  the supervisor, that no two names share an object and whatever lives is wanted.
* `UpdateTakesEffect` and `UpdateLosesNothingElse`: `UpdateInEffect` and
  `UpdateLosesOnlyRefused`. An `Update` that nobody crossed and is about to start or
  launch its tunnel has it registered with the spec it was given (`UpdateOK`); one that is
  refused ends in the step in which the supervisor refused it. `Bystander` and `Acts` say once
  what the steps of one call leave to another.
* `LoadIsComplete`: `LoadComplete`. Each tunnel of the file is still to come, or is
  registered and launched, or is the one in hand (`LoadOK`). It rests on
  `PlanOrdersComplete` again: the order of the plan leaves none of them out.

`KubeTunnelProofs`, for any nodes, ports and versions of the spec:

* `KubeTypeCorrect`, `NoStaleReport` (`ReportsAreCurrent`) and `NoLostUpdate`. `KInv` relates each
  reconciler's copy to the object: while it is `based` on the current version it shares
  with the object everything that this reconciler does not write (`BasedOK`), since only
  a reconciler's own writes keep its base. So a write that is not refused changes the writer's
  part and nothing else (`WritesOwnPart`), and an agent reports only to an object of its node.
* `DeletionsAreHeard`: `DeletionIsHeard`. A node whose daemon still runs a tunnel that is gone has
  a request queued or a Reconcile under way that will find out (`GoneOK`), except for
  agents that died after the deletion or whose request the daemon failed (`missed`).
* `AssignedStaysPolled`: `AssignedIsPolled`. The agent of the assigned node has a request
  queued or is at work, so every path of `Reconcile` that ends asks for another one.
* `QuietControllerHasPublished`: `QuietIsPublished`. A controller with nothing queued and
  nothing under way has left the cluster as the object wants it: an invalid tunnel is
  `Failed`, another has a node, and Service, Endpoints and `serviceRef` agree with its
  status. `ServedOK` follows a Reconcile label by label: what it has done so far still holds, or a
  request is queued. This is the safety half of `EndpointsConverge`.

`GroupProofs`, for any members, nodes and templates:

* `TypeCorrect`. A reconciler between two members has phases for those it has
  visited and a member to go on with (`WorkOK`).
* `MembersShareNode`: `ColocatedIfStable`. Before a node changes each member is where
  the scheduler would put it now (`OnPickedNode`), and that is one place.
* `QuietGroupHasReported`: `QuietGroupReported`. A group with nothing queued and nothing under
  way has a Tunnel with the template's spec for every member, and the worst of their
  phases. As long as nothing is queued the copy is the group and each member visited is
  as it was (`VisitedOK`); whatever changes one queues the group, its own writes included.
  This is the safety half of `GroupConverges` and `ChildrenFollow`.
* `QuietKeyHasReported`: `QuietKeyReported`, the same for a key, whose Secret alone may have
  changed since.

Only model-checked: everything about liveness and fairness (the prover has no
`ENABLED`), that is `ExitNoticed` and the three properties of `progress`, the waits and
streams of `Api`, and the converging properties of `KubeTunnel` and `KubeGroup` beyond the
safety halves proved above; what the four violations show; and what
`TopologicalSort` computes, which is modelled by the orders it may return. Every
invariant and every other action property of a passing run is a theorem.

## 5. What is not modelled

* **Authorisation** (`internal/api/creds.go`, `polkit.go`): nothing calls it.
* **The operating system**: command lines of ssh and kubectl, dialling, the socket
  and its permissions. Children, probes and launches may succeed or fail at any time.
* **Dynamic ports**: a port is chosen freely at each start; that another tunnel of the
  node may take it before the child binds it is not modelled, since the winner is
  decided outside the code.
* **The config** field by field: parsing, conversion, defaults. What a default can
  change is a free choice of the models (whether there is a timeout, whether a tunnel
  restarts); a health or restart that is nil is (`filled`).
* **Clients** that call the API before Run has registered the config are in
  `Supervisor` (`ApiEarly`) for types and cycles only: registry and planner may differ
  then, as the hazard list says.
* **Kubernetes**: leader election, labels, conditions, the status list of single
  members; more than one tunnel, group or key. Failing reads are left out where they end a
  Reconcile with an error, which repeats it. They are not harmless everywhere: a node that
  cannot be read is taken for gone and the tunnel rescheduled, a node list that cannot be read degrades the
  tunnel, a child of a group that cannot be read back counts as one without a phase.
* **An empty `--tunnels-dir`** (`supervisor.go:151`), with which a persistent tunnel is not
  written at all; the default is `/etc/tunneld/tunnels.d`.
* **Printing, flags, generated code, deep copies**: no state.

## 6. Plan

1. An abstract life cycle of a tunnel (stopped, running, waiting, given up), which
   `TunnelProcess` implements while only `Run` and its monitors start it.
2. Early requests: what registry and planner still promise each other when a request
   comes between two registrations of `Run`.
3. `Backoff`: delays are monotonic and capped as long as no power exceeds the width.
