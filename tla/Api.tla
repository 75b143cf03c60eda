--------------------------------- MODULE Api ---------------------------------
(***************************************************************************)
(* The gRPC service (internal/api/grpc_server.go) and its clients: calls   *)
(* in progress side by side, each a handler goroutine that uses the        *)
(* supervisor several times and holds no lock in between.                  *)
(*                                                                         *)
(* The supervisor is reduced to the registry it promises (Registry), with  *)
(* a Process object behind each name, because a handler keeps the object   *)
(* it looked up while the name may come to mean another.  What monitors    *)
(* and children do to an object is ObjectChanges.  The expected state of a *)
(* Process is left out: which Stop and which restart came last is the      *)
(* subject of TunnelProcess and Supervisor.                                *)
(***************************************************************************)
EXTENDS Planner, Sequences

CONSTANTS
    Names,          \* names of tunnels
    Calls,          \* the calls clients make, one request each
    Requests,       \* what they may ask: records [op, name, spec, persistent]
    Loads,          \* the files tunnelctl load may be given: maps from names to specs
    Initial,        \* the tunnels Run has registered: a map from names to specs
    None,           \* no name or no spec
    MaxObjects      \* bound: Process objects in one behaviour

Ports == UNION {r.spec.ports : r \in {q \in Requests : q.spec # None}}
            \cup UNION {Initial[n].ports : n \in DOMAIN Initial}
            \cup UNION {UNION {f[n].ports : n \in DOMAIN f} : f \in Loads}
Specs == [deps : SUBSET Names, ports : SUBSET Ports, restarts : BOOLEAN]
Objects == 1 .. MaxObjects
Ops == {"Create", "Update", "Delete", "Start", "Stop", "Wait", "Status", "WatchStatus", "Logs", "Follow"}

(* The request messages, by the fields the handlers look at.               *)
Messages == [op : Ops, name : Names \cup {None}, spec : Specs \cup {None}, persistent : BOOLEAN]

(* A map from names to specs, as a config file has them.                   *)
SpecMap(m) == DOMAIN m \subseteq Names /\ IsFiniteSet(DOMAIN m) /\ \A n \in DOMAIN m : m[n] \in Specs

(* Only Status and WatchStatus have requests that need not name a tunnel.  *)
ASSUME ApiAssumption ==
    /\ Requests \subseteq Messages
    /\ \A r \in Requests : r.op \notin {"Status", "WatchStatus"} => r.name \in Names
    /\ SpecMap(Initial) /\ PlanSucceeds(Initial)
    /\ \A f \in Loads : SpecMap(f)
    /\ None \notin Names \cup Specs
    /\ MaxObjects \in Nat /\ MaxObjects >= Cardinality(DOMAIN Initial)

VARIABLES
    processes,  \* s.processes: the object of a name, or 0
    made,       \* Process objects made so far
    spec,       \* spec[i]: p.spec
    status,     \* status[i]: p.status
    launched,   \* the objects that have had a child, and with it a monitor
    call        \* call[c]: the request of call c and the locals of its handler

registry == <<processes, made, spec>>
objects == <<status, launched>>
vars == <<registry, objects, call>>

Labels == {"idle", "add", "launch", "list", "replace", "remove", "start", "stop", "lookup",
           "poll", "ports", "status", "frame", "tick", "open", "read", "next", "done"}
Answers == {"none", "ok", "error", "notFound", "invalid"}

(* A call that has not been made.                                          *)
Unmade ==
    [op |-> "none", name |-> None, spec |-> None, persistent |-> FALSE,   \* the request
     pc |-> "idle",      \* where the handler is
     object |-> 0,       \* the Process it holds
     answer |-> "none",  \* what it returned
     gone |-> FALSE,     \* its client has disconnected
     late |-> FALSE,     \* it is past its deadline
     unread |-> FALSE,   \* its log has lines to read
     file |-> <<>>,      \* the tunnels tunnelctl load was given
     rest |-> <<>>,      \* those it has still to create, in order
     hasError |-> FALSE, \* it met an error
     crossed |-> FALSE]  \* another call has added or removed its tunnel

TypeOK ==
    /\ processes \in [Names -> 0 .. MaxObjects]
    /\ made \in 0 .. MaxObjects
    /\ spec \in [Objects -> Specs]
    /\ status \in [Objects -> {"stopped", "starting", "running", "failed"}]
    /\ launched \in SUBSET Objects
    /\ \A c \in Calls :
          /\ call[c] \in
                [op : Ops \cup {"none", "load"}, name : Names \cup {None}, spec : Specs \cup {None},
                 persistent : BOOLEAN, pc : Labels, object : 0 .. MaxObjects, answer : Answers,
                 gone : BOOLEAN, late : BOOLEAN, unread : BOOLEAN, file : Loads \cup {<<>>},
                 rest : Seq(Names), hasError : BOOLEAN, crossed : BOOLEAN]
          /\ call[c].pc = "launch" => call[c].object # 0

Registered == {n \in Names : processes[n] # 0}

(* The tunnels as the supervisor promises them.                            *)
Tunnels == [n \in Registered |-> spec[processes[n]]]
Promise == INSTANCE Registry WITH reg <- Tunnels

NoSpec == [deps |-> {}, ports |-> {}, restarts |-> FALSE]

(* Run has registered the configured tunnels, in some order.               *)
Init ==
    /\ \E o \in PlanOrders(Initial) :
          /\ made = Len(o)
          /\ processes = [n \in Names |-> IF n \in DOMAIN Initial THEN CHOOSE k \in DOMAIN o : o[k] = n ELSE 0]
          /\ spec = [i \in Objects |-> IF i <= Len(o) THEN Initial[o[i]] ELSE NoSpec]
          /\ status = [i \in Objects |-> IF i <= Len(o) THEN "starting" ELSE "stopped"]
          /\ launched = DOMAIN o
    /\ call = [c \in Calls |-> Unmade]

-----------------------------------------------------------------------------
(* Steps of a handler.                                                     *)

Becomes(c, record) == call' = [call EXCEPT ![c] = record]

Goes(c, label) == Becomes(c, [call[c] EXCEPT !.pc = label])

(* A call ends, and its locals with it.  tunnelctl load takes the answer   *)
(* and goes on.                                                            *)
Returned(c, a) ==
    IF call[c].op = "load" THEN [call[c] EXCEPT !.pc = "next", !.object = 0, !.answer = a]
    ELSE [Unmade EXCEPT !.pc = "done", !.answer = a]
Returns(c, a) == Becomes(c, Returned(c, a))

(* As Becomes, and the other calls about n learn that it changed: some     *)
(* properties are about calls that were left alone.                        *)
Concerns(c, n) == call[c].op \in {"Update", "load"} /\ n \in {call[c].name} \cup DOMAIN call[c].file
Crosses(c, n, record) ==
    call' = [d \in Calls |-> IF d = c THEN record
                             ELSE IF Concerns(d, n) THEN [call[d] EXCEPT !.crossed = TRUE] ELSE call[d]]

Live(i) == status[i] \in {"starting", "running"}

(* Process.Stop: a child is killed and waited for.  A Stop that times out  *)
(* returns before the status has changed.                                  *)
Stops(i) ==
    /\ status' = status \/ (Live(i) /\ status' = [status EXCEPT ![i] = "failed"])
    /\ UNCHANGED launched

-----------------------------------------------------------------------------
(* The calls.                                                              *)

(* The method each request is dispatched to, by the first thing it does.   *)
Entry == [Create |-> "add", Update |-> "list", Delete |-> "remove", Start |-> "start", Stop |-> "stop",
          Wait |-> "lookup", Status |-> "status", WatchStatus |-> "frame", Logs |-> "open", Follow |-> "open"]

(* A client calls.  Create and Update refuse a request without a spec or   *)
(* with one of unknown type, and give up when an inline key cannot be      *)
(* saved.                                                                  *)
Call(c, r) ==
    /\ call[c].pc = "idle"
    /\ \/ r.op \in {"Create", "Update"} /\ r.spec = None /\ Returns(c, "invalid")
       \/ r.op \in {"Create", "Update"} /\ r.spec # None /\ Returns(c, "error")
       \/ /\ r.op \in {"Create", "Update"} => r.spec # None
          /\ Becomes(c, [Unmade EXCEPT !.op = r.op, !.name = r.name, !.spec = r.spec,
                                       !.persistent = r.persistent, !.pc = Entry[r.op]])
    /\ UNCHANGED <<registry, objects>>

(* A client goes away, where that can make a difference.                   *)
Disconnect(c) ==
    /\ call[c].pc \in {"poll", "frame", "tick", "read"} /\ ~call[c].gone
    /\ Becomes(c, [call[c] EXCEPT !.gone = TRUE])
    /\ UNCHANGED <<registry, objects>>

(* Mutant: the clash of ports is looked for before the old tunnel is gone. *)
MayAddEarly(c) ==
    /\ Promise!Acceptable(Tunnels, call[c].name, call[c].spec)
    /\ call[c].op = "Update" => \A i \in 1 .. made : spec[i].ports \cap call[c].spec.ports = {}

MayAdd(c) == Promise!Acceptable(Tunnels, call[c].name, call[c].spec)

(* AddTunnel, as far as it holds s.mu.                                     *)
AddTunnel(c) ==
    LET n == call[c].name
    IN  /\ call[c].pc = "add" /\ MayAdd(c)
        /\ made < MaxObjects
        /\ made' = made + 1
        /\ processes' = [processes EXCEPT ![n] = made + 1]
        /\ spec' = [spec EXCEPT ![made + 1] = call[c].spec]
        /\ Crosses(c, n, [call[c] EXCEPT !.pc = "launch", !.object = made + 1])
        /\ UNCHANGED objects

(* The file of a persistent tunnel is written after the checks of name and *)
(* ports and before the plan: a write that fails refuses the tunnel.       *)
WriteFails(c) ==
    /\ call[c].persistent
    /\ call[c].name \notin Registered /\ ~Promise!Conflicts(Tunnels, call[c].spec)

(* Create takes a name that exists for a success, Update does not.         *)
AddTunnelRefused(c) ==
    /\ call[c].pc = "add"
    /\ \/ ~MayAdd(c)
          /\ Returns(c, IF call[c].op # "Update" /\ call[c].name \in Registered THEN "ok" ELSE "error")
       \/ WriteFails(c) /\ Returns(c, "error")
    /\ UNCHANGED <<registry, objects>>

(* startAndNotify: the object is up already, or a key or a port is missing,*)
(* or a child is launched.                                                 *)
Launch(c) ==
    LET i == call[c].object
    IN  /\ call[c].pc = "launch"
        /\ \/ Returns(c, "error") /\ UNCHANGED objects
           \/ /\ ~Live(i)
              /\ launched' = launched \cup {i}
              /\ status' = [status EXCEPT ![i] = "starting"]
              /\ Returns(c, "ok")
        /\ UNCHANGED registry

(* Mutant: a tunnel of the same name is taken for the same tunnel.         *)
UpdateComparesName(c) ==
    /\ call[c].pc = "list"
    /\ Goes(c, IF call[c].name \in Registered THEN "start" ELSE "replace")
    /\ UNCHANGED <<registry, objects>>

(* Update compares its spec with the one listed under the name.            *)
UpdateCompares(c) ==
    /\ call[c].pc = "list"
    /\ Goes(c, IF call[c].name \in Registered /\ Tunnels[call[c].name] = call[c].spec THEN "start" ELSE "replace")
    /\ UNCHANGED <<registry, objects>>

(* RemoveTunnel; Update ignores its error.                                 *)
RemoveTunnel(c) ==
    LET n == call[c].name
        After(a) == IF call[c].pc = "replace" THEN [call[c] EXCEPT !.pc = "add"] ELSE Returned(c, a)
    IN  /\ call[c].pc \in {"replace", "remove"}
        /\ \/ /\ n \in Registered
              /\ processes' = [processes EXCEPT ![n] = 0]
              /\ Stops(processes[n])
              /\ Crosses(c, n, After("ok"))
              /\ UNCHANGED <<made, spec>>
           \/ /\ n \notin Registered
              /\ Becomes(c, After("error"))
              /\ UNCHANGED <<registry, objects>>

(* Mutant: the result of the lookup is not checked.                        *)
StartTunnelUnchecked(c) ==
    /\ call[c].pc = "start"
    /\ Becomes(c, [call[c] EXCEPT !.pc = "launch", !.object = processes[call[c].name]])
    /\ UNCHANGED <<registry, objects>>

(* StartTunnel looks the tunnel up.  One that is starting or running is    *)
(* left alone, unless its child has died and the status is yet to say so.  *)
StartTunnel(c) ==
    LET i == processes[call[c].name]
    IN  /\ call[c].pc = "start"
        /\ \/ i = 0 /\ Returns(c, "error")
           \/ i # 0 /\ Live(i) /\ Returns(c, "ok")
           \/ i # 0 /\ Becomes(c, [call[c] EXCEPT !.pc = "launch", !.object = i])
        /\ UNCHANGED <<registry, objects>>

StopTunnel(c) ==
    LET i == processes[call[c].name]
    IN  /\ call[c].pc = "stop"
        /\ \/ i = 0 /\ Returns(c, "error") /\ UNCHANGED objects
           \/ i # 0 /\ Stops(i) /\ Returns(c, "ok")
        /\ UNCHANGED registry

-----------------------------------------------------------------------------
(* Wait.                                                                   *)

WaitLooksUp(c) ==
    LET i == processes[call[c].name]
    IN  /\ call[c].pc = "lookup"
        /\ IF i = 0 THEN Returns(c, "error")
           ELSE Becomes(c, [call[c] EXCEPT !.object = i, !.pc = IF status[i] = "running" THEN "ports" ELSE "poll"])
        /\ UNCHANGED <<registry, objects>>

(* Time passes the deadline.                                               *)
WaitDeadline(c) ==
    /\ call[c].pc = "poll" /\ ~call[c].late
    /\ Becomes(c, [call[c] EXCEPT !.late = TRUE])
    /\ UNCHANGED <<registry, objects>>

(* Mutant: a tunnel between two attempts is polled again right away.       *)
WaitPollsOn(c) ==
    LET s == status[call[c].object]
    IN  /\ call[c].pc = "poll"
        /\ \/ s = "running" /\ Goes(c, "ports")
           \/ s = "failed" /\ ~spec[call[c].object].restarts /\ Returns(c, "error")
           \/ s \notin {"running", "failed"} /\ call[c].late /\ Returns(c, "error")
        /\ UNCHANGED <<registry, objects>>

(* A tick that ends the polling: the object runs, has failed for good, or  *)
(* the deadline has passed.                                                *)
WaitPolls(c) ==
    LET s == status[call[c].object]
    IN  /\ call[c].pc = "poll"
        /\ \/ s = "running" /\ Goes(c, "ports")
           \/ s = "failed" /\ ~spec[call[c].object].restarts /\ Returns(c, "error")
           \/ s # "running" /\ call[c].late /\ Returns(c, "error")
        /\ UNCHANGED <<registry, objects>>

WaitCancelled(c) ==
    /\ call[c].pc = "poll" /\ call[c].gone
    /\ Returns(c, "error")
    /\ UNCHANGED <<registry, objects>>

(* The ports are read from whatever has the name now.                      *)
WaitAnswers(c) ==
    /\ call[c].pc = "ports"
    /\ Returns(c, "ok")
    /\ UNCHANGED <<registry, objects>>

-----------------------------------------------------------------------------
(* Status and WatchStatus.                                                 *)

Found(c) == call[c].name = None \/ call[c].name \in Registered

StatusAnswers(c) ==
    /\ call[c].pc = "status"
    /\ Returns(c, IF Found(c) THEN "ok" ELSE "notFound")
    /\ UNCHANGED <<registry, objects>>

(* One frame: a named tunnel that is not there ends the stream, and so may *)
(* a client that is not there.                                             *)
WatchSends(c) ==
    /\ call[c].pc = "frame"
    /\ \/ ~Found(c) /\ Returns(c, "notFound")
       \/ Found(c) /\ Goes(c, "tick")
       \/ Found(c) /\ call[c].gone /\ Returns(c, "error")
    /\ UNCHANGED <<registry, objects>>

WatchTicks(c) ==
    /\ call[c].pc = "tick"
    /\ Goes(c, "frame")
    /\ UNCHANGED <<registry, objects>>

(* Mutant: only a stream that finds nothing to send looks at its client.   *)
WatchNeverDone(c) ==
    /\ call[c].pc = "tick" /\ call[c].gone /\ ~Found(c)
    /\ Returns(c, "error")
    /\ UNCHANGED <<registry, objects>>

WatchDone(c) ==
    /\ call[c].pc = "tick" /\ call[c].gone
    /\ Returns(c, "error")
    /\ UNCHANGED <<registry, objects>>

-----------------------------------------------------------------------------
(* Logs.                                                                   *)

(* Without a file there are no logs yet.                                   *)
LogsOpens(c) ==
    /\ call[c].pc = "open"
    /\ \/ call[c].name \notin Registered /\ Returns(c, "notFound")
       \/ call[c].name \in Registered /\ Returns(c, "ok")
       \/ /\ call[c].name \in Registered
          /\ \E u \in BOOLEAN : Becomes(c, [call[c] EXCEPT !.pc = "read", !.unread = u])
    /\ UNCHANGED <<registry, objects>>

(* Mutant: the client is looked at when the file ends, not after a line.   *)
LogsReadsOn(c) ==
    /\ call[c].pc = "read" /\ call[c].unread
    /\ Becomes(c, [call[c] EXCEPT !.unread = FALSE])
    /\ UNCHANGED <<registry, objects>>

(* A line is sent; then the handler looks whether its client is there.     *)
LogsReads(c) ==
    /\ call[c].pc = "read" /\ call[c].unread
    /\ IF call[c].gone THEN Returns(c, "error") ELSE Becomes(c, [call[c] EXCEPT !.unread = FALSE])
    /\ UNCHANGED <<registry, objects>>

(* The end of the file: a handler that follows sleeps and reads again.     *)
LogsEnds(c) ==
    /\ call[c].pc = "read" /\ ~call[c].unread /\ call[c].op = "Logs"
    /\ Returns(c, "ok")
    /\ UNCHANGED <<registry, objects>>

(* A child writes to the log of n.                                         *)
LogGrows(n) ==
    LET readers == {c \in Calls : call[c].pc = "read" /\ call[c].name = n /\ ~call[c].unread}
    IN  /\ readers # {}
        /\ call' = [c \in Calls |-> IF c \in readers THEN [call[c] EXCEPT !.unread = TRUE] ELSE call[c]]
        /\ UNCHANGED <<registry, objects>>

-----------------------------------------------------------------------------
(* tunnelctl load: Create, then Start, for each tunnel of a file in the    *)
(* order of the plan; an error is remembered and the tunnel left.  The     *)
(* flag --persistent is taken as given: without it load does what it does  *)
(* with it when every write succeeds.                                      *)

LoadBegins(c, f) ==
    /\ call[c].pc = "idle"
    /\ \/ /\ PlanSucceeds(f)
          /\ \E o \in PlanOrders(f) :
                Becomes(c, [Unmade EXCEPT !.op = "load", !.file = f, !.rest = o, !.persistent = TRUE, !.pc = "next"])
       \/ ~PlanSucceeds(f) /\ Returns(c, "error")
    /\ UNCHANGED <<registry, objects>>

(* A tunnel that was created is started.                                   *)
Created(c) == call[c].answer = "ok" /\ call[c].spec # None

LoadStarts(c) ==
    /\ call[c].pc = "next" /\ Created(c)
    /\ Becomes(c, [call[c] EXCEPT !.pc = "start", !.spec = None])
    /\ UNCHANGED <<registry, objects>>

Failed(c) == call[c].hasError \/ call[c].answer = "error"

(* The next tunnel is created, or its key files cannot be read, or the     *)
(* daemon cannot save them.                                                *)
LoadCreates(c) ==
    LET n == Head(call[c].rest)
        next == [call[c] EXCEPT !.rest = Tail(@), !.answer = "none", !.name = n]
    IN  /\ call[c].pc = "next" /\ ~Created(c) /\ call[c].rest # <<>>
        /\ \/ Becomes(c, [next EXCEPT !.pc = "add", !.spec = call[c].file[n], !.hasError = Failed(c)])
           \/ Becomes(c, [next EXCEPT !.hasError = TRUE])
        /\ UNCHANGED <<registry, objects>>

(* Mutant: only the last answer counts.                                    *)
LoadEndsLast(c) ==
    /\ call[c].pc = "next" /\ ~Created(c) /\ call[c].rest = <<>>
    /\ Becomes(c, [Unmade EXCEPT !.pc = "done", !.answer = call[c].answer])
    /\ UNCHANGED <<registry, objects>>

LoadEnds(c) ==
    /\ call[c].pc = "next" /\ ~Created(c) /\ call[c].rest = <<>>
    /\ Becomes(c, [Unmade EXCEPT !.pc = "done", !.answer = IF Failed(c) THEN "error" ELSE "ok"])
    /\ UNCHANGED <<registry, objects>>

-----------------------------------------------------------------------------
(* A child becomes healthy, or ends, by itself or because a tunnel it      *)
(* depends on has failed (the cascade of handleFailure), or a monitor      *)
(* starts it again.                                                        *)
ObjectChanges(i) ==
    /\ i \in launched
    /\ \/ status[i] = "starting" /\ status' = [status EXCEPT ![i] = "running"]
       \/ Live(i) /\ \E s \in {"failed", "stopped"} : status' = [status EXCEPT ![i] = s]
       \/ ~Live(i) /\ spec[i].restarts /\ status' = [status EXCEPT ![i] = "starting"]
    /\ UNCHANGED <<registry, launched, call>>

(* What the goroutine behind call c does by itself.                        *)
Handler(c) ==
    \/ AddTunnel(c) \/ AddTunnelRefused(c) \/ Launch(c) \/ UpdateCompares(c) \/ RemoveTunnel(c)
    \/ StartTunnel(c) \/ StopTunnel(c)
    \/ WaitLooksUp(c) \/ WaitDeadline(c) \/ WaitPolls(c) \/ WaitCancelled(c) \/ WaitAnswers(c)
    \/ StatusAnswers(c) \/ WatchSends(c) \/ WatchTicks(c) \/ WatchDone(c)
    \/ LogsOpens(c) \/ LogsReads(c) \/ LogsEnds(c)

(* tunnelctl load between two calls; interrupted, it takes no more steps.  *)
Loader(c) == LoadStarts(c) \/ LoadCreates(c) \/ LoadEnds(c)

Next ==
    \/ \E c \in Calls : Handler(c) \/ Loader(c) \/ Disconnect(c)
    \/ \E c \in Calls, r \in Requests : Call(c, r)
    \/ \E c \in Calls, f \in Loads : LoadBegins(c, f)
    \/ \E n \in Names : LogGrows(n)
    \/ \E i \in Objects : ObjectChanges(i)

(* Goroutines run.  A select between a ready tick and a context that is    *)
(* done picks at random, so the context is not passed over for ever.       *)
Fairness == \A c \in Calls : WF_vars(Handler(c)) /\ SF_vars(WatchDone(c))

Spec == Init /\ [][Next]_vars
FairSpec == Spec /\ Fairness

-----------------------------------------------------------------------------
(* Properties.                                                             *)

(* A call that nobody crossed ends.                                        *)
Ends(c, op, a) ==
    call[c].op = op /\ call[c].pc # "done" /\ call'[c].pc = "done" /\ call'[c].answer = a /\ ~call[c].crossed

(* An Update that returns success and that no other call about the tunnel  *)
(* crossed leaves the tunnel registered with the spec it was given,        *)
(* whichever of its two ways it took (grpc_server.go:245).                 *)
UpdateInEffect ==
    [][\A c \in Calls : Ends(c, "Update", "ok") =>
          LET n == call[c].name IN n \in Registered' /\ Tunnels'[n] = call[c].spec]_vars

(* Update removes before it adds.  When it fails and the tunnel is gone,   *)
(* though no other call was about it, it was persistent and its file could *)
(* not be written, or the spec is one the supervisor could not have taken  *)
(* in any case: a port of another tunnel, a dependency that is missing or  *)
(* a cycle.  The old tunnel's own ports are never the reason.              *)
UpdateLosesOnlyRefused ==
    [][\A c \in Calls : Ends(c, "Update", "error") /\ call[c].name \notin Registered' =>
          call[c].persistent \/ ~Promise!Acceptable(Tunnels', call[c].name, call[c].spec)]_vars

(* When tunnelctl load exits with success every tunnel of its file is      *)
(* registered and has been launched, unless another call added or removed  *)
(* one of them meanwhile (load.go:43).  Whether it still runs is up to     *)
(* those who stopped it since.                                             *)
LoadComplete ==
    [][\A c \in Calls : Ends(c, "load", "ok") =>
          \A n \in DOMAIN call[c].file : n \in Registered' /\ processes'[n] \in launched']_vars

(* Wait returns, whatever becomes of the tunnel: one that is removed, or   *)
(* that fails and is restarted for ever, runs into the deadline            *)
(* (supervisor.go:300).                                                    *)
WaitReturns == \A c \in Calls : call[c].pc \in {"lookup", "poll", "ports"} ~> call[c].pc = "done"

(* A status stream whose client has gone ends (grpc_server.go:104).        *)
WatchEnds == \A c \in Calls : call[c].pc \in {"frame", "tick"} /\ call[c].gone ~> call[c].pc = "done"

(* The handler of a followed log looks at its client only after a line:    *)
(* one whose client has gone ends once the tunnel writes again             *)
(* (grpc_server.go:155).                                                   *)
LogsEndOnceWritten ==
    \A c \in Calls : call[c].pc = "read" /\ call[c].gone /\ call[c].unread ~> call[c].pc = "done"
=============================================================================
