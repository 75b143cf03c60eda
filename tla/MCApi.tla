------------------------------- MODULE MCApi -------------------------------
(* Two calls on a daemon that serves a bastion and an api behind it.       *)
EXTENDS Api

CONSTANTS bastion, api, c1, c2, nothing

Bastion == [deps |-> {}, ports |-> {22}, restarts |-> TRUE]
Backend == [deps |-> {bastion}, ports |-> {80}, restarts |-> TRUE]
Moved == [deps |-> {}, ports |-> {80}, restarts |-> FALSE]
Clash == [deps |-> {}, ports |-> {22, 80}, restarts |-> FALSE]

MCInitial == [n \in {bastion} |-> Bastion]

Ask(op, n, sp) == [op |-> op, name |-> n, spec |-> sp, persistent |-> FALSE]
Persist(op, n, sp) == [Ask(op, n, sp) EXCEPT !.persistent = TRUE]

MCRequests ==
    {Ask("Create", api, Backend), Ask("Create", api, nothing),
     Ask("Update", bastion, Clash), Ask("Update", api, Backend), Persist("Update", bastion, Moved),
     Ask("Delete", bastion, nothing), Ask("Start", bastion, nothing), Ask("Stop", bastion, nothing),
     Ask("Wait", api, nothing), Ask("Status", api, nothing), Ask("WatchStatus", nothing, nothing),
     Ask("WatchStatus", api, nothing), Ask("Logs", bastion, nothing), Ask("Follow", bastion, nothing)}

MCLoads ==
    {[n \in {bastion, api} |-> IF n = api THEN Backend ELSE Bastion],
     [n \in {bastion, api} |-> IF n = api THEN Backend ELSE [Bastion EXCEPT !.deps = {api}]]}
=============================================================================
