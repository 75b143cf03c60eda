----------------------------- MODULE MCSupervisor -----------------------------
(* Model-checking instances of Supervisor: a bastion, an api tunnel through*)
(* it, and a db tunnel that clients create.                                *)
EXTENDS Supervisor

CONSTANTS bastion, api, db, p1, p2

Chain ==
    [n \in {bastion, api} |->
        IF n = bastion THEN [deps |-> {}, ports |-> {p1}] ELSE [deps |-> {bastion}, ports |-> {p2}]]

(* The chain, a config file with a cycle, and one with a port claimed twice.*)
OneConfig == {Chain}
Configurations ==
    { Chain,
      [Chain EXCEPT ![bastion].deps = {api}],
      [Chain EXCEPT ![api].ports = {p1}] }

Offer(n, deps, ports) == [name |-> n, spec |-> [deps |-> deps, ports |-> ports]]

(* The end of a chain of three, the bastion again as part of a cycle, and  *)
(* a port that api has.                                                    *)
ChainOffers ==
    { Offer(db, {api}, {}), Offer(bastion, {api}, {}), Offer(db, {}, {p2}) }

(* The bastion is removed under its dependents, or stopped; db is started. *)
ChainRequests == {<<"RemoveTunnel", bastion>>, <<"StartTunnel", db>>, <<"StopTunnel", bastion>>}
=============================================================================
