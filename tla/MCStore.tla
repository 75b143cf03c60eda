------------------------------ MODULE MCStore ------------------------------
(* A bastion, an api behind it and one key, over daemon restarts.          *)
EXTENDS Store, TLC

CONSTANTS bastion, api, id, k1, k2, c1, c2

Plain(deps, ports) == [deps |-> deps, ports |-> ports, ref |-> None, ssh |-> TRUE, filled |-> TRUE]
Keyed(ssh) == [Plain({bastion}, {80}) EXCEPT !.ref = id, !.ssh = ssh]

Line(on, sp) == [enabled |-> on, spec |-> sp]

Bastion(on) == Line(on, Plain({}, {22}))

(* A chain, a chain half switched off, and a disabled tunnel that clashes. *)
MCConfigFiles ==
    {[n \in {bastion, api} |-> IF n = api THEN Line(on, Plain({bastion}, {80})) ELSE Bastion(TRUE)] : on \in BOOLEAN}
    \cup {[n \in {bastion, api} |-> Bastion(n = bastion)], [n \in {bastion} |-> Bastion(TRUE)]}

Ask(op, n) == [op |-> op, name |-> n, spec |-> None, persistent |-> FALSE, ref |-> None, content |-> None]
Create(n, sp, p, k) ==
    [op |-> "Create", name |-> n, spec |-> sp, persistent |-> p, ref |-> sp.ref, content |-> k]
Key(op, k) == [Ask(op, None) EXCEPT !.ref = id, !.content = k]

MCRequests ==
    {Create(api, Keyed(TRUE), FALSE, k1),
     Create(api, Keyed(FALSE), TRUE, k1),
     Create(api, [Plain({}, {80}) EXCEPT !.filled = FALSE], TRUE, None),
     Ask("Enable", api), Ask("Disable", api), Ask("Disable", bastion), Ask("Delete", api),
     Key("AddKey", k2), Key("DeleteKey", None)}

(* No property tells the calls apart.                                      *)
Interchangeable == Permutations({c1, c2})
=============================================================================
