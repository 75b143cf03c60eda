---------------------------- MODULE MCKubeGroup ----------------------------
EXTENDS KubeGroup

CONSTANTS a, b

(* A group of two members that may lose one.                               *)
MCTemplates == {[members |-> <<a, b>>, rev |-> 0], [members |-> <<b>>, rev |-> 1]}

(* A group or a key: neither reads what the other writes, so nothing is    *)
(* lost by looking at them one at a time, with one state of what the       *)
(* absent one alone would read.                                            *)
MCInit ==
    /\ Init
    /\ group.exists # key.exists
    /\ group.exists => secret = "missing" /\ ~key.ref
    /\ key.exists => ready = {}

MCSpec == MCInit /\ [][Next]_vars /\ Fairness
=============================================================================
