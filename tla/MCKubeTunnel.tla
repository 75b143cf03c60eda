---------------------------- MODULE MCKubeTunnel ----------------------------
(* Model-checking instances of KubeTunnel: two nodes.                      *)
EXTENDS KubeTunnel

TwoNodes == {1, 2}
=============================================================================
