---------------------------- MODULE MCAppInstalls ----------------------------
(* AppInstalls for TLC: the slots of requests are interchangeable.         *)
EXTENDS AppInstalls, TLC

Symmetry == Permutations(Requests)
=============================================================================
