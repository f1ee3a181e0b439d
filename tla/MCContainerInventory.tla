------------------------ MODULE MCContainerInventory ------------------------
(* ContainerInventory for TLC: the slots of requests are interchangeable. *)
EXTENDS ContainerInventory, TLC

Symmetry == Permutations(Requests)
=============================================================================
