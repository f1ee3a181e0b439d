----------------------- MODULE MCDomainProvisioning -------------------------
(* A registrable domain with two names under it, and a name of another     *)
(* organization; a container with two ports and one more container.        *)
EXTENDS DomainProvisioning

MCNames == {"root", "sub", "taken"}
MCAnchor == [n \in MCNames |-> IF n = "taken" THEN "taken" ELSE "root"]
MCTargets == {[container |-> "c1", port |-> 1], [container |-> "c1", port |-> 2],
              [container |-> "c2", port |-> 1]}
=============================================================================
