------------------------------ MODULE MCEndpoint ------------------------------
(***************************************************************************)
(* Instances of the endpoint for TLC.                                      *)
(***************************************************************************)
EXTENDS Endpoint, TLC

CONSTANTS i1, i2, r1, r2, r3, e1

Symmetry == Permutations(Instances) \cup Permutations(Requests)

=============================================================================
