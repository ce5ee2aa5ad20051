------------------------------- MODULE MCCpsAuth -------------------------------
(***************************************************************************)
(* Instances of the CPS authentication for TLC.                            *)
(***************************************************************************)
EXTENDS CpsAuth, TLC

CONSTANTS s1, s2, s3, root, a, b

(* Bound: at first the sensors that have a node share it; walks of         *)
(* different sensors meet in the cache only.                               *)
MCInit == /\ Init
          /\ \A s, t \in Sensors : None \in {identity[s], identity[t]} \/ identity[s] = identity[t]

MCSpec == MCInit /\ [][Next]_vars

Symmetry == Permutations(Sensors) \cup Permutations(Nodes \ {Root})

=============================================================================
