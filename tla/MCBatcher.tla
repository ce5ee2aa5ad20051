------------------------------ MODULE MCBatcher ------------------------------
(***************************************************************************)
(* Instances of the batcher for TLC.                                       *)
(***************************************************************************)
EXTENDS FitBatch, TLC

CONSTANTS p1, p2

Symmetry == Permutations(Partitions)

=============================================================================
