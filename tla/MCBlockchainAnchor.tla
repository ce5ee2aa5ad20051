-------------------------- MODULE MCBlockchainAnchor --------------------------
(***************************************************************************)
(* Instances of the anchor for TLC.                                        *)
(***************************************************************************)
EXTENDS BlockchainAnchor, TLC

CONSTANTS p1, p2, A, B

Symmetry == Permutations(Partitions) \cup Permutations(Contents)

(* Symmetry by hand, for the run with liveness: logs up to a renaming of   *)
(* the partitions and of the payloads.  The log never changes, so this     *)
(* restricts initial states only.                                          *)
UpToRenaming ==
  LET records == log[p1] \o log[p2]
  IN  /\ Len(log[p1]) >= Len(log[p2])
      /\ \A k \in DOMAIN records : records[k] = B => \E j \in 1..(k - 1) : records[j] = A

MCInit == Init /\ UpToRenaming

MCSpec == MCInit /\ [][Next]_vars /\ Fairness

=============================================================================
