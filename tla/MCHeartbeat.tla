------------------------------ MODULE MCHeartbeat ------------------------------
(***************************************************************************)
(* Instances of the heartbeat tracker for TLC.                             *)
(***************************************************************************)
EXTENDS HeartbeatTracker, TLC

CONSTANTS s1, s2, k1, k2

Symmetry == Permutations(Sensors) \cup Permutations(Scrapes)

=============================================================================
