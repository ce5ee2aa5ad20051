----------------------------- MODULE MCBroadcaster -----------------------------
(***************************************************************************)
(* An instance of the broadcaster for TLC.                                 *)
(***************************************************************************)
EXTENDS Broadcaster

=============================================================================
