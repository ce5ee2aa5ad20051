----------------------------- MODULE AtLeastOnce -----------------------------
(***************************************************************************)
(* What a manual-commit consumer promises: a record that is owed an        *)
(* outcome gets it (its effect is durable downstream) before the group's   *)
(* committed offset passes it, and an outcome is never taken back.  The    *)
(* consumer may give a record its outcome more than once, in any order,    *)
(* and before or long before it commits.                                   *)
(***************************************************************************)
EXTENDS Integers

CONSTANT Partitions

VARIABLES
  owed,       (* records <<partition, offset>> that must get an outcome    *)
  settled,    (* records whose outcome is durable                          *)
  committed   (* committed[p]: the group's committed offset                *)

aloVars == <<owed, settled, committed>>

Unsettled(p, n) == {o \in 1..n : <<p, o>> \in owed \ settled}

ALOInit ==
  /\ owed \subseteq Partitions \X (Nat \ {0})
  /\ settled = {}
  /\ committed = [p \in Partitions |-> 0]

SettleRecords ==
  /\ settled \subseteq settled'
  /\ settled' \subseteq owed
  /\ UNCHANGED <<owed, committed>>

CommitOffsets ==
  /\ committed' \in [Partitions -> Nat]
  /\ \A p \in Partitions : /\ committed[p] <= committed'[p]
                           /\ Unsettled(p, committed'[p]) = {}
  /\ UNCHANGED <<owed, settled>>

ALONext == SettleRecords \/ CommitOffsets

ALOSpec == ALOInit /\ [][ALONext]_aloVars

=============================================================================
