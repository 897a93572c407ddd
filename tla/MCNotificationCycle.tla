-------------------------- MODULE MCNotificationCycle --------------------------
(* Instances of NotificationCycle for TLC. *)
EXTENDS NotificationCycle, TLC

Symmetry == Permutations(Cycle) \cup Permutations(Command) \cup Permutations(Channel)
=============================================================================
