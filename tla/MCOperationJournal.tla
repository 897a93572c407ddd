-------------------------- MODULE MCOperationJournal --------------------------
(* Instances of OperationJournal for TLC. *)
EXTENDS OperationJournal, TLC

Symmetry == Permutations(Runner)
=============================================================================
