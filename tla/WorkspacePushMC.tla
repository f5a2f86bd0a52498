-------------------------- MODULE WorkspacePushMC --------------------------
(* Instance of WorkspacePush for TLC. *)
EXTENDS WorkspacePush, TLC

CreationMC == [p \in Paths |-> 1]
Symmetric  == Permutations(Paths)
=============================================================================
