---------------------------- MODULE MCKeyDelivery ---------------------------
(***************************************************************************)
(* Small instances of KeyDelivery.                                         *)
(***************************************************************************)
EXTENDS KeyDelivery, TLC

Symmetry == Permutations(Caller) \cup Permutations(Id)
=============================================================================
