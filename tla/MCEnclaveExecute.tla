-------------------------- MODULE MCEnclaveExecute ---------------------------
(***************************************************************************)
(* Small instances of EnclaveExecute.                                      *)
(***************************************************************************)
EXTENDS EnclaveExecute, TLC

CONSTANTS s1, s2, s3

\* A membership change.
TwoConfigs == {[signers |-> {s1, s2}, f |-> 1, t |-> 1],
               [signers |-> {s2, s3}, f |-> 1, t |-> 1]}

ReqSymmetry == Permutations(Req)
=============================================================================
