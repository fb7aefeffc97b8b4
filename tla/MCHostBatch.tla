----------------------------- MODULE MCHostBatch -----------------------------
(***************************************************************************)
(* Small instances of HostBatch.  One hash: calls with different hashes    *)
(* touch disjoint state.                                                   *)
(***************************************************************************)
EXTENDS HostBatch, TLC

CONSTANTS s1, s2, s3

\* One config, three members.
OneConfig == {[signers |-> {s1, s2, s3}, f |-> 1, t |-> 1]}

\* Two configs with the same F and different members.
SameF == {[signers |-> {s1, s2}, f |-> 1, t |-> 1],
          [signers |-> {s2, s3}, f |-> 1, t |-> 1]}

\* A reconfiguration that raises F.
GrowingF == {[signers |-> {s1, s2, s3}, f |-> 1, t |-> 1],
             [signers |-> {s1, s2, s3}, f |-> 2, t |-> 1]}

CallSymmetry == Permutations(Call)
=============================================================================
