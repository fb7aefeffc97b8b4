---------------------------- MODULE MCConfigVotes ----------------------------
(***************************************************************************)
(* Small instances of ConfigVotes.                                         *)
(***************************************************************************)
EXTENDS ConfigVotes

CONSTANTS n1, n2, n3, n4

\* A quorum of three voters.
ThreeVoters ==
    {[id |-> 1, signers |-> {n1, n2, n3}, f |-> 2],
     [id |-> 2, signers |-> {n1, n2, n3}, f |-> 2]}
=============================================================================
