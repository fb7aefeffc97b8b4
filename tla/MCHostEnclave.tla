---------------------------- MODULE MCHostEnclave ----------------------------
(***************************************************************************)
(* A small instance of HostEnclave.                                        *)
(***************************************************************************)
EXTENDS HostEnclave

CONSTANT s1

\* One signature is a quorum, so two calls can make two jobs.
Solo == {[signers |-> {s1}, f |-> 0, t |-> 1]}
=============================================================================
