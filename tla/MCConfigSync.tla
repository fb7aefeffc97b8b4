---------------------------- MODULE MCConfigSync -----------------------------
(***************************************************************************)
(* A small instance of ConfigSync: one node leaves the DON and another     *)
(* joins.                                                                  *)
(***************************************************************************)
EXTENDS ConfigSync

CONSTANTS n1, n2, n3, n4

Before == [signers |-> {n1, n2, n3}, f |-> 1]

After == [signers |-> {n2, n3, n4}, f |-> 1]

Memberships == {Before, After}

Proposals == {Proposal(InitialId, don) : don \in Memberships}

MCInit == SyncInit /\ registry.don = Before

\* What the instance takes for granted.  The membership changes when no executor
\* is in a round that began before and no vote of an executor is pending:
\* changes are further apart than rounds (10s) and the lifetime of votes
\* (10min).  The enclave does not restart during a round of the tracker that
\* read another membership than the registry has.
Calm ==
    /\ registry' # registry =>
          /\ \A p \in Proposer : client[p] = Idle
          /\ \A c \in Configs : PendingVoters(c) \cap Proposer = {}
    /\ (config # NoConfig /\ config' = NoConfig) =>
          client[Tracker].don \in {NoMembership, registry.don}

FairSpec == MCInit /\ [][SyncNext /\ Calm]_<<vars, syncVars>> /\ SyncFairness
=============================================================================
