----------------------------- MODULE ConfigVotes -----------------------------
(***************************************************************************)
(* The configuration of an enclave (enclave/server/server.go).  POST       *)
(* /config installs the first EnclaveConfig; after that the config changes *)
(* by PATCH /config votes, each signed by a current signer.  A vote is     *)
(* recorded in pendingConfigVotes, a TTL cache from the proposed config's  *)
(* hash to the set of its voters, and the config is applied by the vote    *)
(* that completes F+1 voters.  Both handlers run entirely under            *)
(* configLock, so each is one action.                                      *)
(*                                                                         *)
(* A config stands for its hash.  The clock makes the TTL visible.  Two    *)
(* history variables record what the properties speak of: endorsed, the    *)
(* latest vote of each signer for each config since the current config was *)
(* installed; and lastQuorum, the votes the latest quorum update counted,  *)
(* with the number that was required, since the enclave started.           *)
(***************************************************************************)
EXTENDS Integers, FiniteSets

CONSTANTS
    Node,           \* signer public keys
    Configs,        \* the EnclaveConfigs that may be installed or proposed
    AllowReconfig,  \* the flag -allow-reconfig (test deployments)
    VoteTTL,        \* types.ConfigVoteTTL
    MaxTime,        \* bound on the clock
    NoConfig

ASSUME VoteConstants ==
    /\ IsFiniteSet(Node)
    /\ Configs \subseteq [id : Nat, signers : SUBSET Node, f : Nat]
    /\ AllowReconfig \in BOOLEAN
    /\ VoteTTL \in Nat
    /\ MaxTime \in Nat
    /\ NoConfig \notin Configs

VARIABLES
    now,         \* the clock
    config,      \* enclaveServer.config; NoConfig while configSet is false
    votes,       \* pendingConfigVotes: proposed config -> its entry
    appConfig,   \* what OnConfigUpdate last told the app
    endorsed,    \* history: the votes cast under the current config
    lastQuorum   \* history: the votes counted by the latest quorum update

vars == <<now, config, votes, appConfig, endorsed, lastQuorum>>

Time == 0 .. MaxTime

\* A cast vote: who, for what, and when.
Vote == [node : Node, for : Configs, at : Time]

NoEntry == [voters |-> {}, created |-> 0]

Init ==
    /\ now = 0
    /\ config = NoConfig
    /\ votes = [c \in Configs |-> NoEntry]
    /\ appConfig = NoConfig
    /\ endorsed = {}
    /\ lastQuorum = [required |-> 0, votes |-> {}]

-----------------------------------------------------------------------------
\* The voters Get returns for a proposal: none once the entry has expired.
PendingVoters(c) ==
    IF now - votes[c].created > VoteTTL THEN {} ELSE votes[c].voters

Required == config.f + 1

\* Variations: anyone may vote; an entry stores its end.
AnyVoter(n) == n \in Node

DatedEntry(voters) == [voters |-> voters, created |-> now + VoteTTL + 1]

\* A vote counts if its signature is of a current signer.
CurrentSigner(n) == n \in config.signers

\* Set stores the voters with a TTL that starts now.
NewEntry(voters) == [voters |-> voters, created |-> now]

\* Flush drops the pending votes of every proposal.
FlushedVotes == [c \in Configs |-> NoEntry]

\* handleSetConfig: the first config, or any config in a test deployment.  The
\* pending votes are left alone.
SetConfig(c) ==
    /\ config = NoConfig \/ AllowReconfig
    /\ config' = c
    /\ appConfig' = c
    /\ endorsed' = {}
    /\ UNCHANGED <<now, votes, lastQuorum>>

\* History: n's vote for c replaces an earlier one.
Endorse(n, c) ==
    {v \in endorsed : v.node # n \/ v.for # c}
        \cup {[node |-> n, for |-> c, at |-> now]}

\* handleUpdateConfig, with a vote that a current signer signed.  A vote for
\* the current config changes nothing.  Otherwise the vote is recorded and the
\* entry's TTL restarts; the vote that completes the quorum applies the config
\* and flushes every pending vote.
UpdateConfig(n, c) ==
    LET voters == PendingVoters(c) \cup {n}
    IN  /\ config # NoConfig
        /\ CurrentSigner(n)
        /\ c # config
        /\ IF Cardinality(voters) < Required
           THEN /\ votes' = [votes EXCEPT ![c] = NewEntry(voters)]
                /\ endorsed' = Endorse(n, c)
                /\ UNCHANGED <<config, appConfig, lastQuorum>>
           ELSE /\ config' = c
                /\ votes' = FlushedVotes
                /\ appConfig' = c
                /\ endorsed' = {}
                /\ lastQuorum' =
                       [required |-> Required,
                        votes |-> {v \in Endorse(n, c) :
                                     v.node \in voters /\ v.for = c}]
        /\ UNCHANGED now

Tick ==
    /\ now < MaxTime
    /\ now' = now + 1
    /\ UNCHANGED <<config, votes, appConfig, endorsed, lastQuorum>>

\* The enclave restarts as NewEnclaveServer starts it, and its app with it:
\* neither the config nor the pending votes are stored anywhere.
Restart ==
    /\ config # NoConfig
    /\ config' = NoConfig
    /\ votes' = FlushedVotes
    /\ appConfig' = NoConfig
    /\ endorsed' = {}
    /\ lastQuorum' = [required |-> 0, votes |-> {}]
    /\ UNCHANGED now

Next ==
    \/ \E c \in Configs : SetConfig(c)
    \/ \E n \in Node, c \in Configs : UpdateConfig(n, c)
    \/ Restart
    \/ Tick

Spec == Init /\ [][Next]_vars

-----------------------------------------------------------------------------
TypeOK ==
    /\ now \in Time
    /\ config \in Configs \cup {NoConfig}
    /\ votes \in [Configs -> [voters : SUBSET Node, created : Time]]
    /\ appConfig \in Configs \cup {NoConfig}
    /\ endorsed \subseteq Vote
    /\ lastQuorum \in [required : Nat, votes : SUBSET Vote]

Voters(vs) == {v.node : v \in vs}

\* server.go:380-382: the enclave applies a config once F+1 unique current
\* signers have voted for it.  The latest update counted that many voters who
\* each voted for it while the replaced config was in force: no vote cast
\* under an earlier config is ever counted.
QuorumOfCurrentVotes ==
    Cardinality(Voters(lastQuorum.votes)) >= lastQuorum.required

\* The same as a property of steps: a config in force is replaced by another
\* only by F+1 of its own signers who voted for the config that replaces it.
\* (A restart leaves the enclave without a config, and POST installs the next.)
ReconfigAuthorized ==
    [][(config # NoConfig /\ config' \notin {NoConfig, config}) =>
          /\ Cardinality(Voters(lastQuorum'.votes)) >= config.f + 1
          /\ Voters(lastQuorum'.votes) \subseteq config.signers
          /\ \A v \in lastQuorum'.votes : v.for = config']_vars

\* constants.go:96-98: votes for the same config must accumulate to quorum
\* within ConfigVoteTTL.  Any two of the votes a quorum update counts were cast
\* at most ConfigVoteTTL apart.
QuorumWithinWindow ==
    \A u, v \in lastQuorum.votes : v.at - u.at <= VoteTTL
=============================================================================
