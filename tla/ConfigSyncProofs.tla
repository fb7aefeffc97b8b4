--------------------------- MODULE ConfigSyncProofs --------------------------
(***************************************************************************)
(* First the enclave alone: every reconfiguration of a production enclave  *)
(* is authorised by its current signers (ConfigVotes).  Then the enclave   *)
(* as its clients drive it: it behaves as ConfigVotes, so that what is     *)
(* proved of ConfigVotes holds of the whole, and the host's copy of the    *)
(* config agrees with the enclave's.  Proved for any nodes, memberships,   *)
(* faults, vote TTL and bounds.                                            *)
(***************************************************************************)
EXTENDS ConfigSync, FiniteSetTheorems, TLAPS

\* Every recorded voter is a signer of the config in force and voted for that
\* proposal since the config was installed.  This is what makes the quorum
\* count inductive: the count is of votes, whose entries hold names only.
VotesCurrent ==
    \A c \in Configs :
        /\ config = NoConfig => votes[c].voters = {}
        /\ config # NoConfig => votes[c].voters \subseteq config.signers
        /\ \A n \in votes[c].voters : \E v \in endorsed : v.node = n /\ v.for = c

VInv == TypeOK /\ VotesCurrent /\ QuorumOfCurrentVotes

-----------------------------------------------------------------------------
\* The initial states satisfy the inductive invariant.
LEMMA InitVInv == Init => VInv
<1> SUFFICES ASSUME Init PROVE VInv
  OBVIOUS
<1>1. TypeOK
  BY VoteConstants DEF Init, TypeOK, NoEntry, Time
<1>2. VotesCurrent
  BY DEF Init, VotesCurrent, NoEntry
<1>3. Voters(lastQuorum.votes) = {} /\ lastQuorum.required = 0
  BY DEF Init, Voters
<1>4. QuorumOfCurrentVotes
  BY <1>3, FS_EmptySet DEF QuorumOfCurrentVotes
<1>5. QED
  BY <1>1, <1>2, <1>4 DEF VInv

\* The vote of n for c is among the votes cast, and so are the earlier ones of
\* the other nodes.
LEMMA EndorseKeeps ==
    ASSUME TypeOK, NEW n \in Node, NEW c \in Configs
    PROVE  /\ Endorse(n, c) \subseteq Vote
           /\ \E v \in Endorse(n, c) : v.node = n /\ v.for = c
           /\ \A m \in Node, d \in Configs :
                 (\E v \in endorsed : v.node = m /\ v.for = d)
                    => \E v \in Endorse(n, c) : v.node = m /\ v.for = d
<1> DEFINE new == [node |-> n, for |-> c, at |-> now]
<1>1. new \in Vote /\ new \in Endorse(n, c) /\ new.node = n /\ new.for = c
  BY DEF Vote, TypeOK, Endorse
<1>2. Endorse(n, c) \subseteq Vote
  BY <1>1 DEF Endorse, TypeOK
<1>3. ASSUME NEW m \in Node, NEW d \in Configs,
             NEW v \in endorsed, v.node = m, v.for = d
      PROVE  \E w \in Endorse(n, c) : w.node = m /\ w.for = d
  <2>1. CASE m = n /\ d = c
    BY <1>1, <2>1
  <2>2. CASE ~(m = n /\ d = c)
    BY <1>3, <2>2 DEF Endorse
  <2>3. QED
    BY <2>1, <2>2
<1>4. QED
  BY <1>1, <1>2, <1>3

\* The voters a vote of n for c is counted with, and the votes recorded when
\* they are a quorum.
VotersWith(n, c) == PendingVoters(c) \cup {n}

VotesWith(n, c) ==
    {v \in Endorse(n, c) : v.node \in VotersWith(n, c) /\ v.for = c}

\* They are current signers, and each of them has cast a vote for c.
LEMMA CountedVotes ==
    ASSUME VInv, NEW n \in Node, NEW c \in Configs,
           config # NoConfig, n \in config.signers
    PROVE  /\ VotersWith(n, c) \subseteq config.signers
           /\ VotersWith(n, c) \subseteq Node
           /\ Cardinality(VotersWith(n, c)) \in Nat
           /\ Required \in Nat
           /\ VotesWith(n, c) \subseteq Vote
           /\ Voters(VotesWith(n, c)) = VotersWith(n, c)
<1> PICK voters : voters = PendingVoters(c) \cup {n}
  OBVIOUS
<1> PICK counted : counted = {v \in Endorse(n, c) : v.node \in voters /\ v.for = c}
  OBVIOUS
<1>1. PendingVoters(c) \subseteq votes[c].voters
  BY DEF PendingVoters
<1>2. voters \subseteq config.signers
  BY <1>1 DEF VInv, VotesCurrent
<1>3. config.signers \subseteq Node /\ config.f \in Nat
  BY VoteConstants DEF VInv, TypeOK
<1>4. Cardinality(voters) \in Nat
  BY <1>2, <1>3, VoteConstants, FS_Subset, FS_CardinalityType
<1>5. counted \subseteq Vote
  BY EndorseKeeps DEF VInv
<1>6. ASSUME NEW m \in voters
      PROVE  m \in Voters(counted)
  <2>1. \E v \in Endorse(n, c) : v.node = m /\ v.for = c
    <3>1. CASE m = n
      BY <3>1, EndorseKeeps DEF VInv
    <3>2. CASE m # n
      <4>1. m \in votes[c].voters /\ m \in Node
        BY <1>1, <1>2, <1>3, <3>2
      <4>2. \E v \in endorsed : v.node = m /\ v.for = c
        BY <4>1 DEF VInv, VotesCurrent
      <4>3. QED
        BY <4>1, <4>2, EndorseKeeps DEF VInv
    <3>3. QED
      BY <3>1, <3>2
  <2>2. QED
    BY <2>1 DEF Voters
<1>7. Voters(counted) \subseteq voters
  BY DEF Voters
<1>8. Voters(counted) = voters /\ Required \in Nat
  BY <1>3, <1>6, <1>7 DEF Required
<1>9. VotersWith(n, c) = voters /\ VotesWith(n, c) = counted
  BY DEF VotersWith, VotesWith
<1>10. QED
  BY <1>2, <1>3, <1>4, <1>5, <1>8, <1>9

\* A vote of a current signer: it is recorded, or it applies the config on a
\* quorum of the current signers' votes.
LEMMA UpdateSteps ==
    ASSUME VInv, NEW n \in Node, NEW c \in Configs, UpdateConfig(n, c)
    PROVE  /\ VInv'
           /\ config' # config =>
                 /\ Cardinality(Voters(lastQuorum'.votes)) >= config.f + 1
                 /\ Voters(lastQuorum'.votes) \subseteq config.signers
                 /\ \A v \in lastQuorum'.votes : v.for = config'
<1> DEFINE voters  == VotersWith(n, c)
           counted == VotesWith(n, c)
<1>1. config # NoConfig /\ n \in config.signers /\ now' = now
  BY DEF UpdateConfig, CurrentSigner, NewEntry, FlushedVotes
<1>2. /\ voters \subseteq config.signers /\ voters \subseteq Node
      /\ Cardinality(voters) \in Nat
      /\ Required \in Nat
      /\ counted \subseteq Vote
      /\ Voters(counted) = voters
  BY <1>1, CountedVotes
<1>3. CASE Cardinality(voters) < Required
  <2>1. /\ votes' = [votes EXCEPT ![c] = [voters |-> voters, created |-> now]]
        /\ endorsed' = Endorse(n, c)
        /\ UNCHANGED <<config, appConfig, lastQuorum>>
    BY <1>3 DEF UpdateConfig, NewEntry, VotersWith
  <2>2. TypeOK'
    BY <1>1, <1>2, <2>1, EndorseKeeps DEF VInv, TypeOK
  <2>3. ASSUME NEW d \in Configs
        PROVE  /\ votes'[d].voters \subseteq config.signers
               /\ \A m \in votes'[d].voters :
                     \E v \in endorsed' : v.node = m /\ v.for = d
    <3>1. CASE d = c
      <4>1. votes'[d].voters = voters
        BY <2>1, <3>1 DEF VInv, TypeOK
      <4>2. ASSUME NEW m \in voters
            PROVE  \E v \in endorsed' : v.node = m /\ v.for = c
        <5>1. PICK v \in counted : v.node = m
          BY <1>2 DEF Voters
        <5>2. QED
          BY <2>1, <5>1 DEF VotesWith
      <4>3. QED
        BY <1>2, <3>1, <4>1, <4>2
    <3>2. CASE d # c
      <4>1. votes'[d] = votes[d]
        BY <2>1, <3>2 DEF VInv, TypeOK
      <4>2. votes[d].voters \subseteq config.signers /\ votes[d].voters \subseteq Node
        BY <1>1 DEF VInv, VotesCurrent, TypeOK
      <4>3. QED
        BY <2>1, <4>1, <4>2, EndorseKeeps DEF VInv, VotesCurrent
    <3>3. QED
      BY <3>1, <3>2
  <2>4. VotesCurrent'
    BY <1>1, <2>1, <2>3 DEF VotesCurrent
  <2>5. QuorumOfCurrentVotes'
    BY <2>1 DEF VInv, QuorumOfCurrentVotes, Voters
  <2>6. QED
    BY <2>1, <2>2, <2>4, <2>5 DEF VInv
<1>4. CASE ~(Cardinality(voters) < Required)
  <2>1. /\ config' = c /\ appConfig' = c /\ endorsed' = {}
        /\ votes' = [d \in Configs |-> NoEntry]
        /\ lastQuorum' = [required |-> Required, votes |-> counted]
    BY <1>4 DEF UpdateConfig, FlushedVotes, VotersWith, VotesWith
  <2>2. Cardinality(voters) >= Required
    BY <1>2, <1>4
  <2>3. TypeOK'
    BY <1>1, <1>2, <2>1, VoteConstants DEF VInv, TypeOK, NoEntry, Time
  <2>4. VotesCurrent'
    BY <2>1 DEF VotesCurrent, NoEntry
  <2>5. lastQuorum'.votes = counted /\ lastQuorum'.required = Required
    BY <2>1
  <2>6. Voters(lastQuorum'.votes) = voters
    BY <1>2, <2>5
  <2>7. QuorumOfCurrentVotes'
    BY <2>2, <2>5, <2>6 DEF QuorumOfCurrentVotes, Voters
  <2>8. QED
    BY <1>2, <2>1, <2>2, <2>3, <2>4, <2>5, <2>6, <2>7 DEF VInv, Required, VotesWith
<1>5. QED
  BY <1>3, <1>4

\* Every step preserves the inductive invariant.
LEMMA NextVInv ==
    ASSUME ~AllowReconfig, VInv, [Next]_vars
    PROVE  VInv'
<1>1. ASSUME NEW c \in Configs, SetConfig(c)
      PROVE  VInv'
  <2>1. config = NoConfig
    BY <1>1 DEF SetConfig
  <2>2. QED
    BY <1>1, <2>1
    DEF SetConfig, VInv, TypeOK, VotesCurrent, QuorumOfCurrentVotes, Voters
<1>2. ASSUME NEW n \in Node, NEW c \in Configs, UpdateConfig(n, c)
      PROVE  VInv'
  BY <1>2, UpdateSteps
<1>3. CASE Restart
  <2>1. /\ config' = NoConfig /\ appConfig' = NoConfig /\ endorsed' = {}
        /\ votes' = [c \in Configs |-> NoEntry]
        /\ now' = now /\ lastQuorum' = [required |-> 0, votes |-> {}]
    BY <1>3 DEF Restart, FlushedVotes
  <2>2. TypeOK'
    BY <2>1, VoteConstants DEF VInv, TypeOK, NoEntry, Time
  <2>3. VotesCurrent'
    BY <2>1 DEF VotesCurrent, NoEntry
  <2>4. lastQuorum'.required = 0 /\ Voters(lastQuorum'.votes) = {}
    BY <2>1 DEF Voters
  <2>5. QuorumOfCurrentVotes'
    BY <2>4, FS_EmptySet DEF QuorumOfCurrentVotes, Voters
  <2>6. QED
    BY <2>2, <2>3, <2>5 DEF VInv
<1>4. CASE Tick
  BY <1>4, VoteConstants
  DEF Tick, VInv, TypeOK, Time, VotesCurrent, QuorumOfCurrentVotes, Voters
<1>5. CASE UNCHANGED vars
  BY <1>5 DEF vars, VInv, TypeOK, VotesCurrent, QuorumOfCurrentVotes, Voters
<1>6. QED
  BY <1>1, <1>2, <1>3, <1>4, <1>5 DEF Next

\* The enclave's votes and configs keep their types, -allow-reconfig or not:
\* what the handlers of server.go store is a config, and a set of signers with
\* the time of its latest vote.
THEOREM VoteTypes == Spec => []TypeOK
<1>1. Init => TypeOK
  BY InitVInv DEF VInv
<1>2. TypeOK /\ [Next]_vars => TypeOK'
  <2> SUFFICES ASSUME TypeOK, [Next]_vars PROVE TypeOK'
    OBVIOUS
  <2>1. ASSUME NEW c \in Configs, SetConfig(c) PROVE TypeOK'
    BY <2>1 DEF SetConfig, TypeOK
  <2>2. ASSUME NEW n \in Node, NEW c \in Configs, UpdateConfig(n, c) PROVE TypeOK'
    <3> DEFINE voters == PendingVoters(c) \cup {n}
    <3>1. voters \subseteq Node
      BY DEF PendingVoters, TypeOK
    <3>2. Endorse(n, c) \subseteq Vote
      BY EndorseKeeps
    <3>3. Required \in Nat
      BY <2>2, VoteConstants DEF UpdateConfig, Required, TypeOK
    <3>4. CASE Cardinality(voters) < Required
      BY <2>2, <3>1, <3>2, <3>4 DEF UpdateConfig, NewEntry, TypeOK
    <3>5. CASE ~(Cardinality(voters) < Required)
      <4>1. /\ config' = c /\ appConfig' = c /\ endorsed' = {} /\ now' = now
            /\ votes' = [d \in Configs |-> NoEntry]
            /\ lastQuorum' = [required |-> Required,
                              votes |-> {v \in Endorse(n, c) :
                                           v.node \in voters /\ v.for = c}]
        BY <2>2, <3>5 DEF UpdateConfig, FlushedVotes
      <4>2. QED
        BY <3>2, <3>3, <4>1, VoteConstants DEF TypeOK, NoEntry, Time
    <3>6. QED
      BY <3>4, <3>5
  <2>3. CASE Restart
    BY <2>3, VoteConstants DEF Restart, FlushedVotes, NoEntry, TypeOK, Time
  <2>4. CASE Tick
    BY <2>4, VoteConstants DEF Tick, TypeOK, Time
  <2>5. CASE UNCHANGED vars
    BY <2>5 DEF vars, TypeOK
  <2>6. QED
    BY <2>1, <2>2, <2>3, <2>4, <2>5 DEF Next
<1>3. QED
  BY <1>1, <1>2, PTL DEF Spec

\* server.go:380-382: without -allow-reconfig, every quorum the enclave ever
\* acted on consisted of F+1 votes cast while the replaced config was in force.
THEOREM QuorumIsCurrent ==
    ASSUME ~AllowReconfig
    PROVE  Spec => []QuorumOfCurrentVotes
<1>1. VInv /\ [Next]_vars => VInv'
  BY NextVInv
<1>2. VInv => QuorumOfCurrentVotes
  BY DEF VInv
<1>3. QED
  BY InitVInv, <1>1, <1>2, PTL DEF Spec

\* server.go:380-382, 411-412, 452-468: without -allow-reconfig, and until the
\* enclave restarts, a config in force is replaced only by F+1 of its own
\* signers, all of whom voted for the config that replaces it.
THEOREM Authorized ==
    ASSUME ~AllowReconfig
    PROVE  Spec => ReconfigAuthorized
<1> DEFINE A == (config # NoConfig /\ config' \notin {NoConfig, config}) =>
                  /\ Cardinality(Voters(lastQuorum'.votes)) >= config.f + 1
                  /\ Voters(lastQuorum'.votes) \subseteq config.signers
                  /\ \A v \in lastQuorum'.votes : v.for = config'
<1>1. VInv /\ [Next]_vars => VInv'
  BY NextVInv
<1>2. VInv /\ [Next]_vars => [A]_vars
  <2> SUFFICES ASSUME VInv, Next, config # NoConfig, config' \notin {NoConfig, config}
               PROVE  A
    BY DEF vars
  <2>1. PICK n \in Node, c \in Configs : UpdateConfig(n, c)
    BY DEF Next, SetConfig, Restart, Tick
  <2>2. QED
    BY <2>1, UpdateSteps
<1>3. QED
  BY InitVInv, <1>1, <1>2, PTL DEF Spec, ReconfigAuthorized

-----------------------------------------------------------------------------
Round ==
    [pc : {"idle", "read", "body", "seen"},
     don : Membership \cup {NoMembership},
     seen : Configs \cup {NoConfig}]

\* What a client in a round holds: an executor goes on only with a report that
\* carries a config.
RoundInv(c) ==
    /\ client[c].pc # "idle" => client[c].don \in Membership
    /\ (client[c].pc \in {"body", "seen"} /\ c # Tracker) => client[c].seen # NoConfig

\* A report that may still restore the host's copy is up to date, unless the
\* answer that made it stale is on its way too, or was lost.
ReportInv(c) ==
    (/\ client[c].pc = "body" /\ hostConfig = NoConfig
     /\ config # NoConfig /\ config \notin answers /\ ~missed) =>
        client[c].seen \in {NoConfig, config}

CopyInv ==
    \/ config = NoConfig \/ config \in answers \/ overtaken \/ missed
    \/ hostConfig \in {NoConfig, config}

SInv ==
    /\ config \in Configs \cup {NoConfig}
    /\ registry.don \in Membership
    /\ client \in [Client -> Round]
    /\ \A c \in Client : RoundInv(c) /\ ReportInv(c)
    /\ CopyInv

-----------------------------------------------------------------------------
\* The initial states satisfy the invariant.
LEMMA InitSInv == SyncInit => SInv
<1> SUFFICES ASSUME SyncInit PROVE SInv
  OBVIOUS
<1>1. config = NoConfig /\ hostConfig = NoConfig
  BY DEF SyncInit, Init
<1>2. registry.don \in Membership
  BY DEF SyncInit
<1>3. client \in [Client -> Round] /\ \A c \in Client : client[c].pc = "idle"
  BY DEF SyncInit, Idle, Round
<1>4. \A c \in Client : RoundInv(c) /\ ReportInv(c)
  BY <1>3 DEF RoundInv, ReportInv
<1>5. QED
  BY <1>1, <1>2, <1>3, <1>4 DEF SInv, CopyInv

\* A step of one client's round that leaves the enclave and the answers alone.
LEMMA OneRound ==
    ASSUME SInv, NEW c \in Client, NEW r \in Round,
           client' = [client EXCEPT ![c] = r],
           config' = config, answers' = answers, overtaken' = overtaken,
           registry' = registry,
           hostConfig' = hostConfig \/ hostConfig = NoConfig,
           missed => missed' \/ hostConfig' = config,
           RoundInv(c)', ReportInv(c)', CopyInv'
    PROVE  SInv'
<1>1. client' \in [Client -> Round]
  BY DEF SInv
<1>2. ASSUME NEW d \in Client PROVE RoundInv(d)' /\ ReportInv(d)'
  <2>1. CASE d = c
    BY <2>1
  <2>2. CASE d # c
    <3>1. client'[d] = client[d] /\ RoundInv(d) /\ ReportInv(d)
      BY <2>2 DEF SInv
    <3>2. hostConfig' = NoConfig => hostConfig = NoConfig
      OBVIOUS
    <3>3. QED
      BY <3>1, <3>2 DEF RoundInv, ReportInv
  <2>3. QED
    BY <2>1, <2>2
<1>3. QED
  BY <1>1, <1>2 DEF SInv

\* Reading the registry, and the enclave's report of its config.
LEMMA ReadSteps ==
    ASSUME SInv, NEW c \in Client, ReadRegistry(c) \/ EnclaveReports(c)
    PROVE  SInv' /\ UNCHANGED vars
<1>1. /\ UNCHANGED vars /\ config' = config /\ answers' = answers
      /\ overtaken' = overtaken /\ missed' = missed
      /\ registry' = registry /\ hostConfig' = hostConfig
  BY DEF ReadRegistry, EnclaveReports, vars
<1>2. /\ client[c] \in Round /\ registry.don \in Membership
      /\ config \in Configs \cup {NoConfig} /\ RoundInv(c)
  BY DEF SInv
<1>3. CopyInv'
  BY <1>1 DEF SInv, CopyInv
<1>4. CASE ReadRegistry(c)
  <2> DEFINE r == [client[c] EXCEPT !.pc = "read", !.don = registry.don]
  <2>1. client' = [client EXCEPT ![c] = r] /\ r \in Round
        /\ r.pc = "read" /\ r.don = registry.don
    BY <1>2, <1>4 DEF ReadRegistry, SInv, Round
  <2> HIDE DEF r
  <2>2. client'[c] = r
    BY <2>1 DEF SInv
  <2>3. RoundInv(c)' /\ ReportInv(c)'
    BY <1>2, <2>1, <2>2 DEF RoundInv, ReportInv
  <2>4. QED
    BY <1>1, <1>3, <2>1, <2>3, OneRound
<1>5. CASE EnclaveReports(c) /\ config = NoConfig /\ c # Tracker
  <2>1. client' = [client EXCEPT ![c] = Idle] /\ Idle \in Round /\ Idle.pc = "idle"
    BY <1>5 DEF EnclaveReports, Idle, Round
  <2>2. client'[c] = Idle
    BY <2>1 DEF SInv
  <2>3. RoundInv(c)' /\ ReportInv(c)'
    BY <2>1, <2>2 DEF RoundInv, ReportInv
  <2>4. QED
    BY <1>1, <1>3, <2>1, <2>3, OneRound
<1>6. CASE EnclaveReports(c) /\ ~(config = NoConfig /\ c # Tracker)
  <2> DEFINE r == [client[c] EXCEPT !.pc = "body", !.seen = config]
  <2>1. client' = [client EXCEPT ![c] = r] /\ r \in Round
        /\ r.pc = "body" /\ r.seen = config /\ r.don = client[c].don
        /\ client[c].pc = "read"
    BY <1>2, <1>6 DEF EnclaveReports, SInv, Round
  <2> HIDE DEF r
  <2>2. client'[c] = r
    BY <2>1 DEF SInv
  <2>3. RoundInv(c)' /\ ReportInv(c)'
    BY <1>1, <1>2, <1>6, <2>1, <2>2 DEF RoundInv, ReportInv
  <2>4. QED
    BY <1>1, <1>3, <2>1, <2>3, OneRound
<1>7. QED
  BY <1>1, <1>4, <1>5, <1>6

\* The host relays a report, and restores its copy when it has none.
LEMMA RelaySteps ==
    ASSUME SInv, NEW c \in Client, HostRelays(c)
    PROVE  SInv' /\ UNCHANGED vars
<1> DEFINE r == [client[c] EXCEPT !.pc = "seen"]
<1>1. /\ UNCHANGED vars /\ config' = config /\ answers' = answers
      /\ overtaken' = overtaken /\ registry' = registry
      /\ hostConfig' = IF hostConfig = NoConfig THEN client[c].seen ELSE hostConfig
      /\ missed' = (missed /\ hostConfig' # config)
      /\ client[c].pc = "body"
  BY DEF HostRelays, maybeRecoverConfig, vars
<1>2. client[c] \in Round /\ RoundInv(c) /\ ReportInv(c) /\ CopyInv
  BY DEF SInv
<1>3. /\ client' = [client EXCEPT ![c] = r] /\ r \in Round
      /\ r.pc = "seen" /\ r.seen = client[c].seen /\ r.don = client[c].don
  BY <1>2 DEF HostRelays, SInv, Round
<1> HIDE DEF r
<1>4. client'[c] = r
  BY <1>3 DEF SInv
<1>5. RoundInv(c)' /\ ReportInv(c)'
  BY <1>1, <1>2, <1>3, <1>4 DEF RoundInv, ReportInv
<1>6. CopyInv'
  BY <1>1, <1>2 DEF CopyInv, ReportInv
<1>7. QED
  BY <1>1, <1>3, <1>5, <1>6, OneRound

\* A step in which the enclave acts: a config it installs is in an answer that
\* is on its way, or it has lost its config, and some rounds end.
LEMMA EnclaveActs ==
    ASSUME SInv,
           client' \in [Client -> Round],
           \A c \in Client : client'[c] = client[c] \/ client'[c] = Idle,
           config' \in Configs \cup {NoConfig},
           config' = config \/ config' = NoConfig \/ config' \in answers',
           answers \subseteq answers', missed' = missed,
           registry' = registry, hostConfig' = hostConfig, overtaken' = overtaken
    PROVE  SInv'
<1>1. ASSUME NEW c \in Client PROVE RoundInv(c)' /\ ReportInv(c)'
  <2>1. RoundInv(c) /\ ReportInv(c)
    BY DEF SInv
  <2>2. CASE client'[c] = client[c]
    BY <2>1, <2>2 DEF RoundInv, ReportInv
  <2>3. CASE client'[c] = Idle
    BY <2>3 DEF RoundInv, ReportInv, Idle
  <2>4. QED
    BY <2>2, <2>3
<1>2. CopyInv'
  BY DEF SInv, CopyInv
<1>3. QED
  BY <1>1, <1>2 DEF SInv

\* Ending the round of one client.
LEMMA RoundEnds ==
    ASSUME SInv, NEW c \in Client, client' = [client EXCEPT ![c] = Idle]
    PROVE  /\ client' \in [Client -> Round]
           /\ \A d \in Client : client'[d] = client[d] \/ client'[d] = Idle
<1>1. Idle \in Round
  BY DEF Idle, Round
<1>2. QED
  BY <1>1 DEF SInv

\* A vote is a step of ConfigVotes or changes nothing in the enclave.
LEMMA VotedSteps ==
    ASSUME SInv, NEW n \in Node, NEW c \in Configs, Voted(n, c)
    PROVE  /\ [Next]_vars
           /\ config' \in Configs \cup {NoConfig}
           /\ config' = config \/ config' \in answers'
           /\ answers \subseteq answers'
<1>1. config \in Configs \cup {NoConfig}
  BY DEF SInv
<1>2. CASE UpdateConfig(n, c) /\ answers' = IF config' = c THEN answers \cup {c} ELSE answers
  <2>1. Next
    BY <1>2 DEF Next
  <2>2. config' = c \/ config' = config
    BY <1>2 DEF UpdateConfig
  <2>3. QED
    BY <1>1, <1>2, <2>1, <2>2
<1>3. CASE UNCHANGED vars /\ (answers' = answers \/ answers' = answers \cup {c})
  BY <1>1, <1>3 DEF vars
<1>4. QED
  BY <1>2, <1>3 DEF Voted

\* The tracker posts a config or finds nothing to do.
LEMMA TrackerSteps ==
    ASSUME SInv, TrackerActs
    PROVE  SInv' /\ [Next]_vars
<1> DEFINE t == client[Tracker]
           c == Proposal(IF t.seen = NoConfig THEN InitialId ELSE t.seen.id, t.don)
<1>1. Tracker \in Client /\ t \in Round /\ RoundInv(Tracker) /\ t.pc = "seen"
  BY DEF Client, SInv, TrackerActs
<1>2. t.don \in Membership /\ t.seen \in Configs \cup {NoConfig}
  BY <1>1 DEF RoundInv, Round
<1>3. c \in Configs
  BY <1>2, SyncConstants
<1>4. /\ client' = [client EXCEPT ![Tracker] = Idle] /\ registry' = registry
      /\ hostConfig' = hostConfig /\ overtaken' = overtaken /\ missed' = missed
      /\ \/ SetConfig(c) /\ answers' = answers \cup {c}
         \/ UNCHANGED <<vars, answers>>
  BY DEF TrackerActs
<1> HIDE DEF c, t
<1>5. /\ [Next]_vars
      /\ config' \in Configs \cup {NoConfig}
      /\ config' = config \/ config' \in answers'
      /\ answers \subseteq answers'
  <2>1. CASE SetConfig(c) /\ answers' = answers \cup {c}
    BY <1>3, <2>1 DEF Next, SetConfig
  <2>2. CASE UNCHANGED <<vars, answers>>
    BY <2>2 DEF vars, SInv
  <2>3. QED
    BY <1>4, <2>1, <2>2
<1>6. /\ client' \in [Client -> Round]
      /\ \A d \in Client : client'[d] = client[d] \/ client'[d] = Idle
  BY <1>1, <1>4, RoundEnds
<1>7. QED
  BY <1>4, <1>5, <1>6, EnclaveActs

\* An executor votes for the membership it read, or records it as its baseline.
LEMMA ProposerSteps ==
    ASSUME SInv, NEW p \in Proposer, RecordBaseline(p) \/ BroadcastVote(p)
    PROVE  SInv' /\ [Next]_vars
<1>1. p \in Client /\ p # Tracker /\ p \in Node /\ client[p] \in Round /\ RoundInv(p)
  BY SyncConstants DEF Client, SInv
<1>2. client[p].pc = "seen" /\ client' = [client EXCEPT ![p] = Idle]
      /\ registry' = registry /\ hostConfig' = hostConfig /\ overtaken' = overtaken
      /\ missed' = missed
  BY DEF RecordBaseline, BroadcastVote
<1>3. /\ client' \in [Client -> Round]
      /\ \A d \in Client : client'[d] = client[d] \/ client'[d] = Idle
  BY <1>1, <1>2, RoundEnds
<1>4. /\ [Next]_vars
      /\ config' \in Configs \cup {NoConfig}
      /\ config' = config \/ config' \in answers'
      /\ answers \subseteq answers'
  <2>1. CASE RecordBaseline(p)
    BY <2>1 DEF RecordBaseline, vars, SInv
  <2>2. CASE BroadcastVote(p)
    <3>1. client[p].don \in Membership /\ client[p].seen \in Configs
      BY <1>1, <1>2 DEF RoundInv, Round
    <3>2. Proposal(client[p].seen.id, client[p].don) \in Configs
      BY <3>1, SyncConstants
    <3>3. Voted(p, Proposal(client[p].seen.id, client[p].don))
      BY <2>2 DEF BroadcastVote
    <3>4. QED
      BY <1>1, <3>2, <3>3, VotedSteps
  <2>3. QED
    BY <2>1, <2>2
<1>5. QED
  BY <1>2, <1>3, <1>4, EnclaveActs

\* The host adopts the config of an answer: an older one than the enclave's
\* counts as overtaken unless the answer with the enclave's is still to come.
LEMMA AdoptSteps ==
    ASSUME SInv, NEW c \in Configs, Adopt(c)
    PROVE  SInv' /\ UNCHANGED vars
<1>1. /\ UNCHANGED vars /\ config' = config /\ hostConfig' = c /\ c # NoConfig
      /\ answers' = answers \ {c} /\ client' = client /\ registry' = registry
      /\ overtaken' = (c # config /\ config \notin answers)
  BY VoteConstants DEF Adopt, vars
<1>2. \A d \in Client : RoundInv(d)' /\ ReportInv(d)'
  BY <1>1 DEF SInv, RoundInv, ReportInv
<1>3. CopyInv'
  BY <1>1 DEF CopyInv
<1>4. QED
  BY <1>1, <1>2, <1>3 DEF SInv

\* Failed rounds, lost answers, restarts, faulty votes, registry changes and time.
LEMMA EnvironmentSteps ==
    ASSUME SInv, Environment
    PROVE  SInv' /\ [Next]_vars
<1>1. config \in Configs \cup {NoConfig} /\ client \in [Client -> Round]
  BY DEF SInv
<1>2. ASSUME NEW c \in Client, RoundFails(c) PROVE SInv' /\ UNCHANGED vars
  <2>1. /\ UNCHANGED vars /\ config' = config /\ answers' = answers
        /\ registry' = registry /\ hostConfig' = hostConfig /\ overtaken' = overtaken
        /\ missed' = missed
        /\ client' = [client EXCEPT ![c] = Idle]
    BY <1>2 DEF RoundFails, vars
  <2>2. QED
    BY <1>1, <2>1, RoundEnds, EnclaveActs
<1>3. ASSUME HostRestart PROVE SInv' /\ UNCHANGED vars
  <2>1. /\ UNCHANGED vars /\ config' = config /\ registry' = registry
        /\ hostConfig' = NoConfig
        /\ client' = [c \in Client |-> IF client[c].pc = "body" THEN Idle ELSE client[c]]
    BY <1>3 DEF HostRestart, vars
  <2>2. Idle \in Round /\ Idle.pc = "idle"
    BY DEF Idle, Round
  <2>3. client' \in [Client -> Round]
    BY <1>1, <2>1, <2>2
  <2>4. ASSUME NEW c \in Client PROVE RoundInv(c)' /\ ReportInv(c)'
    <3>1. client'[c] = IF client[c].pc = "body" THEN Idle ELSE client[c]
      BY <2>1
    <3>2. client'[c].pc # "body"
      BY <2>2, <3>1
    <3>3. RoundInv(c)
      BY DEF SInv
    <3>4. QED
      BY <2>2, <3>1, <3>2, <3>3 DEF RoundInv, ReportInv
  <2>5. QED
    BY <2>1, <2>3, <2>4 DEF SInv, CopyInv
<1>4. ASSUME NEW p \in Proposer, ExecutorRestart(p) PROVE SInv' /\ UNCHANGED vars
  <2>1. /\ UNCHANGED vars /\ config' = config /\ answers' = answers
        /\ registry' = registry /\ hostConfig' = hostConfig /\ overtaken' = overtaken
        /\ missed' = missed
        /\ client' = [client EXCEPT ![p] = Idle] /\ p \in Client
    BY <1>4 DEF ExecutorRestart, vars, Client
  <2>2. QED
    BY <1>1, <2>1, RoundEnds, EnclaveActs
<1>5. ASSUME NEW n \in Faulty, NEW c \in Configs, FaultyVote(n, c)
      PROVE  SInv' /\ [Next]_vars
  <2>1. /\ Voted(n, c) /\ client' = client /\ registry' = registry
        /\ hostConfig' = hostConfig /\ overtaken' = overtaken
        /\ missed' = missed /\ n \in Node
    BY <1>5, SyncConstants DEF FaultyVote
  <2>2. QED
    BY <1>1, <2>1, VotedSteps, EnclaveActs
<1>6. ASSUME NEW don \in Membership, RegistryChanges(don)
      PROVE  SInv' /\ UNCHANGED vars
  <2>1. /\ UNCHANGED vars /\ config' = config /\ answers' = answers
        /\ registry'.don = don /\ hostConfig' = hostConfig /\ overtaken' = overtaken
        /\ missed' = missed
        /\ client' = client
    BY <1>6 DEF RegistryChanges, vars
  <2>2. QED
    BY <2>1 DEF SInv, RoundInv, ReportInv, CopyInv
<1>7. ASSUME TimePasses PROVE SInv' /\ Next
  <2>1. /\ Next /\ config' = config /\ answers' = answers /\ client' = client
        /\ registry' = registry /\ hostConfig' = hostConfig /\ overtaken' = overtaken
        /\ missed' = missed
    BY <1>7 DEF TimePasses, Tick, syncVars, Next
  <2>2. QED
    BY <1>1, <2>1, EnclaveActs
<1>8. ASSUME NEW c \in Configs, AnswerLost(c) PROVE SInv' /\ UNCHANGED vars
  <2>1. /\ UNCHANGED vars /\ config' = config /\ answers' = answers \ {c}
        /\ registry' = registry /\ hostConfig' = hostConfig /\ overtaken' = overtaken
        /\ client' = client
        /\ missed' = (missed \/ (c = config /\ hostConfig # config))
    BY <1>8 DEF AnswerLost, vars
  <2>2. ASSUME NEW d \in Client PROVE RoundInv(d)' /\ ReportInv(d)'
    BY <2>1 DEF SInv, RoundInv, ReportInv
  <2>3. CopyInv'
    BY <2>1 DEF SInv, CopyInv
  <2>4. QED
    BY <2>1, <2>2, <2>3 DEF SInv
<1>9. ASSUME EnclaveRestart PROVE SInv' /\ Next
  <2>1. /\ Next /\ config' = NoConfig /\ answers' = answers /\ client' = client
        /\ registry' = registry /\ hostConfig' = hostConfig /\ overtaken' = overtaken
        /\ missed' = missed
    BY <1>9 DEF EnclaveRestart, Restart, Next
  <2>2. QED
    BY <1>1, <2>1, EnclaveActs
<1>10. QED
  BY <1>2, <1>3, <1>4, <1>5, <1>6, <1>7, <1>8, <1>9 DEF Environment

-----------------------------------------------------------------------------
\* Every step preserves the invariant and is a step of ConfigVotes.
LEMMA NextSInv ==
    ASSUME SInv, [SyncNext]_<<vars, syncVars>>
    PROVE  SInv' /\ [Next]_vars
<1>1. CASE TrackerStep
  BY <1>1, ReadSteps, RelaySteps, TrackerSteps DEF TrackerStep, Client
<1>2. ASSUME NEW p \in Proposer, ExecutorStep(p) PROVE SInv' /\ [Next]_vars
  BY <1>2, ReadSteps, RelaySteps, ProposerSteps DEF ExecutorStep, Client
<1>3. ASSUME NEW c \in Configs, Adopt(c) PROVE SInv' /\ [Next]_vars
  BY <1>3, AdoptSteps
<1>4. CASE Environment
  BY <1>4, EnvironmentSteps
<1>5. CASE UNCHANGED <<vars, syncVars>>
  BY <1>5 DEF vars, syncVars, SInv, RoundInv, ReportInv, CopyInv
<1>6. QED
  BY <1>1, <1>2, <1>3, <1>4, <1>5 DEF SyncNext

\* server.go:274-331, 383-495: whatever the tracker, the executors, the host and
\* faulty signers do, the enclave goes through a behaviour of ConfigVotes.
THEOREM SyncRefinesVotes == SyncSpec => Spec
<1>1. SyncInit => Init
  BY DEF SyncInit
<1>2. SInv /\ [SyncNext]_<<vars, syncVars>> => SInv' /\ [Next]_vars
  BY NextSInv
<1>3. QED
  BY InitSInv, <1>1, <1>2, PTL DEF SyncSpec, Spec

\* server.go:380-382: in the composed system too, without -allow-reconfig a
\* config in force is replaced only by F+1 of its own signers, until a restart.
THEOREM SyncAuthorized ==
    ASSUME ~AllowReconfig
    PROVE  SyncSpec => ReconfigAuthorized
  BY SyncRefinesVotes, Authorized, PTL

\* host.go:245, 283-285: while the enclave has a config and no answer is on its
\* way, the host's copy is that config or empty, unless the answer that carried
\* it was lost or overtaken; restarts of the enclave and of the host included.
THEOREM HostCopyAgrees == SyncSpec => []HostAgrees
<1>1. SInv /\ [SyncNext]_<<vars, syncVars>> => SInv'
  BY NextSInv
<1>2. SInv => HostAgrees
  BY DEF SInv, CopyInv, HostAgrees
<1>3. QED
  BY InitSInv, <1>1, <1>2, PTL DEF SyncSpec
=============================================================================
