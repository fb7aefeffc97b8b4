----------------------------- MODULE ConfigSync ------------------------------
(***************************************************************************)
(* How the enclave's config follows the membership of the DON.  The config *)
(* tracker beside the host (enclave/config-tracker) posts the first        *)
(* config; the executors of the DON nodes (capabilities/framework) vote    *)
(* for later ones; both read the enclave's config from /publicKeys, and    *)
(* the host (enclave/nitro/host) relays everything and keeps a copy of the *)
(* config it learns from the answers.  The enclave itself is ConfigVotes.  *)
(*                                                                         *)
(* A round of a client, that is of the tracker or of an executor, reads    *)
(* the registry, has the enclave report its config, has the host relay the *)
(* report, and then acts on it; the registry, the enclave and the host may *)
(* change between any two of these.  The enclave's answer to a POST or     *)
(* PATCH is on its way until the host adopts it; two such answers may be   *)
(* adopted in either order, and either may be lost after the enclave has   *)
(* applied the change.  Requests fail, and the enclave, the host and the   *)
(* executors restart.  One enclave of the pool is modelled.                *)
(***************************************************************************)
EXTENDS ConfigVotes

CONSTANTS
    Proposer,       \* the nodes whose executors run
    Tracker,        \* the config tracker
    Faulty,         \* signers that vote as they like
    Membership,     \* [signers, f]: the values of the DON in the registry
    InitialId,      \* the key material the tracker was given
    MaxFaults,      \* bound on failures, lost answers and restarts
    MaxChanges,     \* bound on registry changes
    NoMembership

VARIABLES
    registry,       \* the DON: membership and how often it has changed
    client,         \* the rounds of the tracker and of the executors
    baseline,       \* RealExecutor.donMembers, donF
    hostConfig,     \* hostServer.config
    answers,        \* configs in answers the host has not adopted yet
    overtaken,      \* history: the answer adopted last was out of date
    missed,         \* history: the answer with the config in force was lost
    faults          \* bound: the faults so far

syncVars == <<registry, client, baseline, hostConfig, answers, overtaken, missed,
              faults>>

Client == Proposer \cup {Tracker}

Idle == [pc |-> "idle", don |-> NoMembership, seen |-> NoConfig]

SyncInit ==
    /\ Init
    /\ registry \in [don : Membership, changes : {0}]
    /\ client = [c \in Client |-> Idle]
    /\ baseline = [p \in Proposer |-> NoMembership]
    /\ hostConfig = NoConfig
    /\ answers = {}
    /\ overtaken = FALSE
    /\ missed = FALSE
    /\ faults = 0

Matches(c, don) == c # NoConfig /\ c.signers = don.signers /\ c.f = don.f

\* The config proposed for a membership: the key material is that of the
\* enclave's config.
Proposal(id, don) == [id |-> id, signers |-> don.signers, f |-> don.f]

\* Every config the tracker or an executor may propose is one of Configs.
ASSUME SyncConstants ==
    /\ Proposer \subseteq Node /\ Faulty \subseteq Node
    /\ Tracker \notin Proposer
    /\ \A don \in Membership :
          \A id \in {InitialId} \cup {c.id : c \in Configs} :
              Proposal(id, don) \in Configs

-----------------------------------------------------------------------------
\* checkUpdates reads the DON; proposeConfigUpdateIfMembershipChanged goes on
\* when the baseline is empty or another membership.
ReadRegistry(c) ==
    /\ client[c].pc = "idle"
    /\ c \in Proposer => baseline[c] # registry.don
    /\ client' = [client EXCEPT ![c].pc = "read", ![c].don = registry.don]
    /\ UNCHANGED <<vars, registry, baseline, hostConfig, answers, overtaken, missed, faults>>

\* handleGetPublicKeys of the enclave: its config, or 503 while there is none,
\* which GetConfigs takes for a failure.
EnclaveReports(c) ==
    /\ client[c].pc = "read"
    /\ client' = IF config = NoConfig /\ c # Tracker
                 THEN [client EXCEPT ![c] = Idle]
                 ELSE [client EXCEPT ![c].pc = "body", ![c].seen = config]
    /\ UNCHANGED <<vars, registry, baseline, hostConfig, answers, overtaken, missed, faults>>

\* A variation: the host takes the config of every report.
alwaysRecoverConfig(c) == IF c = NoConfig THEN hostConfig ELSE c

\* maybeRecoverConfig, of the config in the body of a 200 answer.
maybeRecoverConfig(c) == IF hostConfig = NoConfig THEN c ELSE hostConfig

\* handleGetPublicKeys of the host.
HostRelays(c) ==
    /\ client[c].pc = "body"
    /\ hostConfig' = maybeRecoverConfig(client[c].seen)
    /\ client' = [client EXCEPT ![c].pc = "seen"]
    /\ missed' = (missed /\ hostConfig' # config)
    /\ UNCHANGED <<vars, registry, baseline, answers, overtaken, faults>>

\* postConfig, when the report differs from the DON: the enclave accepts its
\* first config, and answers 409 later.
TrackerActs ==
    LET t == client[Tracker]
        c == Proposal(IF t.seen = NoConfig THEN InitialId ELSE t.seen.id, t.don)
    IN  /\ t.pc = "seen"
        /\ client' = [client EXCEPT ![Tracker] = Idle]
        /\ IF ~Matches(t.seen, t.don) /\ (config = NoConfig \/ AllowReconfig)
           THEN SetConfig(c) /\ answers' = answers \cup {c}
           ELSE UNCHANGED <<vars, answers>>
        /\ UNCHANGED <<registry, baseline, hostConfig, overtaken, missed, faults>>

\* The enclave's answer to a PATCH: 200 when the config applied or was in force
\* already, 202 when a vote is recorded, an error otherwise.
Voted(n, c) ==
    \/ /\ UpdateConfig(n, c)
       /\ answers' = IF config' = c THEN answers \cup {c} ELSE answers
    \/ /\ config # NoConfig /\ config = c /\ CurrentSigner(n)
       /\ answers' = answers \cup {c}
       /\ UNCHANGED vars
    \/ /\ config # NoConfig => ~CurrentSigner(n)
       /\ UNCHANGED <<vars, answers>>

\* broadcastConfigUpdate finds that the enclave has the new membership, and
\* records it.
RecordBaseline(p) ==
    LET r == client[p]
    IN  /\ r.pc = "seen"
        /\ Matches(r.seen, r.don)
        /\ baseline' = [baseline EXCEPT ![p] = r.don]
        /\ client' = [client EXCEPT ![p] = Idle]
        /\ UNCHANGED <<vars, registry, hostConfig, answers, overtaken, missed, faults>>

\* A variation: the membership is recorded when the vote has been sent.
BroadcastAndRecord(p) ==
    LET r == client[p]
    IN  /\ r.pc = "seen"
        /\ ~Matches(r.seen, r.don)
        /\ Voted(p, Proposal(r.seen.id, r.don))
        /\ baseline' = [baseline EXCEPT ![p] = r.don]
        /\ client' = [client EXCEPT ![p] = Idle]
        /\ UNCHANGED <<registry, hostConfig, overtaken, missed, faults>>

\* broadcastConfigUpdate finds that it has not, and votes.
BroadcastVote(p) ==
    LET r == client[p]
    IN  /\ r.pc = "seen"
        /\ ~Matches(r.seen, r.don)
        /\ Voted(p, Proposal(r.seen.id, r.don))
        /\ client' = [client EXCEPT ![p] = Idle]
        /\ UNCHANGED <<registry, baseline, hostConfig, overtaken, missed, faults>>

\* handleSetConfig and handleUpdateConfig of the host adopt the config of a 200
\* answer.
Adopt(c) ==
    /\ c \in answers
    /\ hostConfig' = c
    /\ answers' = answers \ {c}
    /\ overtaken' = (c # config /\ config \notin answers)
    /\ missed' = (missed /\ c # config)
    /\ UNCHANGED <<vars, registry, client, baseline, faults>>

-----------------------------------------------------------------------------
Fault == faults < MaxFaults /\ faults' = faults + 1

\* A read or a request of a round fails; Start and the refresh loop go on with
\* the next round.
RoundFails(c) ==
    /\ client[c].pc # "idle"
    /\ Fault
    /\ client' = [client EXCEPT ![c] = Idle]
    /\ UNCHANGED <<vars, registry, baseline, hostConfig, answers, overtaken, missed>>

\* The enclave has applied the change, or has it in force, and the host does not
\* adopt it: the enclave's attestation of the answer fails and it answers 500,
\* or the host cannot read the answer.  The host has no other way to learn of
\* the config while it has a copy.
AnswerLost(c) ==
    /\ c \in answers
    /\ Fault
    /\ answers' = answers \ {c}
    /\ missed' = (missed \/ (c = config /\ hostConfig # config))
    /\ UNCHANGED <<vars, registry, client, baseline, hostConfig, overtaken>>

\* The enclave restarts; reports and answers it has sent still arrive.
EnclaveRestart ==
    /\ Fault
    /\ Restart
    /\ UNCHANGED <<registry, client, baseline, hostConfig, answers, overtaken, missed>>

\* The host restarts without its copy; what it was relaying fails.
HostRestart ==
    /\ hostConfig # NoConfig
    /\ Fault
    /\ hostConfig' = NoConfig
    /\ answers' = {}
    /\ overtaken' = FALSE
    /\ missed' = FALSE
    /\ client' = [c \in Client |-> IF client[c].pc = "body" THEN Idle ELSE client[c]]
    /\ UNCHANGED <<vars, registry, baseline>>

\* An executor restarts without its baseline.
ExecutorRestart(p) ==
    /\ client[p] # Idle \/ baseline[p] # NoMembership
    /\ Fault
    /\ client' = [client EXCEPT ![p] = Idle]
    /\ baseline' = [baseline EXCEPT ![p] = NoMembership]
    /\ UNCHANGED <<vars, registry, hostConfig, answers, overtaken, missed>>

\* A faulty signer votes as it likes; a vote the enclave rejects does nothing.
FaultyVote(n, c) ==
    /\ config # NoConfig /\ CurrentSigner(n)
    /\ Fault
    /\ Voted(n, c)
    /\ UNCHANGED <<registry, client, baseline, hostConfig, overtaken, missed>>

RegistryChanges(don) ==
    /\ registry.changes < MaxChanges
    /\ don # registry.don
    /\ registry' = [don |-> don, changes |-> registry.changes + 1]
    /\ UNCHANGED <<vars, client, baseline, hostConfig, answers, overtaken, missed, faults>>

TimePasses == Tick /\ UNCHANGED syncVars

-----------------------------------------------------------------------------
TrackerStep ==
    \/ ReadRegistry(Tracker)
    \/ EnclaveReports(Tracker)
    \/ HostRelays(Tracker)
    \/ TrackerActs

ExecutorStep(p) ==
    \/ ReadRegistry(p)
    \/ EnclaveReports(p)
    \/ HostRelays(p)
    \/ RecordBaseline(p)
    \/ BroadcastVote(p)

Environment ==
    \/ \E c \in Client : RoundFails(c)
    \/ \E c \in Configs : AnswerLost(c)
    \/ EnclaveRestart
    \/ HostRestart
    \/ \E p \in Proposer : ExecutorRestart(p)
    \/ \E n \in Faulty, c \in Configs : FaultyVote(n, c)
    \/ \E don \in Membership : RegistryChanges(don)
    \/ TimePasses

SyncNext ==
    \/ TrackerStep
    \/ \E p \in Proposer : ExecutorStep(p)
    \/ \E c \in Configs : Adopt(c)
    \/ Environment

SyncSpec == SyncInit /\ [][SyncNext]_<<vars, syncVars>>

\* The tracker and the refresh loops run for ever on tickers, and the host's
\* handlers run to their end.
SyncFairness ==
    /\ WF_<<vars, syncVars>>(TrackerStep)
    /\ \A p \in Proposer : WF_<<vars, syncVars>>(ExecutorStep(p))
    /\ WF_<<vars, syncVars>>(\E c \in Configs : Adopt(c))

-----------------------------------------------------------------------------
\* host.go:283-285, 245: the host adopts what the enclave applied, and recovers
\* a lost copy from what the enclave reports.  While the enclave has a config
\* and no answer is on its way, the copy is that config or empty, except for as
\* long as the answer that carried the config was lost or was adopted before
\* that of an earlier one; a report read before an update never replaces it.
HostAgrees ==
    (config # NoConfig /\ answers = {} /\ ~overtaken /\ ~missed) =>
        hostConfig \in {NoConfig, config}

\* executor.go:1056-1060, config_tracker.go:27-28: the enclave's config follows
\* the membership.  Once the registry stays the same, the enclave comes to have
\* its membership for good, every executor has seen that, and the host's copy
\* follows unless its answer was lost or overtaken, through failed rounds,
\* restarts, expired votes and faulty votes.
Converges ==
    <>[](/\ Matches(config, registry.don)
         /\ \A p \in Proposer : baseline[p] = registry.don
         /\ hostConfig = config \/ overtaken \/ missed)
=============================================================================
