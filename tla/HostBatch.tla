------------------------------ MODULE HostBatch ------------------------------
(***************************************************************************)
(* The quorum batching of the untrusted Nitro host                         *)
(* (enclave/nitro/host/host.go).  DON nodes POST the same compute request, *)
(* each with its own signature.  handleExecute collects the calls that     *)
(* carry the same request hash into a batch, dispatches the batch to the   *)
(* enclave when the number of distinct signers reaches the threshold, and  *)
(* answers every call of the batch with the outcome.  One timeout          *)
(* goroutine per batch fails a batch that does not reach its quorum.       *)
(*                                                                         *)
(* A step is a maximal piece of code that no other goroutine can observe   *)
(* half done: the read of the config under configMutex (Arrive), one       *)
(* critical section of processRequestMutex (Admit, CompleteBatch,          *)
(* FailBatch), one select (Receive, Disconnect, Timer...).  A batch is     *)
(* named by the call that created it.  The enclave is the environment: it  *)
(* answers a dispatched batch with a response or an error, at any time.    *)
(***************************************************************************)
EXTENDS Integers, FiniteSets

CONSTANTS
    Call,          \* the HTTP calls to /requests
    Hash,          \* ComputeRequest hashes
    Signer,        \* public keys, of DON members or not
    Configs,       \* the EnclaveConfigs the enclave may report to the host
    RequireBFT,    \* the flag --require-bft-quorum
    SlowEnclave,   \* may an execution outlive the TTL of the pending cache?
    NoCall         \* "no batch"

ASSUME HostConstants ==
    /\ IsFiniteSet(Signer)
    /\ Hash # {}
    /\ Configs \subseteq [signers : SUBSET Signer, f : Nat, t : Nat]
    /\ RequireBFT \in BOOLEAN
    /\ SlowEnclave \in BOOLEAN
    /\ NoCall \notin Call

VARIABLES
    config,        \* hostServer.config
    calls,         \* the handleExecute goroutines, with their response channels
    batch,         \* the batchRequest objects and their timeout goroutines
    pending,       \* pendingRequestsCache: hash -> batch
    jobs,          \* the goroutines that run processBatch and completeBatch
    responseCache, \* the hashes whose response is cached
    shutdown       \* hostServer.ctx has been cancelled

vars == <<config, calls, batch, pending, jobs, responseCache, shutdown>>

ZeroConfig == [signers |-> {}, f |-> 0, t |-> 0]

Errors == {"error", "quorum_timeout", "server_shutdown"}

Finished == {"served", "failed", "rejected", "gone"}

CallState ==
    [pc     : {"idle", "arrived", "waiting"} \cup Finished,
     hash   : Hash,
     signer : Signer,
     cfg    : Configs \cup {ZeroConfig},
     batch  : Call \cup {NoCall},
     ch     : {"empty", "ok"} \cup Errors]

BatchState ==
    [hash       : Hash,
     seen       : SUBSET Signer,
     waiters    : SUBSET Call,
     processing : BOOLEAN,
     done       : BOOLEAN,
     timer      : {"none", "armed", "timeout", "shutdown", "exited"}]

Job == [batch : Call, hash : Hash, sigs : SUBSET Signer, open : BOOLEAN]

NoBatchYet ==
    [hash |-> CHOOSE h \in Hash : TRUE, seen |-> {}, waiters |-> {},
     processing |-> FALSE, done |-> FALSE,
     timer |-> "none"]

Init ==
    /\ config = ZeroConfig
    /\ calls \in [Call -> {c \in CallState :
                      /\ c.pc = "idle"
                      /\ c.cfg = ZeroConfig
                      /\ c.batch = NoCall
                      /\ c.ch = "empty"}]
    /\ batch = [b \in Call |-> NoBatchYet]
    /\ pending = [h \in Hash |-> NoCall]
    /\ jobs = {}
    /\ responseCache = {}
    /\ shutdown = FALSE

-----------------------------------------------------------------------------
\* Number of identical signed requests that dispatch a batch.
quorumThreshold(f) == IF RequireBFT THEN 2 * f + 1 ELSE f + 1

\* A variation: F is off by one.
AdoptSmallerF(c) ==
    /\ config' = [c EXCEPT !.f = @ - 1]
    /\ UNCHANGED <<calls, batch, pending, jobs, responseCache, shutdown>>

\* The host adopts a config the enclave reported: the first one, one applied
\* by a quorum of votes, or the one recovered after a host restart.
AdoptConfig(c) ==
    /\ config' = c
    /\ UNCHANGED <<calls, batch, pending, jobs, responseCache, shutdown>>

\* handleExecute up to the lock: the config is copied, and an unconfigured
\* host rejects the call.
Arrive(c) ==
    /\ calls[c].pc = "idle"
    /\ calls' = [calls EXCEPT
           ![c].cfg = config,
           ![c].pc = IF config.t = 0 /\ config.f = 0 THEN "rejected"
                                                     ELSE "arrived"]
    /\ UNCHANGED <<config, batch, pending, jobs, responseCache, shutdown>>

\* The signature is not one of a signer of the copied config.
RejectSignature(c) ==
    /\ calls[c].pc = "arrived"
    /\ calls[c].signer \notin calls[c].cfg.signers
    /\ calls' = [calls EXCEPT ![c].pc = "rejected"]
    /\ UNCHANGED <<config, batch, pending, jobs, responseCache, shutdown>>

\* The response is cached: the call is served from the cache.
ServeCached(c) ==
    /\ calls[c].pc = "arrived"
    /\ calls[c].signer \in calls[c].cfg.signers
    /\ calls[c].hash \in responseCache
    /\ calls' = [calls EXCEPT ![c].pc = "served"]
    /\ UNCHANGED <<config, batch, pending, jobs, responseCache, shutdown>>

\* The batch that call c joins, and its state when c has found or created it.
BatchOf(c) ==
    IF pending[calls[c].hash] = NoCall THEN c ELSE pending[calls[c].hash]

JoinedBatch(c) ==
    IF pending[calls[c].hash] = NoCall
    THEN [NoBatchYet EXCEPT !.hash = calls[c].hash, !.timer = "armed"]
    ELSE batch[pending[calls[c].hash]]

\* Variations: one signature too few, and every call past the threshold.
processEarly(c, seen) == Cardinality(seen) = calls[c].cfg.f

processFrom(c, seen) == Cardinality(seen) >= quorumThreshold(calls[c].cfg.f)

\* The call that brings the number of signatures to exactly the threshold of
\* ITS config dispatches the batch.
shouldProcess(c, seen) ==
    Cardinality(seen) = quorumThreshold(calls[c].cfg.f)

\* The rest of the critical section: find or create the batch, add the
\* signature unless its signer already contributed, subscribe to the result,
\* and dispatch a copy of the signatures when the quorum is reached.
Admit(c) ==
    LET b   == BatchOf(c)
        br  == JoinedBatch(c)
        new == calls[c].signer \notin br.seen
        seen == br.seen \cup {calls[c].signer}
        go  == new /\ shouldProcess(c, seen)
    IN  /\ calls[c].pc = "arrived"
        /\ calls[c].signer \in calls[c].cfg.signers
        /\ calls[c].hash \notin responseCache
        /\ batch' = [batch EXCEPT ![b] = [br EXCEPT
               !.seen = seen,
               !.waiters = @ \cup {c},
               !.processing = IF go THEN TRUE ELSE @]]
        /\ pending' = [pending EXCEPT ![calls[c].hash] = b]
        /\ jobs' = IF go THEN jobs \cup {[batch |-> b, hash |-> calls[c].hash,
                                          sigs |-> seen, open |-> TRUE]}
                         ELSE jobs
        /\ calls' = [calls EXCEPT ![c].pc = "waiting", ![c].batch = b]
        /\ UNCHANGED <<config, responseCache, shutdown>>

\* The end of handleExecute: the response channel delivers.
Receive(c) ==
    /\ calls[c].pc = "waiting"
    /\ calls[c].ch # "empty"
    /\ calls' = [calls EXCEPT
           ![c].pc = IF calls[c].ch = "ok" THEN "served" ELSE "failed"]
    /\ UNCHANGED <<config, batch, pending, jobs, responseCache, shutdown>>

\* ... or the client disconnects first; its channel stays in the batch.
Disconnect(c) ==
    /\ calls[c].pc = "waiting"
    /\ calls' = [calls EXCEPT ![c].pc = "gone"]
    /\ UNCHANGED <<config, batch, pending, jobs, responseCache, shutdown>>

-----------------------------------------------------------------------------
\* A variation: only a response is sent, no error.
notifyOfSuccess(b, outcome) ==
    [c \in Call |->
        IF /\ c \in batch[b].waiters /\ calls[c].ch = "empty"
           /\ outcome = "ok"
        THEN [calls[c] EXCEPT !.ch = outcome]
        ELSE calls[c]]

\* A non-blocking send to every response channel of the batch: a channel that
\* is already full keeps what it has.
notifyWaiters(b, outcome) ==
    [c \in Call |->
        IF c \in batch[b].waiters /\ calls[c].ch = "empty"
        THEN [calls[c] EXCEPT !.ch = outcome]
        ELSE calls[c]]

\* A variation: the batch stays pending.
completeAndKeep(h, outcome) ==
    IF pending[h] = NoCall
    THEN UNCHANGED <<calls, batch, pending, responseCache>>
    ELSE /\ batch' = [batch EXCEPT ![pending[h]].done = TRUE]
         /\ calls' = notifyWaiters(pending[h], outcome)
         /\ responseCache' = IF outcome = "ok" THEN responseCache \cup {h}
                                               ELSE responseCache
         /\ UNCHANGED pending

\* The batch, if any, that is pending under the hash of a finished job is
\* completed: its timeout goroutine is released, its waiters are notified, a
\* response is cached, and the batch is forgotten.
completeBatch(h, outcome) ==
    IF pending[h] = NoCall
    THEN UNCHANGED <<calls, batch, pending, responseCache>>
    ELSE LET b == pending[h]
         IN  /\ batch' = [batch EXCEPT ![b].done = TRUE]
             /\ calls' = notifyWaiters(b, outcome)
             /\ responseCache' = IF outcome = "ok" THEN responseCache \cup {h}
                                                   ELSE responseCache
             /\ pending' = [pending EXCEPT ![h] = NoCall]

\* processBatch returns the enclave's response or an error.
FinishJob(j, outcome) ==
    /\ j.open
    /\ jobs' = (jobs \ {j}) \cup {[j EXCEPT !.open = FALSE]}
    /\ completeBatch(j.hash, outcome)
    /\ UNCHANGED <<config, shutdown>>

\* The three branches of the select of handleQuorumTimeout.  The first is
\* taken at some time after quorumTimeout has passed.
TimerFires(b) ==
    /\ batch[b].timer = "armed"
    /\ batch' = [batch EXCEPT ![b].timer = "timeout"]
    /\ UNCHANGED <<config, calls, pending, jobs, responseCache, shutdown>>

TimerReleased(b) ==
    /\ batch[b].timer = "armed"
    /\ batch[b].done
    /\ batch' = [batch EXCEPT ![b].timer = "exited"]
    /\ UNCHANGED <<config, calls, pending, jobs, responseCache, shutdown>>

TimerCancelled(b) ==
    /\ batch[b].timer = "armed"
    /\ shutdown
    /\ batch' = [batch EXCEPT ![b].timer = "shutdown"]
    /\ UNCHANGED <<config, calls, pending, jobs, responseCache, shutdown>>

\* A variation: a batch that is processing is failed too.
failAlways(br) == br # NoCall

\* The batch is still waiting for its quorum.
notProcessed(br) == br # NoCall /\ ~batch[br].processing

\* failBatchIfNotProcessed, called by the timeout goroutine of batch b: it
\* fails whatever batch is pending under b's hash, unless it is processing.
FailBatch(b) ==
    LET h  == batch[b].hash
        br == pending[h]
    IN  /\ batch[b].timer \in {"timeout", "shutdown"}
        /\ batch' = [batch EXCEPT ![b].timer = "exited"]
        /\ IF notProcessed(br)
           THEN /\ calls' = notifyWaiters(br,
                       IF batch[b].timer = "shutdown" THEN "server_shutdown"
                                                      ELSE "quorum_timeout")
                /\ pending' = [pending EXCEPT ![h] = NoCall]
           ELSE UNCHANGED <<calls, pending>>
        /\ UNCHANGED <<config, jobs, responseCache, shutdown>>

-----------------------------------------------------------------------------
\* The TTL of a cached response passes.
ExpireResponse(h) ==
    /\ h \in responseCache
    /\ responseCache' = responseCache \ {h}
    /\ UNCHANGED <<config, calls, batch, pending, jobs, shutdown>>

\* The TTL of a pending batch passes.  main enforces quorumTimeout < TTL, so
\* the timeout goroutine of the batch is over by then.
ExpirePending(h) ==
    /\ SlowEnclave
    /\ pending[h] # NoCall
    /\ batch[pending[h]].timer = "exited"
    /\ pending' = [pending EXCEPT ![h] = NoCall]
    /\ UNCHANGED <<config, calls, batch, jobs, responseCache, shutdown>>

Shutdown ==
    /\ ~shutdown
    /\ shutdown' = TRUE
    /\ UNCHANGED <<config, calls, batch, pending, jobs, responseCache>>

Next ==
    \/ \E c \in Configs : AdoptConfig(c)
    \/ \E c \in Call :
          \/ Arrive(c) \/ RejectSignature(c) \/ ServeCached(c) \/ Admit(c)
          \/ Receive(c) \/ Disconnect(c)
    \/ \E j \in jobs, outcome \in {"ok", "error"} : FinishJob(j, outcome)
    \/ \E b \in Call :
          \/ TimerFires(b) \/ TimerReleased(b) \/ TimerCancelled(b)
          \/ FailBatch(b)
    \/ \E h \in Hash : ExpireResponse(h) \/ ExpirePending(h)
    \/ Shutdown

Spec == Init /\ [][Next]_vars

\* What the Go runtime and the environment guarantee: a goroutine that can run
\* runs, time passes, and the enclave answers (a dead vsock connection is an
\* error too).  No client is assumed to disconnect, no config to be adopted.
Fairness ==
    /\ \A c \in Call : WF_vars(RejectSignature(c) \/ ServeCached(c) \/ Admit(c))
    /\ \A c \in Call : WF_vars(Receive(c))
    /\ WF_vars(\E j \in jobs, outcome \in {"ok", "error"} : FinishJob(j, outcome))
    /\ \A b \in Call :
          WF_vars(TimerFires(b) \/ TimerReleased(b) \/ TimerCancelled(b))
    /\ \A b \in Call : WF_vars(FailBatch(b))

FairSpec == Spec /\ Fairness

-----------------------------------------------------------------------------
TypeOK ==
    /\ config \in Configs \cup {ZeroConfig}
    /\ calls \in [Call -> CallState]
    /\ batch \in [Call -> BatchState]
    /\ pending \in [Hash -> Call \cup {NoCall}]
    /\ jobs \subseteq Job
    /\ responseCache \subseteq Hash
    /\ shutdown \in BOOLEAN

\* The signers whose call for h was admitted to some batch.
Submitted(h) ==
    {calls[c].signer : c \in {d \in Call : /\ calls[d].hash = h
                                           /\ calls[d].batch # NoCall}}

\* F does not change: what the properties of the quorum are relative to.
ConstantF == \A c, d \in Configs : c.f = d.f

\* host.go:73-75: the host blocks requests until a threshold of identical ones
\* is reached.  A call gets a response, from its batch or from the cache, only
\* if at least threshold distinct signers submitted the same request.
ServedImpliesQuorum ==
    \A c \in Call : calls[c].pc = "served" =>
        Cardinality(Submitted(calls[c].hash)) >= quorumThreshold(calls[c].cfg.f)

\* host.go:614-617: the request that reaches exactly the threshold triggers
\* processing and no later one re-triggers it: a batch is sent to the enclave
\* at most once.
DispatchOnce ==
    \A i, j \in jobs : i.batch = j.batch => i = j

\* host.go:894: a batch fails with quorum_timeout only if the quorum was not
\* reached, by the threshold of every call that waits on it.
TimeoutMeansNoQuorum ==
    \A c \in Call : calls[c].ch = "quorum_timeout" =>
        Cardinality(batch[calls[c].batch].seen) < quorumThreshold(calls[c].cfg.f)

\* host.go:787-791: notifyWaiters drops the outcome when a channel is full.  No
\* outcome is ever dropped: the calls of a batch that is still pending have
\* not been answered, whichever job, timer or shutdown answers them first.
NoDroppedNotification ==
    \A h \in Hash : pending[h] # NoCall =>
        \A c \in batch[pending[h]].waiters : calls[c].ch = "empty"

\* host.go:942-946: no call hangs.  A call that waits and has no outcome yet is
\* in the batch that is pending under its hash, which its timeout goroutine or
\* its job will answer.
NoOrphanedCall ==
    \A c \in Call : calls[c].pc = "waiting" /\ calls[c].ch = "empty" =>
        /\ pending[calls[c].hash] = calls[c].batch
        /\ \/ batch[calls[c].batch].timer # "exited"
           \/ \E j \in jobs : j.open /\ j.hash = calls[c].hash

\* host.go:839-849: once a batch is processing, neither the quorum timeout nor
\* a shutdown answers its calls, however the timer and the quorum race.
ProcessingNotCancelled ==
    \A c \in Call : calls[c].ch \in {"quorum_timeout", "server_shutdown"} =>
        ~batch[calls[c].batch].processing

\* host.go:894-897: the timeout is the batch's own.  When the calls of a batch
\* have failed with quorum_timeout, the timer of that batch has fired.
NoEarlyTimeout ==
    \A c \in Call : calls[c].ch = "quorum_timeout" =>
        batch[calls[c].batch].timer # "armed"

\* host.go:674-711: every call that waits is answered, without any client
\* having to give up.
EveryCallAnswered ==
    \A c \in Call : calls[c].pc = "waiting" ~> calls[c].pc \in Finished
=============================================================================
