------------------------------- MODULE Executor -------------------------------
(***************************************************************************)
(* RealExecutor (capabilities/framework/executor.go) of one DON node over  *)
(* its enclave pool: lazy initialization, executions with their retries,   *)
(* the refresh of the enclave list, the encrypted secret shares obtained   *)
(* from the VaultDON and their cache, and Close.                           *)
(*                                                                         *)
(* A thread is an execution or the refresh loop, which runs the first      *)
(* part of an execution attempt only.  A step of a thread ends where the   *)
(* thread has called an enclave, the registry or the VaultDON, or leaves a *)
(* lock, because everything shared may change there.                       *)
(*                                                                         *)
(* The registry's enclave list, the VaultDON and its reshares (a           *)
(* "generation" is a key of its distributed key generation) are external.  *)
(* Whether an enclave's signers match the node's baseline is the subject   *)
(* of ConfigSync and a free choice here, and so are signing errors.        *)
(***************************************************************************)
EXTENDS ClientPool

CONSTANTS
    Exec,         \* goroutines that run Execute
    Loop,         \* the enclave refresh loop
    ReqID,        \* ReqID[x]: the number of the request that x executes
    SecretSets,   \* the sets of secrets a request may ask for
    MaxRetries,   \* bound on the limit of attempts
    MaxCalls,     \* bound on the calls of Execute
    MaxGen,       \* bound on the generations of the VaultDON
    MaxLists      \* bound on the changes of the registry

ASSUME ExecutorConstants ==
    /\ Loop \notin Exec
    /\ ReqID \in [Exec -> Nat]
    /\ MaxRetries \in Nat /\ MaxGen \in Nat \ {0}

Thread == Exec \cup {Loop}

\* The limits that matter here: attempts of an execution, and whether shares
\* are cached.
Limits == [retries : 1 .. MaxRetries, cache : BOOLEAN]

\* No RawVaultPublicKey in a response of the VaultDON.
NoKey == 0

Share == [secret : UNION SecretSets, key : Key, gen : 1 .. MaxGen,
          mpk : 0 .. MaxGen]

VARIABLES
    registry,      \* external: the enclave list of the registry
    changes,       \* its changes so far
    limits,        \* external: the limits in the CRE settings
    capConfig,     \* RealExecutor.capConfig: the limits applied last
    gen,           \* external: the generation of the VaultDON
    secretsCache,  \* secretsCache, a set of shares
    enclaves,      \* RealExecutor.enclaves
    initialized,   \* RealExecutor.initialized
    loopOn,        \* the refresh loop has been started and not cancelled
    closing,       \* Close: "open", "loop", "pool" or "done"
    calls,         \* calls of Execute so far
    th             \* the state of every thread

execVars == <<registry, changes, limits, capConfig, gen, secretsCache, enclaves,
              initialized, loopOn, closing, calls, th>>

vars == <<poolVars, enclaveVars, execVars>>

Idle == [pc |-> "idle", list |-> <<>>, entry |-> None, key |-> None,
         secrets |-> {}, todo |-> {}, shares |-> {}, mpk |-> NoKey,
         tries |-> 0, retries |-> 0, caching |-> FALSE, sent |-> FALSE,
         ref |-> 0, refs |-> {}, reqs |-> 0, timedOut |-> FALSE, out |-> None]

Init ==
    /\ PoolInit(<<>>)
    /\ EnclaveInit
    /\ registry \in Lists
    /\ changes = 0
    /\ limits \in Limits
    /\ capConfig = limits
    /\ gen = 1
    /\ secretsCache = {}
    /\ enclaves = <<>>
    /\ initialized = FALSE
    /\ loopOn = FALSE
    /\ closing = "open"
    /\ calls = 0
    /\ th = [t \in Thread |-> Idle]

-----------------------------------------------------------------------------
\* A step of thread t that only changes t's own state.
Local ==
    UNCHANGED <<poolVars, enclaveVars, registry, changes, limits, capConfig, gen,
                secretsCache, enclaves, initialized, loopOn, closing, calls>>

Goto(t, pc) == th' = [th EXCEPT ![t].pc = pc]

\* Execute returns.
Finish(x, out) ==
    th' = [th EXCEPT ![x] = [Idle EXCEPT !.pc = "done", !.out = out]]

\* The closure of Execute returns an error that retryWithBackoff may retry; in
\* the refresh loop the error is logged.
Failed(t, timedOut) ==
    th' = [th EXCEPT ![t] =
             IF t = Loop
             THEN Idle
             ELSE [th[t] EXCEPT !.pc = "backoff", !.tries = th[t].tries + 1,
                                !.timedOut = th[t].timedOut \/ timedOut,
                                !.list = <<>>, !.entry = None, !.key = None,
                                !.shares = {}, !.mpk = NoKey, !.caching = FALSE]]

\* initLazily, under initializedMutex: the pool is created and warmed up, and
\* closed again if the VaultDON cannot be found after that.
InitLazily ==
    /\ ~initialized
    /\ initialized' = TRUE
    /\ loopOn' = TRUE
    /\ enclaves' = registry
    /\ nodes' = registry
    /\ keyCache' = [e \in Enclave |->
                      IF \E n \in EntryOf(e, registry) : Answers(n)
                      THEN NewestKey(e) ELSE None]
    /\ dead' = {n.id : n \in {n \in Entries(registry) : ~Answers(n)}}
    /\ UNCHANGED <<refreshing, poolClosed>>

InitFails ==
    /\ ~initialized
    /\ UNCHANGED <<poolVars, enclaves, initialized, loopOn>>

\* refreshLimitSettings: the snapshot of the limits is replaced as a whole.
RefreshLimitSettings == capConfig' = limits

\* Execute up to the rate limiter, and the snapshot of the limits with which
\* retryWithBackoff starts.
Begin(x) ==
    /\ th[x].pc \in {"idle", "done"}
    /\ calls < MaxCalls
    /\ calls' = calls + 1
    /\ \E S \in SecretSets :
         \/ /\ InitLazily \/ (initialized /\ UNCHANGED <<poolVars, enclaves,
                                      initialized, loopOn>>)
            /\ RefreshLimitSettings
            /\ \/ th' = [th EXCEPT ![x] =
                           [Idle EXCEPT !.pc = "attempt", !.secrets = S,
                                        !.retries = limits.retries]]
               \/ Finish(x, "rejected")
         \/ InitFails /\ Finish(x, "error") /\ UNCHANGED capConfig
    /\ UNCHANGED <<enclaveVars, registry, changes, limits, gen, secretsCache,
                   closing>>

\* The enclave list in the capability's configuration for the node's DON.
GetEnclaveNodes == registry

\* A variation: a retry keeps the reference of the request before.
AttemptSameRef(t) ==
    /\ \/ t \in Exec /\ th[t].pc = "attempt"
       \/ t = Loop /\ loopOn /\ th[t].pc = "idle"
    /\ th' = [th EXCEPT ![t].pc = "update", ![t].sent = FALSE,
                        ![t].list = GetEnclaveNodes]
    /\ Local

\* EnsureFreshEnclaves reads the registry.  For an execution this is the start
\* of an attempt, where Execute first chooses the reference of its next vault
\* request.
Attempt(t) ==
    /\ \/ t \in Exec /\ th[t].pc = "attempt"
       \/ t = Loop /\ loopOn /\ th[t].pc = "idle"
    /\ LET ref == th[t].ref + (IF th[t].sent THEN 1 ELSE 0)
           now == [th[t] EXCEPT !.ref = ref, !.sent = FALSE]
       IN  th' = [th EXCEPT ![t] = [now EXCEPT !.pc = "update",
                                               !.list = GetEnclaveNodes]]
    /\ Local

\* An error of the registry, or of the VaultDON's capability information.
RefreshFails(t) ==
    /\ th[t].pc \in {"update", "fresh"}
    /\ Failed(t, FALSE)
    /\ Local

\* UpdateNodes up to the lock: an unchanged list needs no validation, and a
\* list with a node that does not answer is not used.
CheckNodes(t) ==
    /\ th[t].pc = "update"
    /\ \/ th[t].list = nodes /\ Goto(t, "publish")
       \/ th[t].list # nodes /\ ValidNodes(th[t].list) /\ Goto(t, "commit")
       \/ th[t].list # nodes /\ ~ValidNodes(th[t].list) /\ Goto(t, "fresh")
    /\ Local

\* The rest of UpdateNodes.
Commit(t) ==
    /\ th[t].pc = "commit"
    /\ CommitNodes(th[t].list)
    /\ Goto(t, "publish")
    /\ UNCHANGED <<enclaveVars, registry, changes, limits, capConfig, gen,
                   secretsCache, enclaves, initialized, loopOn, closing,
                   calls>>

\* EnsureFreshEnclaves stores the list that the pool accepted.
Publish(t) ==
    /\ th[t].pc = "publish"
    /\ enclaves' = th[t].list
    /\ Goto(t, "fresh")
    /\ UNCHANGED <<poolVars, enclaveVars, registry, changes, limits, capConfig,
                   gen, secretsCache, initialized, loopOn, closing, calls>>

\* The end of EnsureFreshEnclaves, and the choice of an enclave by
\* GetPublicKeys.
Select(t) ==
    /\ th[t].pc = "fresh"
    /\ \/ t = Loop /\ th' = [th EXCEPT ![t] = Idle]
       \/ /\ t \in Exec
          /\ \/ \E n \in SelectEnclaves(ReqID[t], nodes) :
                  th' = [th EXCEPT ![t].pc = "fetch", ![t].entry = n,
                                   ![t].list = <<>>]
             \/ SelectEnclaves(ReqID[t], nodes) = {} /\ Failed(t, FALSE)
    /\ Local

\* GetPublicKeys: the network first, and the cached key if that fails.
FetchKey(x) ==
    /\ th[x].pc = "fetch"
    /\ LET n == th[x].entry
       IN  \/ /\ Answers(n)
              /\ th' = [th EXCEPT ![x].pc = "params",
                                  ![x].key = NewestKey(n.id)]
           \/ /\ ~Answers(n) /\ keyCache[n.id] # None
              /\ th' = [th EXCEPT ![x].pc = "vault",
                                  ![x].key = keyCache[n.id]]
           \/ ~Answers(n) /\ keyCache[n.id] = None /\ Failed(x, FALSE)
    /\ Local

\* GetPublicKeys caches the key it fetched.
CacheKey(x) ==
    /\ th[x].pc = "params"
    /\ SetCachedPublicKey(th[x].entry.id, th[x].key)
    /\ Goto(x, "vault")
    /\ UNCHANGED <<nodes, dead, refreshing, poolClosed, enclaveVars, registry,
                   changes, limits, capConfig, gen, secretsCache, enclaves,
                   initialized, loopOn, closing, calls>>

\* validateEnclaveSigners rejects the configuration that came with the key.
WrongSigners(x) ==
    /\ th[x].pc = "vault"
    /\ Failed(x, FALSE)
    /\ Local

-----------------------------------------------------------------------------
\* The entries that GetEncryptedDecryptionShares finds for the secrets of x.
Cached(x) ==
    {c \in secretsCache : c.secret \in th[x].secrets /\ c.key = th[x].key}

AllCached(x) == \A s \in th[x].secrets : \E c \in Cached(x) : c.secret = s

\* A variation: any batch that is wholly cached is served.
AnyCachedKeys(cached) == cached # {}

\* cachedPublicKeysMatch
CachedPublicKeysMatch(cached) == \A c, d \in cached : c.mpk = d.mpk

\* A batch that is wholly cached under one vault key is served from the cache,
\* if the limits of the moment allow a cache.
Servable(x) ==
    capConfig.cache /\ AllCached(x) /\ CachedPublicKeysMatch(Cached(x))

\* GetEncryptedDecryptionShares without a request to the VaultDON.
SharesAtHand(x) ==
    /\ th[x].pc = "vault"
    /\ \/ th[x].secrets = {}
       \/ Servable(x)
    /\ th' = [th EXCEPT ![x].pc = "send", ![x].sent = TRUE,
                        ![x].shares = Cached(x),
                        ![x].mpk = IF Cached(x) = {} THEN NoKey
                                   ELSE (CHOOSE c \in Cached(x) : TRUE).mpk]
    /\ Local

\* The request to the VaultDON; whether its answer will be cached is decided.
AskVault(x) ==
    /\ th[x].pc = "vault"
    /\ th[x].secrets # {} /\ ~Servable(x)
    /\ th' = [th EXCEPT ![x].pc = "asked", ![x].sent = TRUE,
                        ![x].caching = capConfig.cache,
                        ![x].refs = @ \cup {th[x].ref},
                        ![x].reqs = @ + 1]
    /\ Local

\* A response with all shares, made by the current generation.  The key of the
\* generation comes with it unless the VaultDON does not send it yet.
VaultAnswers(x) ==
    /\ th[x].pc = "asked"
    /\ \E mpk \in {NoKey, gen} :
         th' = [th EXCEPT ![x].pc = IF th[x].caching THEN "store" ELSE "send",
                          ![x].mpk = mpk, ![x].caching = FALSE,
                          ![x].todo = {s \in th[x].secrets : th[x].caching},
                          ![x].shares = {[secret |-> s, key |-> th[x].key,
                                          gen |-> gen, mpk |-> mpk] :
                                            s \in th[x].secrets}]
    /\ Local

\* An error of the VaultDON or in its response: one for the user ends the
\* execution, any other is retried.
VaultFails(x) ==
    /\ th[x].pc = "asked"
    /\ Failed(x, FALSE) \/ Finish(x, "user")
    /\ Local

\* The loop that caches the shares, one secret at a time.
CacheShare(x) ==
    /\ th[x].pc = "store"
    /\ \E c \in th[x].shares :
         /\ c.secret \in th[x].todo
         /\ secretsCache' = {d \in secretsCache :
                               ~(d.secret = c.secret /\ d.key = c.key)} \cup {c}
         /\ th' = [th EXCEPT ![x].todo = @ \ {c.secret},
                             ![x].pc = IF th[x].todo = {c.secret}
                                       THEN "send" ELSE "store"]
    /\ UNCHANGED <<poolVars, enclaveVars, registry, changes, limits, capConfig,
                   gen, enclaves, initialized, loopOn, closing, calls>>

-----------------------------------------------------------------------------
\* The keystore fails, or has no account of the capability.
SignFails(x) ==
    /\ th[x].pc = "send"
    /\ Failed(x, FALSE)
    /\ Local

\* ExecuteBatch looks the enclave up in the pool's current list.
Send(x) ==
    /\ th[x].pc = "send"
    /\ \/ \E n \in EntryOf(th[x].entry.id, nodes) :
            th' = [th EXCEPT ![x].pc = "sent", ![x].entry = n]
       \/ EntryOf(th[x].entry.id, nodes) = {} /\ Failed(x, FALSE)
    /\ Local

\* The enclave executes the request, which it can decrypt, and the response
\* passes the checks of ExecuteBatch and validateEnclaveSigners.
Succeed(x) ==
    /\ th[x].pc = "sent"
    /\ LET n == th[x].entry
       IN  /\ n.id \in up /\ Holds(n.id, th[x].key)
           /\ Attested(n)
    /\ Finish(x, "ok")
    /\ Local

\* ExecuteBatch fails, or the response does: a quorum timeout and a failure of
\* the call are retried, the errors that name a fault of the request are not.
ExecuteFails(x) ==
    /\ th[x].pc = "sent"
    /\ \/ \E timedOut \in BOOLEAN : Failed(x, timedOut)
       \/ Finish(x, "user")
    /\ Local

\* A variation: one attempt too many.
BackoffOnceMore(x) ==
    /\ th[x].pc = "backoff"
    /\ \/ th[x].tries <= th[x].retries /\ Goto(x, "attempt")
       \/ Finish(x, IF th[x].timedOut THEN "user" ELSE "error")
    /\ Local

\* retryWithBackoff after a failed attempt: the context may be cancelled, the
\* attempts may be used up, and a quorum timeout among their errors makes the
\* result an error of the user.
Backoff(x) ==
    /\ th[x].pc = "backoff"
    /\ \/ th[x].tries < th[x].retries /\ Goto(x, "attempt")
       \/ /\ th[x].tries >= th[x].retries
          /\ Finish(x, IF th[x].timedOut THEN "user" ELSE "error")
       \/ Finish(x, "cancelled")
    /\ Local

-----------------------------------------------------------------------------
\* Close takes initializedMutex, cancels the refresh loop and waits for it,
\* and then closes the pool and waits for its background work.
CloseBegin ==
    /\ closing = "open"
    /\ loopOn' = FALSE
    /\ closing' = IF initialized THEN "loop" ELSE "done"
    /\ UNCHANGED <<poolVars, enclaveVars, registry, changes, limits, capConfig,
                   gen, secretsCache, enclaves, initialized, calls, th>>

CloseLoop ==
    /\ closing = "loop"
    /\ th[Loop].pc = "idle"
    /\ closing' = "pool"
    /\ CancelRefresh
    /\ UNCHANGED <<enclaveVars, registry, changes, limits, capConfig, gen,
                   secretsCache, enclaves, initialized, loopOn, calls, th>>

CloseReturns ==
    /\ closing = "pool"
    /\ refreshing = {}
    /\ closing' = "done"
    /\ UNCHANGED <<poolVars, enclaveVars, registry, changes, limits, capConfig,
                   gen, secretsCache, enclaves, initialized, loopOn, calls,
                   th>>

-----------------------------------------------------------------------------
\* External: the registry, the settings, the VaultDON, and the expiry of
\* cached shares.
RegistryChanges ==
    /\ changes < MaxLists
    /\ changes' = changes + 1
    /\ registry' \in Lists \ {registry}
    /\ UNCHANGED <<poolVars, enclaveVars, limits, capConfig, gen, secretsCache,
                   enclaves, initialized, loopOn, closing, calls, th>>

LimitsChange ==
    /\ limits' \in Limits \ {limits}
    /\ UNCHANGED <<poolVars, enclaveVars, registry, changes, capConfig, gen,
                   secretsCache, enclaves, initialized, loopOn, closing, calls,
                   th>>

Reshare ==
    /\ gen < MaxGen
    /\ gen' = gen + 1
    /\ UNCHANGED <<poolVars, enclaveVars, registry, changes, limits, capConfig,
                   secretsCache, enclaves, initialized, loopOn, closing, calls,
                   th>>

ShareExpires ==
    /\ \E c \in secretsCache : secretsCache' = secretsCache \ {c}
    /\ UNCHANGED <<poolVars, enclaveVars, registry, changes, limits, capConfig,
                   gen, enclaves, initialized, loopOn, closing, calls, th>>

EnclaveStep ==
    /\ \E e \in Enclave : Upgrade(e) \/ RotateKey(e) \/ Outage(e) \/ Return(e)
    /\ UNCHANGED <<poolVars, execVars>>

PoolStep ==
    /\ \/ initialized /\ RefreshTick
       \/ \E g \in refreshing : RefreshFetch(g) \/ RefreshStore(g)
    /\ UNCHANGED <<enclaveVars, execVars>>

ThreadStep(t) ==
    \/ Attempt(t) \/ RefreshFails(t) \/ CheckNodes(t) \/ Commit(t)
    \/ Publish(t) \/ Select(t)

ExecStep(x) ==
    \/ FetchKey(x) \/ CacheKey(x) \/ WrongSigners(x) \/ SharesAtHand(x)
    \/ AskVault(x) \/ VaultAnswers(x) \/ VaultFails(x) \/ CacheShare(x)
    \/ SignFails(x) \/ Send(x) \/ Succeed(x) \/ ExecuteFails(x) \/ Backoff(x)

Next ==
    \/ \E t \in Thread : ThreadStep(t)
    \/ \E x \in Exec : Begin(x) \/ ExecStep(x)
    \/ CloseBegin \/ CloseLoop \/ CloseReturns
    \/ RegistryChanges \/ LimitsChange \/ Reshare \/ ShareExpires
    \/ EnclaveStep \/ PoolStep

\* The goroutines of the pool for enclave e, by what started them.
Refresher(by, e) ==
    /\ \E g \in refreshing : /\ g.by = by /\ g.entry.id = e
                             /\ RefreshFetch(g) \/ RefreshStore(g)
    /\ UNCHANGED <<enclaveVars, execVars>>

Ticker == initialized /\ RefreshTick /\ UNCHANGED <<enclaveVars, execVars>>

\* Every goroutine is scheduled, the tickers go on ticking, and the registry
\* does not fail for ever.
Fairness ==
    /\ \A x \in Exec : WF_vars(ThreadStep(x) \/ ExecStep(x))
    /\ WF_vars(ThreadStep(Loop))
    /\ SF_vars(CheckNodes(Loop))
    /\ WF_vars(Ticker)
    /\ \A by \in {"ticker", "update"}, e \in Enclave : WF_vars(Refresher(by, e))
    /\ WF_vars(CloseLoop) /\ WF_vars(CloseReturns)

Spec == Init /\ [][Next]_vars

LiveSpec == Spec /\ Fairness

-----------------------------------------------------------------------------
TypeOK ==
    /\ nodes \in Lists \cup {<<>>} /\ enclaves \in Lists \cup {<<>>}
    /\ registry \in Lists
    /\ keyCache \in [Enclave -> Key \cup {None}]
    /\ dead \subseteq Enclave /\ up \subseteq Enclave
    /\ refreshing \subseteq [by : {"ticker", "update"}, entry : Entry,
                             key : Key \cup {None}]
    /\ secretsCache \subseteq Share
    /\ closing \in {"open", "loop", "pool", "done"}
    /\ limits \in Limits /\ capConfig \in Limits
    /\ \A t \in Thread :
         /\ th[t].list \in Lists \cup {<<>>}
         /\ th[t].entry \in Entry \cup {None} /\ th[t].key \in Key \cup {None}
         /\ th[t].shares \subseteq Share /\ th[t].mpk \in 0 .. MaxGen
         /\ th[t].tries \in 0 .. th[t].retries
         /\ th[t].ref \in 0 .. MaxRetries
         /\ th[t].refs \subseteq 0 .. MaxRetries

\* Execute never asks the VaultDON twice under one reference: a retry that may
\* repeat a request which was sent gets a reference of its own.
FreshVaultReference ==
    \A x \in Exec : Cardinality(th[x].refs) = th[x].reqs

\* A compute request carries one share set for each secret, all encrypted to
\* the ephemeral key it names, and all of the generation whose master key it
\* names, whatever was cached before and after a reshare.
RequestCoherent ==
    \A x \in Exec : th[x].pc \in {"send", "sent"} =>
        /\ \A s \in th[x].secrets : \E c \in th[x].shares : c.secret = s
        /\ \A c \in th[x].shares :
             /\ c.key = th[x].key
             /\ \A d \in th[x].shares : c.secret = d.secret => c = d
             /\ th[x].mpk # NoKey => c.gen = th[x].mpk

\* While the refresh loop runs, the registry stays as it is and its enclaves
\* answer, the pool and the executor come to use its list, and no enclave of
\* it stays marked dead, whatever late updates and refreshes did before.
PoolHeals ==
    <>[](initialized /\ loopOn /\ ValidNodes(registry))
      => <>[](/\ nodes = registry /\ enclaves = registry
              /\ \A n \in Entries(registry) : n.id \notin dead)

\* After Close of an initialized executor all background work ends for good,
\* also work that an execution started while Close waited or later.
CloseQuiesces ==
    (closing = "pool") ~> [](refreshing = {} /\ th[Loop].pc = "idle")

=============================================================================
