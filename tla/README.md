# Confidential compute: TLA+ specifications and proofs

This directory specifies the parts of the confidential-compute service that are
concurrent, time-dependent or distributed: the host that collects signed
requests into batches, the enclave that executes them, its configuration and
keys, the DON node's executor and client pool, the workflows app inside the
enclave with its relay calls, and the TTL cache underneath. TLC checks small
instances; TLAPS proves all of the safety properties for every instance. Line
numbers in comments refer to `src/`.

## The system

DON nodes each sign the same `ComputeRequest` and POST it to an untrusted
**host** (`enclave/nitro/host/host.go`). The host batches identical requests by
hash; when a threshold of distinct signers is reached it forwards the batch over
vsock to the **enclave** (`enclave/server/server.go`), which verifies the
signatures against its own config, refuses duplicates and replays, recovers the
secrets with an ephemeral key of its **keychain**
(`enclave/services/keychain`), runs the app and attests the response. The
enclave's **config** (signers, F, T) is posted once by the **config tracker**
(`enclave/config-tracker`) and later changed by votes of its signers; the host
keeps a copy. All of them keep state in `util.Cache`, a **TTL cache**. On the
node side an **executor** (`capabilities/framework`) obtains encrypted shares
from the VaultDON, proposes config changes, and uses the **client pool**
(`enclave-client`) to pick enclaves and cache their keys. Inside the enclave the
**workflows app** (`enclave/apps/confidential-workflows`) takes settings from
the host, fetches binaries, runs WASM under execution and compile limits, and
calls a **relay DON** through gateways, accepting what F+1 members signed.

| part | state | operations | what makes it hard |
|---|---|---|---|
| host batching | pending batches, response channels, response cache, config copy, one timer per batch | POST /requests, job completion, timeout, shutdown, expiry | timer against quorum, config read before the lock, timers keyed by hash |
| enclave execution | in-progress and executed caches, config, keys | POST /requests | one lock per cache access, expiry, restart |
| enclave config | config, pending votes with TTL | POST and PATCH /config | votes that outlive a config, TTL restarts |
| config propagation | registry membership, rounds of tracker and executors, baselines, the host's copy | poll, vote, relay, adopt, recover | every round is read, read, act; answers overtake each other; restarts |
| keychain and key delivery | key pairs, request-ID map, the pool's cached key | GetKeyPairForRequest, rotation, sweep, GetPublicKeys, refresh | several caches, each locked alone; TTLs reported in full |
| client pool, executor | node list, key cache, liveness, secrets cache, limits | Execute with retries, UpdateNodes, refresh, Close | check, network call, commit |
| workflows app | settings, slots, compile semaphores, binary LRU, dispatcher | Execute, InjectSettings, OnConfigUpdate | reinjection during executions |
| relay calls | call in flight, gateway cursor, relay memo | GetSecrets, CallCapability | faulty members, partial bundles, retries, memoized answers |
| TTL cache | items, key list, collector | Set, GetOrSet, Delete, Flush, Stop, GC | two copies of the key set, a loop that edits its list |

`PROJECT.json` lists every component, the source lines behind every definition,
and the hazards with the properties that watch them.

## Modules

| module | models | proofs |
|---|---|---|
| `HostBatch` | `handleExecute`, `processBatch`, `completeBatch`, `failBatchIfNotProcessed`, `handleQuorumTimeout` of the host | `HostBatchProofs` |
| `EnclaveExecute` | `handleExecute` of the enclave, key and replay expiry, restart | `EnclaveExecuteProofs` |
| `HostEnclave` | the two composed: a host job is one enclave handler | `HostEnclaveProofs` |
| `ConfigVotes` | `handleSetConfig`, `handleUpdateConfig`, vote TTL | `ConfigSyncProofs` |
| `ConfigSync` | `ConfigVotes` driven by the tracker, the executors and the host | `ConfigSyncProofs` |
| `Keychain` | `GetKeyPairForRequest`, rotation, sweep | `KeyDeliveryProofs` |
| `KeyDelivery` | `Keychain` behind `/publicKeys` and the pool's key cache | `KeyDeliveryProofs` |
| `ClientPool` | the steps of the pool and its selector, and the enclaves around it | `ExecutorProofs` |
| `Executor` | `RealExecutor` over `ClientPool` | `ExecutorProofs` |
| `BinaryCache` | the byte-bounded LRU of WASM binaries | `WorkflowAppProofs` |
| `Relay` | `GetSecrets`, `CallCapability`, gateway client, quorum selection | `WorkflowAppProofs` |
| `WorkflowApp` | `Execute`, `InjectSettings`, `OnConfigUpdate`, over `BinaryCache` and `Relay` | `WorkflowAppProofs` |
| `TTLMap` / `TTLCache` | what `util.Cache` promises / how it works | `TTLCacheProofs` |

`MC*` modules give the constants their values. An operator whose comment says
*A variation* is not part of a specification: it is a plausible bug in the
definition after it (a dropped guard, an off-by-one, a last writer that wins).
Each checked property is violated when the matching variation takes the
definition's place, so no property holds merely by the shape of a model.

**HostBatch.** A call is a `handleExecute` goroutine: `idle`, `arrived` (config
copied, lock not yet taken), `waiting`, then served, failed, rejected or gone.
`ch` is its response channel of capacity one. A batch is named by the call that
created it and has one timer. `pending` is `pendingRequestsCache`. Each critical
section of `processRequestMutex` is one action, and `Admit` is the whole of it:
find or create, add, subscribe, dispatch. `jobs` keeps finished jobs
(`open = FALSE`) so that a second dispatch can be seen. A batch expires from the
pending cache only after its timer has ended, since `main` insists on
quorumTimeout < TTL (942-946). `SlowEnclave` says whether an execution may
outlive that TTL.

**EnclaveExecute.** Every lock in the handler covers one cache access, so the
handler is a sequence of stages with other handlers in between. A hash covers the
ephemeral public key, so a hash has one key, born before its requests. A restart
loses everything. `answered` and `replay` are history.

**HostEnclave.** `Deliver`, `Reply` and `BreakConnection` connect a host job to
an enclave handler; an answer may leave before the handler's deferred `Delete`
has run. The host may adopt any config the enclave has reported, in any order.
The clock stands still here; in the run F is constant; with `VsockFails = FALSE` a
connection breaks only when the enclave is through with the request (or has
restarted). If connections could break while a handler runs, the host would
forget the batch, a second batch of the same hash could meet the first handler,
and the lookup race of `ExecutedOnce` would reappear behind the host.

**ConfigVotes.** Both handlers run under `configLock`: one action each. A config
stands for its hash. The attestation of the response comes after the change; when
it fails, the change stays and the answer is lost, which is an action of
`ConfigSync`. A restart of the enclave loses the config and the votes.

**ConfigSync.** A round of a client reads the registry (`ReadRegistry`), has the
enclave report its config (`EnclaveReports`), has the host relay the report
(`HostRelays`, where a restarted host recovers its copy), and acts on it: the
tracker posts, an executor votes or records its baseline. `answers` are the
config changes the host has not adopted yet. Two of them may be adopted in
either order, and `overtaken` remembers that the later one came first. One may be
lost (`AnswerLost`: the enclave cannot attest it and answers 500, or the host
cannot read it), and `missed` remembers that the host has not seen the config in
force; a copy that is there is never recovered, so it stays stale until the next
change or a restart of the host. Rounds fail; the host, the enclave and the
executors restart; `Faulty` signers vote for anything; votes expire. The enclave
of `ConfigVotes` does the rest; that every step here is one of its steps or leaves
it alone is theorem `SyncRefinesVotes`. One enclave of the pool is modelled (with
several, `GetConfigs` fails while any of them is unreachable, and a round with
it).

The run `config_sync` takes two things for granted (`Calm`), which the module and
the theorems do not. The membership changes when no round of an executor is under
way and no vote of one is pending: a round takes seconds, a vote lives ten
minutes. Otherwise a vote that was read from the old registry could complete a
quorum for the old membership after the new one was applied; executors that have
recorded the new membership as their baseline do not vote again
(`executor.go:1061`), so nothing would repair that before the next change of the
registry or a restart of executors. And the enclave does not restart during a
round of the tracker that read a membership the registry no longer has: the
tracker would post the old one to the empty enclave, and executors with a recorded
baseline would leave it there.

**Keychain, KeyDelivery.** A call of `GetKeyPairForRequest` is looked up, picked,
pinned and resolved in separate steps. Rotation and the sweep are prompt, a call
ends within `CallDelay`. `KeyDelivery` adds the client: an answer is used and
cached (`Deliver`) or lost, in which case `GetPublicKeys` falls back to the
cached key (`FallBack`); the pool's refresh stores answers too, in any order
with the others. The enclave reports the whole lifetime of a key and not what is
left, so what keeps a cached key usable is the cap of `calculateEffectiveTTL`. A
restart of the enclave, which drops all keys and mappings, is not in these two
modules: their properties are about one life of the enclave (`EnclaveExecute` and
`ClientPool` have restarts).

**ClientPool, Executor.** `th` holds a record for every goroutine in `Execute` and
for the refresh loop; a step ends where the code has called an enclave, the
registry or the VaultDON, or leaves a lock. An attempt is `Attempt` (reference,
registry), `CheckNodes` / `Commit` / `Publish` (UpdateNodes and
EnsureFreshEnclaves), `Select`, `FetchKey`, `CacheKey`, then the shares
(`SharesAtHand` or `AskVault`, `VaultAnswers`, `CacheShare`), then `Send` and its
outcome; `Backoff` decides about another attempt. `refreshing` is the set of
`refreshSingleKey` goroutines, by what started them. Enclaves upgrade, restart
with new keys, become unreachable and come back; the registry and the limits
change; the VaultDON reshares (`gen`). Whether the enclave's signers match the
baseline is a free choice here (`WrongSigners`), and `ConfigSync`'s subject.

**WorkflowApp, BinaryCache.** An execution takes an execution slot, validates,
takes a snapshot of fetcher and dispatcher, fetches, checks the requirements,
loads the timeout, loads the compile semaphore, acquires a slot of it, compiles,
runs and returns; the deferred release is a step of its own. `gates` is every
compile semaphore ever built: a replaced one keeps its holders and waiters, and
those that have loaded it and not acquired it yet. An injection is six steps
(cache bound, timeout, compile semaphore, storage fetcher, closing the old one,
dispatcher), any of which another injection, an update or an execution may come
between. A closed fetcher fails the call that resolves the URL of a binary
(`resolveURL`); the download after it has a connection of its own. The host's
own injector posts again what was refused or whose answer it did not get.

**Relay.** A call takes the dispatcher's config once, sends to the gateways in
turn, retries within its window, and accepts a result with F+1 distinct signers
of that config (`selectQuorumResult`). The relay DON is the environment: correct
members sign the true result for the parameters they were asked about and
memoize it by callback ID; faulty ones sign anything, and a gateway forwards any
part of it; members may have answered and memoized although the gateway reports
an error. The payload
of an accepted capability result may not decode (`Verdicts`). Secrets are ordered
as requested (`orderRelaySecrets`), and each may still fail to decrypt.

**TTLCache.** Every operation is one step under the lock, the collector's loop
one step per element. `ImplementsMap` is the refinement: the entries `Get` would
return form a `TTLMap`; theorem `CacheIsMap` proves it.

## What TLC checks

| run | instance | result |
|---|---|---|
| `host_batch` | 3 calls, 1 hash, 3 signers, two configs with F = 1 and different members, slow enclave | `ServedImpliesQuorum`, `DispatchOnce`, `TimeoutMeansNoQuorum`, `NoDroppedNotification`, `ProcessingNotCancelled` hold |
| `host_live` | 3 calls, one config, executions within the TTL, fairness | `NoOrphanedCall`, `EveryCallAnswered` hold |
| `enclave_execute` | 3 handlers, 1 hash, 2 configs, TTLs 1, time to 3 | `NoReplay`, `NoLeakedMarker` hold |
| `host_enclave` | 2 calls, F = 0, restarts, fairness | `AnsweredOnce`, `ServedWasExecuted`, `EveryCallAnswered` hold |
| `config_sync` | 4 nodes, one of three members replaced, F = 1, 2 executors, tracker, 2 faults of any kind (failed rounds, lost answers, restarts of host, enclave and executors, votes of the leaving and the joining member), votes that expire, fairness | `HostAgrees`, `ReconfigAuthorized`, `Converges` hold |
| `key_delivery` | 2 callers, 2 IDs, rotation 2, mapping TTL 1, cached TTL 2, key TTL 7, time to 8 | `SameKeyWhilePinned`, `PinnedKeyAlive`, `AlwaysAKey`, `LiveMappingKept`, `CachedKeyAlive` hold |
| `node` | an execution and the refresh loop, 2 enclaves, 2 images, 2 lists, 2 secrets, 2 generations, fairness | `FreshVaultReference`, `RequestCoherent`, `PoolHeals`, `CloseQuiesces` hold |
| `app` | 3 executions, 2 binaries, 2 injections, 2 configs, 3 relay nodes of which one is faulty, fairness; beside it the cache with 3 keys, cap 2, divisor 2 | `SlotsExact`, `LRUExact`, `DispatcherCurrent`, `RelayHonest`, `RelayAvailable`, `AdmittedEnds`, `KeyListExact`, `Bounded`, `NothingMissed`, `ImplementsMap` hold |
| `early_timeout` | as `host_batch`, executions within the TTL | `NoEarlyTimeout` violated |
| `dispatch_growing_f` | F grows from 1 to 2 | `DispatchOnce` violated |
| `execute_race` | 2 handlers | `ExecutedOnce` violated |
| `vote_window` | a quorum of 3 voters, TTL 1 | `QuorumWithinWindow` violated |

Each passing run but `host_live` and `host_enclave` also checks a `TypeOK`; it is
that of `ConfigVotes` in `config_sync`, of `Keychain` in `key_delivery` and of
`TTLCache` in `app`.

**Bounds.** Calls of different hashes share no state but the config, so one hash
suffices; three calls are a quorum of two and one that is late, a duplicate, or
the start of the next batch. In `host_enclave` one signature is a quorum so that
two calls can make two jobs. Clocks run past every TTL by at least one unit (the
first key of `key_delivery` expires). In `config_sync` the one membership change
meets every stage of the tracker's round, and two faults allow a lost answer and
a restart of the host, or two votes of faulty members, of which each config has
one. At the cap of 2 with
divisor 2 an overflow evicts two entries, one more than the overflow, as larger
caps do.
Deadlock is not checked where the calls of an instance run out or the clock ends.
`-require-bft-quorum` only changes the threshold; the runs use F + 1, the proofs
cover both.

**Parts.** Two MC modules split a run into parts, chosen in the initial state,
because the product of all inputs is out of reach while their sum is not. A part
adds a condition (`Allowed`) to every step. It fixes inputs, and it also leaves
out outcomes and interleavings that are not its subject, so these two runs cover
less than the modules with the same constants would:

- `MCExecutor`, `focus`: in *lists* the registry changes and an enclave upgrades,
  restarts or fails, with one request without secrets and no retry; in *close* the
  registry changes while Close runs, again with one such request; in *secrets*
  three requests with secrets and retries meet a reshare, key rotations and
  changed limits, while the registry, the refresh loop and the refreshes stand
  still. So `PoolHeals` is at stake in *lists*, `CloseQuiesces` in *close*, the
  safety properties in *secrets*. Retries during a change of the registry are
  covered by the theorems of `ExecutorProofs` for safety, and not for liveness.
- `MCWorkflowApp`, `part`: *slots*, *binaries*, *settings*, *relay* as its comment
  describes, and *ttl*, the TTL cache, which shares nothing with the app.
  Executions start in turn. In *slots* the second injection ends once it has
  replaced the semaphore, before it swaps the fetcher. *slots* and *binaries* make no relay call, have
  injections that succeed, and leave out some error codes; *binaries* ends before
  compilation; *settings* has no execution; in *relay* the first call is not
  retried and the config changes before it or after it, the second call is free.

The fairness of both runs is that of the module for the steps a part allows
(`MCFairness`). It is weaker than the module's own on these behaviours, so a
part that left an execution stuck would show up as a violation instead of
making a liveness property vacuous.

**Fairness.** A goroutine that can run runs: the critical sections, `Receive`,
the stages of handlers, rounds and executions. Time passes, so an armed timer
ends, a retry window closes, a ticker ticks. The enclave answers the host or its
connection fails. Tracker and refresh loops start a round again and again
(`SyncFairness`, `Fairness` of `Executor`). An execution of the app that was
admitted goes on, its downloads and guests have deadlines, and the window of a
relay call closes (`AppFairness`). Weak fairness suffices but for one
place: `SF(CheckNodes(Loop))` says that the registry does not fail the refresh
loop for ever. No client has to give up, nobody has to send a request or settings, no enclave
has to return and no rotation is required. `PoolHeals` concludes only for
behaviours in which the registry's enclaves answer from some time on.

The four violated properties are disagreements between a comment and the code:

- *early_timeout*: the timer goroutine fails whatever batch is pending under its
  hash. When batch 1 is completed while its timer is firing, batch 2 under the
  same hash can fail before its own timeout. `NoEarlyTimeout` puts the comment
  at 894 (it "fails the batch") as: the timer was that batch's own.
- *dispatch_growing_f*: the threshold comes from the F each call copied, so a
  batch that spans a reconfiguration can hit two thresholds exactly.
- *execute_race*: lookup and insertion of the in-progress marker are two critical
  sections. Behind one host `AnsweredOnce` holds, since the host has one job per
  hash.
- *vote_window*: storing the set of voters restarts the TTL of all of them.

## What TLAPS proves

For every number of calls, nodes, hashes, keys, configs, executions, and every
TTL and bound:

- `HostBatchProofs`. Whatever the configs: `HostTypes`, `SentIsNotFailed`,
  `Notified`. The inductive invariant `BInv` ties calls, batches and the pending
  cache together (`Shape`): a waiting call is in exactly the batch it names, a
  batch in use contains its creator, every signature came with a waiting call.
  From `ConstantF` (all configs have the same F; without it `DispatchOnce` is
  false): `Dispatched`, `QuorumBeforeResponse`, `TimeoutHonest`. `JobsReached`
  says a dispatched batch has reached the threshold; a batch only grows, and
  equality is hit by a batch below the threshold, so there is no second dispatch.
  `ResponsesReached` carries the quorum to every cached response, and
  `WaitingInv` says that a batch with waiters that is not being processed is
  below every threshold, so a timeout tells the truth. From `~SlowEnclave`
  (executions end within the pending cache's TTL): `NobodyForgotten`. Its
  invariant `PInv` says that a call without an outcome waits on the batch pending
  under its hash, and that a pending batch has its timer or an open job.
- `HostEnclaveProofs`: `HostRefined` and `EnclaveRefined`, so that what is proved
  of the host and of the enclave alone holds of the two together; from the same
  invariants `ServedWasProduced`, with no assumption on connections or on F:
  every handler that responds has run under a quorum (`Handlers`), and every
  response the host holds or has served was produced (`Backed`).
  `NoSecondAnswer`, from `ConstantF` and `~VsockFails`: an open job is that of the
  pending batch of its hash (`OpenInv`) and a running handler has an open job
  (`Held`), so one handler of a hash runs at a time; one that starts after an
  answer finds the entry of `executedReqs`, or no key (`Recorded`, `Answering`).
- `EnclaveExecuteProofs`, from `KeyTTL <= ReplayTTL`: `ReplayProtection`. The
  invariant is `RecordOutlivesKey`: while the key of an answered hash is alive,
  its record exists and is not older than the key. So a replay that passes the
  replay check (record expired or lost) has a dead key, and dead keys stay dead.
  `MarkersFreed` and `EnclaveTypes` need no assumption.
- `ConfigSyncProofs`, of `ConfigVotes`: `VoteTypes`; from `~AllowReconfig`,
  `QuorumIsCurrent` and `Authorized`. The invariant: every recorded voter is a
  signer of the config in force and voted under it. Flushing on every change is
  what keeps it true. Of `ConfigSync`: `SyncRefinesVotes`, so that the theorems
  about `ConfigVotes` hold of the whole (`SyncAuthorized`); and `HostCopyAgrees`,
  whose invariant says that a report which may still restore a restarted host's
  copy is up to date unless the answer that made it stale is on its way too, or
  was lost (`ReportInv`), and that a copy which differs from the config has the
  answer on its way, lost or overtaken (`CopyInv`). Both hold for any number of
  changes, lost answers and restarts, without `Calm`.
- `KeyDeliveryProofs`, from `KeyOutlivesAnswer`
  (RotFreq + MapTTL + 2 CallDelay + MaxTTL <= KeyTTL): `SameKey`,
  `KeysLastLongEnough`, `KeyForEveryCall`, `FallbackKeyAlive`, `MappingKept`,
  `KeychainTypes` (one key per rotation period). The invariant is a
  ledger of ages: the newest key is at most one rotation old; a picked key was so
  when its call began; a mapping was made while its key was that young; a call
  that read the mapping, a refresh on its way and a cached answer each add their
  own delay. `SameInv` says what a call in flight knows of the first mapping of
  its ID.
- `ExecutorProofs`: `ReferencesFresh` (the references used are below the current
  one unless the attempt has sent its request, `RefsGood`) and `RequestsCoherent`
  (the cache has one share set for each secret and ephemeral key, with the master
  key of its own generation, `CacheInv`; a batch served from it has one master
  key, a batch just fetched one generation, `SharesGood`); `ExecutorTypes`, from
  an invariant that counts attempts and references stage by stage (`Counted`):
  the reference changes at most once per attempt, so neither exceeds the limit
  the execution started with.
- `WorkflowAppProofs`, from `AppConstants` (at most F members of a config are
  faulty): `RelayResultTrue` and `RelayServes` are two counting arguments over a
  bundle (a group with more than F signers has a correct one, which signed the
  true result; if the correct members that answered were more than F, they would
  be one such group), carried through the call by `CallInv`, and `MemoInv`, that
  a member keeps at most the answer for the parameters its callback ID stands
  for. That secrets come in the order requested is for requests without
  repetition, which are their own order (`OrderKept`). `ConfigReachesDispatcher` needs to know of an update in progress that it
  will set the dispatcher unless the injection that builds it has yet to read
  the config. `SlotsBalance` has an invariant for every semaphore ever built
  (`GateGood`): the slots taken are as many as the executions compiling under it,
  its queue is the executions waiting for it, each once, and it is full when the
  queue is not empty; an execution between loading a semaphore and leaving it
  names one that exists. Releasing hands the slot to the first in the queue, so the
  count stays while the holder changes. `CacheOfBinaries` (`LRUExact`) and
  `NoNeedlessEviction` (a binary leaves the cache only if it and the more recently
  used ones do not fit) are about the binary cache: the total size of a list is a
  recursive function, and `Induction`, taken from the well-foundedness of the
  natural numbers and stated about sets, shows that the function exists
  (`SumsExist`), is unique (`SumsUnique`) and adds up over concatenation
  (`BytesConcat`). So what an eviction subtracts is what it drops, promoting an
  entry moves no bytes, and the loop stops at the longest front that fits
  (`EvictionLoop`). Beside it stands only that every payload posted has an integer
  for its bound (`InjectInv`).
- `TTLCacheProofs`: `CacheTypes`, `CacheListExact`, `CacheBounded`,
  `CacheCollects`, from one invariant that also fixes the collector's index
  between collections; and `CacheIsMap`, the refinement of `TTLMap`, for which the
  invariant adds that the collector's time is not ahead of the clock: what it
  removes no reader could see any more.

The constants' assumptions are named in the modules that declare them
(`HostConstants`, `EnclaveConstants`, `ExecConstants`, `VoteConstants`,
`SyncConstants`, `KeychainConstants`, `PoolConstants`, `ExecutorConstants`,
`RelayConstants`, `BinaryConstants`, `AppConstants`, and `CacheConstants` of `TTLCache` and of
`KeyDelivery`): counts, durations and bounds are natural numbers, markers such as
`None` are none of the values they stand in for, signers are finite, requests are
sequences. Two say
more: `KeyOutlivesAnswer`, and the bound on faulty members in `AppConstants`. TLC
evaluates all of them.

The long proof modules have a lemma `Untyped` in use from some point on, an
identity about a record. It changes how obligations reach the SMT solver, without
the type inference whose cost grows along a module, and no conclusion rests on
it; lemmas about arithmetic come before it or hide it.

Only model-checked is liveness, with everything under fairness, which is outside
the reach of the prover: `EveryCallAnswered`, `Converges`, `PoolHeals`,
`CloseQuiesces`, `AdmittedEnds`.

## Assumptions and limits

- `NoReplay` needs keys that live no longer than replay entries. The replay TTL is
  the default key expiration; a longer `--keypair-expiration` is outside it.
- The properties of keys need `KeyOutlivesAnswer`, as the defaults have (12 h, 1 h,
  two requests and 30 min against 24 h). With a shorter expiration a mapping can
  outlive its key, and a late delete can hit a newer mapping.
- `HostAgrees` and `Converges` except a host that adopted two answers in the wrong
  order, or did not get the answer that carried the config in force: it stays
  stale until the next config change or its restart. `HostAgrees` says nothing of
  the time after a restart of the enclave until it has a config again. `Converges`
  is checked for one change of the membership and under `Calm`.
- `RelayHonest` and `RelayAvailable` need at most F faulty members in every config,
  and take the 31-bit callback ID as free of collisions. The calls of the model
  belong to runs of one workflow execution. Of a request that repeats a secret
  `RelayHonest` says that every value is the one of its ID, and not where it is.
- The caps of the replay caches and of the request-key map are taken to be above
  the traffic; the effect of a cap is in `TTLCache`.
- A marker of `inProgressReqs` (24 h) outlives its handler.
- An execution that outlives the pending cache's TTL leaves its calls without an
  answer until the server's write timeout; `host_live` excludes it, `host_batch`
  includes it.
- The run `host_enclave` and theorem `NoSecondAnswer` have `VsockFails = FALSE`, see
  above; `ServedWasProduced` does not need it.
- Signatures, hashes, attestation, share aggregation and request parsing are
  abstracted to their outcomes. Logging and metrics are left out.

## Observations

Met while modelling, and not the subject of a run:

- `config_tracker.go:27-28` presents the tracker as keeping the enclave's config up
  to date; once a config is set the enclave answers its POST with 409 unless
  `-allow-reconfig` is on, and only the executors' votes change it.
- When settings replace the compile semaphore, holders of the old one and of the
  new one compile at the same time, so for a while more compilations run than
  `MaxConcurrentCompilations` (`settings.go:80`). `SlotsExact` is about each
  semaphore.
- A payload that is injected again with a zero keeps the earlier value of that
  setting, and a changed gateway URL is ignored once a dispatcher exists.
- `server.go:369` says a rejected payload leaves the app unconfigured; a payload
  that is complete but whose storage fetcher cannot be built leaves its tunables
  applied.
- An execution that holds a fetcher which an injection replaces and closes ends
  with 502 if it has not resolved its URL yet.
- A config whose answer is lost after the enclave applied it (`server.go:483-487`,
  `host.go:400-415`) leaves the host with its old copy: `maybeRecoverConfig` only
  fills an empty one.
- `orderRelaySecrets` answers a repeated secret ID once, so that the responses
  after it are not where the guest asked for them; its comment
  (`remote_dispatcher.go:486-490`) speaks of positional alignment.
- Capability calls are memoized by the relay DON under the guest's own callback ID;
  `RelayAvailable` claims less for them than for secrets.
- The comment at `executor.go:579` says the reference changes only if a request to
  the VaultDON was sent; the flag is set before the shares are looked up (615), so
  it also changes after shares were served from the cache.

## Not modelled

- The confidential-http and echo apps: one request at a time, no shared state.
- HTTP sessions of the pool (`updateSession`, `applySession`), which only pin a load
  balancer's backend, and `pubKeyAttestations`, which only saves calls to the
  attestation device.
- Reinjection of settings after an enclave restart: a TODO in the code
  (`host.go:1064`).
- Cryptography, byte transport and proxy policies, metrics and telemetry, generated
  code: pure functions or I/O, which the models replace by their outcomes.
