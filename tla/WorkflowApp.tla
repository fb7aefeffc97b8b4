----------------------------- MODULE WorkflowApp -----------------------------
(***************************************************************************)
(* The confidential-workflows app inside the enclave                       *)
(* (enclave/apps/confidential-workflows/app/app.go, limiter.go, wasm.go):  *)
(* any number of concurrent Execute calls, POSTs of settings from the      *)
(* host, and config updates.                                               *)
(*                                                                         *)
(* Execute takes an execution slot, validates, takes a snapshot of the     *)
(* storage fetcher and the dispatcher, fetches the binary, compiles it     *)
(* under a compile slot and runs the guest, which may call the relay DON.  *)
(* A step is one critical section, one atomic load or store, one blocking  *)
(* call or its outcome.  The calls a guest makes that stay in the enclave  *)
(* change no state of the app.  The server holds its config lock around    *)
(* OnConfigUpdate, so two of them never overlap; nothing serialises        *)
(* InjectSettings with them or with itself.  Settings come from the host   *)
(* (enclave/nitro/host/host.go), whose own injector posts again what was   *)
(* not accepted, or whose acceptance it did not hear of, or through the    *)
(* host from a settings service, which posts once.                         *)
(***************************************************************************)
EXTENDS BinaryCache, Relay

CONSTANTS
    BinaryOf,            \* [Execution -> Binary]
    MaxExecutions,       \* the capacity of the limiter, 0 = unbounded
    DefaultCompilations, \* the compile slots before settings arrive
    DefaultCacheBytes,   \* the cache bound before settings arrive
    Settings,            \* payloads: [complete, cacheBytes, timeout, compilations]
    Post,                \* the payloads posted
    HostPost,            \* those of the host's own injector
    MaxAttempts,         \* bound on the POSTs of one payload
    AppConfigs,          \* enclave configs: [signers, f]
    MaxUpdates           \* bound on the config updates

VARIABLES
    slots,            \* the taken slots of the execution limiter
    exec,             \* [Execution -> state of the Execute call]
    gates,            \* every compile semaphore built; the last is compileSlots
    executionTimeout, \* is it positive?
    storageFetcher,   \* the POST that built the current fetcher, or Nil
    closed,           \* the fetchers that were closed
    dispatcher,       \* the config of the dispatcher, Nil = no dispatcher
    lastConfig,       \* Nil = haveConfig is false
    inject,           \* [Post -> state of its last POST]
    update            \* the OnConfigUpdate call

settingsVars == <<executionTimeout, storageFetcher, closed, dispatcher, lastConfig,
                  inject, update>>
execVars == <<slots, exec, gates>>
appVars == <<execVars, settingsVars, cacheVars, relayVars>>

ZeroConfig == [signers |-> {}, f |-> 0]

\* At most F members of a configured relay DON are faulty.
ASSUME AppConstants ==
    /\ MaxExecutions \in Nat /\ DefaultCompilations \in Nat
    /\ BinaryOf \in [Execution -> Binary] /\ DefaultCacheBytes \in Nat
    /\ \A s \in Settings : s.compilations \in Int /\ s.cacheBytes \in Int
    /\ Nil \notin AppConfigs \cup {ZeroConfig}
    /\ \A c \in AppConfigs : /\ c.signers \subseteq RelayNode /\ c.f \in Nat
                            /\ Cardinality(c.signers \cap FaultyRelay) <= c.f

NewGate(n) == [size |-> n, cur |-> 0, queue |-> <<>>]

AppInit ==
    /\ slots = 0
    /\ exec = [x \in Execution |->
          [pc |-> "idle", sf |-> Nil, remote |-> FALSE, gate |-> 0, timed |-> FALSE,
           code |-> 0]]
    /\ gates = <<NewGate(DefaultCompilations)>>
    /\ executionTimeout = FALSE
    /\ storageFetcher = Nil
    /\ closed = {}
    /\ dispatcher = Nil
    /\ lastConfig = Nil
    /\ inject = [i \in Post |->
          [pc |-> "idle", settings |-> Nil, old |-> Nil, attempt |-> 1]]
    /\ update = [pc |-> "idle", config |-> Nil, set |-> FALSE, count |-> 0]
    /\ lru = <<>>
    /\ cacheBytes = 0
    /\ maxCacheBytes = DefaultCacheBytes
    /\ RelayInit

\* Execute returns; its deferred release is still to run.
Returning(x, code) == exec' = [exec EXCEPT ![x].pc = "returning", ![x].code = code]

Goes(x, pc) == exec' = [exec EXCEPT ![x].pc = pc]

-----------------------------------------------------------------------------
\* tryAcquire: a free slot, or rejection at once.
Admit(x) ==
    /\ exec[x].pc = "idle"
    /\ IF MaxExecutions = 0 \/ slots < MaxExecutions
       THEN /\ slots' = IF MaxExecutions = 0 THEN slots ELSE slots + 1
            /\ Goes(x, "checking")
       ELSE /\ exec' = [exec EXCEPT ![x].pc = "ended", ![x].code = 429]
            /\ UNCHANGED slots
    /\ UNCHANGED <<gates, settingsVars, cacheVars, relayVars>>

\* The app ID, the decoding and the required fields.
Validate(x) ==
    /\ exec[x].pc = "checking"
    /\ Goes(x, "grace") \/ Returning(x, 400)
    /\ UNCHANGED <<slots, gates, settingsVars, cacheVars, relayVars>>

\* After the grace period: both pointers are read under mu; without a fetcher
\* Fetch fails even if the binary is cached.
Snapshot(x) ==
    /\ exec[x].pc = "grace"
    /\ IF storageFetcher = Nil
       THEN Returning(x, 502)
       ELSE exec' = [exec EXCEPT ![x].pc = "fetching", ![x].sf = storageFetcher,
                                 ![x].remote = (dispatcher # Nil)]
    /\ UNCHANGED <<slots, gates, settingsVars, cacheVars, relayVars>>

\* A fetcher that was closed has no connection to the storage service any more,
\* which FetchBinary asks for the URL of the binary first.
resolveURL(sf) == sf \notin closed

\* The cache, and on a miss the call for the URL.
FetchCached(x) ==
    /\ exec[x].pc = "fetching"
    /\ IF BinaryOf[x] \in Range(lru) THEN Goes(x, "fetched")
       ELSE IF resolveURL(exec[x].sf) THEN Goes(x, "downloading") ELSE Returning(x, 502)
    /\ cacheGet(BinaryOf[x])
    /\ UNCHANGED <<slots, gates, settingsVars, relayVars>>

\* The download has a connection of its own: closing the fetcher no longer
\* matters.
Downloaded(x) ==
    /\ exec[x].pc = "downloading"
    /\ Goes(x, "fetched")
    /\ cachePut(BinaryOf[x])
    /\ UNCHANGED <<slots, gates, settingsVars, relayVars>>

\* The storage service refuses or fails, its fetcher is closed during the call,
\* the download fails, or what came does not have the hash.
DownloadFails(x) ==
    /\ exec[x].pc = "downloading"
    /\ Returning(x, 502)
    /\ UNCHANGED <<slots, gates, settingsVars, cacheVars, relayVars>>

\* CheckRequirements, then the timeout is loaded.
CheckRequirements(x) ==
    /\ exec[x].pc = "fetched"
    /\ \/ Returning(x, 400)
       \/ exec' = [exec EXCEPT ![x].pc = "timed", ![x].timed = executionTimeout]
    /\ UNCHANGED <<slots, gates, settingsVars, cacheVars, relayVars>>

\* The compile semaphore is loaded, which may be replaced before it is acquired.
LoadCompileSlots(x) ==
    /\ exec[x].pc = "timed"
    /\ exec' = [exec EXCEPT ![x].pc = "loaded", ![x].gate = Len(gates)]
    /\ UNCHANGED <<slots, gates, settingsVars, cacheVars, relayVars>>

\* The semaphore serves its queue first come first served
\* (golang.org/x/sync/semaphore).
AcquireCompileSlot(x) ==
    /\ exec[x].pc = "loaded"
    /\ LET g == exec[x].gate
           free == gates[g].cur < gates[g].size /\ gates[g].queue = <<>>
       IN /\ Goes(x, IF free THEN "compiling" ELSE "queued")
          /\ gates' = IF free THEN [gates EXCEPT ![g].cur = @ + 1]
                      ELSE [gates EXCEPT ![g].queue = Append(@, x)]
    /\ UNCHANGED <<slots, settingsVars, cacheVars, relayVars>>

\* The semaphore after a Release, and the waiters it grants the slot to.
Granted(gate) ==
    LET free == gate.size - (gate.cur - 1)
        n == IF free < Len(gate.queue) THEN free ELSE Len(gate.queue)
    IN SubSeq(gate.queue, 1, n)
Released(gate) ==
    LET n == Len(Granted(gate))
    IN [gate EXCEPT !.cur = @ - 1 + n, !.queue = SubSeq(@, n + 1, Len(@))]

\* The execution after its compilation, with a result code of its own.
Compiled(x, outcome) ==
    [exec[x] EXCEPT !.pc = IF outcome = "ok" THEN "running" ELSE "returning",
                    !.code = CASE outcome = "ok" -> 0
                               [] outcome = "error" -> 500
                               [] outcome = "deadline" -> 504]

\* A variation: only a compilation that succeeds gives its slot back.
CompileEndsLeaky(x, outcome) ==
    /\ exec[x].pc = "compiling"
    /\ outcome = "deadline" => exec[x].timed
    /\ IF outcome = "ok"
       THEN LET g == exec[x].gate IN
            /\ gates' = [gates EXCEPT ![g] = Released(@)]
            /\ exec' = [y \in Execution |->
                  IF y = x THEN Compiled(x, outcome)
                  ELSE IF y \in Range(Granted(gates[g]))
                       THEN [exec[y] EXCEPT !.pc = "compiling"] ELSE exec[y]]
       ELSE exec' = [exec EXCEPT ![x] = Compiled(x, outcome)] /\ UNCHANGED gates
    /\ UNCHANGED <<slots, settingsVars, cacheVars, relayVars>>

\* The compilation ends and gives its slot back.  It cannot be interrupted; if
\* the timeout expired meanwhile, that decides.
CompileEnds(x, outcome) ==
    /\ exec[x].pc = "compiling"
    /\ outcome = "deadline" => exec[x].timed
    /\ LET g == exec[x].gate IN
       /\ gates' = [gates EXCEPT ![g] = Released(@)]
       /\ exec' = [y \in Execution |->
             IF y = x THEN Compiled(x, outcome)
             ELSE IF y \in Range(Granted(gates[g]))
                  THEN [exec[y] EXCEPT !.pc = "compiling"] ELSE exec[y]]
    /\ UNCHANGED <<slots, settingsVars, cacheVars, relayVars>>

\* The guest calls the relay DON, if the execution has a dispatcher, with the
\* config the dispatcher holds now.  One call per execution.
GuestCalls(x) ==
    /\ exec[x].pc = "running"
    /\ rcall[x].pc = "none"
    /\ IF exec[x].remote
       THEN \/ \E cb \in Callback, req \in Requests : GetSecrets(x, cb, req, dispatcher)
            \/ \E cb \in Callback : CallCapability(x, cb, dispatcher)
            \/ \E kind \in {"secrets", "capability"} : CallNotSent(x, kind)
       ELSE \E kind \in {"secrets", "capability"} : CallNotSent(x, kind)
    /\ UNCHANGED <<execVars, settingsVars, cacheVars, memo, cursor>>

\* The guest returns a result or traps.
GuestEnds(x) ==
    /\ exec[x].pc = "running"
    /\ ~InFlight(x)
    /\ \E code \in {200, 500} : Returning(x, code)
    /\ rcall' = [rcall EXCEPT ![x] = NoRemoteCall]
    /\ UNCHANGED <<slots, gates, settingsVars, cacheVars, memo, cursor>>

\* The epoch deadline interrupts the guest and cancels the call it is in.
GuestTimesOut(x) ==
    /\ exec[x].pc = "running"
    /\ Returning(x, 504)
    /\ rcall' = [rcall EXCEPT ![x] = NoRemoteCall]
    /\ UNCHANGED <<slots, gates, settingsVars, cacheVars, memo, cursor>>

\* A variation: the slot is given back at the end of Execute, not deferred.
ReturnOnSuccess(x) ==
    /\ exec[x].pc = "returning"
    /\ slots' = IF MaxExecutions = 0 \/ exec[x].code # 200 THEN slots ELSE slots - 1
    /\ Goes(x, "ended")
    /\ UNCHANGED <<gates, settingsVars, cacheVars, relayVars>>

\* limiter.release.
Return(x) ==
    /\ exec[x].pc = "returning"
    /\ slots' = IF MaxExecutions = 0 THEN slots ELSE slots - 1
    /\ Goes(x, "ended")
    /\ UNCHANGED <<gates, settingsVars, cacheVars, relayVars>>

-----------------------------------------------------------------------------
InjectGoes(i, pc) == inject' = [inject EXCEPT ![i].pc = pc]

\* What post i carries: a POST that is made again carries the same payload.
Payloads(i) == IF inject[i].attempt = 1 THEN Settings ELSE {inject[i].settings}

\* The host cannot reach the enclave.
InjectLost(i, s) ==
    /\ inject[i].pc = "idle"
    /\ inject' = [inject EXCEPT ![i].pc = "failed", ![i].settings = s]
    /\ UNCHANGED <<execVars, executionTimeout, storageFetcher, closed, dispatcher,
                   lastConfig, update, cacheVars, relayVars>>

\* WorkflowSettings.validate
Complete(s) == s.complete

\* A payload arrives; nothing is applied unless it is complete.
InjectSettings(i, s) ==
    /\ inject[i].pc = "idle"
    /\ inject' = [inject EXCEPT ![i].pc = IF Complete(s) THEN "tuning" ELSE "failed",
                                ![i].settings = s]
    /\ IF Complete(s) THEN SetMaxCacheBytes(s.cacheBytes) ELSE UNCHANGED cacheVars
    /\ UNCHANGED <<execVars, executionTimeout, storageFetcher, closed, dispatcher,
                   lastConfig, update, relayVars>>

\* The tunables the payload sets, one atomic store after the other.
InjectTimeout(i) ==
    /\ inject[i].pc = "tuning"
    /\ executionTimeout' = (executionTimeout \/ inject[i].settings.timeout)
    /\ InjectGoes(i, "compilations")
    /\ UNCHANGED <<execVars, storageFetcher, closed, dispatcher, lastConfig, update,
                   cacheVars, relayVars>>

\* A new semaphore replaces the old one, whose holders and waiters stay with it.
InjectCompileSlots(i) ==
    /\ inject[i].pc = "compilations"
    /\ gates' = IF inject[i].settings.compilations > 0
                THEN Append(gates, NewGate(inject[i].settings.compilations)) ELSE gates
    /\ InjectGoes(i, "storage")
    /\ UNCHANGED <<slots, exec, executionTimeout, storageFetcher, closed, dispatcher,
                   lastConfig, update, cacheVars, relayVars>>

\* A fetcher of its own for every POST, or an error: a bad key or address.
NewStorageFetcher(i) == {<<i, inject[i].attempt>>, Nil}

\* The storage fetcher is built and swapped in under mu, or cannot be built: the
\* tunables stay applied.
InjectStorage(i) ==
    /\ inject[i].pc = "storage"
    /\ \E sf \in NewStorageFetcher(i) :
          IF sf # Nil
          THEN /\ inject' = [inject EXCEPT ![i].pc = "closing", ![i].old = storageFetcher]
               /\ storageFetcher' = sf
          ELSE InjectGoes(i, "failed") /\ UNCHANGED storageFetcher
    /\ UNCHANGED <<execVars, executionTimeout, closed, dispatcher, lastConfig, update,
                   cacheVars, relayVars>>

InjectClosesOld(i) ==
    /\ inject[i].pc = "closing"
    /\ closed' = closed \cup ({inject[i].old} \ {Nil})
    /\ InjectGoes(i, "dispatcher")
    /\ UNCHANGED <<execVars, executionTimeout, storageFetcher, dispatcher, lastConfig,
                   update, cacheVars, relayVars>>

\* A variation: the config that arrived earlier is not applied.
InjectDispatcherUnconfigured(i) ==
    /\ inject[i].pc = "dispatcher"
    /\ \/ /\ dispatcher' = IF dispatcher = Nil THEN ZeroConfig ELSE dispatcher
          /\ InjectGoes(i, "done")
       \/ /\ dispatcher = Nil
          /\ InjectGoes(i, "failed")
          /\ UNCHANGED dispatcher
    /\ UNCHANGED <<execVars, executionTimeout, storageFetcher, closed, lastConfig, update,
                   cacheVars, relayVars>>

\* Under mu: the first injection builds the dispatcher, with the config that
\* may have arrived before.
InjectDispatcher(i) ==
    /\ inject[i].pc = "dispatcher"
    /\ \/ /\ dispatcher' = IF dispatcher # Nil THEN dispatcher
                           ELSE IF lastConfig = Nil THEN ZeroConfig ELSE lastConfig
          /\ InjectGoes(i, "done")
       \/ /\ dispatcher = Nil
          /\ InjectGoes(i, "failed")
          /\ UNCHANGED dispatcher
    /\ UNCHANGED <<execVars, executionTimeout, storageFetcher, closed, lastConfig, update,
                   cacheVars, relayVars>>

\* The answer to the POST that was accepted does not reach the host.
InjectAnswerLost(i) ==
    /\ inject[i].pc = "done"
    /\ InjectGoes(i, "failed")
    /\ UNCHANGED <<execVars, executionTimeout, storageFetcher, closed, dispatcher,
                   lastConfig, update, cacheVars, relayVars>>

\* The host's injector posts its payload again after a while.
InjectAgain(i) ==
    /\ i \in HostPost
    /\ inject[i].pc = "failed"
    /\ inject[i].attempt < MaxAttempts
    /\ inject' = [inject EXCEPT ![i].pc = "idle", ![i].old = Nil,
                                ![i].attempt = @ + 1]
    /\ UNCHANGED <<execVars, executionTimeout, storageFetcher, closed, dispatcher,
                   lastConfig, update, cacheVars, relayVars>>

\* The config is stored and the dispatcher read under mu.
OnConfigUpdate(c) ==
    /\ update.pc = "idle"
    /\ update.count < MaxUpdates
    /\ lastConfig' = c
    /\ update' = [pc |-> "setting", config |-> c, set |-> (dispatcher # Nil),
                  count |-> update.count + 1]
    /\ UNCHANGED <<execVars, executionTimeout, storageFetcher, closed, dispatcher, inject,
                   cacheVars, relayVars>>

\* SetConfig on the dispatcher that was read.
SetConfig ==
    /\ update.pc = "setting"
    /\ dispatcher' = IF update.set THEN update.config ELSE dispatcher
    /\ update' = [update EXCEPT !.pc = "idle"]
    /\ UNCHANGED <<execVars, executionTimeout, storageFetcher, closed, lastConfig, inject,
                   cacheVars, relayVars>>

CallStep(x) == RelayStep(x) /\ UNCHANGED <<execVars, settingsVars, cacheVars>>

ExecStep(x) ==
    \/ Admit(x)
    \/ Validate(x)
    \/ Snapshot(x)
    \/ FetchCached(x)
    \/ Downloaded(x)
    \/ DownloadFails(x)
    \/ CheckRequirements(x)
    \/ LoadCompileSlots(x)
    \/ AcquireCompileSlot(x)
    \/ \E outcome \in {"ok", "error", "deadline"} : CompileEnds(x, outcome)
    \/ GuestCalls(x)
    \/ GuestEnds(x)
    \/ GuestTimesOut(x)
    \/ Return(x)

InjectStep(i) ==
    \/ \E s \in Payloads(i) : InjectLost(i, s) \/ InjectSettings(i, s)
    \/ InjectTimeout(i)
    \/ InjectCompileSlots(i)
    \/ InjectStorage(i)
    \/ InjectClosesOld(i)
    \/ InjectDispatcher(i)
    \/ InjectAnswerLost(i)
    \/ InjectAgain(i)

UpdateStep == SetConfig \/ \E c \in AppConfigs : OnConfigUpdate(c)

AppNext ==
    \/ \E x \in Execution : ExecStep(x)
    \/ \E x \in Execution : CallStep(x)
    \/ \E i \in Post : InjectStep(i)
    \/ UpdateStep

AppSpec == AppInit /\ [][AppNext]_appVars

\* Every goroutine that can run does: the sleep ends, a download and a guest
\* have their deadlines, a compilation terminates, the retry window of a call
\* closes and an accepted result is decoded.  Nobody has to send a request.
Proceeds(x) == exec[x].pc # "idle" /\ ExecStep(x)

CallEnds(x) ==
    (WindowCloses(x) \/ DecodeSecrets(x)) /\ UNCHANGED <<execVars, settingsVars, cacheVars>>

AppFairness ==
    \A x \in Execution : WF_appVars(Proceeds(x)) /\ WF_appVars(CallEnds(x))

-----------------------------------------------------------------------------
Admitted == {"checking", "grace", "fetching", "downloading", "fetched", "timed",
             "loaded", "queued", "compiling", "running", "returning"}

\* limiter.go:35-36 and wasm.go:32-33: the taken execution slots are exactly the
\* executions in progress; the taken compile slots of each semaphore, the
\* replaced ones included, are exactly the compilations under it; neither
\* exceeds its capacity, and nobody queues for a compile slot that is free.
SlotsExact ==
    /\ MaxExecutions > 0 =>
          /\ slots = Cardinality({x \in Execution : exec[x].pc \in Admitted})
          /\ slots <= MaxExecutions
    /\ \A g \in DOMAIN gates :
          LET At(pc) == {x \in Execution : exec[x].pc = pc /\ exec[x].gate = g} IN
          /\ gates[g].cur = Cardinality(At("compiling"))
          /\ gates[g].cur <= gates[g].size
          /\ Range(gates[g].queue) = At("queued")
          /\ gates[g].queue # <<>> => gates[g].cur = gates[g].size

\* app.go:257-260: whatever the order in which config updates and settings
\* arrive and interleave, a dispatcher that exists holds the last config once
\* the update has returned.
DispatcherCurrent ==
    update.pc = "idle" /\ dispatcher # Nil /\ lastConfig # Nil =>
        dispatcher = lastConfig

\* app.go:331 and wasm.go:53-56: an execution that was admitted ends, whoever
\* it queues behind and whichever settings arrive meanwhile.
AdmittedEnds ==
    \A x \in Execution : exec[x].pc \in Admitted ~> exec[x].pc = "ended"
=============================================================================
