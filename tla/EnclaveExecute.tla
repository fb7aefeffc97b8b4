--------------------------- MODULE EnclaveExecute ----------------------------
(***************************************************************************)
(* The execution path of the enclave server: handleExecute in              *)
(* enclave/server/server.go, with the two caches that guard it             *)
(* (inProgressReqs, executedReqs), the ephemeral keys that a request is    *)
(* encrypted to (keychain), and restarts of the enclave, which lose all of *)
(* it.                                                                     *)
(*                                                                         *)
(* Every lock of the handler protects one cache access, so a handler goes  *)
(* through these steps, and other handlers run between any two of them:    *)
(*                                                                         *)
(*   idle -> verified -> unclaimed -> claimed -> fresh -> keyed -> ran     *)
(*        -> recorded -> done        (an error goes to failed -> done)     *)
(*                                                                         *)
(* A request hash covers the ephemeral public key of the request, so each  *)
(* hash has one key, created at the time born[h], before its requests. The *)
(* clock and the two TTLs are modelled; the marker of a handler in         *)
(* inProgressReqs lives 24 hours and is taken to outlive the handler.  The *)
(* cap on the entries of the caches is the subject of TTLCache.            *)
(***************************************************************************)
EXTENDS Integers, FiniteSets

CONSTANTS
    Req,        \* the calls of handleExecute
    Hash,       \* request hashes
    Signer,     \* signer public keys
    Configs,    \* the configs the enclave may hold
    KeyTTL,     \* keychain expiration
    ReplayTTL,  \* TTL of executedReqs
    MaxTime,    \* bound on the clock
    Never       \* "no time"

ASSUME ExecConstants ==
    /\ IsFiniteSet(Signer)
    /\ Hash # {}
    /\ Configs \subseteq [signers : SUBSET Signer, f : Nat, t : Nat]
    /\ KeyTTL \in Nat
    /\ ReplayTTL \in Nat
    /\ MaxTime \in Nat
    /\ Never \notin Nat

VARIABLES
    now,         \* the clock
    config,      \* enclaveServer.config
    born,        \* creation time of the key of each hash; Never: lost
    inProgress,  \* inProgressReqs
    executed,    \* executedReqs: the time of the entry of each hash, or Never
    req,         \* the handlers
    answered     \* history: hashes for which a response was produced

vars == <<now, config, born, inProgress, executed, req, answered>>

Time == 0 .. MaxTime

ZeroConfig == [signers |-> {}, f |-> 0, t |-> 0]

\* The stages of a handler that has put its marker in inProgressReqs.
Claimed == {"claimed", "fresh", "keyed", "ran", "recorded", "failed"}

\* cfg: the config the handler copied.  replay (history): the hash, if it had
\* already been answered when the handler started.  ran: the handler called
\* app.Execute.  out: what the caller gets.
ReqState ==
    [pc     : {"idle", "verified", "unclaimed", "done"} \cup Claimed,
     hash   : Hash,
     sigs   : SUBSET Signer,
     cfg    : Configs \cup {ZeroConfig},
     replay : SUBSET Hash,
     ran    : BOOLEAN,
     out    : {"none", "ok", "bad request", "conflict", "error", "lost"}]

NoReq ==
    [pc |-> "idle", hash |-> CHOOSE h \in Hash : TRUE, sigs |-> {},
     cfg |-> ZeroConfig, replay |-> {}, ran |-> FALSE, out |-> "none"]

Init ==
    /\ now = 0
    /\ config = ZeroConfig
    /\ born = [h \in Hash |-> Never]
    /\ inProgress = {}
    /\ executed = [h \in Hash |-> Never]
    /\ req = [r \in Req |-> NoReq]
    /\ answered = {}

-----------------------------------------------------------------------------
\* Cache.Get: an entry is found until its age exceeds its TTL.
KeyAlive(h) == born[h] # Never /\ now - born[h] <= KeyTTL

\* A variation: the entry is gone one unit early.
ExecutedGetEarly(h) == executed[h] # Never /\ now - executed[h] < ReplayTTL

ExecutedGet(h) == executed[h] # Never /\ now - executed[h] <= ReplayTTL

\* The handler proceeds from one stage to the next ...
Goto(r, from, to) ==
    /\ req[r].pc = from
    /\ req' = [req EXCEPT ![r].pc = to]

\* A variation: no deferred Delete on the error path.
FailUnmarked(r, from, out) ==
    /\ req[r].pc = from
    /\ req' = [req EXCEPT ![r].pc = "done", ![r].out = out]

\* ... or writes an error and returns; once it holds the marker, the deferred
\* Delete has still to run.
Fail(r, from, out) ==
    /\ req[r].pc = from
    /\ req' = [req EXCEPT
           ![r].pc = IF from \in Claimed THEN "failed" ELSE "done",
           ![r].out = out]

\* The signatures are of signers of the config, and F+1 of them are distinct.
QuorumSigned(sigs, cfg) ==
    /\ sigs # {}
    /\ sigs \subseteq cfg.signers
    /\ Cardinality(sigs) >= cfg.f + 1

\* A batch with hash h and signatures sigs arrives.  The config is copied under
\* configLock, and the batch is verified against the copy.
Start(r, h, sigs) ==
    LET ok == QuorumSigned(sigs, config)
    IN  /\ req[r].pc = "idle"
        /\ req' = [req EXCEPT ![r] =
               [pc |-> IF ok THEN "verified" ELSE "done", hash |-> h,
                sigs |-> sigs, cfg |-> config, replay |-> {h} \cap answered,
                ran |-> FALSE, out |-> IF ok THEN "none" ELSE "bad request"]]
        /\ UNCHANGED <<now, config, born, inProgress, executed, answered>>

\* The lookup in inProgressReqs, under RLock ...
CheckInProgress(r) ==
    /\ IF req[r].hash \in inProgress
       THEN Fail(r, "verified", "conflict")
       ELSE Goto(r, "verified", "unclaimed")
    /\ UNCHANGED <<now, config, born, inProgress, executed, answered>>

\* ... and the insertion, under a Lock of its own.
MarkInProgress(r) ==
    /\ Goto(r, "unclaimed", "claimed")
    /\ inProgress' = inProgress \cup {req[r].hash}
    /\ UNCHANGED <<now, config, born, executed, answered>>

CheckExecuted(r) ==
    /\ IF ExecutedGet(req[r].hash)
       THEN Fail(r, "claimed", "conflict")
       ELSE Goto(r, "claimed", "fresh")
    /\ UNCHANGED <<now, config, born, inProgress, executed, answered>>

\* The checks of the request's fields, and keychain.GetKeyPair.
GetKeyPair(r) ==
    /\ IF KeyAlive(req[r].hash)
       THEN Goto(r, "fresh", "keyed") \/ Fail(r, "fresh", "bad request")
       ELSE Fail(r, "fresh", "bad request")
    /\ UNCHANGED <<now, config, born, inProgress, executed, answered>>

\* The shares of every node fail to decrypt or to combine.
AggregateFails(r) ==
    /\ Fail(r, "keyed", "error")
    /\ UNCHANGED <<now, config, born, inProgress, executed, answered>>

\* app.Execute succeeds, or fails with an error.
RunApp(r) ==
    /\ req[r].pc = "keyed"
    /\ \E ok \in BOOLEAN :
          req' = [req EXCEPT ![r].pc = IF ok THEN "ran" ELSE "failed",
                             ![r].out = IF ok THEN "none" ELSE "error",
                             ![r].ran = TRUE]
    /\ UNCHANGED <<now, config, born, inProgress, executed, answered>>

\* The response cannot be attested: the caller gets an error although the app
\* has run, and nothing is recorded.
AttestFails(r) ==
    /\ Fail(r, "ran", "error")
    /\ UNCHANGED <<now, config, born, inProgress, executed, answered>>

\* A variation: the entry stores the time it expires.
RecordDeadline(r) ==
    /\ req[r].pc = "ran"
    /\ req' = [req EXCEPT ![r].pc = "recorded", ![r].out = "ok"]
    /\ executed' = [executed EXCEPT ![req[r].hash] = now + ReplayTTL]
    /\ answered' = answered \cup {req[r].hash}
    /\ UNCHANGED <<now, config, born, inProgress>>

\* The execution is recorded; the response is written.
Record(r) ==
    /\ req[r].pc = "ran"
    /\ req' = [req EXCEPT ![r].pc = "recorded", ![r].out = "ok"]
    /\ executed' = [executed EXCEPT ![req[r].hash] = now]
    /\ answered' = answered \cup {req[r].hash}
    /\ UNCHANGED <<now, config, born, inProgress>>

\* The deferred Delete.
Release(r) ==
    /\ req[r].pc \in {"recorded", "failed"}
    /\ req' = [req EXCEPT ![r].pc = "done"]
    /\ inProgress' = inProgress \ {req[r].hash}
    /\ UNCHANGED <<now, config, born, executed, answered>>

-----------------------------------------------------------------------------
\* handleSetConfig and handleUpdateConfig, seen from here.
ChangeConfig(c) ==
    /\ config' = c
    /\ UNCHANGED <<now, born, inProgress, executed, req, answered>>

\* The keychain creates the key that requests with hash h will use.
CreateKey(h) ==
    /\ born[h] = Never
    /\ h \notin answered
    /\ \A r \in Req : req[r].pc # "idle" => req[r].hash # h
    /\ born' = [born EXCEPT ![h] = now]
    /\ UNCHANGED <<now, config, inProgress, executed, req, answered>>

\* The enclave restarts: its memory is lost, keys included, and the callers it
\* has not answered get no answer.
Restart ==
    /\ config' = ZeroConfig
    /\ born' = [h \in Hash |-> Never]
    /\ inProgress' = {}
    /\ executed' = [h \in Hash |-> Never]
    /\ req' = [r \in Req |->
                 IF req[r].pc \in {"idle", "done"} THEN req[r]
                 ELSE [req[r] EXCEPT !.pc = "done",
                                     !.out = IF @ = "none" THEN "lost" ELSE @]]
    /\ UNCHANGED <<now, answered>>

Tick ==
    /\ now < MaxTime
    /\ now' = now + 1
    /\ UNCHANGED <<config, born, inProgress, executed, req, answered>>

Handler(r) ==
    \/ CheckInProgress(r) \/ MarkInProgress(r) \/ CheckExecuted(r)
    \/ GetKeyPair(r) \/ AggregateFails(r) \/ RunApp(r) \/ AttestFails(r)
    \/ Record(r) \/ Release(r)

Next ==
    \/ \E r \in Req, h \in Hash, sigs \in SUBSET Signer : Start(r, h, sigs)
    \/ \E r \in Req : Handler(r)
    \/ \E c \in Configs : ChangeConfig(c)
    \/ \E h \in Hash : CreateKey(h)
    \/ Restart
    \/ Tick

Spec == Init /\ [][Next]_vars

-----------------------------------------------------------------------------
TypeOK ==
    /\ now \in Time
    /\ config \in Configs \cup {ZeroConfig}
    /\ born \in [Hash -> Time \cup {Never}]
    /\ inProgress \subseteq Hash
    /\ executed \in [Hash -> Time \cup {Never}]
    /\ req \in [Req -> ReqState]
    /\ answered \subseteq Hash

\* server.go:584-591: a request that was executed is not executed again.  Once
\* a response for a hash has been produced, no handler that starts later runs
\* the app for it: not while the entry of executedReqs lives, not when its TTL
\* has passed, and not after a restart has emptied the cache.
NoReplay ==
    \A r \in Req : req[r].replay # {} => ~req[r].ran

\* server.go:573-582: a hash is freed when the request is done, even if there
\* are errors, to allow retries: no marker stays without a handler that will
\* delete it.
NoLeakedMarker ==
    \A h \in inProgress :
        \E r \in Req : req[r].hash = h /\ req[r].pc \in Claimed

\* server.go:564: multiple concurrent requests with the same hash are prevented
\* from being processed: no hash is answered by two handlers.
ExecutedOnce ==
    \A r, s \in Req :
        (req[r].hash = req[s].hash /\ req[r].out = "ok" /\ req[s].out = "ok")
            => r = s
=============================================================================
