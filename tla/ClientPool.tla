------------------------------ MODULE ClientPool ------------------------------
(***************************************************************************)
(* The pool of enclaves that a DON node talks to (enclave-client/pool.go)  *)
(* with its round-robin selector: the list of enclaves and the             *)
(* measurements trusted for each, the cache of their public keys, the      *)
(* liveness marks, and the background passes that refresh both.            *)
(*                                                                         *)
(* The list, the cache and the marks have locks of their own and no lock   *)
(* is held across a call to an enclave, so a pass reads the list, calls,   *)
(* and stores what it got, with steps of others between.  The operators    *)
(* here are the steps; Executor puts them together.                        *)
(*                                                                         *)
(* The enclaves themselves are external: each runs one measured image at a *)
(* time, may be unreachable, and holds the keys it created since it        *)
(* started.  A key is named by its enclave and its number.  The times to   *)
(* live of cached keys are the subject of KeyDelivery.                     *)
(***************************************************************************)
EXTENDS Integers, Sequences, FiniteSets

CONSTANTS
    Enclave,       \* enclave IDs
    Measurement,   \* measurements of enclave images
    Lists,         \* the enclave lists the registry may hold
    MaxKey,        \* bound on the keys of an enclave
    MaxFaults,     \* bound on upgrades and outages of the enclaves
    None

Entry == [id : Enclave, trusted : SUBSET Measurement]

Key == [of : Enclave, num : 1 .. MaxKey]

ASSUME PoolConstants == Lists \subseteq Seq(Entry) /\ MaxKey \in Nat \ {0}

VARIABLES
    nodes,        \* enclavePool.nodes
    keyCache,     \* publicKeyCache: the key cached for each enclave, or None
    dead,         \* deadEnclaves
    refreshing,   \* running refreshSingleKey goroutines, each with its result
    poolClosed,   \* refreshCtx is cancelled
    meas,         \* external: the measurement of each enclave
    up,           \* external: the enclaves that can be reached
    firstKey,     \* external: the oldest key that each enclave holds
    lastKey,      \* external: its newest key
    faults        \* the upgrades and outages so far

poolVars == <<nodes, keyCache, dead, refreshing, poolClosed>>

enclaveVars == <<meas, up, firstKey, lastKey, faults>>

Entries(list) == {list[i] : i \in DOMAIN list}

\* NewPoolWithConfig: empty caches, and no refresh yet.
PoolInit(list) ==
    /\ nodes = list
    /\ keyCache = [e \in Enclave |-> None]
    /\ dead = {}
    /\ refreshing = {}
    /\ poolClosed = FALSE

EnclaveInit ==
    /\ meas \in [Enclave -> Measurement]
    /\ up = Enclave
    /\ firstKey = [e \in Enclave |-> 1]
    /\ lastKey = [e \in Enclave |-> 1]
    /\ faults = 0

-----------------------------------------------------------------------------
\* SelectEnclaves: the first entry that is not marked dead, going round from
\* the index that the request ID selects.  Empty if there is none.
Slot(r, list, offset) == ((r + offset) % Len(list)) + 1

SelectEnclaves(r, list) ==
    {list[Slot(r, list, o)] : o \in
        {o \in 0 .. Len(list) - 1 :
            /\ list[Slot(r, list, o)].id \notin dead
            /\ \A p \in 0 .. o - 1 : list[Slot(r, list, p)].id \in dead}}

\* validateAttestation: any of the measurements trusted for the entry.
Attested(n) == meas[n.id] \in n.trusted

\* getSingleEnclavePublicKey succeeds.
Answers(n) == n.id \in up /\ Attested(n)

NewestKey(e) == [of |-> e, num |-> lastKey[e]]

Holds(e, k) == k.of = e /\ k.num \in firstKey[e] .. lastKey[e]

\* validateNodes: every node of the list answers.
ValidNodes(list) == \A n \in Entries(list) : Answers(n)

\* The entry that ExecuteBatch finds for an enclave ID: one, or none.
EntryOf(e, list) == {n \in Entries(list) : n.id = e}

SetCachedPublicKey(e, k) == keyCache' = [keyCache EXCEPT ![e] = k]

\* SetEnclaveLiveness
SetEnclaveLiveness(e, alive) ==
    dead' = IF alive THEN dead \ {e} ELSE dead \cup {e}

-----------------------------------------------------------------------------
\* The goroutines of one refreshAllCachedKeys, one for each entry of the list.
\* "by" is what started the pass: the ticker or an update of the nodes.
RefreshAllCachedKeys(by, list) ==
    {[by |-> by, entry |-> n, key |-> None] : n \in Entries(list)}

\* The ticker of refreshCacheLoop, which runs one pass after the other.
RefreshTick ==
    /\ ~poolClosed
    /\ \A g \in refreshing : g.by # "ticker"
    /\ refreshing' = refreshing \cup RefreshAllCachedKeys("ticker", nodes)
    /\ UNCHANGED <<nodes, keyCache, dead, poolClosed>>

\* refreshSingleKey up to the answer of the enclave; a cancelled context or an
\* error marks the enclave dead.
RefreshFetch(g) ==
    /\ g \in refreshing /\ g.key = None
    /\ \/ /\ Answers(g.entry) /\ ~poolClosed
          /\ refreshing' = (refreshing \ {g})
                \cup {[g EXCEPT !.key = NewestKey(g.entry.id)]}
          /\ UNCHANGED dead
       \/ /\ ~Answers(g.entry) \/ poolClosed
          /\ refreshing' = refreshing \ {g}
          /\ SetEnclaveLiveness(g.entry.id, FALSE)
    /\ UNCHANGED <<nodes, keyCache, poolClosed>>

\* A variation: a refresh that succeeds leaves the mark of one that failed.
RefreshStoreKeyOnly(g) ==
    /\ g \in refreshing /\ g.key # None
    /\ refreshing' = refreshing \ {g}
    /\ SetCachedPublicKey(g.entry.id, g.key)
    /\ UNCHANGED <<nodes, dead, poolClosed>>

\* refreshSingleKey from the answer on.
RefreshStore(g) ==
    /\ g \in refreshing /\ g.key # None
    /\ refreshing' = refreshing \ {g}
    /\ SetCachedPublicKey(g.entry.id, g.key)
    /\ SetEnclaveLiveness(g.entry.id, TRUE)
    /\ UNCHANGED <<nodes, poolClosed>>

\* UpdateNodes once the new list has been validated.
CommitNodes(list) ==
    /\ nodes' = list
    /\ keyCache' = [e \in Enclave |-> None]
    /\ refreshing' = refreshing \cup RefreshAllCachedKeys("update", list)
    /\ UNCHANGED <<dead, poolClosed>>

\* A variation: Close does not cancel the context of the refreshes.
KeepRefreshing == UNCHANGED poolVars

\* Close, up to the wait for the background work.
CancelRefresh ==
    /\ poolClosed' = TRUE
    /\ UNCHANGED <<nodes, keyCache, dead, refreshing>>

-----------------------------------------------------------------------------
\* The enclaves, external to this code.
Upgrade(e) ==
    /\ faults < MaxFaults
    /\ lastKey[e] < MaxKey
    /\ \E m \in Measurement \ {meas[e]} : meas' = [meas EXCEPT ![e] = m]
    /\ lastKey' = [lastKey EXCEPT ![e] = @ + 1]
    /\ firstKey' = [firstKey EXCEPT ![e] = lastKey[e] + 1]
    /\ faults' = faults + 1
    /\ UNCHANGED up

RotateKey(e) ==
    /\ lastKey[e] < MaxKey
    /\ lastKey' = [lastKey EXCEPT ![e] = @ + 1]
    /\ UNCHANGED <<meas, up, firstKey, faults>>

Outage(e) ==
    /\ faults < MaxFaults
    /\ e \in up
    /\ up' = up \ {e}
    /\ faults' = faults + 1
    /\ UNCHANGED <<meas, firstKey, lastKey>>

Return(e) ==
    /\ e \notin up
    /\ up' = up \cup {e}
    /\ UNCHANGED <<meas, firstKey, lastKey, faults>>

=============================================================================
