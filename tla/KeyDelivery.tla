---------------------------- MODULE KeyDelivery -----------------------------
(***************************************************************************)
(* How an ephemeral key of the enclave reaches a DON node: the /publicKeys *)
(* handler over the keychain (enclave/server/server.go), and the public    *)
(* key cache of the enclave pool (enclave-client/pool.go).                 *)
(*                                                                         *)
(* GetPublicKeys is network first: a fetched answer is used and cached, a  *)
(* failed fetch falls back to the cached answer.  A background loop        *)
(* caches answers too.  Answers travel, so they may be stored in another   *)
(* order than the keychain gave them, and the enclave goes on rotating and *)
(* expiring keys meanwhile.  The TTL an answer carries is the whole        *)
(* lifetime of its keys (boxKeypair.TTL), not what is left of it: what     *)
(* keeps a cached key usable is the cap the pool puts on the time it keeps *)
(* an answer.                                                              *)
(*                                                                         *)
(* One node and one enclave; a cached answer is represented by the key     *)
(* getEnclaveParams takes from it, the most recently created one.          *)
(***************************************************************************)
EXTENDS Keychain

CONSTANTS
    MaxTTL,         \* cacheConfig.MaxTTL
    BufferDivisor   \* 1 / cacheConfig.TTLBufferPercent

ASSUME CacheConstants ==
    /\ MaxTTL \in Nat
    /\ BufferDivisor \in Nat \ {0}

\* A key outlives the answers that carry it: the newest key is at most RotFreq
\* old when a call pins it, the pin lasts MapTTL, the call that pins it and
\* the one that reads it take CallDelay each, and the pool caches for MaxTTL.
\* The code's values are 12h, 1h, two requests and 30min, against 24h.
ASSUME KeyOutlivesAnswer ==
    RotFreq + MapTTL + 2 * CallDelay + MaxTTL <= KeyTTL

VARIABLES
    cached,     \* publicKeyCache: [key, at] or None
    refresh,    \* refreshSingleKey: the answer on its way, [key, at] or None
    fetched     \* the fetches for a request that are over, and their keys

deliveryVars == <<cached, refresh, fetched>>

-----------------------------------------------------------------------------
\* A variation: the TTLs of the answer are taken as they are.
uncappedTTL == KeyTTL

\* calculateEffectiveTTL, of an answer all of whose keys report expiration.
calculateEffectiveTTL ==
    LET minTTL == IF KeyTTL > MaxTTL THEN MaxTTL ELSE KeyTTL
        buffer == minTTL \div BufferDivisor
    IN  minTTL - (IF buffer < 1 THEN 1 ELSE buffer)

DeliveryInit ==
    /\ Init
    /\ cached = None
    /\ refresh = None
    /\ fetched = [c \in Caller |-> None]

\* setCachedPublicKey.
setCachedPublicKey(k) ==
    cached' = IF calculateEffectiveTTL <= 0 THEN cached ELSE [key |-> k, at |-> now]

\* getCachedPublicKey finds an answer.
Usable == cached # None /\ now - cached.at <= calculateEffectiveTTL

\* A key pair for the request was found, attested and returned in time.
Deliver(c) ==
    /\ call[c].pc = "done" /\ call[c].key # None
    /\ fetched[c] = None
    /\ setCachedPublicKey(call[c].key)
    /\ fetched' = [fetched EXCEPT ![c] = [key |-> call[c].key]]
    /\ UNCHANGED <<vars, refresh>>

\* The fetch fails (an error of the handler, of the network or of the
\* attestation, or its timeout, wherever the handler is by then) and the
\* cached answer is used, or there is none and GetPublicKeys fails.
FallBack(c) ==
    /\ call[c].pc # "idle"
    /\ fetched[c] = None
    /\ fetched' = [fetched EXCEPT ![c] = [key |-> IF Usable THEN cached.key ELSE None]]
    /\ UNCHANGED <<vars, cached, refresh>>

\* The handler without a requestID: GetKeyPairs returns the live key pairs.
GetKeyPairs ==
    /\ refresh = None
    /\ \E k \in DOMAIN keys :
          /\ Alive(k)
          /\ \A l \in DOMAIN keys : Alive(l) => l <= k
          /\ refresh' = [key |-> k, at |-> now]
    /\ UNCHANGED <<vars, cached, fetched>>

\* refreshSingleKey: the answer is cached, or it is lost.
RefreshStore ==
    /\ refresh # None
    /\ setCachedPublicKey(refresh.key)
    /\ refresh' = None
    /\ UNCHANGED <<vars, fetched>>

RefreshLost ==
    /\ refresh # None
    /\ refresh' = None
    /\ UNCHANGED <<vars, cached, fetched>>

\* A step of the keychain; the delay of a call includes that of its answer.
KeychainStep ==
    /\ Next
    /\ now' # now =>
          /\ \A c \in Caller : (call[c].pc # "idle" /\ fetched[c] = None) =>
                 now < call[c].since + CallDelay
          /\ refresh # None => now < refresh.at + CallDelay
    /\ UNCHANGED deliveryVars

DeliveryNext ==
    \/ \E c \in Caller : Deliver(c) \/ FallBack(c)
    \/ GetKeyPairs
    \/ RefreshStore
    \/ RefreshLost
    \/ KeychainStep

DeliverySpec == DeliveryInit /\ [][DeliveryNext]_<<vars, deliveryVars>>

-----------------------------------------------------------------------------
\* pool.go:262-273: a failed fetch falls back to the cached key.  Whatever
\* answers were stored in whatever order, a key the pool would fall back to is
\* one the enclave can still decrypt with, although its reported TTL does not
\* shrink as the key ages.
CachedKeyAlive == Usable => Alive(cached.key)
=============================================================================
