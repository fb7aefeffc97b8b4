----------------------------- MODULE BinaryCache -----------------------------
(***************************************************************************)
(* The cache of WASM binaries inside the enclave                           *)
(* (enclave/apps/confidential-workflows/app/fetcher.go): least recently    *)
(* used first out, bounded by the total size of its values.  The map items *)
(* and the list evictList always change together under mu and are one      *)
(* sequence here, most recent first; the byte counter cacheBytes is kept   *)
(* beside it as in the code.  A binary stands for its hash: the fetcher    *)
(* caches only what hashes to the key.                                     *)
(***************************************************************************)
EXTENDS Integers, Sequences, Functions

CONSTANTS
    Binary,        \* workflow binaries, named by their hash
    Size           \* [Binary -> Nat]: their lengths in bytes

ASSUME BinaryConstants == Size \in [Binary -> Nat]

VARIABLES
    lru,           \* evictList: the cached binaries, front = most recent
    cacheBytes,    \* what the code believes is the total size of lru
    maxCacheBytes  \* the bound

cacheVars == <<lru, cacheBytes, maxCacheBytes>>

\* The total size of a list of binaries.
Bytes(s) ==
    LET sum[n \in 0 .. Len(s)] == IF n = 0 THEN 0 ELSE sum[n - 1] + Size[s[n]]
    IN  sum[Len(s)]

\* MoveToFront of the element that holds b.
Promote(b) ==
    LET at == CHOOSE i \in DOMAIN lru : lru[i] = b
    IN  <<b>> \o SubSeq(lru, 1, at - 1) \o SubSeq(lru, at + 1, Len(lru))

\* The entries the eviction loop leaves: it removes the back of the list while
\* room for need more bytes is missing under limit and the list is not empty.
Kept(need, limit) ==
    LET stops == {n \in 0 .. Len(lru) :
            \/ n = 0
            \/ cacheBytes - Bytes(SubSeq(lru, n + 1, Len(lru))) + need <= limit}
    IN  SubSeq(lru, 1, CHOOSE n \in stops : \A m \in stops : m <= n)

\* What the loop subtracts from cacheBytes.
Evicted(kept) == Bytes(SubSeq(lru, Len(kept) + 1, Len(lru)))

\* A hit promotes the entry, a miss changes nothing.
cacheGet(b) ==
    /\ lru' = IF b \in Range(lru) THEN Promote(b) ELSE lru
    /\ UNCHANGED <<cacheBytes, maxCacheBytes>>

\* A variation: the key another goroutine inserted meanwhile is not looked for.
cachePutAgain(b) ==
    LET kept == Kept(Size[b], maxCacheBytes) IN
    /\ lru' = <<b>> \o kept
    /\ cacheBytes' = cacheBytes - Evicted(kept) + Size[b]
    /\ UNCHANGED maxCacheBytes

cachePut(b) ==
    /\ IF b \in Range(lru)
       THEN lru' = Promote(b) /\ cacheBytes' = cacheBytes
       ELSE LET kept == Kept(Size[b], maxCacheBytes) IN
            /\ lru' = <<b>> \o kept
            /\ cacheBytes' = cacheBytes - Evicted(kept) + Size[b]
    /\ UNCHANGED maxCacheBytes

\* A bound that is not positive is ignored.
SetMaxCacheBytes(limit) ==
    IF limit <= 0
    THEN UNCHANGED cacheVars
    ELSE LET kept == Kept(0, limit) IN
         /\ maxCacheBytes' = limit
         /\ lru' = kept
         /\ cacheBytes' = cacheBytes - Evicted(kept)

\* fetcher.go:23-26: cacheBytes is the current total size of the cached values
\* and stays within the bound, but for one entry larger than the whole bound,
\* which is then alone; and no binary is cached twice, however many executions
\* downloaded it at the same time.
LRUExact ==
    /\ cacheBytes = Bytes(lru)
    /\ cacheBytes <= maxCacheBytes \/ Len(lru) = 1
    /\ \A i, j \in 1 .. Len(lru) : lru[i] = lru[j] => i = j
=============================================================================
