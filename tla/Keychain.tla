------------------------------ MODULE Keychain -------------------------------
(***************************************************************************)
(* The ephemeral keychain of the enclave                                   *)
(* (enclave/services/keychain/box_keychain.go).  A rotation goroutine      *)
(* creates a key pair every rotationFrequency; a key pair can be used for  *)
(* expiration.  GetKeyPairForRequest pins a request ID to one key pair, so *)
(* that every DON node encrypts for the same key, by a map with a TTL of   *)
(* its own.                                                                *)
(*                                                                         *)
(* keypairCache and requestKeyMap lock themselves per operation, so a call *)
(* of GetKeyPairForRequest is several steps that interleave with other     *)
(* calls, with rotation, with the sweep and with the passing of time.      *)
(* Whether a dead key is found dead and its mapping deleted in one step or *)
(* in two makes no difference, since a dead key stays dead.  Keys are      *)
(* numbered in the order of their creation.                                *)
(***************************************************************************)
EXTENDS Integers, FiniteSets

CONSTANTS
    Caller,     \* the calls of GetKeyPairForRequest
    Id,         \* request IDs
    RotFreq,    \* rotationFrequency
    KeyTTL,     \* expiration
    MapTTL,     \* requestKeyMapTTL
    CallDelay,  \* longest duration of a call of GetKeyPairForRequest
    MaxTime,    \* bound on the clock
    None

ASSUME KeychainConstants ==
    /\ RotFreq \in Nat \ {0}
    /\ KeyTTL \in Nat
    /\ MapTTL \in Nat
    /\ CallDelay \in Nat
    /\ MaxTime \in Nat
    /\ None \notin Nat
    /\ None \notin Id
    /\ None \notin [key : Nat, at : Nat]

VARIABLES
    now,        \* the clock
    keys,       \* keypairCache: creation times of the keys, by number
    map,        \* requestKeyMap: id -> [key, at] or None
    call,       \* the calls of GetKeyPairForRequest
    nextTick,   \* when the rotation ticker fires next
    sweep,      \* the ids the sweep has still to visit, and the one it visits
    first       \* history: the first mapping ever made for each id

vars == <<now, keys, map, call, nextTick, sweep, first>>

Time == 0 .. MaxTime

Key == 1 .. (MaxTime \div RotFreq + 1)

CallState ==
    [pc    : {"idle", "start", "mapped", "picked", "done"},
     id    : Id,
     key   : Key \cup {None},
     since : Time,
     at    : Time]

Init ==
    /\ now = 0
    /\ keys = [k \in {} |-> 0]
    /\ map = [i \in Id |-> None]
    /\ call \in [Caller -> {c \in CallState :
                     /\ c.pc = "idle" /\ c.key = None
                     /\ c.since = 0 /\ c.at = 0}]
    /\ nextTick = 0
    /\ sweep = [todo |-> {}, id |-> None, key |-> None]
    /\ first = [i \in Id |-> None]

-----------------------------------------------------------------------------
\* Cache.Get on the two caches.
Alive(k) == k \in DOMAIN keys /\ now - keys[k] <= KeyTTL

Mapped(i) == map[i] # None /\ now - map[i].at <= MapTTL

\* The call returns key k, or an error (None).
Done(c, k) ==
    call' = [call EXCEPT ![c].pc = "done", ![c].key = k, ![c].at = now]

Begin(c) ==
    /\ call[c].pc = "idle"
    /\ call' = [call EXCEPT ![c].pc = "start", ![c].since = now]
    /\ UNCHANGED <<now, keys, map, nextTick, sweep, first>>

\* requestKeyMap.Get finds a mapping.
Lookup(c) ==
    /\ call[c].pc = "start"
    /\ Mapped(call[c].id)
    /\ call' = [call EXCEPT ![c].pc = "mapped", ![c].key = map[call[c].id].key]
    /\ UNCHANGED <<now, keys, map, nextTick, sweep, first>>

\* Variations: the oldest live key is picked; a call goes on with no key.
PickOldest(c) ==
    /\ call[c].pc = "start"
    /\ ~Mapped(call[c].id)
    /\ \E k \in DOMAIN keys :
          /\ Alive(k)
          /\ \A l \in DOMAIN keys : Alive(l) => k <= l
          /\ call' = [call EXCEPT ![c].pc = "picked", ![c].key = k]
    /\ UNCHANGED <<now, keys, map, nextTick, sweep, first>>

PickUnchecked(c) ==
    /\ call[c].pc = "start"
    /\ ~Mapped(call[c].id)
    /\ call' = [call EXCEPT ![c].pc = "picked"]
    /\ UNCHANGED <<now, keys, map, nextTick, sweep, first>>

\* It finds none, and the newest of the key pairs is picked.
PickNewest(c) ==
    LET live == {k \in DOMAIN keys : Alive(k)}
    IN  /\ call[c].pc = "start"
        /\ ~Mapped(call[c].id)
        /\ IF live = {}
           THEN Done(c, None)
           ELSE \E k \in live :
                   /\ \A l \in live : l <= k
                   /\ call' = [call EXCEPT ![c].pc = "picked", ![c].key = k]
        /\ UNCHANGED <<now, keys, map, nextTick, sweep, first>>

\* A variation: Set, where the last writer wins.
SetMapping(c) ==
    LET i == call[c].id
        m == [key |-> call[c].key, at |-> now]
    IN  /\ call[c].pc = "picked"
        /\ Done(c, call[c].key)
        /\ map' = [map EXCEPT ![i] = m]
        /\ first' = [first EXCEPT ![i] = IF @ = None THEN m ELSE @]
        /\ UNCHANGED <<now, keys, nextTick, sweep>>

\* requestKeyMap.GetOrSet: the first writer wins.
GetOrSet(c) ==
    LET i == call[c].id
        m == [key |-> call[c].key, at |-> now]
    IN  /\ call[c].pc = "picked"
        /\ IF Mapped(i)
           THEN /\ call' = [call EXCEPT ![c].pc = "mapped", ![c].key = map[i].key]
                /\ UNCHANGED <<map, first>>
           ELSE /\ Done(c, call[c].key)
                /\ map' = [map EXCEPT ![i] = m]
                /\ first' = [first EXCEPT ![i] = IF @ = None THEN m ELSE @]
        /\ UNCHANGED <<now, keys, nextTick, sweep>>

\* keypairCache.Get of the mapped key: an expired key's mapping is deleted,
\* whatever it is by now.
Resolve(c) ==
    /\ call[c].pc = "mapped"
    /\ IF Alive(call[c].key)
       THEN /\ Done(c, call[c].key)
            /\ UNCHANGED map
       ELSE /\ Done(c, None)
            /\ map' = [map EXCEPT ![call[c].id] = None]
    /\ UNCHANGED <<now, keys, nextTick, sweep, first>>

-----------------------------------------------------------------------------
\* A variation: no key pair after the first.
RotateOnce ==
    /\ now = nextTick
    /\ sweep.todo = {} /\ sweep.id = None
    /\ keys' = IF now = 0 THEN [l \in {1} |-> 0] ELSE keys
    /\ nextTick' = now + RotFreq
    /\ sweep' = [sweep EXCEPT !.todo = {i \in Id : map[i] # None}]
    /\ UNCHANGED <<now, map, call, first>>

\* startKeyRotation: a key pair at the start, and one on every tick, after
\* which requestKeyMap is swept.
Rotate ==
    LET k == Cardinality(DOMAIN keys) + 1
    IN  /\ now = nextTick
        /\ sweep.todo = {} /\ sweep.id = None
        /\ keys' = [l \in DOMAIN keys \cup {k} |-> IF l = k THEN now ELSE keys[l]]
        /\ nextTick' = now + RotFreq
        /\ sweep' = [todo |-> IF now = 0 THEN {} ELSE {i \in Id : map[i] # None},
                     id |-> None, key |-> None]
        /\ UNCHANGED <<now, map, call, first>>

\* sweepRequestKeyMap visits an id: requestKeyMap.Get ...
SweepGet(i) ==
    /\ i \in sweep.todo
    /\ sweep.id = None
    /\ sweep' = [todo |-> sweep.todo \ {i},
                 id |-> IF Mapped(i) THEN i ELSE None,
                 key |-> IF Mapped(i) THEN map[i].key ELSE None]
    /\ UNCHANGED <<now, keys, map, call, nextTick, first>>

\* A variation: the mapping goes whether its key has expired or not.
SweepAny ==
    /\ sweep.id # None
    /\ map' = [map EXCEPT ![sweep.id] = None]
    /\ sweep' = [sweep EXCEPT !.id = None, !.key = None]
    /\ UNCHANGED <<now, keys, call, nextTick, first>>

\* ... then keypairCache.Get, and Delete when the key has expired.
SweepDelete ==
    /\ sweep.id # None
    /\ map' = IF Alive(sweep.key) THEN map ELSE [map EXCEPT ![sweep.id] = None]
    /\ sweep' = [sweep EXCEPT !.id = None, !.key = None]
    /\ UNCHANGED <<now, keys, call, nextTick, first>>

\* Time passes; rotation and the sweep are prompt, and a call ends within
\* CallDelay.
Tick ==
    /\ now < MaxTime
    /\ now < nextTick
    /\ sweep.todo = {} /\ sweep.id = None
    /\ \A c \in Caller : call[c].pc \in {"start", "mapped", "picked"} =>
           now < call[c].since + CallDelay
    /\ now' = now + 1
    /\ UNCHANGED <<keys, map, call, nextTick, sweep, first>>

Next ==
    \/ \E c \in Caller :
          Begin(c) \/ Lookup(c) \/ PickNewest(c) \/ GetOrSet(c) \/ Resolve(c)
    \/ Rotate
    \/ \E i \in Id : SweepGet(i)
    \/ SweepDelete
    \/ Tick

Spec == Init /\ [][Next]_vars

-----------------------------------------------------------------------------
TypeOK ==
    /\ now \in Time
    /\ DOMAIN keys \subseteq Key /\ \A k \in DOMAIN keys : keys[k] \in Time
    /\ map \in [Id -> [key : Key, at : Time] \cup {None}]
    /\ call \in [Caller -> CallState]
    /\ nextTick \in 0 .. MaxTime + RotFreq
    /\ sweep \in [todo : SUBSET Id, id : Id \cup {None}, key : Key \cup {None}]
    /\ first \in [Id -> [key : Key, at : Time] \cup {None}]

\* box_keychain.go:194-196: every caller for the same request ID gets the same
\* key pair.  Whoever gets a key for an ID within requestKeyMapTTL of the first
\* assignment gets the key first assigned, across rotations and races.
SameKeyWhilePinned ==
    \A c \in Caller :
        LET i == call[c].id
        IN  (/\ call[c].pc = "done" /\ call[c].key # None
             /\ first[i] # None
             /\ call[c].at <= first[i].at + MapTTL)
               => call[c].key = first[i].key

\* box_keychain.go:81-85: rotation and expiration are decoupled so that laggard
\* requests can still use a rotated-out key.  A request whose ID is pinned is
\* never refused because its key has expired: as long as a mapping is found,
\* its key is usable.
PinnedKeyAlive ==
    \A i \in Id : Mapped(i) => Alive(map[i].key)

\* box_keychain.go:178-185: once the keychain has started, a call never fails
\* for want of a key pair.
AlwaysAKey ==
    \A c \in Caller :
        (call[c].pc = "done" /\ call[c].key = None) => call[c].since = 0

\* box_keychain.go:165-166, 194-196: callers never silently diverge.  A mapping
\* to a usable key is not removed or replaced before its own TTL has passed.
LiveMappingKept ==
    [][\A i \in Id : Mapped(i) /\ Alive(map[i].key) => map'[i] = map[i]]_vars
=============================================================================
