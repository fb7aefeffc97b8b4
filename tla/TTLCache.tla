------------------------------ MODULE TTLCache -------------------------------
(***************************************************************************)
(* The concurrency-safe generic cache every other component is built on    *)
(* (util/cache.go): items with a time to live, a list of the keys in the   *)
(* order of their insertion, an optional cap and a garbage collector.      *)
(*                                                                         *)
(* Set, GetOrSet, Delete and Flush hold the lock and are one step each.    *)
(* garbageCollect holds it too; its loop, which removes elements of the    *)
(* list it walks, is one step per element, during which no other operation *)
(* can run but time can pass.  Get, Keys and Size only read: what Get      *)
(* returns is Live(k) and items[k].value.                                  *)
(***************************************************************************)
EXTENDS Integers, Sequences, FiniteSets

CONSTANTS
    Key, Value,
    TTLs,       \* times to live passed to Set, or the cache's own
    MaxEntries, \* maxEntries; 0 means unbounded
    EvictionDivisor, \* evictionBatchDivisor, 10 in the code
    MaxTime,    \* bound on the clock
    None

ASSUME CacheConstants ==
    /\ TTLs \subseteq Nat
    /\ MaxEntries \in Nat
    /\ EvictionDivisor \in Nat \ {0, 1}
    /\ MaxTime \in Nat
    /\ None \notin [value : Value, created : 0 .. MaxTime, ttl : TTLs]

VARIABLES
    now,        \* the clock
    items,      \* key -> CacheItem, or None
    keyList,    \* the keys, oldest insertion first
    gc,         \* garbageCollect: whether it runs, the index its loop visits
                \* next and the time it started
    stopped     \* the collector's goroutine: "no", "closed" (stopGC is
                \* closed) or "returned"

vars == <<now, items, keyList, gc, stopped>>

Time == 0 .. MaxTime

Item == [value : Value, created : Time, ttl : TTLs]

Init ==
    /\ now = 0
    /\ items = [k \in Key |-> None]
    /\ keyList = <<>>
    /\ gc = [on |-> FALSE, i |-> 0, now |-> 0]
    /\ stopped = "no"

-----------------------------------------------------------------------------
\* A variation: an item expires one unit early.
ExpiredEarly(item, t) == t - item.created >= item.ttl

\* An item that has outlived its time to live at time t.
Expired(item, t) == t - item.created > item.ttl

\* Get finds a value.
Live(k) == items[k] # None /\ ~Expired(items[k], now)

Unlocked == ~gc.on

\* keyList without its i-th element, and without its first n.
Cut(s, i) == [j \in 1 .. Len(s) - 1 |-> IF j < i THEN s[j] ELSE s[j + 1]]

Drop(s, n) == [j \in 1 .. Len(s) - n |-> s[j + n]]

\* A variation: one key too many before an eviction.
evictLate(n) ==
    IF MaxEntries = 0 \/ n <= MaxEntries + 1 THEN 0 ELSE n - MaxEntries

\* How many entries setLocked evicts from a list of n keys.
evict(n) ==
    LET e == n - MaxEntries + MaxEntries \div EvictionDivisor
    IN  IF MaxEntries = 0 \/ n <= MaxEntries THEN 0
        ELSE IF e > n THEN n ELSE e

\* A variation: a key that is written again is listed again.
setAppend(k, v, t) ==
    /\ keyList' = Append(keyList, k)
    /\ items' = [items EXCEPT ![k] = [value |-> v, created |-> now, ttl |-> t]]

\* setLocked: store, append a new key, evict the oldest on overflow.
setLocked(k, v, t) ==
    LET list == IF items[k] = None THEN Append(keyList, k) ELSE keyList
        e    == evict(Len(list))
    IN  /\ keyList' = Drop(list, e)
        /\ items' = [j \in Key |->
                        IF \E i \in 1 .. e : list[i] = j THEN None
                        ELSE IF j = k
                        THEN [value |-> v, created |-> now, ttl |-> t]
                        ELSE items[j]]

Set(k, v, t) ==
    /\ Unlocked
    /\ setLocked(k, v, t)
    /\ UNCHANGED <<now, gc, stopped>>

\* GetOrSet that finds no live value; one that does changes nothing.
GetOrSet(k, v, t) ==
    /\ Unlocked
    /\ ~Live(k)
    /\ setLocked(k, v, t)
    /\ UNCHANGED <<now, gc, stopped>>

Delete(k) ==
    /\ Unlocked
    /\ items' = [items EXCEPT ![k] = None]
    /\ \/ \E i \in DOMAIN keyList :
             /\ keyList[i] = k
             /\ \A j \in 1 .. i - 1 : keyList[j] # k
             /\ keyList' = Cut(keyList, i)
       \/ /\ \A i \in DOMAIN keyList : keyList[i] # k
          /\ UNCHANGED keyList
    /\ UNCHANGED <<now, gc, stopped>>

Flush ==
    /\ Unlocked
    /\ items' = [k \in Key |-> None]
    /\ keyList' = <<>>
    /\ UNCHANGED <<now, gc, stopped>>

\* A variation: the loop starts past the end.
GCStartPastEnd ==
    /\ Unlocked
    /\ stopped # "returned"
    /\ gc' = [on |-> TRUE, i |-> Len(keyList) + 1, now |-> now]
    /\ UNCHANGED <<now, items, keyList, stopped>>

\* The ticker fires: garbageCollect takes the lock and the time.  A closed
\* stopGC does not keep the select from taking a tick that is due.
GCStart ==
    /\ Unlocked
    /\ stopped # "returned"
    /\ gc' = [on |-> TRUE, i |-> Len(keyList), now |-> now]
    /\ UNCHANGED <<now, items, keyList, stopped>>

\* A variation: removing an element skips the next.
GCSkip ==
    LET k == keyList[gc.i]
        gone == items[k] = None \/ Expired(items[k], gc.now)
    IN  /\ gc.on /\ gc.i > 0
        /\ items' = IF gone THEN [items EXCEPT ![k] = None] ELSE items
        /\ keyList' = IF gone THEN Cut(keyList, gc.i) ELSE keyList
        /\ gc' = [gc EXCEPT !.i = IF gone /\ @ > 1 THEN @ - 2 ELSE @ - 1]
        /\ UNCHANGED <<now, stopped>>

\* One round of its loop, which walks keyList from the end.
GCVisit ==
    LET k == keyList[gc.i]
    IN  /\ gc.on /\ gc.i > 0
        /\ IF items[k] = None \/ Expired(items[k], gc.now)
           THEN /\ items' = [items EXCEPT ![k] = None]
                /\ keyList' = Cut(keyList, gc.i)
           ELSE UNCHANGED <<items, keyList>>
        /\ gc' = [gc EXCEPT !.i = @ - 1]
        /\ UNCHANGED <<now, stopped>>

\* The loop ends, and the lock is released.
GCEnd ==
    /\ gc.on /\ gc.i = 0
    /\ gc' = [gc EXCEPT !.on = FALSE]
    /\ UNCHANGED <<now, items, keyList, stopped>>

Stop ==
    /\ stopped = "no"
    /\ stopped' = "closed"
    /\ UNCHANGED <<now, items, keyList, gc>>

\* The select of the collector's loop sees that stopGC is closed.
GCReturn ==
    /\ Unlocked
    /\ stopped = "closed"
    /\ stopped' = "returned"
    /\ UNCHANGED <<now, items, keyList, gc>>

Tick ==
    /\ now < MaxTime
    /\ now' = now + 1
    /\ UNCHANGED <<items, keyList, gc, stopped>>

Next ==
    \/ \E k \in Key, v \in Value, t \in TTLs : Set(k, v, t) \/ GetOrSet(k, v, t)
    \/ \E k \in Key : Delete(k)
    \/ Flush
    \/ GCStart \/ GCVisit \/ GCEnd \/ GCReturn
    \/ Stop
    \/ Tick

Spec == Init /\ [][Next]_vars

-----------------------------------------------------------------------------
TypeOK ==
    /\ now \in Time
    /\ items \in [Key -> Item \cup {None}]
    /\ keyList \in Seq(Key)
    /\ gc \in [on : BOOLEAN, i : 0 .. Len(keyList), now : Time]
    /\ stopped \in {"no", "closed", "returned"}

\* cache.go:96-116, 140-147, 204-212: items and keyList are two copies of the
\* set of keys, and the cap is enforced on keyList.  They never part, not even
\* in the middle of a collection: every item is listed exactly once.
KeyListExact ==
    /\ \A k \in Key : items[k] # None <=> \E i \in DOMAIN keyList : keyList[i] = k
    /\ \A i, j \in DOMAIN keyList : keyList[i] = keyList[j] => i = j

\* cache.go:41-43, 103-115: a bounded cache never keeps more than maxEntries.
Bounded == MaxEntries > 0 => Len(keyList) <= MaxEntries

\* cache.go:204-212: the loop removes elements of the list it walks and misses
\* none: whatever it has passed and kept had not expired when it started.
NothingMissed ==
    gc.on => \A j \in gc.i + 1 .. Len(keyList) :
                 /\ items[keyList[j]] # None
                 /\ ~Expired(items[keyList[j]], gc.now)

-----------------------------------------------------------------------------
\* The map that Get shows.
Entry ==
    [k \in Key |-> IF Live(k)
                   THEN [value |-> items[k].value,
                         until |-> items[k].created + items[k].ttl]
                   ELSE None]

Map == INSTANCE TTLMap WITH entry <- Entry

\* cache.go:35-36, 41-43, 69-71: with its list, its cap and its collector, the
\* cache is a map with a time to live that loses only what TTLMap lets it lose.
ImplementsMap == Map!Spec
=============================================================================
