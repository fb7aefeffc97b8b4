--------------------------- MODULE TTLCacheProofs ----------------------------
(***************************************************************************)
(* The cache's list of keys, its cap and its collector, proved for every   *)
(* set of keys, cap, eviction divisor and clock bound.                     *)
(***************************************************************************)
EXTENDS TTLCache, FiniteSetTheorems, TLAPS

\* The index of the collector's loop is reset when no collection runs.
Idle == ~gc.on => gc.i = 0

\* The inductive invariant.  KeyListExact is needed to know that evicting the
\* first keys, or cutting one out, leaves items and keyList in step; Idle to
\* know that the loop's index stays within the list.
IInv == TypeOK /\ KeyListExact /\ Bounded /\ NothingMissed /\ Idle

-----------------------------------------------------------------------------
\* evict never takes more than the list holds, leaves at most the cap, and
\* leaves the last key of a list that overflows by one.
LEMMA EvictBound ==
    ASSUME NEW n \in Nat
    PROVE  /\ evict(n) \in 0 .. n
           /\ MaxEntries > 0 => n - evict(n) <= MaxEntries
           /\ n <= MaxEntries \/ MaxEntries = 0 => evict(n) = 0
           /\ n = MaxEntries + 1 /\ MaxEntries > 0 => evict(n) < n
<1> DEFINE q == MaxEntries \div EvictionDivisor
<1>1. q \in Nat /\ (MaxEntries > 0 => q < MaxEntries)
  BY CacheConstants
<1>2. QED
  BY <1>1, CacheConstants DEF evict

\* Cutting an element out of a sequence.
LEMMA CutType ==
    ASSUME NEW S, NEW s \in Seq(S), NEW i \in 1 .. Len(s)
    PROVE  /\ Cut(s, i) \in Seq(S)
           /\ Len(Cut(s, i)) = Len(s) - 1
           /\ \A j \in 1 .. Len(s) - 1 :
                 Cut(s, i)[j] = IF j < i THEN s[j] ELSE s[j + 1]
  BY DEF Cut

\* Dropping the first elements of a sequence.
LEMMA DropType ==
    ASSUME NEW S, NEW s \in Seq(S), NEW n \in 0 .. Len(s)
    PROVE  /\ Drop(s, n) \in Seq(S)
           /\ Len(Drop(s, n)) = Len(s) - n
           /\ \A j \in 1 .. Len(s) - n : Drop(s, n)[j] = s[j + n]
  BY DEF Drop

-----------------------------------------------------------------------------
\* Cutting the key at position i out of the list, and its item out of the map,
\* keeps the two in step.
LEMMA CutExact ==
    ASSUME IInv, NEW i \in 1 .. Len(keyList),
           keyList' = Cut(keyList, i),
           items' = [items EXCEPT ![keyList[i]] = None]
    PROVE  /\ KeyListExact'
           /\ items' \in [Key -> Item \cup {None}]
           /\ keyList' \in Seq(Key)
           /\ Len(keyList') = Len(keyList) - 1
<1> USE DEF IInv, TypeOK
<1>1. /\ keyList' \in Seq(Key)
      /\ Len(keyList') = Len(keyList) - 1
      /\ \A j \in 1 .. Len(keyList) - 1 :
            keyList'[j] = IF j < i THEN keyList[j] ELSE keyList[j + 1]
  BY CutType
<1>2. keyList[i] \in Key /\ DOMAIN keyList = 1 .. Len(keyList)
      /\ DOMAIN keyList' = 1 .. Len(keyList')
  BY <1>1
<1>3. items' \in [Key -> Item \cup {None}]
  BY <1>2
<1> DEFINE old(j) == IF j < i THEN j ELSE j + 1
<1>old. \A j \in DOMAIN keyList' : /\ old(j) \in DOMAIN keyList /\ old(j) # i
                                   /\ keyList'[j] = keyList[old(j)]
  <2> SUFFICES ASSUME NEW j \in DOMAIN keyList'
               PROVE  /\ old(j) \in DOMAIN keyList /\ old(j) # i
                      /\ keyList'[j] = keyList[old(j)]
    OBVIOUS
  <2>1. j \in 1 .. Len(keyList) - 1 /\ i \in 1 .. Len(keyList)
    BY <1>1, <1>2
  <2> HIDE DEF IInv, TypeOK
  <2>2. keyList'[j] = IF j < i THEN keyList[j] ELSE keyList[j + 1]
    BY <2>1, <1>1
  <2>3. Len(keyList) \in Nat
    BY DEF IInv, TypeOK
  <2>4. old(j) \in 1 .. Len(keyList) /\ old(j) # i
    BY <2>1, <2>3
  <2>5. keyList'[j] = keyList[old(j)]
    BY <2>2
  <2>6. QED
    BY <2>4, <2>5, <1>2
<1>4. \A a, b \in DOMAIN keyList' : keyList'[a] = keyList'[b] => a = b
  <2> SUFFICES ASSUME NEW a \in DOMAIN keyList', NEW b \in DOMAIN keyList',
                      keyList'[a] = keyList'[b]
               PROVE  a = b
    OBVIOUS
  <2>1. old(a) = old(b)
    BY <1>old DEF KeyListExact
  <2>2. QED
    BY <2>1, <1>1, <1>2
<1>5. ASSUME NEW k \in Key
      PROVE  items'[k] # None <=> \E j \in DOMAIN keyList' : keyList'[j] = k
  <2>1. CASE k = keyList[i]
    <3>1. items'[k] = None
      BY <1>2, <2>1
    <3>2. \A j \in DOMAIN keyList' : keyList'[j] # k
      BY SMTT(30), <1>old, <1>2, <2>1 DEF KeyListExact
    <3>3. QED
      BY <3>1, <3>2
  <2>2. CASE k # keyList[i]
    <3>1. items'[k] = items[k]
      BY <1>2, <2>2
    <3>2. ASSUME NEW j \in DOMAIN keyList, keyList[j] = k
          PROVE  \E m \in DOMAIN keyList' : keyList'[m] = k
      <4>1. CASE j < i
        BY <1>1, <1>2, <3>2, <4>1
      <4>2. CASE j > i
        <5>1. j - 1 \in DOMAIN keyList' /\ keyList'[j - 1] = keyList[j]
          BY <1>1, <1>2, <4>2
        <5>2. QED
          BY <5>1, <3>2
      <4>3. QED
        BY <4>1, <4>2, <3>2, <2>2, <1>2
    <3>3. ASSUME NEW m \in DOMAIN keyList', keyList'[m] = k
          PROVE  \E j \in DOMAIN keyList : keyList[j] = k
      BY <1>old, <3>3
    <3>4. QED
      BY <3>1, <3>2, <3>3 DEF KeyListExact
  <2>3. QED
    BY <2>1, <2>2
<1>6. QED
  BY <1>1, <1>3, <1>4, <1>5 DEF KeyListExact

\* setLocked keeps list and items in step and within the cap.
LEMMA SetLockedExact ==
    ASSUME IInv, NEW k \in Key, NEW v \in Value, NEW t \in TTLs,
           setLocked(k, v, t)
    PROVE  /\ KeyListExact'
           /\ Bounded'
           /\ items' \in [Key -> Item \cup {None}]
           /\ keyList' \in Seq(Key)
<1> USE DEF IInv, TypeOK
<1> DEFINE list == IF items[k] = None THEN Append(keyList, k) ELSE keyList
           e    == evict(Len(list))
<1>1. list \in Seq(Key) /\ Len(list) \in Nat /\ DOMAIN list = 1 .. Len(list)
  OBVIOUS
<1>2. e \in 0 .. Len(list) /\ (MaxEntries > 0 => Len(list) - e <= MaxEntries)
  BY <1>1, EvictBound
<1>3. keyList' = Drop(list, e)
      /\ items' = [j \in Key |->
                        IF \E i \in 1 .. e : list[i] = j THEN None
                        ELSE IF j = k
                        THEN [value |-> v, created |-> now, ttl |-> t]
                        ELSE items[j]]
  BY DEF setLocked
<1> HIDE DEF e
<1>4. /\ keyList' \in Seq(Key)
      /\ Len(keyList') = Len(list) - e
      /\ DOMAIN keyList' = 1 .. Len(list) - e
      /\ \A j \in 1 .. Len(list) - e : keyList'[j] = list[j + e]
  <2> HIDE DEF list
  <2>1. /\ Drop(list, e) \in Seq(Key)
        /\ Len(Drop(list, e)) = Len(list) - e
        /\ \A j \in 1 .. Len(list) - e : Drop(list, e)[j] = list[j + e]
    BY <1>1, <1>2, DropType
  <2>2. QED
    BY <1>1, <1>2, <1>3, <2>1
<1>5. \A a, b \in 1 .. Len(list) : list[a] = list[b] => a = b
  <2>1. CASE items[k] = None
    <3>1. /\ Len(list) = Len(keyList) + 1 /\ list[Len(list)] = k
          /\ \A i \in 1 .. Len(keyList) : list[i] = keyList[i]
      BY <2>1
    <3>2. \A i \in 1 .. Len(keyList) : keyList[i] # k
      BY <2>1 DEF KeyListExact
    <3>3. \A a, b \in 1 .. Len(keyList) : keyList[a] = keyList[b] => a = b
      BY DEF KeyListExact
    <3> HIDE DEF list, IInv, TypeOK
    <3>4. QED
      BY <3>1, <3>2, <3>3, <1>1
  <2>2. CASE items[k] # None
    BY <2>2 DEF KeyListExact
  <2>3. QED
    BY <2>1, <2>2
<1>6. \A j \in Key : (\E i \in 1 .. Len(list) : list[i] = j)
                        <=> (j = k \/ items[j] # None)
  <2>1. CASE items[k] = None
    <3>1. /\ Len(list) = Len(keyList) + 1 /\ list[Len(list)] = k
          /\ \A i \in 1 .. Len(keyList) : list[i] = keyList[i]
      BY <2>1
    <3>2. QED
      BY <3>1, <2>1 DEF KeyListExact
  <2>2. CASE items[k] # None
    BY <2>2 DEF KeyListExact
  <2>3. QED
    BY <2>1, <2>2
<1>7. [value |-> v, created |-> now, ttl |-> t] \in Item
  BY DEF Item
<1>8. items' \in [Key -> Item \cup {None}]
  BY <1>3, <1>7
<1> HIDE DEF list
<1>old. \A j \in DOMAIN keyList' : /\ j + e \in 1 .. Len(list) /\ j + e > e
                                   /\ keyList'[j] = list[j + e]
  BY SMTT(30), <1>1, <1>2, <1>4
<1>9. \A a, b \in DOMAIN keyList' : keyList'[a] = keyList'[b] => a = b
  <2> SUFFICES ASSUME NEW a \in DOMAIN keyList', NEW b \in DOMAIN keyList',
                      keyList'[a] = keyList'[b]
               PROVE  a = b
    OBVIOUS
  <2>1. a + e = b + e
    BY <1>old, <1>5
  <2>2. QED
    BY <2>1, <1>1, <1>2, <1>4
<1>10. ASSUME NEW j \in Key
       PROVE  items'[j] # None <=> \E m \in DOMAIN keyList' : keyList'[m] = j
  <2>1. CASE \E i \in 1 .. e : list[i] = j
    <3>1. items'[j] = None
      BY <1>3, <2>1
    <3>2. \A m \in DOMAIN keyList' : keyList'[m] # j
      <4> SUFFICES ASSUME NEW m \in DOMAIN keyList', keyList'[m] = j
                   PROVE  FALSE
        OBVIOUS
      <4>1. PICK i \in 1 .. e : list[i] = j
        BY <2>1
      <4>2. i = m + e
        BY <1>old, <1>5, <1>1, <1>2, <4>1
      <4>3. QED
        BY <4>2, <1>old, <1>2
    <3>3. QED
      BY <3>1, <3>2
  <2>2. CASE ~\E i \in 1 .. e : list[i] = j
    <3>1. items'[j] # None <=> (j = k \/ items[j] # None)
      BY <1>3, <1>7, <2>2, CacheConstants DEF Item, Time
    <3>2. (\E m \in DOMAIN keyList' : keyList'[m] = j)
             <=> (\E i \in 1 .. Len(list) : list[i] = j)
      <4>1. ASSUME NEW i \in 1 .. Len(list), list[i] = j
            PROVE  \E m \in DOMAIN keyList' : keyList'[m] = j
        <5>1. i > e /\ i - e \in DOMAIN keyList' /\ keyList'[i - e] = list[i]
          BY <1>1, <1>2, <1>4, <2>2, <4>1
        <5>2. QED
          BY <5>1, <4>1
      <4>2. ASSUME NEW m \in DOMAIN keyList', keyList'[m] = j
            PROVE  \E i \in 1 .. Len(list) : list[i] = j
        BY <1>old, <4>2
      <4>3. QED
        BY <4>1, <4>2
    <3>3. QED
      BY <3>1, <3>2, <1>6
  <2>3. QED
    BY <2>1, <2>2
<1>11. Bounded'
  BY <1>2, <1>4, CacheConstants DEF Bounded
<1>12. QED
  BY <1>4, <1>8, <1>9, <1>10, <1>11 DEF KeyListExact

-----------------------------------------------------------------------------
\* The initial states satisfy the inductive invariant.
LEMMA InitIInv == Init => IInv
<1> SUFFICES ASSUME Init PROVE IInv
  OBVIOUS
<1>1. /\ now \in Time /\ Len(keyList) = 0 /\ keyList \in Seq(Key)
      /\ DOMAIN keyList = {} /\ ~gc.on /\ gc.i = 0
  BY CacheConstants DEF Init, Time
<1>2. gc \in [on : BOOLEAN, i : 0 .. 0, now : Time]
  BY CacheConstants DEF Init, Time
<1>3. TypeOK
  BY <1>1, <1>2 DEF Init, TypeOK
<1>4. QED
  BY <1>1, <1>3, CacheConstants
  DEF Init, IInv, KeyListExact, Bounded, NothingMissed, Idle

\* Every operation of the cache preserves the inductive invariant.
LEMMA NextIInv == IInv /\ [Next]_vars => IInv'
<1> SUFFICES ASSUME IInv, [Next]_vars
             PROVE  IInv'
  OBVIOUS
<1>1. ASSUME NEW k \in Key, NEW v \in Value, NEW t \in TTLs,
             setLocked(k, v, t), Unlocked, UNCHANGED <<now, gc, stopped>>
      PROVE  IInv'
  <2>1. /\ KeyListExact' /\ Bounded'
        /\ items' \in [Key -> Item \cup {None}]
        /\ keyList' \in Seq(Key)
    BY <1>1, SetLockedExact
  <2>2. gc.i = 0 /\ gc' = gc /\ ~gc.on
    BY <1>1 DEF IInv, Idle, Unlocked
  <2>3. TypeOK'
    BY <1>1, <2>1, <2>2 DEF IInv, TypeOK
  <2>4. QED
    BY <2>1, <2>2, <2>3 DEF IInv, Idle, NothingMissed
<1>2. CASE \E k \in Key, v \in Value, t \in TTLs : Set(k, v, t)
  BY <1>1, <1>2 DEF Set
<1>3. CASE \E k \in Key, v \in Value, t \in TTLs : GetOrSet(k, v, t)
  BY <1>1, <1>3 DEF GetOrSet
<1>4. ASSUME NEW k \in Key, Delete(k)
      PROVE  IInv'
  <2>1. gc.i = 0 /\ gc' = gc /\ ~gc.on
    BY <1>4 DEF Delete, IInv, Idle, Unlocked
  <2>2. CASE \E i \in DOMAIN keyList : keyList[i] = k /\ keyList' = Cut(keyList, i)
    <3>1. PICK i \in 1 .. Len(keyList) : keyList[i] = k /\ keyList' = Cut(keyList, i)
      BY <2>2 DEF IInv, TypeOK
    <3>2. items' = [items EXCEPT ![keyList[i]] = None]
      BY <1>4, <3>1 DEF Delete
    <3>3. /\ KeyListExact'
          /\ items' \in [Key -> Item \cup {None}]
          /\ keyList' \in Seq(Key)
          /\ Len(keyList') = Len(keyList) - 1
      BY <3>1, <3>2, CutExact
    <3>4. TypeOK'
      BY <1>4, <2>1, <3>3 DEF IInv, TypeOK, Delete
    <3>5. Bounded'
      BY <3>3, CacheConstants DEF IInv, TypeOK, Bounded
    <3>6. QED
      BY <2>1, <3>3, <3>4, <3>5 DEF IInv, Idle, NothingMissed
  <2>3. CASE UNCHANGED keyList /\ \A i \in DOMAIN keyList : keyList[i] # k
    <3>1. items[k] = None
      BY <2>3 DEF IInv, KeyListExact
    <3>2. items' = items
      BY <1>4, <3>1 DEF Delete, IInv, TypeOK
    <3>3. QED
      BY <1>4, <2>1, <2>3, <3>2
      DEF Delete, IInv, TypeOK, KeyListExact, Bounded, NothingMissed, Idle
  <2>4. QED
    BY <1>4, <2>2, <2>3 DEF Delete
<1>5. CASE Flush
  BY <1>5, CacheConstants
  DEF Flush, Unlocked, IInv, TypeOK, KeyListExact, Bounded, NothingMissed, Idle
<1>6. CASE GCStart
  BY <1>6
  DEF GCStart, IInv, TypeOK, KeyListExact, Bounded, NothingMissed, Idle
<1>7. CASE GCVisit
  <2> DEFINE i == gc.i
             k == keyList[i]
  <2>1. /\ i \in 1 .. Len(keyList) /\ gc.on /\ k \in Key /\ items[k] # None
        /\ gc' = [gc EXCEPT !.i = i - 1] /\ UNCHANGED <<now, stopped>>
    BY <1>7 DEF GCVisit, IInv, TypeOK, KeyListExact
  <2>2. gc'.i = i - 1 /\ gc'.on /\ gc'.now = gc.now
        /\ gc' \in [on : BOOLEAN, i : Nat, now : Time]
    BY <2>1 DEF IInv, TypeOK
  <2>3. CASE Expired(items[k], gc.now)
    <3>1. items' = [items EXCEPT ![k] = None] /\ keyList' = Cut(keyList, i)
      BY <1>7, <2>3 DEF GCVisit
    <3>2. /\ KeyListExact'
          /\ items' \in [Key -> Item \cup {None}]
          /\ keyList' \in Seq(Key)
          /\ Len(keyList') = Len(keyList) - 1
      BY <2>1, <3>1, CutExact
    <3>3. TypeOK'
      BY <2>1, <2>2, <3>2 DEF IInv, TypeOK
    <3>4. Bounded'
      BY <3>2, CacheConstants DEF IInv, TypeOK, Bounded
    <3>5. ASSUME NEW j \in i .. Len(keyList) - 1
          PROVE  /\ items'[keyList'[j]] # None
                 /\ ~Expired(items'[keyList'[j]], gc.now)
      <4>0. /\ j \in 1 .. Len(keyList) - 1 /\ ~(j < i)
            /\ j + 1 \in i + 1 .. Len(keyList)
        BY <2>1 DEF IInv, TypeOK
      <4>1. keyList'[j] = keyList[j + 1]
        BY <2>1, <3>1, <4>0, CutType DEF IInv, TypeOK
      <4>2. /\ items[keyList[j + 1]] # None
            /\ ~Expired(items[keyList[j + 1]], gc.now)
        BY <2>1, <4>0 DEF IInv, NothingMissed
      <4>3. keyList[j + 1] # k /\ keyList[j + 1] \in Key
        BY <2>1 DEF IInv, TypeOK, KeyListExact
      <4>4. items'[keyList[j + 1]] = items[keyList[j + 1]]
        BY <3>1, <4>3 DEF IInv, TypeOK
      <4>5. QED
        BY <4>1, <4>2, <4>4
    <3>6. NothingMissed'
      BY <2>1, <2>2, <3>2, <3>5 DEF NothingMissed
    <3>7. QED
      BY <2>2, <3>2, <3>3, <3>4, <3>6 DEF IInv, Idle
  <2>4. CASE ~Expired(items[k], gc.now)
    <3>1. UNCHANGED <<items, keyList>>
      BY <1>7, <2>1, <2>4 DEF GCVisit
    <3>2. TypeOK' /\ KeyListExact' /\ Bounded'
      BY <2>1, <2>2, <3>1 DEF IInv, TypeOK, KeyListExact, Bounded
    <3>3. ASSUME NEW j \in i .. Len(keyList)
          PROVE  /\ items[keyList[j]] # None
                 /\ ~Expired(items[keyList[j]], gc.now)
      BY <2>1, <2>4 DEF IInv, TypeOK, NothingMissed
    <3>4. NothingMissed'
      BY <2>1, <2>2, <3>1, <3>3 DEF NothingMissed, IInv, TypeOK
    <3>5. QED
      BY <2>2, <3>2, <3>4 DEF IInv, Idle
  <2>5. QED
    BY <2>3, <2>4
<1>8. CASE GCEnd
  BY <1>8 DEF GCEnd, IInv, TypeOK, KeyListExact, Bounded, NothingMissed, Idle
<1>9. CASE Stop \/ GCReturn
  BY <1>9 DEF Stop, GCReturn, IInv, TypeOK, KeyListExact, Bounded, NothingMissed, Idle
<1>10. CASE Tick
  BY <1>10, CacheConstants
  DEF Tick, Time, IInv, TypeOK, KeyListExact, Bounded, NothingMissed, Idle
<1>11. CASE UNCHANGED vars
  BY <1>11 DEF vars, IInv, TypeOK, KeyListExact, Bounded, NothingMissed, Idle
<1>12. QED
  BY <1>2, <1>3, <1>4, <1>5, <1>6, <1>7, <1>8, <1>9, <1>10, <1>11 DEF Next

\* The inductive invariant always holds.
LEMMA AlwaysIInv == Spec => []IInv
  BY InitIInv, NextIInv, PTL DEF Spec

\* Items, list and collector keep their types; the index of the collector's loop
\* stays within the list that the loop itself shortens (cache.go:204-212).
THEOREM CacheTypes == Spec => []TypeOK
<1>1. IInv => TypeOK
  BY DEF IInv
<1>2. QED
  BY <1>1, AlwaysIInv, PTL

\* cache.go:96-116, 140-147, 204-212: for every cap, divisor, set of keys and
\* interleaving with the collector, items and keyList hold the same keys, each
\* listed once.
THEOREM CacheListExact == Spec => []KeyListExact
<1>1. IInv => KeyListExact
  BY DEF IInv
<1>2. QED
  BY <1>1, AlwaysIInv, PTL

\* cache.go:103-115: a bounded cache never holds more than maxEntries entries.
THEOREM CacheBounded == Spec => []Bounded
<1>1. IInv => Bounded
  BY DEF IInv
<1>2. QED
  BY <1>1, AlwaysIInv, PTL

\* cache.go:204-212: the collector misses no expired entry of the list it cuts.
THEOREM CacheCollects == Spec => []NothingMissed
<1>1. IInv => NothingMissed
  BY DEF IInv
<1>2. QED
  BY <1>1, AlwaysIInv, PTL

-----------------------------------------------------------------------------
\* The cache implements TTLMap, the map that its users see through Get.

\* The collector works with a time that has passed.
CollectorBehind == gc.now <= now

\* TTLMap counts as this module does.
LEMMA SameCardinality == ASSUME NEW S PROVE Map!Cardinality(S) = Cardinality(S)
  BY DEF Map!Cardinality, Cardinality

\* A write of k that evicts the keys in lost.
Evicts(k, v, t, lost) ==
    /\ lost # {} => /\ MaxEntries > 0 /\ items[k] = None
                    /\ Cardinality(lost) <= 1 + MaxEntries \div EvictionDivisor
    /\ items' = [j \in Key |->
                   IF j \in lost THEN None
                   ELSE IF j = k THEN [value |-> v, created |-> now, ttl |-> t]
                   ELSE items[j]]

\* The times of an item are numbers.
LEMMA ItemTimes ==
    ASSUME IInv, NEW k \in Key, items[k] # None
    PROVE  items[k].created \in Nat /\ items[k].ttl \in Nat
<1>1. items[k] \in Item
  BY DEF IInv, TypeOK
<1>2. items[k].created \in Time /\ items[k].ttl \in TTLs
  BY <1>1 DEF Item
<1>3. TTLs \subseteq Nat /\ Time \subseteq Nat
  BY CacheConstants DEF Time
<1>4. QED
  BY <1>2, <1>3

\* The keys that setLocked evicts: those of the first entries of the list, never
\* the one it writes, and none at all unless that one is new and the cache has a
\* cap.
LEMMA EvictedKeys ==
    ASSUME IInv, NEW k \in Key, NEW v \in Value, NEW t \in TTLs,
           setLocked(k, v, t)
    PROVE  \E lost \in SUBSET (Key \ {k}) : Evicts(k, v, t, lost)
<1> USE DEF IInv, TypeOK
<1> DEFINE list == IF items[k] = None THEN Append(keyList, k) ELSE keyList
           e    == evict(Len(list))
           q    == MaxEntries \div EvictionDivisor
           lost == {list[i] : i \in 1 .. e}
<1>1. list \in Seq(Key) /\ Len(list) \in Nat
  OBVIOUS
<1>2. /\ e \in 0 .. Len(list)
      /\ Len(list) <= MaxEntries \/ MaxEntries = 0 => e = 0
      /\ Len(list) = MaxEntries + 1 /\ MaxEntries > 0 => e < Len(list)
  BY <1>1, EvictBound
<1>3. items' = [j \in Key |->
                  IF j \in lost THEN None
                  ELSE IF j = k THEN [value |-> v, created |-> now, ttl |-> t]
                  ELSE items[j]]
  <2>1. \A j : (\E i \in 1 .. e : list[i] = j) <=> j \in lost
    OBVIOUS
  <2>2. items' = [j \in Key |->
                    IF \E i \in 1 .. e : list[i] = j THEN None
                    ELSE IF j = k THEN [value |-> v, created |-> now, ttl |-> t]
                    ELSE items[j]]
    BY DEF setLocked
  <2> HIDE DEF lost, e, list, IInv, TypeOK
  <2>3. QED
    BY <2>1, <2>2
<1>4. CASE e = 0
  <2>1. lost = {}
    BY <1>4
  <2> HIDE DEF lost
  <2>2. QED
    BY <1>3, <2>1 DEF Evicts
<1>5. CASE e # 0
  <2>1. MaxEntries > 0 /\ Len(list) > MaxEntries
    BY <1>1, <1>2, <1>5, CacheConstants
  <2>2. items[k] = None
    BY <2>1, CacheConstants DEF Bounded
  <2>3. /\ Len(list) = Len(keyList) + 1 /\ Len(keyList) \in Nat
        /\ \A i \in 1 .. Len(keyList) : list[i] = keyList[i]
    BY <2>2
  <2>4. Len(list) = MaxEntries + 1
    BY <2>1, <2>3, CacheConstants DEF Bounded
  <2>5. e \in 1 .. Len(keyList)
    BY <1>2, <1>5, <2>1, <2>3, <2>4
  <2>6. q \in Nat /\ e <= 1 + q
    BY <2>1, <2>4, CacheConstants DEF evict
  <2>7. \A i \in 1 .. Len(keyList) : keyList[i] \in Key /\ keyList[i] # k
    BY <2>2 DEF KeyListExact
  <2> HIDE DEF e, list, q, IInv, TypeOK
  <2>8. \A i \in 1 .. e : list[i] \in Key \ {k}
    BY <2>3, <2>5, <2>7
  <2>9. [i \in 1 .. e |-> list[i]] \in Surjection(1 .. e, lost)
    BY DEF Surjection
  <2>10. Cardinality(lost) <= 1 + q
    <3>1. e \in Nat /\ IsFiniteSet(1 .. e) /\ Cardinality(1 .. e) = e
      BY <2>3, <2>5, FS_Interval, 1 \in Int, e \in Int
    <3> HIDE DEF lost
    <3>2. /\ Cardinality(lost) <= Cardinality(1 .. e)
          /\ IsFiniteSet(lost)
      BY <2>9, <3>1, FS_Surjection
    <3>3. Cardinality(lost) \in Nat
      BY <3>2, FS_CardinalityType
    <3>4. QED
      BY <2>6, <3>1, <3>2, <3>3
  <2>11. lost \in SUBSET (Key \ {k})
    BY <2>8
  <2> HIDE DEF lost
  <2>12. QED
    BY <1>3, <2>1, <2>2, <2>10, <2>11 DEF q, Evicts
<1>6. QED
  BY <1>4, <1>5

\* A write to the cache is a write to the map, which loses the evicted keys.
LEMMA WriteMaps ==
    ASSUME IInv, NEW k \in Key, NEW v \in Value, NEW t \in TTLs,
           setLocked(k, v, t), UNCHANGED now
    PROVE  Map!Write(k, v, t)
<1>0. PICK lost \in SUBSET (Key \ {k}) : Evicts(k, v, t, lost)
  BY EvictedKeys
<1>1. /\ lost # {} => /\ MaxEntries > 0 /\ items[k] = None
                      /\ Cardinality(lost) <= 1 + MaxEntries \div EvictionDivisor
      /\ items' = [j \in Key |->
             IF j \in lost THEN None
             ELSE IF j = k THEN [value |-> v, created |-> now, ttl |-> t]
             ELSE items[j]]
  BY <1>0 DEF Evicts
<1> DEFINE new == [value |-> v, created |-> now, ttl |-> t]
<1>2. /\ new \in Item /\ new # None /\ new.value = v
      /\ new.created = now /\ new.ttl = t /\ now \in Nat /\ t \in Nat
  BY CacheConstants DEF IInv, TypeOK, Item, Time
<1>3. items'[k] = new
  BY <1>1
<1> HIDE DEF new
<1>4. Live(k)'
  BY <1>2, <1>3 DEF Live, Expired
<1>5. Entry'[k] = [value |-> v, until |-> now + t]
  BY <1>2, <1>3, <1>4 DEF Entry
<1>6. ASSUME NEW j \in lost PROVE Entry'[j] = None
  BY <1>1, <1>6 DEF Entry, Live
<1>7. ASSUME NEW j \in Key, j # k, j \notin lost PROVE Entry'[j] = Entry[j]
  BY <1>1, <1>7 DEF Entry, Live, Expired
<1>8. lost # {} => Entry[k] = None
  BY <1>1 DEF Entry, Live
<1>9. Entry' = [j \in Key |-> CASE j = k -> [value |-> v, until |-> now + t]
                                [] j \in lost -> None
                                [] OTHER -> Entry[j]]
  <2>1. Entry' = [j \in Key |-> Entry'[j]]
    BY DEF Entry
  <2>2. ASSUME NEW j \in Key
        PROVE  Entry'[j] = CASE j = k -> [value |-> v, until |-> now + t]
                             [] j \in lost -> None
                             [] OTHER -> Entry[j]
    <3>1. k \notin lost
      BY <1>1
    <3>2. QED
      BY <1>5, <1>6, <1>7, <3>1
  <2>3. QED
    BY <2>1, <2>2
<1>10. QED
  BY <1>1, <1>8, <1>9, SameCardinality DEF Map!Write

\* A visit of the collector shows nothing: what it removes had expired.
LEMMA VisitHidden ==
    ASSUME IInv, CollectorBehind, GCVisit
    PROVE  UNCHANGED <<now, Entry>>
<1> DEFINE k == keyList[gc.i]
<1>1. /\ k \in Key /\ UNCHANGED now /\ now \in Nat /\ gc.now \in Nat
  BY CacheConstants DEF GCVisit, IInv, TypeOK, Time
<1>2. CASE UNCHANGED items
  BY <1>1, <1>2 DEF Entry, Live, Expired
<1>3. CASE ~UNCHANGED items
  <2>1. /\ items' = [items EXCEPT ![k] = None]
        /\ items[k] = None \/ Expired(items[k], gc.now)
    BY <1>3 DEF GCVisit
  <2>2. ~Live(k)
    <3>1. CASE items[k] = None
      BY <3>1 DEF Live
    <3>2. CASE items[k] # None
      <4>1. items[k].created \in Nat /\ items[k].ttl \in Nat
        BY <1>1, <3>2, ItemTimes
      <4>2. QED
        BY <1>1, <2>1, <3>2, <4>1 DEF Live, Expired, CollectorBehind
    <3>3. QED
      BY <3>1, <3>2
  <2> HIDE DEF k
  <2>3. items'[k] = None /\ \A j \in Key : j # k => items'[j] = items[j]
    BY <1>1, <2>1 DEF IInv, TypeOK
  <2>4. ASSUME NEW j \in Key PROVE Entry'[j] = Entry[j]
    <3>1. CASE j = k
      BY <2>2, <2>3, <3>1 DEF Entry, Live
    <3>2. CASE j # k
      BY <1>1, <2>3, <3>2 DEF Entry, Live, Expired
    <3>3. QED
      BY <3>1, <3>2
  <2>5. Entry' = [j \in Key |-> Entry'[j]] /\ Entry = [j \in Key |-> Entry[j]]
    BY DEF Entry
  <2>6. QED
    BY <1>1, <2>4, <2>5
<1>4. QED
  BY <1>2, <1>3

\* When time passes, the map forgets what is now past its time to live.
LEMMA TickMaps ==
    ASSUME IInv, Tick
    PROVE  Map!Tick
<1>1. now \in Nat /\ now' = now + 1 /\ now < MaxTime /\ UNCHANGED items
  BY CacheConstants DEF Tick, IInv, TypeOK, Time
<1>2. ASSUME NEW k \in Key
      PROVE  Entry'[k] = IF Entry[k] # None /\ Entry[k].until < now + 1
                         THEN None ELSE Entry[k]
  <2>1. CASE items[k] = None
    BY <1>1, <2>1 DEF Entry, Live
  <2>2. CASE items[k] # None
    <3>1. items[k].created \in Nat /\ items[k].ttl \in Nat
      BY <2>2, ItemTimes
    <3> DEFINE entry == [value |-> items[k].value,
                         until |-> items[k].created + items[k].ttl]
    <3>2. /\ Entry[k] = IF Live(k) THEN entry ELSE None
          /\ Entry'[k] = IF Live(k)' THEN entry ELSE None
      BY <1>1 DEF Entry
    <3>3. /\ Live(k) <=> now - items[k].created <= items[k].ttl
          /\ Live(k)' <=> now + 1 - items[k].created <= items[k].ttl
      BY <1>1, <2>2, <3>1 DEF Live, Expired
    <3>4. entry.until = items[k].created + items[k].ttl
      OBVIOUS
    <3> HIDE DEF entry
    <3>5. CASE Live(k)'
      <4>1. Live(k) /\ ~(entry.until < now + 1)
        BY <1>1, <3>1, <3>3, <3>4, <3>5
      <4>2. QED
        BY <3>2, <3>5, <4>1
    <3>6. CASE Live(k) /\ ~Live(k)'
      <4>1. entry.until < now + 1
        BY <1>1, <3>1, <3>3, <3>4, <3>6
      <4>2. QED
        BY <3>2, <3>6, <4>1
    <3>7. CASE ~Live(k) /\ ~Live(k)'
      BY <3>2, <3>7
    <3>8. QED
      BY <3>5, <3>6, <3>7
  <2>3. QED
    BY <2>1, <2>2
<1>3. Entry' = [k \in Key |-> Entry'[k]]
  BY DEF Entry
<1>4. QED
  BY <1>1, <1>2, <1>3 DEF Map!Tick

\* cache.go:35-36, 41-43, 69-71: for every cap, divisor and set of keys, the cache
\* with its list, its evictions and its collector implements TTLMap.  A read
\* finds the last value written, unless it was deleted, has outlived its time to
\* live, or was evicted by the write of a new key; that write loses no more than
\* 1 + maxEntries / evictionBatchDivisor entries and never its own, and the
\* collector takes nothing that a reader could still see.
THEOREM CacheIsMap == Spec => ImplementsMap
<1>1. Init => Map!Init /\ CollectorBehind
  BY DEF Init, Map!Init, Entry, Live, CollectorBehind
<1>2. IInv /\ CollectorBehind /\ [Next]_vars => CollectorBehind'
  <2> SUFFICES ASSUME IInv, CollectorBehind, [Next]_vars PROVE CollectorBehind'
    OBVIOUS
  <2>1. /\ now \in Nat /\ gc.now \in Nat
        /\ now' = now \/ now' = now + 1
        /\ gc'.now = gc.now \/ gc'.now = now
    BY CacheConstants DEF IInv, TypeOK, Time, Next, vars, Set, GetOrSet, Delete, Flush,
       GCStart, GCVisit, GCEnd, GCReturn, Stop, Tick
  <2>2. QED
    BY <2>1 DEF CollectorBehind
<1>3. IInv /\ CollectorBehind /\ [Next]_vars => [Map!Next]_(Map!vars)
  <2> SUFFICES ASSUME IInv, CollectorBehind, [Next]_vars
               PROVE  [Map!Next]_(Map!vars)
    OBVIOUS
  <2>1. ASSUME NEW k \in Key, NEW v \in Value, NEW t \in TTLs,
               Set(k, v, t) \/ GetOrSet(k, v, t)
        PROVE  Map!Next
    <3>1. Map!Write(k, v, t)
      BY <2>1, WriteMaps DEF Set, GetOrSet
    <3>2. QED
      BY <3>1 DEF Map!Next
  <2>2. ASSUME NEW k \in Key, Delete(k) PROVE Map!Next
    <3>1. /\ UNCHANGED now /\ items'[k] = None
          /\ \A j \in Key : j # k => items'[j] = items[j]
      BY <2>2 DEF Delete, IInv, TypeOK
    <3>2. Entry'[k] = None /\ \A j \in Key : j # k => Entry'[j] = Entry[j]
      BY <3>1 DEF Entry, Live, Expired
    <3>3. Entry' = [Entry EXCEPT ![k] = None]
      BY <3>2 DEF Entry
    <3>4. QED
      BY <3>1, <3>3 DEF Map!Next, Map!Remove
  <2>3. CASE Flush
    <3>1. Entry' = [k \in Key |-> None]
      BY <2>3 DEF Flush, Entry, Live
    <3>2. QED
      BY <2>3, <3>1 DEF Flush, Map!Next, Map!Clear
  <2>4. CASE GCVisit
    BY <2>4, VisitHidden DEF Map!vars
  <2>5. CASE UNCHANGED <<now, items>>
    <3>1. UNCHANGED Entry
      BY <2>5 DEF Entry, Live, Expired
    <3>2. QED
      BY <2>5, <3>1 DEF Map!vars
  <2>6. CASE Tick
    BY <2>6, TickMaps DEF Map!Next
  <2>7. QED
    BY <2>1, <2>2, <2>3, <2>4, <2>5, <2>6
    DEF Next, GCStart, GCEnd, GCReturn, Stop, vars
<1>4. QED
  BY <1>1, <1>2, <1>3, AlwaysIInv, PTL DEF Spec, ImplementsMap, Map!Spec
=============================================================================
