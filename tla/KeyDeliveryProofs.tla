-------------------------- MODULE KeyDeliveryProofs --------------------------
(***************************************************************************)
(* The key an enclave hands out stays usable for as long as anyone may     *)
(* still use it, and all callers of one request ID get the same key:       *)
(* proved for any callers, request IDs, durations and clock bound that     *)
(* satisfy KeyOutlivesAnswer.                                              *)
(***************************************************************************)
EXTENDS KeyDelivery, FiniteSetTheorems, TLAPS

Stamped == [key : Nat, at : Nat]

\* The types the argument needs.
Types ==
    /\ now \in Nat /\ nextTick \in Nat
    /\ call \in [Caller -> [pc : {"idle", "start", "mapped", "picked", "done"},
                            id : Id, key : Nat \cup {None},
                            since : Nat, at : Nat]]
    /\ map \in [Id -> Stamped \cup {None}]
    /\ first \in [Id -> Stamped \cup {None}]
    /\ sweep \in [todo : SUBSET Id, id : Id \cup {None}, key : Nat \cup {None}]
    /\ cached \in Stamped \cup {None}
    /\ refresh \in Stamped \cup {None}
    /\ fetched \in [Caller -> [key : Nat \cup {None}] \cup {None}]

\* The number of the newest key.
Last == Cardinality(DOMAIN keys)

\* The newest key was created one rotation before the next tick, which is
\* never missed; before the first key the clock stands still.
KeysInv ==
    /\ Last \in Nat
    /\ DOMAIN keys = 1 .. Last
    /\ \A k \in DOMAIN keys : keys[k] \in Nat
    /\ now <= nextTick
    /\ Last = 0 => now = 0 /\ nextTick = 0
    /\ Last # 0 => keys[Last] + RotFreq = nextTick

\* Key k was at most d old at time t.
Within(k, d, t) == k \in DOMAIN keys /\ t <= keys[k] + d

\* What a call knows of its key, and how long it has been running.
CallInv(c) ==
    LET r == call[c]
    IN  /\ r.since <= now
        /\ r.pc \in {"start", "mapped", "picked"} => now <= r.since + CallDelay
        /\ (r.pc # "idle" /\ fetched[c] = None) => now <= r.since + CallDelay
        /\ r.pc = "picked" => Within(r.key, RotFreq, r.since)
        /\ r.pc = "mapped" => Within(r.key, RotFreq + CallDelay + MapTTL, r.since)
        /\ (r.pc = "done" /\ r.key # None) =>
               Within(r.key, RotFreq + CallDelay + MapTTL, r.since)
        /\ (r.pc = "done" /\ r.key = None) => r.since = 0

\* What a call knows of the first mapping of its ID.
SameInv(c) ==
    LET r == call[c]
        f == first[r.id]
    IN  /\ r.pc = "mapped" =>
               f # None /\ (now <= f.at + MapTTL => r.key = f.key)
        /\ (r.pc = "done" /\ r.key # None) =>
               f # None /\ (r.at <= f.at + MapTTL => r.key = f.key)

\* The first mapping stays for its TTL, and a mapping was made while its key
\* was young.
MapInv(i) ==
    /\ map[i] # None =>
           Within(map[i].key, RotFreq + CallDelay, map[i].at) /\ first[i] # None
    /\ first[i] # None => (now <= first[i].at + MapTTL => map[i] = first[i])

SweepInv == sweep.id # None => Alive(sweep.key)

RefreshInv ==
    refresh # None =>
        /\ Within(refresh.key, RotFreq, refresh.at)
        /\ now <= refresh.at + CallDelay

CachedInv ==
    cached # None =>
        Within(cached.key, RotFreq + MapTTL + 2 * CallDelay, cached.at)

IInv ==
    /\ Types
    /\ KeysInv
    /\ \A c \in Caller : CallInv(c) /\ SameInv(c)
    /\ \A i \in Id : MapInv(i)
    /\ SweepInv
    /\ RefreshInv
    /\ CachedInv

-----------------------------------------------------------------------------
\* The durations are numbers, and the age a cached key may reach fits in its
\* lifetime.
LEMMA Durations ==
    /\ RotFreq \in Nat /\ KeyTTL \in Nat /\ MapTTL \in Nat
    /\ CallDelay \in Nat /\ MaxTTL \in Nat
    /\ RotFreq + MapTTL + 2 * CallDelay + MaxTTL <= KeyTTL
  BY KeychainConstants, CacheConstants, KeyOutlivesAnswer

\* calculateEffectiveTTL never exceeds the cap.
LEMMA EffectiveTTLCapped ==
    calculateEffectiveTTL \in Int /\ calculateEffectiveTTL <= MaxTTL
<1> DEFINE minTTL == IF KeyTTL > MaxTTL THEN MaxTTL ELSE KeyTTL
           buffer == minTTL \div BufferDivisor
<1>1. minTTL \in Nat /\ minTTL <= MaxTTL
  BY Durations
<1>2. buffer \in Int
  BY <1>1, CacheConstants
<1>3. QED
  <2> HIDE DEF minTTL, buffer
  <2>1. calculateEffectiveTTL = minTTL - (IF buffer < 1 THEN 1 ELSE buffer)
    BY DEF calculateEffectiveTTL, minTTL, buffer
  <2>2. QED
    BY <1>1, <1>2, <2>1, Durations

\* A key that was young enough when it was last vouched for is still usable.
LEMMA YoungKeyAlive ==
    ASSUME IInv, NEW k, NEW d \in Nat, NEW t \in Nat, NEW e \in Nat,
           Within(k, d, t), now <= t + e, d + e <= KeyTTL
    PROVE  Alive(k)
  BY Durations DEF IInv, Types, KeysInv, Within, Alive

\* The key of a mapping that is found is usable.
LEMMA MappedAlive ==
    ASSUME IInv, NEW i \in Id, Mapped(i)
    PROVE  Alive(map[i].key)
<1>1. map[i] \in Stamped /\ map[i].at \in Nat /\ now \in Nat
  BY DEF IInv, Types, Mapped, Stamped
<1>2. Within(map[i].key, RotFreq + CallDelay, map[i].at)
  BY DEF IInv, MapInv, Mapped
<1>3. now <= map[i].at + MapTTL
  BY <1>1, Durations DEF Mapped
<1>4. /\ RotFreq + CallDelay \in Nat /\ MapTTL \in Nat
      /\ (RotFreq + CallDelay) + MapTTL <= KeyTTL
  BY Durations
<1>5. QED
  BY <1>1, <1>2, <1>3, <1>4, YoungKeyAlive

\* The key a call took from the map is usable as long as the call runs.
LEMMA CallKeyAlive ==
    ASSUME IInv, NEW c \in Caller, call[c].pc = "mapped"
    PROVE  Alive(call[c].key)
<1>1. call[c].since \in Nat
  BY DEF IInv, Types
<1>2. /\ Within(call[c].key, RotFreq + CallDelay + MapTTL, call[c].since)
      /\ now <= call[c].since + CallDelay
  BY DEF IInv, CallInv
<1>3. QED
  BY <1>1, <1>2, Durations, YoungKeyAlive

\* Once there is a key, the newest one is usable and less than a rotation old.
LEMMA NewestAlive ==
    ASSUME IInv, Last # 0
    PROVE  Last \in DOMAIN keys /\ Alive(Last) /\ Within(Last, RotFreq, now)
<1>1. Last \in Nat /\ DOMAIN keys = 1 .. Last /\ Last \in DOMAIN keys
  BY DEF IInv, KeysInv
<1> HIDE DEF Last
<1>2. keys[Last] \in Nat /\ keys[Last] + RotFreq = nextTick /\ now <= nextTick
  BY <1>1 DEF IInv, KeysInv
<1>3. QED
  BY <1>1, <1>2, Durations DEF IInv, Types, Within, Alive

\* The key picked among the usable ones is the newest of all.
LEMMA PickedNewest ==
    ASSUME IInv, NEW k \in DOMAIN keys, \A l \in DOMAIN keys : Alive(l) => l <= k
    PROVE  k \in Nat /\ Within(k, RotFreq, now)
<1>1. Last \in Nat /\ DOMAIN keys = 1 .. Last
  BY DEF IInv, KeysInv
<1> HIDE DEF Last
<1>2. k \in Nat /\ k <= Last /\ Last # 0
  BY <1>1
<1>3. Last <= k
  BY <1>2, NewestAlive
<1>4. k = Last
  BY <1>1, <1>2, <1>3
<1>5. QED
  BY <1>2, <1>4, NewestAlive

-----------------------------------------------------------------------------
\* An update of a record leaves its other fields alone.  Every step from here on
\* has this among its facts: the SMT backend leaves out its type inference, slow
\* in a long module, for an obligation in which it meets such an update.
LEMMA Untyped == [[a |-> 0, b |-> 0] EXCEPT !.a = 1].b = 0
OBVIOUS

USE Untyped

CallRecord ==
    [pc : {"idle", "start", "mapped", "picked", "done"}, id : Id,
     key : Nat \cup {None}, since : Nat, at : Nat]

\* A step that changes one call only.
LEMMA OneCall ==
    ASSUME IInv, NEW c \in Caller, NEW r \in CallRecord,
           call' = [call EXCEPT ![c] = r],
           UNCHANGED <<now, keys, map, nextTick, sweep, first, deliveryVars>>,
           CallInv(c)', SameInv(c)'
    PROVE  IInv'
<1>1. UNCHANGED <<cached, refresh, fetched>>
  BY DEF deliveryVars
<1>2. Types'
  BY <1>1 DEF IInv, Types, CallRecord
<1>3. KeysInv'
  BY DEF IInv, KeysInv, Last
<1>4. ASSUME NEW b \in Caller PROVE CallInv(b)' /\ SameInv(b)'
  <2>1. CASE b = c
    BY <2>1
  <2>2. CASE b # c
    <3>1. call'[b] = call[b]
      BY <2>2 DEF IInv, Types
    <3>2. QED
      BY <1>1, <3>1 DEF IInv, CallInv, SameInv, Within
  <2>3. QED
    BY <2>1, <2>2
<1>5. ASSUME NEW i \in Id PROVE MapInv(i)'
  BY DEF IInv, MapInv, Within
<1>6. SweepInv' /\ RefreshInv' /\ CachedInv'
  BY <1>1 DEF IInv, SweepInv, RefreshInv, CachedInv, Within, Alive
<1>7. QED
  BY <1>2, <1>3, <1>4, <1>5, <1>6 DEF IInv

\* A call begins.
LEMMA BeginInv ==
    ASSUME IInv, NEW c \in Caller, Begin(c), UNCHANGED deliveryVars
    PROVE  IInv'
<1> DEFINE r == [call[c] EXCEPT !.pc = "start", !.since = now]
<1>1. call[c] \in CallRecord /\ now \in Nat
  BY DEF IInv, Types, CallRecord
<1>2. /\ call' = [call EXCEPT ![c] = r] /\ r \in CallRecord /\ call'[c] = r
      /\ UNCHANGED <<now, keys, map, nextTick, sweep, first>>
  BY <1>1 DEF Begin, IInv, Types, CallRecord
<1>3. r.pc = "start" /\ r.since = now
  BY <1>1 DEF CallRecord
<1>4. CallInv(c)' /\ SameInv(c)'
  <2> HIDE DEF r
  <2>1. now' = now /\ now <= now + CallDelay
    BY <1>1, <1>2, Durations
  <2>2. QED
    BY <1>1, <1>2, <1>3, <2>1 DEF CallInv, SameInv
<1>5. QED
  BY <1>2, <1>4, OneCall

\* Taking the key of a mapping that is found, by Get or by GetOrSet.
LEMMA TakeMapped ==
    ASSUME IInv, NEW c \in Caller, call[c].pc \in {"start", "picked"},
           Mapped(call[c].id),
           call' = [call EXCEPT ![c].pc = "mapped", ![c].key = map[call[c].id].key],
           UNCHANGED <<now, keys, map, nextTick, sweep, first, deliveryVars>>
    PROVE  IInv'
<1> DEFINE m == map[call[c].id]
           f == first[call[c].id]
           r == [call[c] EXCEPT !.pc = "mapped", !.key = m.key]
<1>1. /\ call[c] \in CallRecord /\ call[c].id \in Id /\ call[c].since \in Nat
      /\ now \in Nat /\ m \in Stamped /\ m # None
  BY DEF IInv, Types, CallRecord, Mapped
<1>2. call' = [call EXCEPT ![c] = r] /\ r \in CallRecord /\ call'[c] = r
  BY <1>1 DEF IInv, Types, CallRecord, Stamped
<1>3. /\ r.pc = "mapped" /\ r.key = m.key /\ r.since = call[c].since
      /\ r.id = call[c].id
  BY <1>1 DEF CallRecord
<1>4. /\ Within(m.key, RotFreq + CallDelay, m.at) /\ f # None
      /\ now <= f.at + MapTTL => m = f
  BY <1>1 DEF IInv, MapInv
<1>5. call[c].since <= now /\ now <= call[c].since + CallDelay
  BY DEF IInv, CallInv
<1>6. now <= m.at + MapTTL /\ m.at \in Nat
  BY <1>1, Durations DEF Mapped, Stamped
<1>7. m.key \in DOMAIN keys /\ keys[m.key] \in Nat
  BY <1>4 DEF Within, IInv, KeysInv
<1>8. Within(m.key, RotFreq + CallDelay + MapTTL, call[c].since)
  BY <1>1, <1>4, <1>5, <1>6, <1>7, Durations DEF Within
<1>9. CallInv(c)'
  <2>1. /\ r.key \in DOMAIN keys'
        /\ r.since <= keys'[r.key] + (RotFreq + CallDelay + MapTTL)
    BY <1>3, <1>8 DEF Within
  <2> HIDE DEF r, m
  <2>2. QED
    BY <1>2, <1>3, <1>5, <2>1 DEF CallInv, Within
<1>10. SameInv(c)'
  <2> HIDE DEF r, m
  <2>1. first'[r.id] = f /\ f # None /\ (now' <= f.at + MapTTL => r.key = f.key)
    BY <1>3, <1>4
  <2>2. QED
    BY <1>2, <1>3, <2>1 DEF SameInv
<1>11. QED
  BY <1>2, <1>9, <1>10, OneCall

\* Picking a key for an ID without a mapping.
LEMMA PickInv ==
    ASSUME IInv, NEW c \in Caller, PickNewest(c), UNCHANGED deliveryVars
    PROVE  IInv'
<1> DEFINE live == {k \in DOMAIN keys : Alive(k)}
<1>1. /\ call[c] \in CallRecord /\ call[c].since \in Nat /\ now \in Nat
      /\ call[c].pc = "start"
      /\ UNCHANGED <<now, keys, map, nextTick, sweep, first>>
  BY DEF IInv, Types, CallRecord, PickNewest
<1>2. call[c].since <= now /\ now <= call[c].since + CallDelay
  BY <1>1 DEF IInv, CallInv
<1>3. CASE live = {}
  <2> DEFINE r == [call[c] EXCEPT !.pc = "done", !.key = None, !.at = now]
  <2>1. call' = [call EXCEPT ![c] = r] /\ r \in CallRecord /\ call'[c] = r
    BY <1>1, <1>3 DEF PickNewest, Done, IInv, Types, CallRecord
  <2>2. r.pc = "done" /\ r.key = None /\ r.since = call[c].since
    BY <1>1 DEF CallRecord
  <2>3. Last = 0
    BY <1>3, NewestAlive
  <2>4. now = 0
    BY <2>3 DEF IInv, KeysInv
  <2>5. r.since = 0
    BY <1>1, <1>2, <2>2, <2>4
  <2>6. CallInv(c)' /\ SameInv(c)'
    <3> HIDE DEF r
    <3>1. QED
      BY <1>1, <1>2, <2>1, <2>2, <2>5 DEF CallInv, SameInv
  <2>7. QED
    BY <1>1, <2>1, <2>6, OneCall
<1>4. CASE live # {}
  <2>1. PICK k \in live :
           /\ \A l \in live : l <= k
           /\ call' = [call EXCEPT ![c].pc = "picked", ![c].key = k]
    BY <1>4 DEF PickNewest
  <2>2. k \in Nat /\ Within(k, RotFreq, now)
    BY <2>1, PickedNewest
  <2> DEFINE r == [call[c] EXCEPT !.pc = "picked", !.key = k]
  <2>3. call' = [call EXCEPT ![c] = r] /\ r \in CallRecord /\ call'[c] = r
    BY <1>1, <2>1, <2>2 DEF IInv, Types, CallRecord
  <2>4. r.pc = "picked" /\ r.key = k /\ r.since = call[c].since
    BY <1>1 DEF CallRecord
  <2>5. k \in DOMAIN keys /\ keys[k] \in Nat
    BY <2>1 DEF IInv, KeysInv
  <2>6. Within(k, RotFreq, call[c].since)
    BY <1>1, <1>2, <2>2, <2>5, Durations DEF Within
  <2>7. CallInv(c)' /\ SameInv(c)'
    <3>1. r.key \in DOMAIN keys' /\ r.since <= keys'[r.key] + RotFreq
      BY <1>1, <2>4, <2>6 DEF Within
    <3> HIDE DEF r
    <3>2. QED
      BY <1>1, <1>2, <2>3, <2>4, <3>1 DEF CallInv, SameInv, Within
  <2>8. QED
    BY <1>1, <2>3, <2>7, OneCall
<1>5. QED
  BY <1>3, <1>4

\* Pinning the picked key: the ID has no mapping, so the TTL of its first one,
\* if there was any, has passed.
LEMMA PinInv ==
    ASSUME IInv, NEW c \in Caller, GetOrSet(c), ~Mapped(call[c].id),
           UNCHANGED deliveryVars
    PROVE  IInv'
<1> DEFINE i == call[c].id
           m == [key |-> call[c].key, at |-> now]
           r == [call[c] EXCEPT !.pc = "done", !.key = call[c].key, !.at = now]
<1>1. /\ call[c] \in CallRecord /\ i \in Id /\ call[c].since \in Nat /\ now \in Nat
      /\ call[c].pc = "picked"
      /\ UNCHANGED <<now, keys, nextTick, sweep, cached, refresh, fetched>>
  BY DEF IInv, Types, CallRecord, GetOrSet, deliveryVars
<1>2. /\ call[c].since <= now /\ now <= call[c].since + CallDelay
      /\ Within(call[c].key, RotFreq, call[c].since)
  BY <1>1 DEF IInv, CallInv
<1>3. call[c].key \in DOMAIN keys /\ keys[call[c].key] \in Nat /\ call[c].key \in Nat
  BY <1>2 DEF IInv, KeysInv, Within
<1>4. m \in Stamped /\ m # None /\ call[c].key # None
  BY <1>1, <1>3, KeychainConstants DEF Stamped
<1>5. /\ call' = [call EXCEPT ![c] = r] /\ r \in CallRecord /\ call'[c] = r
      /\ map' = [map EXCEPT ![i] = m]
      /\ first' = [first EXCEPT ![i] = IF @ = None THEN m ELSE @]
  BY <1>1 DEF GetOrSet, Done, IInv, Types, CallRecord
<1>6. /\ r.pc = "done" /\ r.key = call[c].key /\ r.since = call[c].since
      /\ r.id = i /\ r.at = now
  BY <1>1 DEF CallRecord
<1>7. /\ map'[i] = m /\ first'[i] = (IF first[i] = None THEN m ELSE first[i])
      /\ first'[i] \in Stamped /\ first'[i] # None
      /\ \A j \in Id : j # i => map'[j] = map[j] /\ first'[j] = first[j]
      /\ \A j \in Id : first[j] # None => first'[j] = first[j]
  BY <1>1, <1>4, <1>5 DEF IInv, Types
<1>8. first[i] # None => ~(now <= first[i].at + MapTTL)
  <2> SUFFICES ASSUME first[i] # None, now <= first[i].at + MapTTL PROVE FALSE
    OBVIOUS
  <2>1. map[i] = first[i] /\ first[i] \in Stamped
    BY <1>1 DEF IInv, MapInv, Types
  <2>2. Mapped(i)
    BY <1>1, <2>1, Durations DEF Mapped, Stamped
  <2>3. QED
    BY <2>2
<1>9. Within(m.key, RotFreq + CallDelay, m.at)
  BY <1>1, <1>2, <1>3, Durations DEF Within
<1>10. Within(r.key, RotFreq + CallDelay + MapTTL, r.since)
  BY <1>1, <1>2, <1>3, <1>6, Durations DEF Within
<1>11. now <= first'[i].at + MapTTL => first'[i] = m
  BY <1>7, <1>8
<1> HIDE DEF i, m, r
<1>12. Types'
  BY <1>1, <1>4, <1>5, <1>7 DEF IInv, Types, CallRecord
<1>13. KeysInv'
  BY <1>1 DEF IInv, KeysInv, Last
<1>14. ASSUME NEW b \in Caller PROVE CallInv(b)' /\ SameInv(b)'
  <2>1. CASE b = c
    <3>1. call'[b] = r
      BY <1>5, <2>1
    <3>2. CallInv(b)'
      BY <1>1, <1>2, <1>4, <1>6, <1>10, <2>1, <3>1 DEF CallInv, Within
    <3>3. m.key = r.key
      BY <1>6 DEF m
    <3>4. SameInv(b)'
      BY <1>1, <1>4, <1>6, <1>7, <1>11, <3>1, <3>3 DEF SameInv
    <3>5. QED
      BY <3>2, <3>4
  <2>2. CASE b # c
    <3>1. call'[b] = call[b] /\ call[b].id \in Id
      BY <1>5, <2>2 DEF IInv, Types
    <3>2. CallInv(b)'
      BY <1>1, <3>1 DEF IInv, CallInv, Within
    <3>3. SameInv(b)
      BY DEF IInv
    <3>4. SameInv(b)'
      BY <1>1, <1>7, <3>1, <3>3 DEF SameInv
    <3>5. QED
      BY <3>2, <3>4
  <2>3. QED
    BY <2>1, <2>2
<1>15. ASSUME NEW j \in Id PROVE MapInv(j)'
  <2>1. CASE j = i
    BY <1>1, <1>7, <1>9, <1>11, <2>1 DEF MapInv, Within
  <2>2. CASE j # i
    BY <1>1, <1>7, <2>2 DEF IInv, MapInv, Within
  <2>3. QED
    BY <2>1, <2>2
<1>16. SweepInv' /\ RefreshInv' /\ CachedInv'
  BY <1>1 DEF IInv, SweepInv, RefreshInv, CachedInv, Within, Alive
<1>17. QED
  BY <1>12, <1>13, <1>14, <1>15, <1>16 DEF IInv

\* The key of a mapped call is usable, so the call returns it and the mapping
\* stays.
LEMMA ResolveInv ==
    ASSUME IInv, NEW c \in Caller, Resolve(c), UNCHANGED deliveryVars
    PROVE  IInv' /\ map' = map
<1> DEFINE r == [call[c] EXCEPT !.pc = "done", !.key = call[c].key, !.at = now]
<1>1. /\ call[c] \in CallRecord /\ call[c].since \in Nat /\ now \in Nat
      /\ call[c].pc = "mapped"
      /\ UNCHANGED <<now, keys, nextTick, sweep, first>>
  BY DEF IInv, Types, CallRecord, Resolve
<1>2. Alive(call[c].key)
  BY <1>1, CallKeyAlive
<1>3. /\ call' = [call EXCEPT ![c] = r] /\ r \in CallRecord /\ call'[c] = r
      /\ map' = map
  BY <1>1, <1>2 DEF Resolve, Done, IInv, Types, CallRecord
<1>4. /\ r.pc = "done" /\ r.key = call[c].key /\ r.since = call[c].since
      /\ r.id = call[c].id /\ r.at = now
  BY <1>1 DEF CallRecord
<1>5. r.key # None
  BY <1>2, <1>4, KeychainConstants DEF Alive, IInv, KeysInv
<1>6. CallInv(c) /\ SameInv(c)
  BY DEF IInv
<1> HIDE DEF r
<1>7. CallInv(c)' /\ SameInv(c)'
  <2>0. UNCHANGED fetched
    BY DEF deliveryVars
  <2>1. CallInv(c)'
    BY <1>1, <1>3, <1>4, <1>5, <1>6, <2>0 DEF CallInv, Within
  <2>2. SameInv(c)'
    BY <1>1, <1>3, <1>4, <1>6 DEF SameInv
  <2>3. QED
    BY <2>1, <2>2
<1>8. QED
  BY <1>1, <1>3, <1>7, OneCall

\* A rotation adds a key and leaves the others as they were.
LEMMA RotateInv ==
    ASSUME IInv, Rotate, UNCHANGED deliveryVars
    PROVE  IInv'
<1> HIDE Untyped
<1> DEFINE n == Last
<1>1. /\ n \in Nat /\ DOMAIN keys = 1 .. n /\ now \in Nat /\ now = nextTick
      /\ \A k \in DOMAIN keys : keys[k] \in Nat
      /\ UNCHANGED <<now, map, call, first, cached, refresh, fetched>>
      /\ nextTick' = now + RotFreq
      /\ keys' = [l \in DOMAIN keys \cup {n + 1} |-> IF l = n + 1 THEN now ELSE keys[l]]
      /\ sweep' = [todo |-> IF now = 0 THEN {} ELSE {i \in Id : map[i] # None},
                   id |-> None, key |-> None]
  BY DEF IInv, Types, KeysInv, Rotate, Last, deliveryVars
<1> HIDE DEF n
<1>2. /\ DOMAIN keys' = 1 .. n + 1
      /\ \A k \in DOMAIN keys : k \in DOMAIN keys' /\ keys'[k] = keys[k]
      /\ keys'[n + 1] = now
  BY <1>1
<1>3. Last' = n + 1
  <2>1. Cardinality(1 .. n + 1) = n + 1
    BY <1>1, FS_Interval, 1 \in Int, n + 1 \in Int, n + 1 >= 1
  <2>2. QED
    BY <1>2, <2>1 DEF Last
<1>4. KeysInv'
  <2>1. \A k \in DOMAIN keys' : keys'[k] \in Nat
    BY <1>1, <1>2
  <2>2. now' <= nextTick' /\ n + 1 \in Nat /\ n + 1 # 0
    BY <1>1, Durations
  <2>3. QED
    BY <1>1, <1>2, <1>3, <2>1, <2>2 DEF KeysInv
<1>5. \A k, d, t : Within(k, d, t) =>
         k \in DOMAIN keys' /\ t <= keys'[k] + d
  BY <1>2 DEF Within
<1>6. Types'
  BY <1>1, Durations DEF IInv, Types
<1>7. ASSUME NEW c \in Caller PROVE CallInv(c)' /\ SameInv(c)'
  <2>1. CallInv(c) /\ SameInv(c)
    BY DEF IInv
  <2>2. CallInv(c)'
    BY <1>1, <1>5, <2>1 DEF CallInv, Within
  <2>3. SameInv(c)'
    BY <1>1, <2>1 DEF SameInv
  <2>4. QED
    BY <2>2, <2>3
<1>8. ASSUME NEW i \in Id PROVE MapInv(i)'
  BY <1>1, <1>5 DEF IInv, MapInv, Within
<1>9. SweepInv' /\ RefreshInv' /\ CachedInv'
  BY <1>1, <1>5 DEF IInv, SweepInv, RefreshInv, CachedInv, Within
<1>10. QED
  BY <1>4, <1>6, <1>7, <1>8, <1>9 DEF IInv

\* The sweep reads a mapping, whose key is then usable ...
LEMMA SweepGetInv ==
    ASSUME IInv, NEW i \in Id, SweepGet(i), UNCHANGED deliveryVars
    PROVE  IInv'
<1>1. /\ UNCHANGED <<now, keys, map, call, nextTick, first, cached, refresh, fetched>>
      /\ sweep' = [todo |-> sweep.todo \ {i},
                   id |-> IF Mapped(i) THEN i ELSE None,
                   key |-> IF Mapped(i) THEN map[i].key ELSE None]
  BY DEF SweepGet, deliveryVars
<1>2. Mapped(i) => map[i] \in Stamped /\ map[i].key \in Nat
  BY DEF Mapped, IInv, Types, Stamped
<1>3. Types'
  BY <1>1, <1>2 DEF IInv, Types
<1>4. SweepInv'
  <2>1. CASE Mapped(i)
    <3>1. sweep'.key = map[i].key /\ Alive(map[i].key)
      BY <1>1, <2>1, MappedAlive
    <3>2. QED
      BY <1>1, <3>1 DEF SweepInv, Alive
  <2>2. CASE ~Mapped(i)
    BY <1>1, <2>2 DEF SweepInv
  <2>3. QED
    BY <2>1, <2>2
<1>5. \A c \in Caller : CallInv(c)' /\ SameInv(c)'
  BY <1>1 DEF IInv, CallInv, SameInv, Within
<1>6. KeysInv' /\ (\A j \in Id : MapInv(j)') /\ RefreshInv' /\ CachedInv'
  BY <1>1 DEF IInv, KeysInv, Last, MapInv, RefreshInv, CachedInv, Within
<1>7. QED
  BY <1>3, <1>4, <1>5, <1>6 DEF IInv

\* ... and still is when the sweep looks it up, so the mapping stays.
LEMMA SweepDeleteInv ==
    ASSUME IInv, SweepDelete, UNCHANGED deliveryVars
    PROVE  IInv' /\ map' = map
<1>1. Alive(sweep.key)
  BY DEF IInv, SweepInv, SweepDelete
<1>2. /\ UNCHANGED <<now, keys, map, call, nextTick, first, cached, refresh, fetched>>
      /\ sweep' = [sweep EXCEPT !.id = None, !.key = None]
  BY <1>1 DEF SweepDelete, deliveryVars
<1>3. Types' /\ SweepInv'
  BY <1>2 DEF IInv, Types, SweepInv
<1>4. \A c \in Caller : CallInv(c)' /\ SameInv(c)'
  BY <1>2 DEF IInv, CallInv, SameInv, Within
<1>5. KeysInv' /\ (\A j \in Id : MapInv(j)') /\ RefreshInv' /\ CachedInv'
  BY <1>2 DEF IInv, KeysInv, Last, MapInv, RefreshInv, CachedInv, Within
<1>6. QED
  BY <1>2, <1>3, <1>4, <1>5 DEF IInv

\* Time passes only while every bound on a delay still has room.
LEMMA TickInv ==
    ASSUME IInv, KeychainStep, Tick
    PROVE  IInv'
<1>1. /\ now \in Nat /\ now' = now + 1 /\ now < nextTick /\ sweep.id = None
      /\ nextTick \in Nat
      /\ UNCHANGED <<keys, map, call, nextTick, sweep, first, cached, refresh, fetched>>
  BY DEF IInv, Types, Tick, KeychainStep, deliveryVars
<1>2. /\ \A c \in Caller : call[c].pc \in {"start", "mapped", "picked"} =>
             now < call[c].since + CallDelay
      /\ \A c \in Caller : (call[c].pc # "idle" /\ fetched[c] = None) =>
             now < call[c].since + CallDelay
      /\ refresh # None => now < refresh.at + CallDelay
  BY <1>1 DEF Tick, KeychainStep
<1>3. Types'
  BY <1>1 DEF IInv, Types
<1>4. KeysInv'
  <2>1. now' <= nextTick'
    BY <1>1
  <2>2. Last # 0
    BY <1>1 DEF IInv, KeysInv
  <2>3. QED
    BY <1>1, <2>1, <2>2 DEF IInv, KeysInv, Last
<1>5. ASSUME NEW c \in Caller PROVE CallInv(c)' /\ SameInv(c)'
  <2>1. CallInv(c) /\ SameInv(c) /\ call[c].since \in Nat /\ call[c].id \in Id
    BY DEF IInv, Types
  <2>2. /\ call[c].since <= now'
        /\ \A t \in Nat : now < t => now' <= t
        /\ call[c].since + CallDelay \in Nat
    BY <1>1, <2>1, Durations DEF CallInv
  <2>3. CallInv(c)'
    BY <1>1, <1>2, <2>1, <2>2 DEF CallInv, Within
  <2>4. first[call[c].id] # None =>
           /\ first[call[c].id].at + MapTTL \in Nat
           /\ now' <= first[call[c].id].at + MapTTL
                => now <= first[call[c].id].at + MapTTL
    BY <1>1, <2>1, Durations DEF IInv, Types, Stamped
  <2>5. SameInv(c)'
    BY <1>1, <2>1, <2>4 DEF SameInv
  <2>6. QED
    BY <2>3, <2>5
<1>6. ASSUME NEW i \in Id PROVE MapInv(i)'
  <2>1. first[i] # None =>
           (now' <= first[i].at + MapTTL => now <= first[i].at + MapTTL)
    BY <1>1, Durations DEF IInv, Types, Stamped
  <2>2. QED
    BY <1>1, <2>1 DEF IInv, MapInv, Within
<1>7. SweepInv' /\ CachedInv'
  BY <1>1 DEF IInv, SweepInv, CachedInv, Within
<1>8. RefreshInv'
  BY <1>1, <1>2, Durations DEF IInv, Types, Stamped, RefreshInv, Within
<1>9. QED
  BY <1>3, <1>4, <1>5, <1>6, <1>7, <1>8 DEF IInv

-----------------------------------------------------------------------------
\* Every step of the keychain preserves the invariant and every live mapping.
LEMMA KeychainStepInv ==
    ASSUME IInv, KeychainStep
    PROVE  /\ IInv'
           /\ \A i \in Id : Mapped(i) => map'[i] = map[i]
<1>1. Next /\ UNCHANGED deliveryVars
  BY DEF KeychainStep
<1>2. ASSUME NEW c \in Caller, Begin(c) PROVE IInv' /\ map' = map
  BY <1>1, <1>2, BeginInv DEF Begin
<1>3. ASSUME NEW c \in Caller, Lookup(c) PROVE IInv' /\ map' = map
  BY <1>1, <1>3, TakeMapped DEF Lookup
<1>4. ASSUME NEW c \in Caller, PickNewest(c) PROVE IInv' /\ map' = map
  BY <1>1, <1>4, PickInv DEF PickNewest
<1>5. ASSUME NEW c \in Caller, GetOrSet(c)
      PROVE  IInv' /\ \A i \in Id : Mapped(i) => map'[i] = map[i]
  <2>1. CASE Mapped(call[c].id)
    <3>1. /\ call[c].pc = "picked"
          /\ call' = [call EXCEPT ![c].pc = "mapped", ![c].key = map[call[c].id].key]
          /\ UNCHANGED <<now, keys, map, nextTick, sweep, first>>
      BY <1>5, <2>1 DEF GetOrSet
    <3>2. QED
      BY <1>1, <2>1, <3>1, TakeMapped
  <2>2. CASE ~Mapped(call[c].id)
    <3>1. map' = [map EXCEPT ![call[c].id] = [key |-> call[c].key, at |-> now]]
      BY <1>5, <2>2 DEF GetOrSet
    <3>2. \A i \in Id : Mapped(i) => map'[i] = map[i]
      BY <2>2, <3>1 DEF IInv, Types
    <3>3. QED
      BY <1>1, <1>5, <2>2, <3>2, PinInv
  <2>3. QED
    BY <2>1, <2>2
<1>6. ASSUME NEW c \in Caller, Resolve(c) PROVE IInv' /\ map' = map
  BY <1>1, <1>6, ResolveInv
<1>7. CASE Rotate
  BY <1>1, <1>7, RotateInv DEF Rotate
<1>8. ASSUME NEW i \in Id, SweepGet(i) PROVE IInv' /\ map' = map
  BY <1>1, <1>8, SweepGetInv DEF SweepGet
<1>9. CASE SweepDelete
  BY <1>1, <1>9, SweepDeleteInv
<1>10. CASE Tick
  BY <1>10, TickInv DEF Tick
<1>11. QED
  BY <1>1, <1>2, <1>3, <1>4, <1>5, <1>6, <1>7, <1>8, <1>9, <1>10 DEF Next

\* Storing an answer whose key is young enough.
LEMMA StoreInv ==
    ASSUME IInv, NEW k \in Nat, setCachedPublicKey(k),
           Within(k, RotFreq + MapTTL + 2 * CallDelay, now),
           UNCHANGED <<now, keys>>
    PROVE  CachedInv' /\ cached' \in Stamped \cup {None}
<1>1. now \in Nat /\ cached \in Stamped \cup {None}
  BY DEF IInv, Types
<1>2. CASE calculateEffectiveTTL <= 0
  BY <1>1, <1>2 DEF setCachedPublicKey, IInv, CachedInv, Within
<1>3. CASE ~(calculateEffectiveTTL <= 0)
  <2>1. cached' = [key |-> k, at |-> now]
    BY <1>3 DEF setCachedPublicKey
  <2>2. cached' \in Stamped /\ cached'.key = k /\ cached'.at = now
    BY <1>1, <2>1 DEF Stamped
  <2>3. QED
    BY <2>2 DEF CachedInv, Within
<1>4. QED
  BY <1>2, <1>3

\* A step of the pool, which leaves the keychain alone.
LEMMA PoolInv ==
    ASSUME IInv, UNCHANGED vars,
           cached' \in Stamped \cup {None}, refresh' \in Stamped \cup {None},
           fetched' \in [Caller -> [key : Nat \cup {None}] \cup {None}],
           \A c \in Caller : fetched'[c] = None => fetched[c] = None,
           CachedInv', RefreshInv'
    PROVE  IInv'
<1>1. UNCHANGED <<now, keys, map, call, nextTick, sweep, first>>
  BY DEF vars
<1>2. Types'
  BY <1>1 DEF IInv, Types
<1>3. \A c \in Caller : CallInv(c)' /\ SameInv(c)'
  BY <1>1 DEF IInv, CallInv, SameInv, Within
<1>4. KeysInv' /\ (\A i \in Id : MapInv(i)') /\ SweepInv'
  BY <1>1 DEF IInv, KeysInv, Last, MapInv, SweepInv, Within, Alive
<1>5. QED
  BY <1>2, <1>3, <1>4 DEF IInv

\* An answer that arrives in time carries a young key.
LEMMA DeliverInv ==
    ASSUME IInv, NEW c \in Caller, Deliver(c)
    PROVE  IInv'
<1> DEFINE k == call[c].key
<1>1. /\ call[c].pc = "done" /\ k # None /\ fetched[c] = None
      /\ call[c].since \in Nat /\ k \in Nat /\ now \in Nat
      /\ fetched' = [fetched EXCEPT ![c] = [key |-> k]]
      /\ UNCHANGED <<now, keys>> /\ refresh' = refresh /\ UNCHANGED vars
      /\ setCachedPublicKey(k)
  BY DEF Deliver, IInv, Types, vars
<1>2. /\ Within(k, RotFreq + CallDelay + MapTTL, call[c].since)
      /\ now <= call[c].since + CallDelay
  BY <1>1 DEF IInv, CallInv
<1>3. k \in DOMAIN keys /\ keys[k] \in Nat
  BY <1>2 DEF Within, IInv, KeysInv
<1>4. Within(k, RotFreq + MapTTL + 2 * CallDelay, now)
  BY <1>1, <1>2, <1>3, Durations DEF Within
<1> HIDE DEF k
<1>5. CachedInv' /\ cached' \in Stamped \cup {None}
  BY <1>1, <1>4, StoreInv
<1>6. RefreshInv' /\ refresh' \in Stamped \cup {None}
  BY <1>1 DEF IInv, Types, RefreshInv, Within
<1>7. /\ fetched' \in [Caller -> [key : Nat \cup {None}] \cup {None}]
      /\ \A b \in Caller : fetched'[b] = None => fetched[b] = None
  BY <1>1 DEF IInv, Types
<1>8. QED
  BY <1>1, <1>5, <1>6, <1>7, PoolInv

\* A fetch that fails ends, with the cached key or without one.
LEMMA FallBackInv ==
    ASSUME IInv, NEW c \in Caller, FallBack(c)
    PROVE  IInv'
<1> DEFINE k == IF Usable THEN cached.key ELSE None
<1>1. /\ fetched' = [fetched EXCEPT ![c] = [key |-> k]] /\ fetched[c] = None
      /\ UNCHANGED <<now, keys, cached, refresh>> /\ UNCHANGED vars
  BY DEF FallBack, vars
<1>2. k \in Nat \cup {None}
  BY DEF Usable, IInv, Types, Stamped
<1> HIDE DEF k
<1>3. /\ fetched' \in [Caller -> [key : Nat \cup {None}] \cup {None}]
      /\ \A b \in Caller : fetched'[b] = None => fetched[b] = None
  BY <1>1, <1>2 DEF IInv, Types
<1>4. CachedInv' /\ RefreshInv' /\ cached' \in Stamped \cup {None}
      /\ refresh' \in Stamped \cup {None}
  BY <1>1 DEF IInv, Types, CachedInv, RefreshInv, Within
<1>5. QED
  BY <1>1, <1>3, <1>4, PoolInv

\* The background loop asks for the newest key, and stores or loses the answer.
LEMMA RefreshSteps ==
    ASSUME IInv, GetKeyPairs \/ RefreshStore \/ RefreshLost
    PROVE  IInv'
<1>1. /\ UNCHANGED <<now, keys>> /\ UNCHANGED vars /\ now \in Nat
      /\ UNCHANGED fetched
  BY DEF GetKeyPairs, RefreshStore, RefreshLost, vars, IInv, Types
<1>2. /\ fetched' \in [Caller -> [key : Nat \cup {None}] \cup {None}]
      /\ \A b \in Caller : fetched'[b] = None => fetched[b] = None
  BY <1>1 DEF IInv, Types
<1>3. CASE GetKeyPairs
  <2>1. PICK k \in DOMAIN keys :
           /\ \A l \in DOMAIN keys : Alive(l) => l <= k
           /\ refresh' = [key |-> k, at |-> now]
    BY <1>3 DEF GetKeyPairs
  <2>2. k \in Nat /\ Within(k, RotFreq, now)
    BY <2>1, PickedNewest
  <2>3. refresh' \in Stamped /\ refresh'.key = k /\ refresh'.at = now
    BY <1>1, <2>1, <2>2 DEF Stamped
  <2>4. RefreshInv'
    BY <1>1, <2>2, <2>3, Durations DEF RefreshInv, Within
  <2>5. CachedInv' /\ cached' \in Stamped \cup {None}
    BY <1>1, <1>3 DEF GetKeyPairs, IInv, Types, CachedInv, Within
  <2>6. QED
    BY <1>1, <1>2, <2>3, <2>4, <2>5, PoolInv
<1>4. CASE RefreshStore
  <2>1. /\ refresh # None /\ refresh \in Stamped /\ refresh' = None
        /\ setCachedPublicKey(refresh.key)
    BY <1>4 DEF RefreshStore, IInv, Types
  <2>2. refresh.key \in Nat /\ refresh.at \in Nat
    BY <2>1 DEF Stamped
  <2>3. Within(refresh.key, RotFreq, refresh.at) /\ now <= refresh.at + CallDelay
    BY <2>1 DEF IInv, RefreshInv
  <2>4. keys[refresh.key] \in Nat
    BY <2>3 DEF IInv, KeysInv, Within
  <2>5. Within(refresh.key, RotFreq + MapTTL + 2 * CallDelay, now)
    BY <1>1, <2>2, <2>3, <2>4, Durations DEF Within
  <2>6. CachedInv' /\ cached' \in Stamped \cup {None}
    BY <1>1, <2>1, <2>2, <2>5, StoreInv
  <2>7. RefreshInv'
    BY <2>1 DEF RefreshInv
  <2>8. QED
    BY <1>1, <1>2, <2>1, <2>6, <2>7, PoolInv
<1>5. CASE RefreshLost
  <2>1. refresh' = None /\ cached' = cached
    BY <1>5 DEF RefreshLost
  <2>2. RefreshInv' /\ CachedInv' /\ cached' \in Stamped \cup {None}
    BY <1>1, <2>1 DEF IInv, Types, RefreshInv, CachedInv, Within
  <2>3. QED
    BY <1>1, <1>2, <2>1, <2>2, PoolInv
<1>6. QED
  BY <1>3, <1>4, <1>5

-----------------------------------------------------------------------------
\* The initial states satisfy the inductive invariant.
LEMMA InitIInv == DeliveryInit => IInv
<1> SUFFICES ASSUME DeliveryInit PROVE IInv
  OBVIOUS
<1>1. /\ now = 0 /\ nextTick = 0 /\ keys = [k \in {} |-> 0]
      /\ map = [i \in Id |-> None] /\ first = [i \in Id |-> None]
      /\ sweep = [todo |-> {}, id |-> None, key |-> None]
      /\ cached = None /\ refresh = None /\ fetched = [c \in Caller |-> None]
  BY DEF DeliveryInit, Init
<1>2. /\ call \in [Caller -> CallRecord]
      /\ \A c \in Caller : call[c].pc = "idle" /\ call[c].since = 0
  <2>1. call \in [Caller -> {c \in CallState : c.pc = "idle" /\ c.key = None
                                               /\ c.since = 0 /\ c.at = 0}]
    BY DEF DeliveryInit, Init
  <2>2. \A c \in CallState : c.key = None => c \in CallRecord
    BY KeychainConstants DEF CallState, CallRecord, Time
  <2>3. QED
    BY <2>1, <2>2
<1>3. Types
  BY <1>1, <1>2 DEF Types, CallRecord
<1>4. DOMAIN keys = {} /\ Last = 0
  BY <1>1, FS_EmptySet DEF Last
<1>5. KeysInv
  BY <1>1, <1>4 DEF KeysInv
<1>6. \A c \in Caller : CallInv(c) /\ SameInv(c)
  BY <1>1, <1>2 DEF CallInv, SameInv
<1>7. (\A i \in Id : MapInv(i)) /\ SweepInv /\ RefreshInv /\ CachedInv
  BY <1>1 DEF MapInv, SweepInv, RefreshInv, CachedInv
<1>8. QED
  BY <1>3, <1>5, <1>6, <1>7 DEF IInv

\* Every step preserves the inductive invariant and every mapping still found.
LEMMA NextIInv ==
    ASSUME IInv, [DeliveryNext]_<<vars, deliveryVars>>
    PROVE  IInv' /\ \A i \in Id : Mapped(i) => map'[i] = map[i]
<1>1. ASSUME NEW c \in Caller, Deliver(c)
      PROVE  IInv' /\ map' = map
  BY <1>1, DeliverInv DEF Deliver, vars
<1>2. ASSUME NEW c \in Caller, FallBack(c)
      PROVE  IInv' /\ map' = map
  BY <1>2, FallBackInv DEF FallBack, vars
<1>3. CASE GetKeyPairs \/ RefreshStore \/ RefreshLost
  BY <1>3, RefreshSteps DEF GetKeyPairs, RefreshStore, RefreshLost, vars
<1>4. CASE KeychainStep
  BY <1>4, KeychainStepInv
<1>5. CASE UNCHANGED <<vars, deliveryVars>>
  <2>1. UNCHANGED vars /\ UNCHANGED <<cached, refresh, fetched>> /\ map' = map
        /\ UNCHANGED <<now, keys>>
    BY <1>5 DEF vars, deliveryVars
  <2>2. CachedInv' /\ RefreshInv'
    BY <2>1 DEF IInv, CachedInv, RefreshInv, Within
  <2>3. QED
    BY <2>1, <2>2, PoolInv DEF IInv, Types
<1>6. QED
  BY <1>1, <1>2, <1>3, <1>4, <1>5 DEF DeliveryNext

\* What the inductive invariant says of the properties.
LEMMA IInvImplies ==
    IInv => SameKeyWhilePinned /\ PinnedKeyAlive /\ AlwaysAKey /\ CachedKeyAlive
<1> SUFFICES ASSUME IInv
             PROVE  SameKeyWhilePinned /\ PinnedKeyAlive /\ AlwaysAKey
                    /\ CachedKeyAlive
  OBVIOUS
<1>1. SameKeyWhilePinned
  BY DEF IInv, SameInv, SameKeyWhilePinned
<1>2. PinnedKeyAlive
  BY MappedAlive DEF PinnedKeyAlive
<1>3. AlwaysAKey
  BY DEF IInv, CallInv, AlwaysAKey
<1>4. ASSUME Usable PROVE Alive(cached.key)
  <2>1. cached # None /\ cached \in Stamped /\ cached.at \in Nat /\ now \in Nat
    BY <1>4 DEF Usable, IInv, Types, Stamped
  <2>2. Within(cached.key, RotFreq + MapTTL + 2 * CallDelay, cached.at)
    BY <2>1 DEF IInv, CachedInv
  <2>3. now <= cached.at + MaxTTL
    BY <1>4, <2>1, EffectiveTTLCapped, Durations DEF Usable
  <2>4. /\ RotFreq + MapTTL + 2 * CallDelay \in Nat /\ MaxTTL \in Nat
        /\ (RotFreq + MapTTL + 2 * CallDelay) + MaxTTL <= KeyTTL
    BY Durations
  <2>5. QED
    BY <2>1, <2>2, <2>3, <2>4, YoungKeyAlive
<1>5. QED
  BY <1>1, <1>2, <1>3, <1>4 DEF CachedKeyAlive

\* box_keychain.go:194-196: whoever gets a key for an ID within requestKeyMapTTL
\* of its first assignment gets the key first assigned.
THEOREM SameKey == DeliverySpec => []SameKeyWhilePinned
<1>1. IInv /\ [DeliveryNext]_<<vars, deliveryVars>> => IInv'
  BY NextIInv
<1>2. QED
  BY InitIInv, <1>1, IInvImplies, PTL DEF DeliverySpec

\* box_keychain.go:81-85: a mapping that is found leads to a usable key.
THEOREM KeysLastLongEnough == DeliverySpec => []PinnedKeyAlive
<1>1. IInv /\ [DeliveryNext]_<<vars, deliveryVars>> => IInv'
  BY NextIInv
<1>2. QED
  BY InitIInv, <1>1, IInvImplies, PTL DEF DeliverySpec

\* box_keychain.go:178-185: once the keychain has started no call fails for want
\* of a key pair, at whatever point of the rotation it asks.
THEOREM KeyForEveryCall == DeliverySpec => []AlwaysAKey
<1>1. IInv /\ [DeliveryNext]_<<vars, deliveryVars>> => IInv'
  BY NextIInv
<1>2. QED
  BY InitIInv, <1>1, IInvImplies, PTL DEF DeliverySpec

\* pool.go:262-273, 669-693: the key the pool falls back to is one the enclave
\* still has, whatever the order in which answers were stored.
THEOREM FallbackKeyAlive == DeliverySpec => []CachedKeyAlive
<1>1. IInv /\ [DeliveryNext]_<<vars, deliveryVars>> => IInv'
  BY NextIInv
<1>2. QED
  BY InitIInv, <1>1, IInvImplies, PTL DEF DeliverySpec

\* box_keychain.go:165-166, 194-196: neither an expired key found by a call, nor
\* the sweep, nor a racing pick removes or replaces a mapping within its TTL.
THEOREM MappingKept == DeliverySpec => LiveMappingKept
<1> DEFINE A == \A i \in Id : Mapped(i) /\ Alive(map[i].key) => map'[i] = map[i]
<1>1. IInv /\ [DeliveryNext]_<<vars, deliveryVars>> => IInv'
  BY NextIInv
<1>2. IInv /\ [DeliveryNext]_<<vars, deliveryVars>> => [A]_vars
  BY NextIInv
<1>3. QED
  BY InitIInv, <1>1, <1>2, PTL DEF DeliverySpec, LiveMappingKept

-----------------------------------------------------------------------------
\* The bounds of TypeOK rest on the number of keys: key k + 1 is created on tick
\* k of the rotation, whatever has happened to the keys before it.
Ticks == nextTick = Last * RotFreq

TInv == TypeOK /\ Ticks

\* At most as many periods as fit have passed.
LEMMA PeriodsFit ==
    ASSUME NEW a \in Nat, NEW b \in Nat \ {0}, NEW k \in Nat, k * b <= a
    PROVE  k <= a \div b
  OBVIOUS

\* A rotation numbers its key within bounds.
LEMMA RotateTypes ==
    ASSUME IInv, TInv, Rotate
    PROVE  TInv'
<1> HIDE Untyped
<1> DEFINE n == Last
<1>1. /\ n \in Nat /\ DOMAIN keys = 1 .. n /\ now = n * RotFreq
      /\ now \in Nat /\ now <= MaxTime
      /\ nextTick' = now + RotFreq
      /\ keys' = [l \in DOMAIN keys \cup {n + 1} |-> IF l = n + 1 THEN now ELSE keys[l]]
      /\ sweep' = [todo |-> IF now = 0 THEN {} ELSE {i \in Id : map[i] # None},
                   id |-> None, key |-> None]
      /\ UNCHANGED <<now, map, call, first>>
  BY KeychainConstants DEF IInv, KeysInv, TInv, Ticks, TypeOK, Rotate, Last, Time
<1> HIDE DEF n
<1>2. DOMAIN keys' = 1 .. n + 1
  BY <1>1
<1>3. Last' = n + 1
  <2>1. Cardinality(1 .. n + 1) = n + 1
    BY <1>1, FS_Interval, 1 \in Int, n + 1 \in Int, n + 1 >= 1
  <2>2. QED
    BY <1>2, <2>1 DEF Last
<1>4. n <= MaxTime \div RotFreq
  BY <1>1, PeriodsFit, KeychainConstants
<1>5. DOMAIN keys' \subseteq Key
  <2>1. MaxTime \div RotFreq \in Nat
    BY KeychainConstants
  <2>2. QED
    BY <1>1, <1>2, <1>4, <2>1 DEF Key
<1>6. \A k \in DOMAIN keys' : keys'[k] \in Time
  BY <1>1 DEF TInv, TypeOK
<1>7. /\ nextTick' \in 0 .. MaxTime + RotFreq
      /\ nextTick' = (n + 1) * RotFreq
  BY <1>1, KeychainConstants
<1>8. sweep' \in [todo : SUBSET Id, id : Id \cup {None}, key : Key \cup {None}]
  BY <1>1
<1>9. QED
  BY <1>1, <1>3, <1>5, <1>6, <1>7, <1>8 DEF TInv, TypeOK, Ticks

\* A step of a call keeps the types.
LEMMA CallTypes ==
    ASSUME IInv, TInv, NEW c \in Caller,
           Begin(c) \/ Lookup(c) \/ PickNewest(c) \/ GetOrSet(c) \/ Resolve(c)
    PROVE  TInv'
<1> USE DEF TInv
<1>1. /\ call[c] \in CallState /\ now \in Time /\ call[c].id \in Id
      /\ UNCHANGED <<now, keys, nextTick, sweep>>
  BY DEF TypeOK, CallState, Begin, Lookup, PickNewest, GetOrSet, Resolve
<1>2. ASSUME NEW r \in CallState, call' = [call EXCEPT ![c] = r]
      PROVE  call' \in [Caller -> CallState]
  BY <1>2 DEF TypeOK
<1>3. \A k \in Key \cup {None} : \A pc \in {"idle", "start", "mapped", "picked", "done"} :
         /\ [call[c] EXCEPT !.pc = pc, !.key = k] \in CallState
         /\ [call[c] EXCEPT !.pc = pc, !.key = k, !.at = now] \in CallState
         /\ [call[c] EXCEPT !.pc = pc, !.since = now] \in CallState
  BY <1>1 DEF CallState
<1>4. call[c].pc = "picked" => call[c].key \in Key
  BY DEF IInv, CallInv, Within, TypeOK
<1>5. Mapped(call[c].id) => map[call[c].id].key \in Key
  BY <1>1 DEF Mapped, TypeOK
<1>6. ASSUME NEW k \in Key \cup {None}, Done(c, k) PROVE call' \in [Caller -> CallState]
  <2>1. call' = [call EXCEPT ![c] = [call[c] EXCEPT !.pc = "done", !.key = k, !.at = now]]
    BY <1>6 DEF Done, TypeOK
  <2>2. QED
    BY <1>2, <1>3, <2>1
<1>7. ASSUME NEW k \in Key, NEW pc \in {"mapped", "picked"},
             call' = [call EXCEPT ![c].pc = pc, ![c].key = k]
      PROVE  call' \in [Caller -> CallState]
  <2>1. call' = [call EXCEPT ![c] = [call[c] EXCEPT !.pc = pc, !.key = k]]
    BY <1>7 DEF TypeOK
  <2>2. QED
    BY <1>2, <1>3, <2>1
<1>8. call' \in [Caller -> CallState]
  <2>1. CASE Begin(c)
    <3>1. call' = [call EXCEPT ![c] = [call[c] EXCEPT !.pc = "start", !.since = now]]
      BY <2>1 DEF Begin, TypeOK
    <3>2. QED
      BY <1>1, <1>2, <1>3, <3>1
  <2>2. CASE Lookup(c)
    BY <1>5, <1>7, <2>2 DEF Lookup
  <2>3. CASE PickNewest(c)
    <3>1. {k \in DOMAIN keys : Alive(k)} \subseteq Key
      BY DEF TypeOK
    <3>2. QED
      BY <1>6, <1>7, <2>3, <3>1 DEF PickNewest
  <2>4. CASE GetOrSet(c)
    BY <1>4, <1>5, <1>6, <1>7, <2>4 DEF GetOrSet
  <2>5. CASE Resolve(c)
    <3>1. call[c].key \in Key \cup {None}
      BY <1>1 DEF CallState
    <3>2. QED
      BY <1>6, <2>5, <3>1 DEF Resolve
  <2>6. QED
    BY <2>1, <2>2, <2>3, <2>4, <2>5
<1>9. call[c].pc = "picked" => [key |-> call[c].key, at |-> now] \in [key : Key, at : Time]
  BY <1>1, <1>4
<1>10. /\ map' \in [Id -> [key : Key, at : Time] \cup {None}]
       /\ first' \in [Id -> [key : Key, at : Time] \cup {None}]
  BY <1>1, <1>9 DEF TypeOK, Begin, Lookup, PickNewest, GetOrSet, Resolve
<1>11. QED
  BY <1>1, <1>8, <1>10 DEF TypeOK, Ticks, Last

\* Every step keeps the types.
LEMMA NextTInv ==
    ASSUME IInv, TInv, [DeliveryNext]_<<vars, deliveryVars>>
    PROVE  TInv'
<1>1. CASE UNCHANGED vars
  BY <1>1 DEF vars, TInv, TypeOK, Ticks, Last
<1>2. CASE \E i \in Id : SweepGet(i)
  <2>1. PICK i \in Id : SweepGet(i)
    BY <1>2
  <2>2. Mapped(i) => map[i].key \in Key
    BY DEF Mapped, TInv, TypeOK
  <2>3. sweep' \in [todo : SUBSET Id, id : Id \cup {None}, key : Key \cup {None}]
    BY <2>1, <2>2 DEF SweepGet, TInv, TypeOK
  <2>4. QED
    BY <2>1, <2>3 DEF SweepGet, TInv, TypeOK, Ticks, Last
<1>3. CASE SweepDelete
  BY <1>3 DEF SweepDelete, TInv, TypeOK, Ticks, Last
<1>4. CASE Tick
  BY <1>4, KeychainConstants DEF Tick, TInv, TypeOK, Ticks, Last, Time
<1>5. QED
  BY <1>1, <1>2, <1>3, <1>4, RotateTypes, CallTypes
  DEF DeliveryNext, Deliver, FallBack, GetKeyPairs, RefreshStore, RefreshLost,
      KeychainStep, Next, vars

\* The keys, mappings and calls of the keychain have their types.  In particular
\* startKeyRotation (box_keychain.go:235-249) creates one key pair per
\* rotationFrequency and no more, so by time t there are t / RotFreq + 1.
THEOREM KeychainTypes == DeliverySpec => []TypeOK
<1>1. DeliveryInit => TInv
  <2> SUFFICES ASSUME DeliveryInit PROVE TInv
    OBVIOUS
  <2>1. /\ now = 0 /\ nextTick = 0 /\ keys = [k \in {} |-> 0]
        /\ map = [i \in Id |-> None] /\ first = [i \in Id |-> None]
        /\ sweep = [todo |-> {}, id |-> None, key |-> None]
    BY DEF DeliveryInit, Init
  <2>2. call \in [Caller -> CallState]
    BY DEF DeliveryInit, Init
  <2>3. DOMAIN keys = {} /\ Last = 0
    BY <2>1, FS_EmptySet DEF Last
  <2>4. 0 \in Time /\ 0 \in 0 .. MaxTime + RotFreq /\ 0 = 0 * RotFreq
    BY KeychainConstants DEF Time
  <2>5. QED
    BY <2>1, <2>2, <2>3, <2>4 DEF TInv, TypeOK, Ticks
<1>2. IInv /\ [DeliveryNext]_<<vars, deliveryVars>> => IInv'
  BY NextIInv
<1>3. IInv /\ TInv /\ [DeliveryNext]_<<vars, deliveryVars>> => TInv'
  BY NextTInv
<1>4. TInv => TypeOK
  BY DEF TInv
<1>5. QED
  BY InitIInv, <1>1, <1>2, <1>3, <1>4, PTL DEF DeliverySpec
=============================================================================
