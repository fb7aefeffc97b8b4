-------------------------- MODULE WorkflowAppProofs --------------------------
(***************************************************************************)
(* The cache of binaries, what the workflows app accepts from the relay    *)
(* DON, the config its dispatcher holds, and the slots of its limiter and  *)
(* of its compile semaphores: proved for any executions, binaries,         *)
(* settings, configs, relay nodes and gateways, when at most F members of  *)
(* a config are faulty.                                                    *)
(***************************************************************************)
EXTENDS WorkflowApp, FiniteSetTheorems, TLAPS

Configs == AppConfigs \cup {ZeroConfig}

-----------------------------------------------------------------------------
\* Induction over the natural numbers, stated about sets.
LEMMA Induction ==
    ASSUME NEW S \in SUBSET Nat, 0 \in S, \A n \in S : n + 1 \in S
    PROVE  \A n \in Nat : n \in S
<1> DEFINE R == OpToRel(<, Nat)
           T == Nat \ S
<1>1. SUFFICES ASSUME T # {} PROVE FALSE
  OBVIOUS
<1>2. IsWellFoundedOn(R, Nat)
  BY NatLessThanWellFounded
<1>3. \A a, b \in Nat : a < b => <<a, b>> \in R
  BY DEF OpToRel
<1>4. T \subseteq Nat
  OBVIOUS
<1> HIDE DEF R, T
<1>5. PICK m \in T : \A n \in T : ~(<<n, m>> \in R)
  BY <1>1, <1>2, <1>4, WFMin
<1>6. \A n \in T : ~(n < m)
  BY <1>3, <1>4, <1>5, Zenon
<1>7. m \in Nat /\ m \notin S /\ m # 0
  BY DEF T
<1>8. m - 1 \in Nat /\ m - 1 < m /\ (m - 1) + 1 = m
  BY <1>7
<1>9. m - 1 \in S
  BY <1>6, <1>8 DEF T
<1>10. QED
  BY <1>7, <1>8, <1>9

\* The largest of a set of indices.
LEMMA Largest ==
    ASSUME NEW N \in Nat, NEW T \in SUBSET (0 .. N), T # {}
    PROVE  \E n \in T : \A m \in T : m <= n
<1> DEFINE Some(k) == (\E n \in T : n >= N - k) => \E n \in T : \A m \in T : m <= n
           S == {k \in Nat : Some(k)}
<1>1. 0 \in S
  OBVIOUS
<1>2. ASSUME NEW k \in S PROVE k + 1 \in S
  <2>1. CASE \E n \in T : n >= N - k
    BY <2>1
  <2>2. CASE ~ \E n \in T : n >= N - k
    <3> SUFFICES ASSUME NEW n \in T, n >= N - (k + 1)
                 PROVE  \A m \in T : m <= n
      OBVIOUS
    <3>1. k \in Nat
      OBVIOUS
    <3>2. QED
      BY <2>2, <3>1
  <2>3. QED
    BY <2>1, <2>2
<1> HIDE DEF S
<1>3. S \in SUBSET Nat
  BY DEF S
<1>4. N \in S
  BY <1>1, <1>2, <1>3, Induction
<1>5. PICK n \in T : n \in 0 .. N
  OBVIOUS
<1>6. n >= N - N
  BY <1>5
<1>7. QED
  BY <1>4, <1>6 DEF S

\* The function that Bytes adds up with, up to the k-th element.
Adds(f, s, k) == f = [n \in 0 .. k |-> IF n = 0 THEN 0 ELSE f[n - 1] + Size[s[n]]]

\* There is such a function for every beginning of a list of binaries.
LEMMA SumsExist ==
    ASSUME NEW s \in Seq(Binary)
    PROVE  \A k \in Nat : k <= Len(s) => \E f \in [0 .. k -> Nat] : Adds(f, s, k)
<1> DEFINE S == {k \in Nat : k <= Len(s) => \E f \in [0 .. k -> Nat] : Adds(f, s, k)}
<1>1. 0 \in S
  <2>1. Adds([n \in 0 .. 0 |-> 0], s, 0)
    BY DEF Adds
  <2>2. [n \in 0 .. 0 |-> 0] \in [0 .. 0 -> Nat]
    OBVIOUS
  <2>3. QED
    BY <2>1, <2>2
<1>2. ASSUME NEW k \in S PROVE k + 1 \in S
  <2> SUFFICES ASSUME k + 1 <= Len(s)
               PROVE  \E f \in [0 .. k + 1 -> Nat] : Adds(f, s, k + 1)
    OBVIOUS
  <2>1. k \in Nat /\ k <= Len(s) /\ k + 1 \in 1 .. Len(s)
    OBVIOUS
  <2>2. PICK f \in [0 .. k -> Nat] : Adds(f, s, k)
    BY <2>1
  <2> DEFINE m == k + 1
             g == [n \in 0 .. m |-> IF n = m THEN f[k] + Size[s[m]] ELSE f[n]]
  <2>3. Size[s[m]] \in Nat
    BY <2>1, BinaryConstants
  <2>4. g \in [0 .. m -> Nat]
    <3>1. f[k] + Size[s[m]] \in Nat
      BY <2>1, <2>3
    <3>2. \A n \in 0 .. m : n # m => f[n] \in Nat
      BY <2>1
    <3>3. QED
      BY <3>1, <3>2
  <2>5. \A n \in 0 .. m : g[n] = IF n = 0 THEN 0 ELSE g[n - 1] + Size[s[n]]
    <3> SUFFICES ASSUME NEW n \in 0 .. m
                 PROVE  g[n] = IF n = 0 THEN 0 ELSE g[n - 1] + Size[s[n]]
      OBVIOUS
    <3>1. CASE n = m
      BY <2>1, <3>1
    <3>2. CASE n # m
      <4>1. n \in 0 .. k /\ g[n] = f[n] /\ (n # 0 => n - 1 \in 0 .. m /\ n - 1 # m)
        BY <2>1, <3>2
      <4>2. f[n] = IF n = 0 THEN 0 ELSE f[n - 1] + Size[s[n]]
        BY <2>2, <4>1 DEF Adds
      <4>3. n # 0 => g[n - 1] = f[n - 1]
        BY <4>1
      <4>4. QED
        BY <4>1, <4>2, <4>3
    <3>3. QED
      BY <3>1, <3>2
  <2> HIDE DEF g
  <2>6. g = [n \in 0 .. m |-> IF n = 0 THEN 0 ELSE g[n - 1] + Size[s[n]]]
    BY <2>4, <2>5
  <2>7. QED
    BY <2>4, <2>6 DEF Adds
<1> HIDE DEF S
<1>3. S \in SUBSET Nat
  BY DEF S
<1>4. \A k \in Nat : k \in S
  BY <1>1, <1>2, <1>3, Induction
<1>5. QED
  BY <1>4 DEF S

\* Two such functions agree as far as both go.
LEMMA SumsUnique ==
    ASSUME NEW s, NEW j \in Nat, NEW k \in Nat, NEW f, NEW g, Adds(f, s, j), Adds(g, s, k)
    PROVE  \A n \in Nat : n <= j /\ n <= k => f[n] = g[n]
<1> DEFINE S == {n \in Nat : n <= j /\ n <= k => f[n] = g[n]}
<1>1. \A n \in 0 .. j : f[n] = IF n = 0 THEN 0 ELSE f[n - 1] + Size[s[n]]
  BY DEF Adds
<1>2. \A n \in 0 .. k : g[n] = IF n = 0 THEN 0 ELSE g[n - 1] + Size[s[n]]
  BY DEF Adds
<1>3. 0 \in S
  BY <1>1, <1>2
<1>4. ASSUME NEW n \in S PROVE n + 1 \in S
  <2> SUFFICES ASSUME n + 1 <= j, n + 1 <= k PROVE f[n + 1] = g[n + 1]
    OBVIOUS
  <2>1. n \in Nat /\ n <= j /\ n <= k
    OBVIOUS
  <2>2. f[n] = g[n] /\ n + 1 \in 0 .. j /\ n + 1 \in 0 .. k /\ n + 1 # 0 /\ (n + 1) - 1 = n
    BY <2>1
  <2>3. QED
    BY <1>1, <1>2, <2>2
<1> HIDE DEF S
<1>5. S \in SUBSET Nat
  BY DEF S
<1>6. \A n \in Nat : n \in S
  BY <1>3, <1>4, <1>5, Induction
<1>7. QED
  BY <1>6 DEF S

\* What Bytes adds up.
LEMMA BytesIs ==
    ASSUME NEW s \in Seq(Binary), NEW f, Adds(f, s, Len(s))
    PROVE  Bytes(s) = f[Len(s)] /\ Bytes(s) \in Nat
<1> DEFINE h == CHOOSE f1 : f1 = [n \in 0 .. Len(s) |-> IF n = 0 THEN 0 ELSE f1[n - 1] + Size[s[n]]]
<1>1. Bytes(s) = h[Len(s)]
  BY DEF Bytes
<1>2. Adds(h, s, Len(s))
  BY DEF Adds
<1> HIDE DEF h
<1>3. Len(s) \in Nat
  OBVIOUS
<1>4. PICK g \in [0 .. Len(s) -> Nat] : Adds(g, s, Len(s))
  BY <1>3, SumsExist
<1>5. h[Len(s)] = f[Len(s)] /\ h[Len(s)] = g[Len(s)]
  BY <1>2, <1>3, <1>4, SumsUnique
<1>6. g[Len(s)] \in Nat
  BY <1>3, <1>4
<1>7. QED
  BY <1>1, <1>5, <1>6

\* The bytes of a list are those of its two parts.
LEMMA BytesConcat ==
    ASSUME NEW s \in Seq(Binary), NEW t \in Seq(Binary)
    PROVE  Bytes(s \o t) = Bytes(s) + Bytes(t)
<1> DEFINE u == s \o t
           k == Len(s)
<1>1. /\ u \in Seq(Binary) /\ Len(u) = k + Len(t) /\ k \in Nat /\ Len(t) \in Nat
      /\ \A n \in 1 .. k : u[n] = s[n]
      /\ \A n \in 1 .. Len(t) : u[k + n] = t[n]
  OBVIOUS
<1> HIDE DEF u, k
<1>2. PICK f \in [0 .. Len(u) -> Nat] : Adds(f, u, Len(u))
  <2>1. u \in Seq(Binary) /\ Len(u) \in Nat /\ Len(u) <= Len(u)
    BY <1>1
  <2>2. \E f \in [0 .. Len(u) -> Nat] : Adds(f, u, Len(u))
    BY <2>1, SumsExist
  <2>3. QED
    BY <2>2
<1>3. \A n \in 0 .. Len(u) : f[n] = IF n = 0 THEN 0 ELSE f[n - 1] + Size[u[n]]
  BY <1>2 DEF Adds
<1> DEFINE g == [n \in 0 .. k |-> f[n]]
           h == [n \in 0 .. Len(t) |-> f[k + n] - f[k]]
<1>4. Adds(g, s, k)
  <2>1. \A n \in 0 .. k : g[n] = IF n = 0 THEN 0 ELSE g[n - 1] + Size[s[n]]
    <3> SUFFICES ASSUME NEW n \in 0 .. k
                 PROVE  g[n] = IF n = 0 THEN 0 ELSE g[n - 1] + Size[s[n]]
      OBVIOUS
    <3>1. n \in 0 .. Len(u) /\ (n # 0 => n - 1 \in 0 .. k /\ n \in 1 .. k)
      BY <1>1
    <3>2. QED
      BY <1>1, <1>3, <3>1
  <2> HIDE DEF g
  <2>2. g = [n \in 0 .. k |-> g[n]]
    BY DEF g
  <2>3. QED
    BY <2>1, <2>2 DEF Adds
<1>5. Adds(h, t, Len(t))
  <2>1. \A n \in 0 .. Len(t) : h[n] = IF n = 0 THEN 0 ELSE h[n - 1] + Size[t[n]]
    <3> SUFFICES ASSUME NEW n \in 0 .. Len(t)
                 PROVE  h[n] = IF n = 0 THEN 0 ELSE h[n - 1] + Size[t[n]]
      OBVIOUS
    <3>1. n \in Nat /\ k + n \in 0 .. Len(u) /\ k \in 0 .. Len(u)
      BY <1>1
    <3>2. CASE n = 0
      <4>1. h[n] = f[k] - f[k] /\ f[k] \in Nat
        BY <1>1, <3>1, <3>2
      <4>2. QED
        BY <3>2, <4>1
    <3>3. CASE n # 0
      <4> HIDE DEF g, h
      <4>1. /\ n - 1 \in 0 .. Len(t) /\ n \in 1 .. Len(t) /\ (k + n) - 1 = k + (n - 1)
            /\ k + (n - 1) \in 0 .. Len(u) /\ k + n # 0
        BY <1>1, <3>1, <3>3
      <4>2. f[k + n] = f[k + (n - 1)] + Size[t[n]]
        BY <1>1, <1>3, <3>1, <4>1
      <4>3. h[n] = f[k + n] - f[k] /\ h[n - 1] = f[k + (n - 1)] - f[k]
        BY <4>1 DEF h
      <4>4. f[k] \in Nat /\ f[k + (n - 1)] \in Nat
        BY <3>1, <4>1
      <4>5. Size[t[n]] \in Nat
        BY <4>1, BinaryConstants
      <4>6. QED
        BY <3>3, <4>2, <4>3, <4>4, <4>5
    <3>4. QED
      BY <3>2, <3>3
  <2> HIDE DEF h
  <2>2. h = [n \in 0 .. Len(t) |-> h[n]]
    BY DEF h
  <2>3. QED
    BY <2>1, <2>2 DEF Adds
<1>6. /\ g[k] = f[k] /\ h[Len(t)] = f[k + Len(t)] - f[k]
      /\ f[k] \in Nat /\ f[k + Len(t)] \in Nat
  <2>1. /\ k \in 0 .. k /\ k \in 0 .. Len(u) /\ Len(t) \in 0 .. Len(t)
        /\ k + Len(t) \in 0 .. Len(u)
    BY <1>1
  <2>2. QED
    BY <2>1
<1> HIDE DEF g, h
<1>7. Bytes(u) = f[Len(u)] /\ Bytes(s) = g[k] /\ Bytes(t) = h[Len(t)]
  BY <1>1, <1>2, <1>4, <1>5, BytesIs DEF k
<1>8. QED
  BY <1>1, <1>6, <1>7 DEF u

\* The bytes of no binary and of one, and that they are a number.
LEMMA BytesOne ==
    /\ Bytes(<<>>) = 0
    /\ \A b \in Binary : Bytes(<<b>>) = Size[b]
    /\ \A s \in Seq(Binary) : Bytes(s) \in Nat
<1>1. Bytes(<<>>) = 0
  <2> DEFINE s == <<>>
  <2>1. s \in Seq(Binary)
    OBVIOUS
  <2>2. Len(s) = 0
    OBVIOUS
  <2> HIDE DEF s
  <2>3. PICK f \in [0 .. Len(s) -> Nat] : Adds(f, s, Len(s))
    BY <2>1, SumsExist
  <2>4. f[0] = 0
    BY <2>2, <2>3 DEF Adds
  <2>5. Bytes(s) = f[Len(s)]
    BY <2>1, <2>3, BytesIs
  <2>6. QED
    BY <2>2, <2>4, <2>5 DEF s
<1>2. ASSUME NEW b \in Binary PROVE Bytes(<<b>>) = Size[b]
  <2> DEFINE s == <<b>>
  <2>1. s \in Seq(Binary)
    OBVIOUS
  <2>2. Len(s) = 1 /\ s[1] = b
    OBVIOUS
  <2> HIDE DEF s
  <2>3. PICK f \in [0 .. Len(s) -> Nat] : Adds(f, s, Len(s))
    BY <2>1, SumsExist
  <2>4. f[1] = f[0] + Size[b] /\ f[0] = 0
    BY <2>2, <2>3 DEF Adds
  <2>5. Size[b] \in Nat
    BY BinaryConstants
  <2>6. Bytes(s) = f[Len(s)]
    BY <2>1, <2>3, BytesIs
  <2>7. QED
    BY <2>2, <2>4, <2>5, <2>6 DEF s
<1>3. ASSUME NEW s \in Seq(Binary) PROVE Bytes(s) \in Nat
  <2>1. PICK f \in [0 .. Len(s) -> Nat] : Adds(f, s, Len(s))
    BY SumsExist
  <2>2. QED
    BY <2>1, BytesIs
<1>4. QED
  BY <1>1, <1>2, <1>3

\* A list cut in two.
LEMMA BytesCut ==
    ASSUME NEW s \in Seq(Binary), NEW n \in 0 .. Len(s)
    PROVE  /\ SubSeq(s, 1, n) \in Seq(Binary) /\ Len(SubSeq(s, 1, n)) = n
           /\ SubSeq(s, n + 1, Len(s)) \in Seq(Binary)
           /\ Len(SubSeq(s, n + 1, Len(s))) = Len(s) - n
           /\ Bytes(s) = Bytes(SubSeq(s, 1, n)) + Bytes(SubSeq(s, n + 1, Len(s)))
<1> DEFINE t == SubSeq(s, 1, n)
           u == SubSeq(s, n + 1, Len(s))
<1>1. /\ t \in Seq(Binary) /\ Len(t) = n
      /\ u \in Seq(Binary) /\ Len(u) = Len(s) - n
      /\ \A i \in 1 .. n : t[i] = s[i]
      /\ \A i \in 1 .. Len(u) : u[i] = s[n + i]
  OBVIOUS
<1> HIDE DEF t, u
<1>2. s = t \o u
  <2> DEFINE w == t \o u
  <2>1. /\ w \in Seq(Binary) /\ Len(w) = Len(s)
        /\ \A i \in 1 .. Len(s) : w[i] = IF i <= n THEN t[i] ELSE u[i - n]
    BY <1>1
  <2> HIDE DEF w
  <2>2. ASSUME NEW i \in 1 .. Len(s) PROVE w[i] = s[i]
    <3>1. CASE i <= n
      BY <1>1, <2>1, <3>1
    <3>2. CASE ~(i <= n)
      <4>1. i - n \in 1 .. Len(u) /\ n + (i - n) = i
        BY <1>1, <3>2
      <4>2. QED
        BY <1>1, <2>1, <3>2, <4>1
    <3>3. QED
      BY <3>1, <3>2
  <2>3. w = s
    BY <2>1, <2>2
  <2>4. QED
    BY <2>3 DEF w
<1>3. Bytes(s) = Bytes(t) + Bytes(u)
  BY <1>1, <1>2, BytesConcat
<1>4. QED
  BY <1>1, <1>3 DEF t, u

-----------------------------------------------------------------------------
\* The invariant of the cache of binaries, with the types of its parts.
LRUInv == lru \in Seq(Binary) /\ maxCacheBytes \in Nat /\ LRUExact

\* What the eviction loop keeps and what it subtracts: as many of the front as
\* there is room for.
LEMMA EvictionLoop ==
    ASSUME LRUInv, NEW need \in Nat, NEW limit \in Nat
    PROVE  \E n \in 0 .. Len(lru) :
              /\ Kept(need, limit) = SubSeq(lru, 1, n)
              /\ Len(Kept(need, limit)) = n
              /\ Kept(need, limit) \in Seq(Binary)
              /\ cacheBytes - Evicted(Kept(need, limit)) = Bytes(Kept(need, limit))
              /\ n = 0 \/ Bytes(Kept(need, limit)) + need <= limit
              /\ \A m \in n + 1 .. Len(lru) : Bytes(SubSeq(lru, 1, m)) + need > limit
<1> DEFINE out(n) == Bytes(SubSeq(lru, n + 1, Len(lru)))
           stops == {n \in 0 .. Len(lru) : n = 0 \/ cacheBytes - out(n) + need <= limit}
           n == CHOOSE i \in stops : \A m \in stops : m <= i
           kept == Kept(need, limit)
<1>1. kept = SubSeq(lru, 1, n)
  BY DEF Kept
<1>2. n \in stops /\ \A m \in stops : m <= n
  <2>1. 0 \in stops /\ stops \in SUBSET (0 .. Len(lru)) /\ Len(lru) \in Nat
    BY DEF LRUInv
  <2> HIDE DEF stops
  <2>2. \E i \in stops : \A m \in stops : m <= i
    BY <2>1, Largest
  <2>3. QED
    BY <2>2
<1> HIDE DEF n
<1>3. n \in 0 .. Len(lru) /\ (n = 0 \/ cacheBytes - out(n) + need <= limit)
  BY <1>2
<1>max. ASSUME NEW m \in n + 1 .. Len(lru) PROVE ~(cacheBytes - out(m) + need <= limit)
  <2>1. Len(lru) \in Nat
    BY DEF LRUInv
  <2>2. m \in 0 .. Len(lru) /\ ~(m <= n)
    BY <1>3, <2>1
  <2> HIDE DEF out
  <2>3. QED
    BY <1>2, <2>2
<1> HIDE DEF stops, kept
<1>4. /\ kept \in Seq(Binary) /\ Len(kept) = n
      /\ SubSeq(lru, n + 1, Len(lru)) \in Seq(Binary)
      /\ Bytes(lru) = Bytes(kept) + out(n)
  BY <1>1, <1>3, BytesCut DEF LRUInv
<1>5. Bytes(kept) \in Nat /\ out(n) \in Nat /\ Bytes(lru) \in Nat
  BY <1>4, BytesOne DEF LRUInv
<1>6. Evicted(kept) = out(n)
  BY <1>4 DEF Evicted
<1>7. cacheBytes = Bytes(lru)
  BY DEF LRUInv, LRUExact
<1>room. ASSUME NEW m \in n + 1 .. Len(lru) PROVE Bytes(SubSeq(lru, 1, m)) + need > limit
  <2> DEFINE s == SubSeq(lru, 1, m)
             t == SubSeq(lru, m + 1, Len(lru))
  <2>1. lru \in Seq(Binary) /\ Len(lru) \in Nat
    BY DEF LRUInv
  <2>2. m \in 0 .. Len(lru)
    BY <1>3, <2>1
  <2>3. s \in Seq(Binary) /\ t \in Seq(Binary) /\ Bytes(lru) = Bytes(s) + Bytes(t)
    BY <2>1, <2>2, BytesCut
  <2> HIDE DEF s, t
  <2>4. Bytes(s) \in Nat /\ Bytes(t) \in Nat
    BY <2>3, BytesOne
  <2>5. ~(cacheBytes - Bytes(t) + need <= limit)
    BY <1>max DEF t
  <2>6. Bytes(s) + need > limit
    BY <1>7, <2>3, <2>4, <2>5
  <2>7. QED
    BY <2>6 DEF s
<1> HIDE DEF out
<1>8. cacheBytes - Evicted(kept) = Bytes(kept) /\ (n = 0 \/ Bytes(kept) + need <= limit)
  BY <1>3, <1>4, <1>5, <1>6, <1>7
<1>9. QED
  BY <1>1, <1>3, <1>4, <1>8, <1>room DEF kept

\* Moving an entry to the front changes neither the entries nor their bytes.
LEMMA PromoteKeeps ==
    ASSUME LRUInv, NEW b \in Range(lru)
    PROVE  /\ Promote(b) \in Seq(Binary)
           /\ Len(Promote(b)) = Len(lru)
           /\ Bytes(Promote(b)) = Bytes(lru)
           /\ \A i, j \in 1 .. Len(lru) : Promote(b)[i] = Promote(b)[j] => i = j
           /\ \A i \in 1 .. Len(lru) : lru[i] \in Range(Promote(b))
<1> DEFINE at == CHOOSE i \in DOMAIN lru : lru[i] = b
           s == SubSeq(lru, 1, at - 1)
           t == SubSeq(lru, at + 1, Len(lru))
           v == SubSeq(lru, at, Len(lru))
<1>1. Promote(b) = <<b>> \o s \o t
  BY DEF Promote
<1>2. at \in 1 .. Len(lru) /\ lru[at] = b /\ Len(lru) \in Nat /\ lru \in Seq(Binary)
  <2>1. \E i \in DOMAIN lru : lru[i] = b
    BY DEF Range
  <2>2. at \in DOMAIN lru /\ lru[at] = b
    BY <2>1
  <2> HIDE DEF at
  <2>3. QED
    BY <2>2 DEF LRUInv
<1> HIDE DEF at
<1>3. b \in Binary
  BY <1>2
<1>4. at - 1 \in 0 .. Len(lru) /\ (at - 1) + 1 = at
  BY <1>2
<1>5. /\ s \in Seq(Binary) /\ Len(s) = at - 1
      /\ v \in Seq(Binary) /\ Len(v) = Len(lru) - (at - 1)
      /\ Bytes(lru) = Bytes(s) + Bytes(v)
  BY <1>2, <1>4, BytesCut
<1>6. t \in Seq(Binary) /\ Len(t) = Len(lru) - at /\ v = <<b>> \o t
  BY <1>2
<1>7. <<b>> \in Seq(Binary) /\ Len(<<b>>) = 1
  BY <1>3
<1>8. /\ \A i \in 1 .. Len(s) : s[i] = lru[i]
      /\ \A i \in 1 .. Len(t) : t[i] = lru[at + i]
  BY <1>2
<1> HIDE DEF s, t, v
<1>9. Bytes(v) = Size[b] + Bytes(t)
  BY <1>3, <1>6, <1>7, BytesConcat, BytesOne
<1> DEFINE h == <<b>> \o s
<1>10. h \in Seq(Binary) /\ Len(h) = at /\ h[1] = b /\ \A i \in 2 .. at : h[i] = s[i - 1]
  BY <1>2, <1>3, <1>5
<1>11. Bytes(h) = Size[b] + Bytes(s)
  BY <1>3, <1>5, <1>7, BytesConcat, BytesOne
<1> HIDE DEF h
<1>12. Promote(b) = h \o t
  BY <1>1 DEF h
<1>13. Bytes(Promote(b)) = Bytes(h) + Bytes(t)
  BY <1>6, <1>10, <1>12, BytesConcat
<1>14. Size[b] \in Nat /\ Bytes(s) \in Nat /\ Bytes(t) \in Nat
  BY <1>3, <1>5, <1>6, BytesOne, BinaryConstants
<1>15. Bytes(Promote(b)) = Bytes(lru)
  BY <1>5, <1>9, <1>11, <1>13, <1>14
<1>16. Promote(b) \in Seq(Binary) /\ Len(Promote(b)) = Len(lru)
  <2>1. h \in Seq(Binary) /\ t \in Seq(Binary)
    BY <1>6, <1>10
  <2>2. h \o t \in Seq(Binary) /\ Len(h \o t) = Len(h) + Len(t)
    BY <2>1
  <2>3. Len(h) + Len(t) = Len(lru)
    BY <1>2, <1>6, <1>10
  <2>4. QED
    BY <1>12, <2>2, <2>3
<1>17. \A i \in 1 .. Len(lru) : Promote(b)[i] = IF i = 1 THEN b
                                              ELSE IF i <= at THEN lru[i - 1] ELSE lru[i]
  <2> SUFFICES ASSUME NEW i \in 1 .. Len(lru)
               PROVE  Promote(b)[i] = IF i = 1 THEN b
                                      ELSE IF i <= at THEN lru[i - 1] ELSE lru[i]
    OBVIOUS
  <2>1. CASE i <= at
    <3>1. Promote(b)[i] = h[i]
      BY <1>2, <1>6, <1>10, <1>12, <2>1
    <3>2. i # 1 => i \in 2 .. at /\ i - 1 \in 1 .. Len(s)
      BY <1>2, <1>5, <2>1
    <3>3. QED
      BY <1>8, <1>10, <2>1, <3>1, <3>2
  <2>2. CASE i > at
    <3>1. Promote(b)[i] = t[i - at] /\ i - at \in 1 .. Len(t) /\ at + (i - at) = i
      BY <1>2, <1>6, <1>10, <1>12, <2>2
    <3>2. i # 1 /\ ~(i <= at)
      BY <1>2, <2>2
    <3>3. QED
      BY <1>8, <3>1, <3>2
  <2>3. QED
    BY <1>2, <2>1, <2>2
<1>18. \A i, j \in 1 .. Len(lru) : lru[i] = lru[j] => i = j
  BY DEF LRUInv, LRUExact
<1>19. ASSUME NEW i \in 1 .. Len(lru), NEW j \in 1 .. Len(lru),
              Promote(b)[i] = Promote(b)[j]
       PROVE  i = j
  <2> DEFINE from(k) == IF k = 1 THEN at ELSE IF k <= at THEN k - 1 ELSE k
  <2>1. /\ from(i) \in 1 .. Len(lru) /\ Promote(b)[i] = lru[from(i)]
        /\ from(j) \in 1 .. Len(lru) /\ Promote(b)[j] = lru[from(j)]
    BY <1>2, <1>17
  <2>2. from(i) = from(j)
    BY <1>18, <1>19, <2>1
  <2>3. QED
    BY <1>2, <2>2
<1>20. ASSUME NEW i \in 1 .. Len(lru) PROVE lru[i] \in Range(Promote(b))
  <2> DEFINE j == IF i = at THEN 1 ELSE IF i < at THEN i + 1 ELSE i
  <2>1. j \in 1 .. Len(lru) /\ Promote(b)[j] = lru[i]
    BY <1>2, <1>17
  <2> HIDE DEF j
  <2>2. j \in DOMAIN Promote(b)
    BY <1>2, <1>16, <2>1
  <2>3. QED
    BY <2>1, <2>2 DEF Range
<1>21. QED
  BY <1>15, <1>16, <1>19, <1>20

\* cacheGet: a hit only reorders the list.
LEMMA GetLRU ==
    ASSUME LRUInv, NEW b \in Binary, cacheGet(b)
    PROVE  LRUInv'
<1>1. CASE b \in Range(lru)
  <2>1. lru' = Promote(b) /\ cacheBytes' = cacheBytes /\ maxCacheBytes' = maxCacheBytes
    BY <1>1 DEF cacheGet
  <2>2. /\ lru' \in Seq(Binary) /\ Len(lru') = Len(lru) /\ Bytes(lru') = Bytes(lru)
        /\ \A i, j \in 1 .. Len(lru) : lru'[i] = lru'[j] => i = j
    BY <1>1, <2>1, PromoteKeeps
  <2>3. QED
    BY <2>1, <2>2 DEF LRUInv, LRUExact
<1>2. CASE b \notin Range(lru)
  BY <1>2 DEF cacheGet, LRUInv, LRUExact
<1>3. QED
  BY <1>1, <1>2

\* cachePut: the entry is counted once, and what was evicted makes room for it
\* or leaves it alone.
LEMMA PutLRU ==
    ASSUME LRUInv, NEW b \in Binary, cachePut(b)
    PROVE  LRUInv'
<1>1. CASE b \in Range(lru)
  <2>1. lru' = Promote(b) /\ cacheBytes' = cacheBytes /\ maxCacheBytes' = maxCacheBytes
    BY <1>1 DEF cachePut
  <2>2. /\ lru' \in Seq(Binary) /\ Len(lru') = Len(lru) /\ Bytes(lru') = Bytes(lru)
        /\ \A i, j \in 1 .. Len(lru) : lru'[i] = lru'[j] => i = j
    BY <1>1, <2>1, PromoteKeeps
  <2>3. QED
    BY <2>1, <2>2 DEF LRUInv, LRUExact
<1>2. CASE b \notin Range(lru)
  <2> DEFINE kept == Kept(Size[b], maxCacheBytes)
  <2>1. /\ lru' = <<b>> \o kept /\ maxCacheBytes' = maxCacheBytes
        /\ cacheBytes' = cacheBytes - Evicted(kept) + Size[b]
    BY <1>2 DEF cachePut
  <2>2. Size[b] \in Nat /\ maxCacheBytes \in Nat
    BY BinaryConstants DEF LRUInv
  <2> HIDE DEF kept
  <2>3. PICK n \in 0 .. Len(lru) :
           /\ kept = SubSeq(lru, 1, n) /\ Len(kept) = n /\ kept \in Seq(Binary)
           /\ cacheBytes - Evicted(kept) = Bytes(kept)
           /\ n = 0 \/ Bytes(kept) + Size[b] <= maxCacheBytes
    BY <2>2, EvictionLoop DEF kept
  <2>4. <<b>> \in Seq(Binary) /\ Bytes(<<b>>) = Size[b] /\ Bytes(kept) \in Nat
    <3>1. kept \in Seq(Binary)
      BY <2>3
    <3>2. Bytes(kept) \in Nat /\ Bytes(<<b>>) = Size[b]
      BY <3>1, BytesOne
    <3>3. QED
      BY <3>2
  <2>5. Bytes(lru') = Size[b] + Bytes(kept)
    BY <2>1, <2>3, <2>4, BytesConcat
  <2>6. cacheBytes' = Bytes(lru')
    BY <2>1, <2>2, <2>3, <2>4, <2>5
  <2>7. /\ lru' \in Seq(Binary) /\ Len(lru') = n + 1
        /\ lru'[1] = b /\ \A i \in 2 .. n + 1 : lru'[i] = kept[i - 1]
    BY <2>1, <2>3
  <2>8. cacheBytes' <= maxCacheBytes' \/ Len(lru') = 1
    <3>1. CASE n = 0
      BY <2>7, <3>1
    <3>2. CASE Bytes(kept) + Size[b] <= maxCacheBytes
      BY <2>1, <2>2, <2>4, <2>5, <2>6, <3>2
    <3>3. QED
      BY <2>3, <3>1, <3>2
  <2>9. \A i \in 1 .. n : kept[i] = lru[i] /\ kept[i] # b
    BY <1>2, <2>3 DEF LRUInv, Range
  <2>10. ASSUME NEW i \in 1 .. n + 1, NEW j \in 1 .. n + 1, lru'[i] = lru'[j]
         PROVE  i = j
    <3>1. n \in Nat /\ Len(lru) \in Nat
      BY DEF LRUInv
    <3>2. ASSUME NEW k \in 1 .. n + 1, k # 1
          PROVE  k - 1 \in 1 .. Len(lru) /\ lru'[k] = lru[k - 1] /\ lru'[k] # b
      <4>1. k \in 2 .. n + 1 /\ k - 1 \in 1 .. n /\ k - 1 \in 1 .. Len(lru)
        BY <3>1, <3>2
      <4>2. lru'[k] = kept[k - 1]
        BY <2>7, <4>1
      <4>3. QED
        BY <2>9, <4>1, <4>2
    <3>3. \A k, m \in 1 .. Len(lru) : lru[k] = lru[m] => k = m
      BY DEF LRUInv, LRUExact
    <3>4. CASE i = 1 \/ j = 1
      BY <2>7, <2>10, <3>2, <3>4
    <3>5. CASE i # 1 /\ j # 1
      <4>1. i - 1 = j - 1
        BY <2>10, <3>2, <3>3, <3>5
      <4>2. QED
        BY <4>1, <3>1
    <3>6. QED
      BY <3>4, <3>5
  <2>11. QED
    BY <2>1, <2>2, <2>6, <2>7, <2>8, <2>10 DEF LRUInv, LRUExact
<1>3. QED
  BY <1>1, <1>2

\* SetMaxCacheBytes: what does not fit under the new bound goes.
LEMMA BoundLRU ==
    ASSUME LRUInv, NEW limit \in Int, SetMaxCacheBytes(limit)
    PROVE  LRUInv'
<1>1. CASE limit <= 0
  BY <1>1 DEF SetMaxCacheBytes, LRUInv, LRUExact, cacheVars
<1>2. CASE limit > 0
  <2> DEFINE kept == Kept(0, limit)
  <2>1. maxCacheBytes' = limit /\ lru' = kept /\ cacheBytes' = cacheBytes - Evicted(kept)
    BY <1>2 DEF SetMaxCacheBytes
  <2>2. limit \in Nat /\ 0 \in Nat
    BY <1>2
  <2> HIDE DEF kept
  <2>3. PICK n \in 0 .. Len(lru) :
           /\ kept = SubSeq(lru, 1, n) /\ Len(kept) = n /\ kept \in Seq(Binary)
           /\ cacheBytes - Evicted(kept) = Bytes(kept)
           /\ n = 0 \/ Bytes(kept) + 0 <= limit
    BY <2>2, EvictionLoop DEF kept
  <2>4. Bytes(kept) \in Nat /\ Bytes(<<>>) = 0
    BY <2>3, BytesOne
  <2>5. Bytes(kept) <= limit
    <3>1. CASE n = 0
      <4>1. kept = <<>>
        BY <2>3, <3>1
      <4>2. QED
        BY <2>2, <2>4, <4>1
    <3>2. CASE n # 0
      BY <2>3, <2>4, <3>2
    <3>3. QED
      BY <3>1, <3>2
  <2>6. \A i \in 1 .. n : kept[i] = lru[i] /\ i \in 1 .. Len(lru)
    BY <2>3 DEF LRUInv
  <2>7. \A i, j \in 1 .. n : kept[i] = kept[j] => i = j
    BY <2>6 DEF LRUInv, LRUExact
  <2>8. QED
    BY <2>1, <2>2, <2>3, <2>5, <2>7 DEF LRUInv, LRUExact
<1>3. QED
  BY <1>1, <1>2

\* A step takes binary number n of the list out of the cache only if it and the
\* more recent ones do not fit into the bound, with the binary that the step adds.
EvictedForSpace ==
    \A n \in 1 .. Len(lru) : lru[n] \notin Range(lru') =>
        \/ Bytes(SubSeq(lru, 1, n)) > maxCacheBytes'
        \/ /\ lru'[1] \notin Range(lru)
           /\ Bytes(SubSeq(lru, 1, n)) + Size[lru'[1]] > maxCacheBytes'

\* cacheGet evicts nothing.
LEMMA GetEvicts ==
    ASSUME LRUInv, NEW b \in Binary, cacheGet(b)
    PROVE  EvictedForSpace
<1>1. ASSUME NEW n \in 1 .. Len(lru) PROVE lru[n] \in Range(lru')
  <2>1. CASE lru' = lru
    BY <2>1 DEF Range, LRUInv
  <2>2. CASE lru' = Promote(b) /\ b \in Range(lru)
    BY <2>2, PromoteKeeps
  <2>3. QED
    BY <2>1, <2>2 DEF cacheGet
<1>2. QED
  BY <1>1 DEF EvictedForSpace

\* cachePut evicts for the binary it adds.
LEMMA PutEvicts ==
    ASSUME LRUInv, NEW b \in Binary, cachePut(b)
    PROVE  EvictedForSpace
<1>1. CASE b \in Range(lru)
  <2>1. lru' = Promote(b)
    BY <1>1 DEF cachePut
  <2>2. \A n \in 1 .. Len(lru) : lru[n] \in Range(lru')
    BY <1>1, <2>1, PromoteKeeps
  <2>3. QED
    BY <2>2 DEF EvictedForSpace
<1>2. CASE b \notin Range(lru)
  <2> DEFINE kept == Kept(Size[b], maxCacheBytes)
  <2>1. lru' = <<b>> \o kept /\ maxCacheBytes' = maxCacheBytes
    BY <1>2 DEF cachePut
  <2>2. Size[b] \in Nat /\ maxCacheBytes \in Nat /\ Len(lru) \in Nat
    BY BinaryConstants DEF LRUInv
  <2> HIDE DEF kept
  <2>3. PICK n \in 0 .. Len(lru) :
           /\ kept = SubSeq(lru, 1, n) /\ Len(kept) = n /\ kept \in Seq(Binary)
           /\ \A m \in n + 1 .. Len(lru) :
                 Bytes(SubSeq(lru, 1, m)) + Size[b] > maxCacheBytes
    BY <2>2, EvictionLoop DEF kept
  <2>4. lru'[1] = b /\ \A i \in 1 .. n : lru[i] \in Range(lru')
    <3>1. /\ lru' \in Seq(Binary) /\ Len(lru') = n + 1
          /\ lru'[1] = b /\ \A i \in 1 .. n : lru'[i + 1] = kept[i]
      BY <2>1, <2>3
    <3>2. \A i \in 1 .. n : kept[i] = lru[i]
      BY <2>3 DEF LRUInv
    <3>3. \A i \in 1 .. n : i + 1 \in DOMAIN lru'
      BY <2>2, <3>1
    <3>4. QED
      BY <3>1, <3>2, <3>3 DEF Range
  <2>5. ASSUME NEW m \in 1 .. Len(lru), lru[m] \notin Range(lru')
        PROVE  m \in n + 1 .. Len(lru)
    BY <2>2, <2>4, <2>5
  <2>6. QED
    BY <1>2, <2>1, <2>3, <2>4, <2>5 DEF EvictedForSpace
<1>3. QED
  BY <1>1, <1>2

\* SetMaxCacheBytes evicts for the bound it sets.
LEMMA BoundEvicts ==
    ASSUME LRUInv, NEW limit \in Int, SetMaxCacheBytes(limit)
    PROVE  EvictedForSpace
<1>1. CASE limit <= 0
  BY <1>1 DEF SetMaxCacheBytes, EvictedForSpace, LRUInv, Range, cacheVars
<1>2. CASE limit > 0
  <2> DEFINE kept == Kept(0, limit)
  <2>1. maxCacheBytes' = limit /\ lru' = kept
    BY <1>2 DEF SetMaxCacheBytes
  <2>2. limit \in Nat /\ 0 \in Nat /\ Len(lru) \in Nat
    BY <1>2 DEF LRUInv
  <2> HIDE DEF kept
  <2>3. PICK n \in 0 .. Len(lru) :
           /\ kept = SubSeq(lru, 1, n) /\ Len(kept) = n /\ kept \in Seq(Binary)
           /\ \A m \in n + 1 .. Len(lru) : Bytes(SubSeq(lru, 1, m)) + 0 > limit
    BY <2>2, EvictionLoop DEF kept
  <2>4. \A i \in 1 .. n : lru[i] \in Range(lru')
    <3>1. \A i \in 1 .. n : kept[i] = lru[i] /\ i \in DOMAIN kept
      BY <2>3 DEF LRUInv
    <3>2. QED
      BY <2>1, <3>1 DEF Range
  <2>5. ASSUME NEW m \in 1 .. Len(lru), lru[m] \notin Range(lru')
        PROVE  Bytes(SubSeq(lru, 1, m)) > limit
    <3>1. m \in n + 1 .. Len(lru) /\ m \in 0 .. Len(lru)
      BY <2>2, <2>4, <2>5
    <3>2. lru \in Seq(Binary)
      BY DEF LRUInv
    <3>3. SubSeq(lru, 1, m) \in Seq(Binary)
      BY <3>1, <3>2, BytesCut
    <3>4. Bytes(SubSeq(lru, 1, m)) \in Nat
      BY <3>3, BytesOne
    <3>5. Bytes(SubSeq(lru, 1, m)) + 0 > limit
      BY <2>3, <3>1
    <3>6. QED
      BY <3>4, <3>5
  <2>6. QED
    BY <2>1, <2>5 DEF EvictedForSpace
<1>3. QED
  BY <1>1, <1>2

\* A request that names no secret twice is its own order.
LEMMA OrderKept ==
    ASSUME NEW T, NEW s \in Seq(T), IsInjective(s)
    PROVE  RequestOrder(s) = s
<1> DEFINE first == {i \in DOMAIN s : \A j \in 1 .. i - 1 : s[j] # s[i]}
           nth(n) == CHOOSE i \in first : Cardinality(first \cap 1 .. i) = n
<1>1. /\ Len(s) \in Nat /\ DOMAIN s = 1 .. Len(s)
      /\ s = [n \in 1 .. Len(s) |-> s[n]]
  OBVIOUS
<1>2. first = 1 .. Len(s)
  BY <1>1 DEF IsInjective
<1>c. \A k \in Nat : Cardinality(1 .. k) = k
  <2> SUFFICES ASSUME NEW k \in Nat PROVE Cardinality(1 .. k) = k
    OBVIOUS
  <2>1. 1 \in Int /\ k \in Int
    OBVIOUS
  <2>2. Cardinality(1 .. k) = IF 1 > k THEN 0 ELSE k - 1 + 1
    BY <2>1, FS_Interval
  <2>3. QED
    BY <2>2
<1>3. Cardinality(first) = Len(s)
  <2> HIDE DEF first
  <2> QED BY <1>1, <1>2, <1>c
<1>4. ASSUME NEW i \in first
      PROVE  Cardinality(first \cap 1 .. i) = i
  <2>1. first \cap 1 .. i = 1 .. i /\ i \in Nat /\ i >= 1
    BY <1>1, <1>2
  <2> HIDE DEF first
  <2>2. QED
    BY <2>1, <1>c
<1>5. RequestOrder(s) = [n \in 1 .. Cardinality(first) |-> s[nth(n)]]
  BY DEF RequestOrder
<1> HIDE DEF first
<1>6. ASSUME NEW n \in 1 .. Len(s)
      PROVE  nth(n) = n
  <2>1. n \in first /\ Cardinality(first \cap 1 .. n) = n
    BY <1>2, <1>4
  <2>2. \A i \in first : Cardinality(first \cap 1 .. i) = n => i = n
    BY <1>4
  <2>3. QED
    BY <2>1, <2>2
<1> HIDE DEF nth
<1>7. [n \in 1 .. Len(s) |-> s[nth(n)]] = [n \in 1 .. Len(s) |-> s[n]]
  BY <1>6
<1>8. QED
  BY <1>1, <1>3, <1>5, <1>7

-----------------------------------------------------------------------------
\* What is above a threshold.
LEMMA Thresholds ==
    /\ \A p, q \in Nat : p > q \/ p <= q
    /\ \A p, q, r \in Nat : p > r /\ p <= q => q >= r + 1 /\ q # 0
OBVIOUS

\* An update of a record leaves its other fields alone.  Every step from here on
\* has this among its facts: the SMT backend leaves out its type inference, slow
\* in a long module, for an obligation in which it meets such an update.
LEMMA Untyped == [[a |-> 0, b |-> 0] EXCEPT !.a = 1].b = 0
OBVIOUS

USE Untyped

\* The answers in a bundle: of a correct node only the true result.
LEMMA AnswersTrue ==
    ASSUME NEW x \in Execution, NEW asked \in SUBSET CorrectRelay,
           NEW forged \in SUBSET Forgeries, NEW store,
           NEW a \in Answers(x, asked, forged, store)
    PROVE  /\ a.result = Result(x, a.node, a.result.body)
           /\ a.result.body \in {"true", "forged"}
           /\ a.node \notin FaultyRelay => a.result.body = "true"
<1>1. CASE \E n \in asked : a \in TrueAnswers(x, n, store)
  <2>1. PICK n \in asked : a \in TrueAnswers(x, n, store)
    BY <1>1
  <2>2. a.node = n /\ a.result = Result(x, n, "true")
    BY <2>1 DEF TrueAnswers
  <2>3. QED
    BY <2>2 DEF Result
<1>2. CASE \E e \in forged : a \in ForgedAnswers(x, e[1], e[2])
  <2>1. PICK e \in forged : a \in ForgedAnswers(x, e[1], e[2])
    BY <1>2
  <2>2. e[1] \in FaultyRelay /\ e[2] \in {"true", "forged"}
    BY DEF Forgeries
  <2>3. a.node = e[1] /\ a.result = Result(x, e[1], e[2])
    BY <2>1 DEF ForgedAnswers
  <2>4. QED
    BY <2>2, <2>3 DEF Result
<1>3. a \in UNION {TrueAnswers(x, n, store) : n \in asked}
        => \E n \in asked : a \in TrueAnswers(x, n, store)
  OBVIOUS
<1>4. a \in UNION {ForgedAnswers(x, e[1], e[2]) : e \in forged}
        => \E e \in forged : a \in ForgedAnswers(x, e[1], e[2])
  OBVIOUS
<1>5. QED
  BY <1>1, <1>2, <1>3, <1>4 DEF Answers

\* Grouping keeps the body.
LEMMA EntriesTrue ==
    ASSUME NEW x \in Execution, NEW asked \in SUBSET CorrectRelay,
           NEW forged \in SUBSET Forgeries, NEW store,
           NEW e \in Entries(x, Answers(x, asked, forged, store))
    PROVE  /\ e.group.body = e.result.body
           /\ e.node \notin FaultyRelay => e.result.body = "true"
           /\ \E b \in {"true", "forged"} : e.result = Result(x, e.node, b)
<1>1. PICK a \in Answers(x, asked, forged, store) :
         e = relayEntry(a, canonicalCapabilityPayload(a.result)) \/ e = relayEntry(a, a.result)
  BY DEF Entries, capabilityEntries, secretsEntries
<1>2. e.node = a.node /\ e.result = a.result
  BY <1>1 DEF relayEntry
<1>3. /\ a.result = Result(x, a.node, a.result.body)
      /\ a.result.body \in {"true", "forged"}
      /\ a.node \notin FaultyRelay => a.result.body = "true"
  BY AnswersTrue
<1>4. e.group.body = e.result.body
  <2>1. canonicalCapabilityPayload(a.result).body = a.result.body
    BY <1>3 DEF canonicalCapabilityPayload, Result
  <2>2. QED
    BY <1>1, <1>2, <2>1 DEF relayEntry
<1>5. QED
  BY <1>2, <1>3, <1>4

\* More than F members agree on a group, so one of them is correct, and the
\* result of the group is the true one.
LEMMA WinnerTrue ==
    ASSUME NEW x \in Execution, NEW asked \in SUBSET CorrectRelay,
           NEW forged \in SUBSET Forgeries, NEW store,
           rcall[x].params.config \in Configs,
           NEW w \in selectQuorumResult(x, Entries(x, Answers(x, asked, forged, store))),
           w # Nil
    PROVE  w.body = "true"
<1> DEFINE E == Entries(x, Answers(x, asked, forged, store))
           c == rcall[x].params.config
           valid == Verified(x, E)
           N(g) == {e.node : e \in {d \in valid : d.group = g}}
           winners == {g \in {e.group : e \in valid} : Cardinality(N(g)) >= c.f + 1}
<1>1. c.signers # {} /\ winners # {}
  BY DEF selectQuorumResult
<1>2. PICK d \in valid : w = d.result /\ d.group \in winners
  BY <1>1 DEF selectQuorumResult
<1>3. c \in AppConfigs
  BY <1>1 DEF Configs, ZeroConfig
<1>4. c.signers \subseteq RelayNode /\ c.f \in Nat /\ Cardinality(c.signers \cap FaultyRelay) <= c.f
  BY <1>3, AppConstants
<1>5. \A g : N(g) \subseteq c.signers
  BY DEF Verified
<1>6. \E n \in N(d.group) : n \notin FaultyRelay
  <2>1. SUFFICES ASSUME N(d.group) \subseteq FaultyRelay PROVE FALSE
    OBVIOUS
  <2>2. N(d.group) \subseteq c.signers \cap FaultyRelay
    BY <1>5, <2>1
  <2>3. IsFiniteSet(c.signers \cap FaultyRelay)
    BY <1>4, RelayConstants, FS_Subset
  <2>4. /\ IsFiniteSet(N(d.group))
        /\ Cardinality(N(d.group)) <= Cardinality(c.signers \cap FaultyRelay)
    <3> HIDE DEF N
    <3> QED BY <2>2, <2>3, FS_Subset
  <2>5. /\ Cardinality(N(d.group)) \in Nat
        /\ Cardinality(c.signers \cap FaultyRelay) \in Nat
    <3> HIDE DEF N
    <3> QED BY <2>3, <2>4, FS_CardinalityType
  <2>6. Cardinality(N(d.group)) >= c.f + 1
    BY <1>2
  <2> HIDE DEF N, c
  <2>7. QED
    BY <1>4, <2>4, <2>5, <2>6
<1>7. PICK e \in valid : e.group = d.group /\ e.node \notin FaultyRelay
  BY <1>6
<1>8. e \in E /\ d \in E
  BY DEF Verified
<1>9. e.group.body = "true"
  BY <1>7, <1>8, EntriesTrue
<1>10. QED
  BY <1>2, <1>7, <1>8, <1>9, EntriesTrue

\* A correct member that answered for the parameters of the call counts for the
\* true group.
LEMMA MemberCounts ==
    ASSUME NEW x \in Execution, NEW asked \in SUBSET CorrectRelay,
           NEW forged \in SUBSET Forgeries, NEW store,
           NEW n \in asked \cap rcall[x].params.config.signers,
           NEW m \in store[n], m.id = rcall[x].id, m.params = rcall[x].params
    PROVE  \E e \in Verified(x, Entries(x, Answers(x, asked, forged, store))) :
               e.node = n /\ e.group = [body |-> "true", sigs |-> Nil]
<1> DEFINE a == [node |-> n, params |-> m.params, result |-> Result(x, n, "true"),
                 copy |-> 1]
           cap == rcall[x].kind = "capability"
           e == relayEntry(a, IF cap THEN canonicalCapabilityPayload(a.result) ELSE a.result)
<1>1. a \in TrueAnswers(x, n, store)
  BY DEF TrueAnswers
<1>2. a \in Answers(x, asked, forged, store)
  <2> HIDE DEF a
  <2> QED BY <1>1 DEF Answers
<1>3. e \in Entries(x, Answers(x, asked, forged, store))
  <2> HIDE DEF a
  <2> QED BY <1>2 DEF Entries, capabilityEntries, secretsEntries
<1>4. e.node = n /\ e.params = rcall[x].params
  BY DEF relayEntry
<1>5. e.group = [body |-> "true", sigs |-> Nil]
  <2>1. CASE cap
    BY <2>1 DEF relayEntry, canonicalCapabilityPayload, Result
  <2>2. CASE ~cap
    BY <2>2 DEF relayEntry, Result
  <2>3. QED
    BY <2>1, <2>2
<1> HIDE DEF e, a, cap
<1>6. e \in Verified(x, Entries(x, Answers(x, asked, forged, store)))
  BY <1>3, <1>4 DEF Verified
<1>7. QED
  BY <1>4, <1>5, <1>6

\* Without a winner at most F correct members answered for the parameters.
LEMMA NoWinner ==
    ASSUME NEW x \in Execution, NEW asked \in SUBSET CorrectRelay,
           NEW forged \in SUBSET Forgeries, NEW store,
           rcall[x].params.config \in Configs,
           Nil \in selectQuorumResult(x, Entries(x, Answers(x, asked, forged, store))),
           NEW A \in SUBSET (asked \cap rcall[x].params.config.signers),
           \A n \in A : \E m \in store[n] :
               m.id = rcall[x].id /\ m.params = rcall[x].params
    PROVE  Cardinality(A) <= rcall[x].params.config.f
<1> DEFINE E == Entries(x, Answers(x, asked, forged, store))
           c == rcall[x].params.config
           valid == Verified(x, E)
           N(g) == {e.node : e \in {d \in valid : d.group = g}}
           winners == {g \in {e.group : e \in valid} : Cardinality(N(g)) >= c.f + 1}
           G == [body |-> "true", sigs |-> Nil]
<1>1. CASE c = ZeroConfig
  <2>1. A = {} /\ c.f = 0
    BY <1>1 DEF ZeroConfig
  <2>2. QED
    BY <2>1, FS_EmptySet
<1>2. CASE c \in AppConfigs
  <2>1. c.signers \subseteq RelayNode /\ c.f \in Nat /\ IsFiniteSet(c.signers)
    BY <1>2, AppConstants, RelayConstants, FS_Subset
  <2>2. \A g : N(g) \subseteq c.signers
    BY DEF Verified
  <2>3. A \subseteq N(G)
    <3> SUFFICES ASSUME NEW n \in A PROVE n \in N(G)
      OBVIOUS
    <3>1. PICK m \in store[n] : m.id = rcall[x].id /\ m.params = rcall[x].params
      OBVIOUS
    <3>2. n \in asked /\ n \in c.signers
      OBVIOUS
    <3>3. \E e \in valid : e.node = n /\ e.group = G
      BY <3>1, <3>2, MemberCounts
    <3> HIDE DEF valid, G
    <3>4. QED
      BY <3>3
  <2>4. IsFiniteSet(N(G)) /\ Cardinality(A) <= Cardinality(N(G))
    <3> HIDE DEF N, G
    <3>1. IsFiniteSet(N(G))
      BY <2>1, <2>2, FS_Subset
    <3>2. QED
      BY <2>3, <3>1, FS_Subset
  <2>5. Cardinality(A) \in Nat /\ Cardinality(N(G)) \in Nat
    <3> HIDE DEF N, G
    <3>1. IsFiniteSet(A)
      BY <2>3, <2>4, FS_Subset
    <3>2. QED
      BY <2>4, <3>1, FS_CardinalityType
  <2>6. ASSUME Cardinality(A) > c.f PROVE FALSE
    <3>1. Cardinality(N(G)) >= c.f + 1
      <4> HIDE DEF N, G, c
      <4> QED BY <2>1, <2>4, <2>5, <2>6, Thresholds
    <3>2. N(G) # {}
      <4>1. Cardinality({}) = 0
        BY FS_EmptySet
      <4> HIDE DEF N, G, c
      <4>2. QED
        BY <2>1, <2>4, <2>5, <2>6, <4>1, Thresholds
    <3>3. G \in winners
      <4>1. \E e \in valid : e.group = G
        BY <3>2
      <4> HIDE DEF valid, G
      <4>2. QED
        BY <3>1, <4>1
    <3>4. c.signers # {} /\ winners # {}
      BY <2>2, <3>2, <3>3
    <3>5. PICK e \in valid : e.result = Nil
      BY <3>4 DEF selectQuorumResult
    <3>6. e \in E /\ e.node \in RelayNode
      BY <2>1 DEF Verified
    <3>7. \E b \in {"true", "forged"} : e.result = Result(x, e.node, b)
      BY <3>6, EntriesTrue
    <3>8. QED
      BY <3>5, <3>6, <3>7, RelayConstants DEF Result
  <2>7. Cardinality(A) <= c.f
    <3> HIDE DEF c
    <3> QED BY <2>1, <2>5, <2>6, Thresholds
  <2>8. QED
    BY <2>7
<1>3. QED
  BY <1>1, <1>2 DEF Configs

-----------------------------------------------------------------------------
ExecFields == {"pc", "sf", "remote", "gate", "timed", "code"}

CallFields == {"pc", "kind", "params", "id", "start", "tried", "sends", "outcome",
               "asked", "result", "response"}

\* The dispatcher, the last config and the update that may be under way: while
\* it is, a dispatcher that it will not set was built with its config.
ConfigInv ==
    /\ dispatcher \in Configs \cup {Nil}
    /\ lastConfig \in AppConfigs \cup {Nil}
    /\ DOMAIN update = {"pc", "config", "set", "count"}
    /\ update.pc \in {"idle", "setting"}
    /\ update.pc = "setting" =>
          /\ lastConfig # Nil /\ update.config = lastConfig
          /\ (dispatcher # Nil /\ ~update.set) => dispatcher = lastConfig
    /\ DispatcherCurrent

\* An execution that may call the relay has found a dispatcher.
ExecInv ==
    /\ DOMAIN exec = Execution
    /\ \A x \in Execution : /\ DOMAIN exec[x] = ExecFields
                            /\ exec[x].remote => dispatcher # Nil

\* A call in flight has a config that was given to the app, and the callback ID
\* of a secrets request is made of all its parameters.
CallGood(c) ==
    /\ DOMAIN c = CallFields
    /\ c.pc \in {"none", "send", "try", "backoff", "verified", "done"}
    /\ c.pc # "done" => c.outcome = Nil
    /\ c.pc \in {"send", "try", "backoff", "verified"} =>
          /\ c.params.config \in Configs
          /\ c.kind \in {"secrets", "capability"}
          /\ c.kind = "secrets" => /\ c.id = c.params /\ "key" \in DOMAIN c.id
                                   /\ c.params.secrets \in Requests
          /\ c.kind = "capability" => DOMAIN c.id = {"callback"}

\* What the guest has been given.
Secrets(c) ==
    LET order == RequestOrder(c.params.secrets)
    IN  /\ c.params.secrets \in Requests
        /\ DOMAIN c.response = DOMAIN order
        /\ \A i \in DOMAIN order : /\ c.response[i].id = order[i]
                                   /\ c.response[i].value \in {order[i], Nil}

CallTrue(c) ==
    /\ c.pc = "verified" => c.kind = "secrets" /\ c.result.body = "true"
    /\ c.outcome = "ok" => /\ c.result.body = "true"
                           /\ c.kind = "secrets" => Secrets(c)

CallInv ==
    /\ DOMAIN rcall = Execution
    /\ \A x \in Execution : CallGood(rcall[x]) /\ CallTrue(rcall[x])

AppInv == ConfigInv /\ ExecInv /\ CallInv

\* The initial states satisfy it.
LEMMA AppInitInv == AppInit => AppInv
<1> SUFFICES ASSUME AppInit PROVE AppInv
  OBVIOUS
<1>1. ConfigInv
  BY DEF AppInit, ConfigInv, DispatcherCurrent
<1>2. ExecInv
  BY DEF AppInit, ExecInv, ExecFields
<1>3. CallInv
  <2>1. CallGood(NoRemoteCall) /\ CallTrue(NoRemoteCall)
    BY RelayConstants DEF NoRemoteCall, CallGood, CallTrue, CallFields
  <2>2. rcall = [x \in Execution |-> NoRemoteCall]
    BY DEF AppInit, RelayInit
  <2>3. QED
    BY <2>1, <2>2 DEF CallInv
<1>4. QED
  BY <1>1, <1>2, <1>3 DEF AppInv

\* An execution does not change the settings.
LEMMA ExecStepSettings ==
    ASSUME NEW x \in Execution, ExecStep(x) \/ CallStep(x)
    PROVE  UNCHANGED settingsVars
  BY DEF ExecStep, CallStep, Admit, Validate, Snapshot, FetchCached, Downloaded,
         DownloadFails, CheckRequirements, LoadCompileSlots, AcquireCompileSlot,
         CompileEnds, GuestCalls, GuestEnds,
         GuestTimesOut, Return

\* The config and the dispatcher.
LEMMA ConfigStep ==
    ASSUME ConfigInv, [AppNext]_appVars
    PROVE  ConfigInv' /\ (dispatcher # Nil => dispatcher' # Nil)
<1> USE AppConstants
<1>1. CASE \/ UNCHANGED appVars
           \/ \E x \in Execution : ExecStep(x) \/ CallStep(x)
  <2>1. UNCHANGED settingsVars
    BY <1>1, ExecStepSettings DEF appVars
  <2>2. QED
    BY <2>1 DEF ConfigInv, DispatcherCurrent, settingsVars
<1>2. ASSUME NEW i \in Post, InjectStep(i)
      PROVE  ConfigInv' /\ (dispatcher # Nil => dispatcher' # Nil)
  <2>1. CASE InjectDispatcher(i)
    <3>1. UNCHANGED <<lastConfig, update>>
      BY <2>1 DEF InjectDispatcher
    <3>2. \/ dispatcher' = dispatcher
          \/ dispatcher = Nil /\ lastConfig = Nil /\ dispatcher' = ZeroConfig
          \/ dispatcher = Nil /\ lastConfig # Nil /\ dispatcher' = lastConfig
      BY <2>1 DEF InjectDispatcher
    <3>3. QED
      BY <3>1, <3>2 DEF ConfigInv, DispatcherCurrent, Configs
  <2>2. CASE ~InjectDispatcher(i)
    <3>1. UNCHANGED <<dispatcher, lastConfig, update>>
      BY <1>2, <2>2 DEF InjectStep, InjectLost, InjectSettings, InjectTimeout,
         InjectCompileSlots,
         InjectStorage, InjectClosesOld, InjectAnswerLost, InjectAgain
    <3>2. QED
      BY <3>1 DEF ConfigInv, DispatcherCurrent
  <2>3. QED
    BY <2>1, <2>2
<1>3. CASE SetConfig
  <2>1. /\ update.pc = "setting" /\ lastConfig' = lastConfig
        /\ dispatcher' = IF update.set THEN update.config ELSE dispatcher
        /\ DOMAIN update' = DOMAIN update /\ update'.pc = "idle"
    BY <1>3 DEF SetConfig, ConfigInv
  <2>2. QED
    BY <2>1 DEF ConfigInv, DispatcherCurrent, Configs
<1>4. ASSUME NEW c \in AppConfigs, OnConfigUpdate(c)
      PROVE  ConfigInv' /\ (dispatcher # Nil => dispatcher' # Nil)
  BY <1>4 DEF OnConfigUpdate, ConfigInv, DispatcherCurrent
<1>5. QED
  BY <1>1, <1>2, <1>3, <1>4 DEF AppNext, UpdateStep

\* The executions: only one that finds a dispatcher may call the relay.
LEMMA ExecInvStep ==
    ASSUME ExecInv, [AppNext]_appVars, dispatcher # Nil => dispatcher' # Nil
    PROVE  ExecInv'
<1>1. CASE UNCHANGED exec
  BY <1>1 DEF ExecInv
<1>2. ASSUME NEW x \in Execution, ExecStep(x), exec' # exec
      PROVE  ExecInv'
  <2>0. DOMAIN exec[x] = ExecFields
    BY DEF ExecInv
  <2>1. CASE Snapshot(x)
    <3>1. dispatcher' = dispatcher
      BY <2>1 DEF Snapshot, settingsVars
    <3>2. \/ exec' = [exec EXCEPT ![x].pc = "returning", ![x].code = 502]
          \/ exec' = [exec EXCEPT ![x].pc = "fetching", ![x].sf = storageFetcher,
                                  ![x].remote = (dispatcher # Nil)]
      BY <2>1 DEF Snapshot, Returning
    <3>3. QED
      BY <2>0, <3>1, <3>2 DEF ExecInv, ExecFields
  <2>2. CASE \E outcome \in {"ok", "error", "deadline"} : CompileEnds(x, outcome)
    <3>1. PICK outcome \in {"ok", "error", "deadline"} : CompileEnds(x, outcome)
      BY <2>2
    <3> DEFINE woken(y) == y \in Range(Granted(gates[exec[x].gate]))
    <3>2. exec' = [y \in Execution |->
             IF y = x THEN Compiled(x, outcome)
             ELSE IF woken(y) THEN [exec[y] EXCEPT !.pc = "compiling"] ELSE exec[y]]
      BY <3>1 DEF CompileEnds
    <3>3. DOMAIN exec' = Execution
      <4> HIDE DEF woken
      <4> QED BY <3>2
    <3>4. /\ DOMAIN Compiled(x, outcome) = ExecFields
          /\ Compiled(x, outcome).remote = exec[x].remote
      BY <2>0 DEF Compiled, ExecFields
    <3>5. ASSUME NEW y \in Execution
          PROVE  DOMAIN exec'[y] = ExecFields /\ exec'[y].remote = exec[y].remote
      <4>1. DOMAIN exec[y] = ExecFields
        BY DEF ExecInv
      <4> HIDE DEF woken
      <4>2. \/ y = x /\ exec'[y] = Compiled(x, outcome)
            \/ exec'[y] = [exec[y] EXCEPT !.pc = "compiling"]
            \/ exec'[y] = exec[y]
        BY <3>2
      <4>3. QED
        BY <3>4, <4>1, <4>2 DEF ExecFields
    <3>6. QED
      BY <3>3, <3>5 DEF ExecInv
  <2>4. CASE \E pc, code : exec' = [exec EXCEPT ![x].pc = pc]
                           \/ exec' = [exec EXCEPT ![x].pc = pc, ![x].code = code]
    <3>1. PICK pc, code : exec' = [exec EXCEPT ![x].pc = pc]
                           \/ exec' = [exec EXCEPT ![x].pc = pc, ![x].code = code]
      BY <2>4
    <3>2. QED
      BY <2>0, <3>1 DEF ExecInv, ExecFields
  <2>3. CASE CheckRequirements(x)
    BY <2>0, <2>3 DEF CheckRequirements, Returning, ExecInv, ExecFields
  <2>l. CASE LoadCompileSlots(x)
    <3>1. PICK g : exec' = [exec EXCEPT ![x].pc = "loaded", ![x].gate = g]
      BY <2>l DEF LoadCompileSlots
    <3>2. QED
      BY <2>0, <3>1 DEF ExecInv, ExecFields
  <2>a. CASE AcquireCompileSlot(x)
    BY <2>4, <2>a DEF AcquireCompileSlot, Goes
  <2>5. CASE GuestCalls(x)
    BY <1>2, <2>5 DEF GuestCalls, execVars
  <2>6. CASE Admit(x)
    BY <2>4, <2>6 DEF Admit, Goes
  <2>7. CASE Validate(x)
    BY <2>4, <2>7 DEF Validate, Goes, Returning
  <2>8. CASE FetchCached(x)
    <3>1. Goes(x, "fetched") \/ Goes(x, "downloading") \/ Returning(x, 502)
      BY <2>8 DEF FetchCached
    <3>2. QED
      BY <2>4, <3>1 DEF Goes, Returning
  <2>9. CASE Downloaded(x) \/ Return(x)
    BY <2>4, <2>9 DEF Downloaded, Return, Goes
  <2>10. CASE DownloadFails(x) \/ GuestEnds(x) \/ GuestTimesOut(x)
    BY <2>4, <2>10 DEF DownloadFails, GuestEnds, GuestTimesOut, Returning
  <2>11. QED
    BY <1>2, <2>1, <2>2, <2>3, <2>l, <2>a, <2>5, <2>6, <2>7, <2>8, <2>9, <2>10
       DEF ExecStep
<1>3. CASE \E x \in Execution : ExecStep(x)
  BY <1>1, <1>2, <1>3
<1>4. CASE \/ \E x \in Execution : CallStep(x)
           \/ \E i \in Post : InjectStep(i)
           \/ UpdateStep \/ UNCHANGED appVars
  <2>1. UNCHANGED exec
    BY <1>4 DEF CallStep, InjectStep, InjectLost, InjectSettings, InjectTimeout,
       InjectCompileSlots,
       InjectStorage, InjectClosesOld, InjectDispatcher, InjectAnswerLost,
       InjectAgain, UpdateStep, OnConfigUpdate, SetConfig, execVars, appVars
  <2>2. QED
    BY <1>1, <2>1
<1>5. QED
  BY <1>3, <1>4 DEF AppNext

-----------------------------------------------------------------------------
\* A step of one call.
LEMMA OneCall ==
    ASSUME CallInv, NEW x \in Execution, NEW c, rcall' = [rcall EXCEPT ![x] = c],
           CallGood(c), CallTrue(c)
    PROVE  CallInv'
  BY DEF CallInv

\* The guest calls, returns or is interrupted.
LEMMA GuestCallInv ==
    ASSUME ConfigInv, ExecInv, CallInv, NEW x \in Execution,
           GuestCalls(x) \/ GuestEnds(x) \/ GuestTimesOut(x)
    PROVE  CallInv'
<1> USE RelayConstants
<1>1. CASE GuestEnds(x) \/ GuestTimesOut(x)
  <2>1. CallGood(NoRemoteCall) /\ CallTrue(NoRemoteCall)
    BY DEF NoRemoteCall, CallGood, CallTrue, CallFields
  <2>2. QED
    BY <1>1, <2>1, OneCall DEF GuestEnds, GuestTimesOut
<1>2. ASSUME NEW kind \in {"secrets", "capability"}, CallNotSent(x, kind)
      PROVE  CallInv'
  <2> DEFINE c == [NoRemoteCall EXCEPT !.pc = "done", !.kind = kind,
                                       !.outcome = "error"]
  <2>1. CallGood(c) /\ CallTrue(c)
    BY DEF NoRemoteCall, CallGood, CallTrue, CallFields
  <2>2. rcall' = [rcall EXCEPT ![x] = c]
    BY <1>2 DEF CallNotSent
  <2> HIDE DEF c
  <2>3. QED
    BY <2>1, <2>2, OneCall
<1>3. ASSUME exec[x].remote, NEW cb \in Callback, NEW req \in Requests,
             GetSecrets(x, cb, req, dispatcher)
      PROVE  CallInv'
  <2> DEFINE p == [callback |-> cb, key |-> KeyOf[x], config |-> dispatcher,
                   secrets |-> req]
             c == [NoRemoteCall EXCEPT !.pc = "send", !.params = p,
                                       !.id = relaySecretsCallbackID(p)]
  <2>1. p.config \in Configs /\ "key" \in DOMAIN p /\ p.secrets \in Requests
    BY <1>3 DEF ConfigInv, ExecInv
  <2>2. rcall' = [rcall EXCEPT ![x] = c]
    BY <1>3 DEF GetSecrets
  <2> HIDE DEF p
  <2>3. CallGood(c) /\ CallTrue(c)
    BY <2>1 DEF NoRemoteCall, CallGood, CallTrue, CallFields, relaySecretsCallbackID
  <2> HIDE DEF c
  <2>4. QED
    BY <2>2, <2>3, OneCall
<1>4. ASSUME exec[x].remote, NEW cb \in Callback, CallCapability(x, cb, dispatcher)
      PROVE  CallInv'
  <2> DEFINE p == [callback |-> cb, key |-> Nil, config |-> dispatcher,
                   secrets |-> <<>>]
             id == [callback |-> cb]
             c == [NoRemoteCall EXCEPT !.pc = "send", !.kind = "capability",
                                       !.id = id, !.params = p]
  <2>1. p.config \in Configs /\ DOMAIN id = {"callback"}
    BY <1>4 DEF ConfigInv, ExecInv
  <2>2. rcall' = [rcall EXCEPT ![x] = c]
    BY <1>4 DEF CallCapability
  <2> HIDE DEF p, id
  <2>3. CallGood(c) /\ CallTrue(c)
    BY <2>1 DEF NoRemoteCall, CallGood, CallTrue, CallFields
  <2> HIDE DEF c
  <2>4. QED
    BY <2>2, <2>3, OneCall
<1>5. QED
  BY <1>1, <1>2, <1>3, <1>4 DEF GuestCalls

\* The steps of a call before an answer is accepted.
LEMMA SendInv ==
    ASSUME CallInv, NEW x \in Execution,
           \/ SendRequest(x) \/ GatewayFails(x) \/ SendFails(x)
           \/ RelayRefuses(x) \/ Backoff(x) \/ WindowCloses(x)
    PROVE  CallInv'
<1> USE RelayConstants
<1>0. /\ CallGood(rcall[x]) /\ CallTrue(rcall[x]) /\ DOMAIN rcall = Execution
      /\ rcall[x].pc \in {"send", "try", "backoff"}
  BY DEF CallInv, SendRequest, GatewayFails, SendFails, RelayRefuses, Backoff,
         WindowCloses
<1>1. CASE SendRequest(x)
  <2> DEFINE c == [rcall[x] EXCEPT !.pc = "try", !.start = cursor, !.tried = 0,
                                   !.sends = rcall[x].sends + 1]
  <2>1. rcall' = [rcall EXCEPT ![x] = c]
    BY <1>0, <1>1 DEF SendRequest, CallGood, CallFields
  <2>2. CallGood(c) /\ CallTrue(c)
    BY <1>0 DEF CallGood, CallTrue, CallFields
  <2> HIDE DEF c
  <2>3. QED
    BY <2>1, <2>2, OneCall
<1>2. CASE GatewayFails(x)
  <2> DEFINE pc == IF rcall[x].tried + 1 = Gateways THEN "backoff" ELSE "try"
             c == [rcall[x] EXCEPT !.tried = rcall[x].tried + 1, !.pc = pc]
  <2>1. rcall' = [rcall EXCEPT ![x] = c]
    BY <1>0, <1>2 DEF GatewayFails, CallGood, CallFields
  <2>2. pc \in {"backoff", "try"}
    OBVIOUS
  <2> HIDE DEF pc
  <2>3. CallGood(c) /\ CallTrue(c)
    BY <1>0, <2>2 DEF CallGood, CallTrue, CallFields
  <2> HIDE DEF c
  <2>4. QED
    BY <2>1, <2>3, OneCall
<1>3. CASE SendFails(x) \/ Backoff(x)
  <2>1. PICK pc \in {"backoff", "send"} : rcall' = [rcall EXCEPT ![x].pc = pc]
    BY <1>3 DEF SendFails, Backoff
  <2> DEFINE c == [rcall[x] EXCEPT !.pc = pc]
  <2>2. rcall' = [rcall EXCEPT ![x] = c]
    BY <2>1
  <2>3. CallGood(c) /\ CallTrue(c)
    BY <1>0 DEF CallGood, CallTrue, CallFields
  <2> HIDE DEF c
  <2>4. QED
    BY <2>2, <2>3, OneCall
<1>4. CASE RelayRefuses(x) \/ WindowCloses(x)
  <2>1. PICK o \in {"error", "deadline"} : rcall' = [rcall EXCEPT ![x] = Done(x, o)]
    BY <1>4 DEF RelayRefuses, WindowCloses
  <2>2. CallGood(Done(x, o)) /\ CallTrue(Done(x, o))
    BY <1>0 DEF CallGood, CallTrue, CallFields, Done
  <2>3. QED
    BY <2>1, <2>2, OneCall
<1>5. QED
  BY <1>1, <1>2, <1>3, <1>4

\* A bundle arrives: only the true result is accepted.
LEMMA BundleInv ==
    ASSUME CallInv, NEW x \in Execution, BundleArrives(x)
    PROVE  CallInv'
<1>0. /\ CallGood(rcall[x]) /\ CallTrue(rcall[x]) /\ DOMAIN rcall = Execution
      /\ rcall[x].pc = "try" /\ rcall[x].params.config \in Configs
      /\ rcall[x].kind \in {"secrets", "capability"}
  BY DEF CallInv, BundleArrives, CallGood
<1> DEFINE S(asked, forged) ==
              selectQuorumResult(x, Entries(x, Answers(x, asked, forged,
                                                       Memoized(x, asked))))
           R(v, w, asked) == [v EXCEPT !.asked = asked, !.result = w]
<1>1. PICK asked \in SUBSET CorrectRelay, forged \in SUBSET Forgeries :
         \E w \in S(asked, forged) : \E v \in Verdicts(x, w) :
            rcall' = [rcall EXCEPT ![x] = R(v, w, asked)]
  BY DEF BundleArrives
<1>w. PICK w \in S(asked, forged) : \E v \in Verdicts(x, w) :
         rcall' = [rcall EXCEPT ![x] = R(v, w, asked)]
  BY <1>1
<1>2. PICK v \in Verdicts(x, w) : rcall' = [rcall EXCEPT ![x] = R(v, w, asked)]
  BY <1>w
<1>3. w # Nil => w.body = "true"
  BY <1>0, WinnerTrue
<1> DEFINE c == R(v, w, asked)
<1>4. CASE v \in {Done(x, "no_quorum"), Done(x, "error")}
  <2>1. CallGood(c) /\ CallTrue(c)
    BY <1>0, <1>4, RelayConstants DEF CallGood, CallTrue, CallFields, Done
  <2> HIDE DEF c
  <2>2. QED
    BY <1>2, <2>1, OneCall DEF c
<1>5. CASE w # Nil /\ rcall[x].kind = "capability" /\ v = Done(x, "ok")
  <2>1. CallGood(c) /\ CallTrue(c)
    BY <1>0, <1>3, <1>5, RelayConstants DEF CallGood, CallTrue, CallFields, Done
  <2> HIDE DEF c
  <2>2. QED
    BY <1>2, <2>1, OneCall DEF c
<1>6. CASE w # Nil /\ rcall[x].kind = "secrets" /\ v = [rcall[x] EXCEPT !.pc = "verified"]
  <2>1. CallGood(c) /\ CallTrue(c)
    BY <1>0, <1>3, <1>6, RelayConstants DEF CallGood, CallTrue, CallFields
  <2> HIDE DEF c
  <2>2. QED
    BY <1>2, <2>1, OneCall DEF c
<1>7. QED
  BY <1>0, <1>4, <1>5, <1>6 DEF Verdicts

\* The secrets of the accepted result, ordered as they were requested.
LEMMA DecodeInv ==
    ASSUME CallInv, NEW x \in Execution, DecodeSecrets(x)
    PROVE  CallInv'
<1>0. /\ CallGood(rcall[x]) /\ CallTrue(rcall[x]) /\ DOMAIN rcall = Execution
      /\ rcall[x].pc = "verified"
      /\ rcall[x].kind = "secrets" /\ rcall[x].result.body = "true"
      /\ rcall[x].params.secrets \in Requests
  BY DEF CallInv, DecodeSecrets, CallTrue, CallGood
<1> DEFINE req == rcall[x].params.secrets
           O(got) == orderRelaySecrets(req, got)
           R(o, bad) == IF o = Nil THEN Done(x, "error")
                        ELSE [Done(x, "ok") EXCEPT !.response = SecretResponses(o, bad)]
<1>1. PICK got \in Contents, bad \in SUBSET Range(req) :
         rcall' = [rcall EXCEPT ![x] = R(O(got), bad)]
  BY DEF DecodeSecrets
<1> DEFINE o == O(got)
           c == R(o, bad)
<1>2. CASE o = Nil
  <2>1. c = Done(x, "error")
    BY <1>2
  <2> HIDE DEF c
  <2>2. CallGood(c) /\ CallTrue(c)
    BY <1>0, <2>1, RelayConstants DEF CallGood, CallTrue, CallFields, Done
  <2>3. QED
    BY <1>1, <2>2, OneCall DEF c
<1>3. CASE o # Nil
  <2> DEFINE order == RequestOrder(req)
             resp == SecretResponses(o, bad)
  <2>1. o = [i \in DOMAIN order |-> [id |-> order[i], present |-> order[i] \in Range(got)]]
    BY <1>3 DEF orderRelaySecrets
  <2>2. /\ DOMAIN o = DOMAIN order
        /\ \A i \in DOMAIN order : o[i].id = order[i]
    <3> HIDE DEF order, o
    <3> QED BY <2>1
  <2>3. /\ DOMAIN resp = DOMAIN order
        /\ \A i \in DOMAIN order : /\ resp[i].id = order[i]
                                   /\ resp[i].value \in {order[i], Nil}
    <3> HIDE DEF order, o
    <3> QED BY <2>2 DEF SecretResponses
  <2>4. c = [Done(x, "ok") EXCEPT !.response = resp]
    BY <1>3
  <2> HIDE DEF c, o, resp
  <2>5. /\ DOMAIN c = CallFields /\ c.pc = "done" /\ c.outcome = "ok"
        /\ c.kind = "secrets" /\ c.params = rcall[x].params
        /\ c.result = rcall[x].result /\ c.response = resp
    BY <1>0, <2>4 DEF CallGood, CallFields, Done
  <2>6. Secrets(c)
    BY <1>0, <2>3, <2>5 DEF Secrets
  <2>7. CallGood(c) /\ CallTrue(c)
    BY <1>0, <2>5, <2>6 DEF CallGood, CallTrue
  <2>8. QED
    BY <1>1, <2>7, OneCall DEF c, o
<1>4. QED
  BY <1>2, <1>3

\* Every step keeps the calls in good order.
LEMMA CallInvStep ==
    ASSUME ConfigInv, ExecInv, CallInv, [AppNext]_appVars
    PROVE  CallInv'
<1>1. ASSUME NEW x \in Execution, RelayStep(x)
      PROVE  CallInv'
  BY <1>1, SendInv, BundleInv, DecodeInv DEF RelayStep
<1>2. ASSUME NEW x \in Execution, ExecStep(x)
      PROVE  CallInv'
  <2>1. CASE GuestCalls(x) \/ GuestEnds(x) \/ GuestTimesOut(x)
    BY <2>1, GuestCallInv
  <2>2. CASE ~(GuestCalls(x) \/ GuestEnds(x) \/ GuestTimesOut(x))
    <3>1. UNCHANGED rcall
      BY <1>2, <2>2 DEF ExecStep, Admit, Validate, Snapshot, FetchCached, Downloaded,
         DownloadFails, CheckRequirements, LoadCompileSlots, AcquireCompileSlot,
         CompileEnds, Return, relayVars
    <3>2. QED
      BY <3>1 DEF CallInv
  <2>3. QED
    BY <2>1, <2>2
<1>3. CASE (\E i \in Post : InjectStep(i)) \/ UpdateStep \/ UNCHANGED appVars
  <2>1. UNCHANGED rcall
    BY <1>3 DEF InjectStep, InjectLost, InjectSettings, InjectTimeout, InjectCompileSlots,
       InjectStorage, InjectClosesOld, InjectDispatcher, InjectAnswerLost,
       InjectAgain, UpdateStep, OnConfigUpdate, SetConfig, relayVars, appVars
  <2>2. QED
    BY <2>1 DEF CallInv
<1>4. QED
  BY <1>1, <1>2, <1>3 DEF AppNext, CallStep

-----------------------------------------------------------------------------
\* The inductive invariant holds in every reachable state.
LEMMA AppInvariant == AppSpec => []AppInv
<1>1. AppInv /\ [AppNext]_appVars => AppInv'
  BY ConfigStep, ExecInvStep, CallInvStep DEF AppInv
<1>2. QED
  BY <1>1, AppInitInv, PTL DEF AppSpec

-----------------------------------------------------------------------------
\* A correct node keeps one answer per callback ID; of a secrets request the ID
\* is its parameters.
MemoGood(store) ==
    /\ DOMAIN store = CorrectRelay
    /\ \A n \in CorrectRelay : \A m, k \in store[n] :
          /\ m.id = m.params \/ DOMAIN m.id = {"callback"}
          /\ m.id = k.id => m = k

Answered(c, store) ==
    {n \in c.asked \cap c.params.config.signers :
        c.kind = "secrets" \/ [id |-> c.id, params |-> c.params] \in store[n]}

\* A call without a quorum: whom it asked has answered for good.
Unserved(c, store) ==
    c.outcome = "no_quorum" =>
        /\ c.asked \subseteq CorrectRelay
        /\ \A n \in c.asked : \E m \in store[n] : m.id = c.id
        /\ Cardinality(Answered(c, store)) <= c.params.config.f

MemoInv ==
    /\ MemoGood(memo)
    /\ \A x \in Execution : Unserved(rcall[x], memo)

\* What a node keeps under an ID stays.
Grows(store, next) ==
    \A n \in CorrectRelay :
        /\ store[n] \subseteq next[n]
        /\ \A k \in next[n] : (\E m \in store[n] : m.id = k.id) => k \in store[n]

\* A request makes nodes that have no answer under its ID keep one.
LEMMA MemoizedGood ==
    ASSUME MemoGood(memo), NEW x \in Execution, CallGood(rcall[x]),
           rcall[x].pc = "try", NEW asked \in SUBSET CorrectRelay
    PROVE  /\ MemoGood(Memoized(x, asked))
           /\ Grows(memo, Memoized(x, asked))
           /\ \A n \in asked : \E m \in Memoized(x, asked)[n] : m.id = rcall[x].id
<1> DEFINE r == [id |-> rcall[x].id, params |-> rcall[x].params]
           s == Memoized(x, asked)
<1>1. r.id = r.params \/ DOMAIN r.id = {"callback"}
  BY DEF CallGood
<1>2. r.id = rcall[x].id
  OBVIOUS
<1>3. /\ DOMAIN s = CorrectRelay
      /\ \A n \in CorrectRelay :
            \/ s[n] = memo[n] /\ (n \in asked => \E m \in memo[n] : m.id = r.id)
            \/ s[n] = memo[n] \cup {r} /\ \A m \in memo[n] : m.id # r.id
  BY DEF Memoized
<1> HIDE DEF r, s
<1>4. MemoGood(s)
  BY <1>1, <1>3 DEF MemoGood
<1>5. Grows(memo, s)
  BY <1>3 DEF Grows
<1>6. \A n \in asked : \E m \in s[n] : m.id = r.id
  BY <1>3
<1>7. QED
  BY <1>2, <1>4, <1>5, <1>6 DEF s

\* A call that ended without a quorum is not affected by later answers.
LEMMA UnservedStays ==
    ASSUME NEW c, NEW store, NEW next, Unserved(c, store), Grows(store, next)
    PROVE  Unserved(c, next)
<1> SUFFICES ASSUME c.outcome = "no_quorum"
             PROVE  /\ c.asked \subseteq CorrectRelay
                    /\ \A n \in c.asked : \E m \in next[n] : m.id = c.id
                    /\ Cardinality(Answered(c, next)) <= c.params.config.f
  BY DEF Unserved
<1>1. /\ c.asked \subseteq CorrectRelay
      /\ \A n \in c.asked : \E m \in store[n] : m.id = c.id
      /\ Cardinality(Answered(c, store)) <= c.params.config.f
  BY DEF Unserved
<1>2. \A n \in c.asked : \E m \in next[n] : m.id = c.id
  BY <1>1 DEF Grows
<1> DEFINE k == [id |-> c.id, params |-> c.params]
<1>3. k.id = c.id
  OBVIOUS
<1>4. \A n \in c.asked : k \in next[n] <=> k \in store[n]
  <2> HIDE DEF k
  <2> QED BY <1>1, <1>3 DEF Grows
<1>5. Answered(c, next) = Answered(c, store)
  BY <1>4 DEF Answered
<1>6. QED
  BY <1>1, <1>2, <1>5

\* A bundle without a quorum held at most F answers that the call could count.
LEMMA BundleUnserved ==
    ASSUME CallInv, MemoInv, NEW x \in Execution, BundleArrives(x)
    PROVE  MemoInv'
<1>0. /\ CallGood(rcall[x]) /\ DOMAIN rcall = Execution /\ rcall[x].pc = "try"
      /\ rcall[x].params.config \in Configs /\ rcall[x].outcome = Nil
      /\ rcall[x].kind \in {"secrets", "capability"}
  BY DEF CallInv, BundleArrives, CallGood
<1> DEFINE s(asked) == Memoized(x, asked)
           S(asked, forged) ==
              selectQuorumResult(x, Entries(x, Answers(x, asked, forged, s(asked))))
           R(v, w, asked) == [v EXCEPT !.asked = asked, !.result = w]
<1>1. PICK asked \in SUBSET CorrectRelay, forged \in SUBSET Forgeries :
         /\ memo' = s(asked)
         /\ \E w \in S(asked, forged) : \E v \in Verdicts(x, w) :
               rcall' = [rcall EXCEPT ![x] = R(v, w, asked)]
  BY DEF BundleArrives
<1>w. PICK w \in S(asked, forged) : \E v \in Verdicts(x, w) :
         rcall' = [rcall EXCEPT ![x] = R(v, w, asked)]
  BY <1>1
<1>2. PICK v \in Verdicts(x, w) : rcall' = [rcall EXCEPT ![x] = R(v, w, asked)]
  BY <1>w
<1>3. /\ MemoGood(memo') /\ Grows(memo, memo')
      /\ \A n \in asked : \E m \in memo'[n] : m.id = rcall[x].id
  BY <1>0, <1>1, MemoizedGood DEF MemoInv
<1> DEFINE c == R(v, w, asked)
<1>4. Unserved(c, memo')
  <2>1. CASE w # Nil
    <3>1. \/ v \in {Done(x, "ok"), Done(x, "error")}
          \/ v = [rcall[x] EXCEPT !.pc = "verified"]
      BY <1>0, <2>1 DEF Verdicts
    <3>2. c.outcome \in {"ok", "error", Nil}
      BY <1>0, <3>1 DEF CallGood, CallFields, Done
    <3>3. QED
      BY <3>2, RelayConstants DEF Unserved
  <2>2. CASE w = Nil
    <3>1. v = Done(x, "no_quorum")
      BY <2>2 DEF Verdicts
    <3>2. /\ c.asked = asked /\ c.params = rcall[x].params /\ c.id = rcall[x].id
          /\ c.kind = rcall[x].kind
      BY <1>0, <3>1 DEF CallGood, CallFields, Done
    <3> DEFINE A == Answered(c, memo')
    <3>3. A \subseteq asked \cap rcall[x].params.config.signers
      BY <3>2 DEF Answered
    <3> HIDE DEF c
    <3>4. \A n \in A : \E m \in memo'[n] :
             m.id = rcall[x].id /\ m.params = rcall[x].params
      <4> SUFFICES ASSUME NEW n \in A
                   PROVE  \E m \in memo'[n] :
                             m.id = rcall[x].id /\ m.params = rcall[x].params
        OBVIOUS
      <4>1. CASE rcall[x].kind = "secrets"
        <5>1. PICK m \in memo'[n] : m.id = rcall[x].id
          BY <1>3, <3>3
        <5>2. m.id = m.params \/ DOMAIN m.id = {"callback"}
          BY <1>3, <3>3 DEF MemoGood
        <5>3. rcall[x].id = rcall[x].params /\ "key" \in DOMAIN rcall[x].id
          BY <1>0, <4>1 DEF CallGood
        <5>4. QED
          BY <5>1, <5>2, <5>3
      <4>2. CASE rcall[x].kind # "secrets"
        <5> DEFINE k == [id |-> rcall[x].id, params |-> rcall[x].params]
        <5>1. k \in memo'[n]
          BY <3>2, <4>2 DEF Answered
        <5>2. k.id = rcall[x].id /\ k.params = rcall[x].params
          OBVIOUS
        <5> HIDE DEF k
        <5>3. QED
          BY <5>1, <5>2
      <4>3. QED
        BY <4>1, <4>2
    <3> HIDE DEF A
    <3>5. Cardinality(A) <= rcall[x].params.config.f
      BY <1>0, <1>1, <2>2, <3>3, <3>4, NoWinner
    <3>6. QED
      BY <1>3, <3>2, <3>5 DEF Unserved, A
  <2>3. QED
    BY <2>1, <2>2
<1> HIDE DEF c
<1>5. ASSUME NEW y \in Execution PROVE Unserved(rcall'[y], memo')
  <2>1. CASE y = x
    <3>1. rcall'[x] = c
      BY <1>0, <1>2 DEF c
    <3>2. QED
      BY <1>4, <2>1, <3>1
  <2>2. CASE y # x
    <3>1. rcall'[y] = rcall[y]
      BY <1>0, <1>2, <2>2
    <3>2. QED
      BY <1>3, <3>1, UnservedStays DEF MemoInv
  <2>3. QED
    BY <2>1, <2>2
<1>6. QED
  BY <1>3, <1>5 DEF MemoInv

\* A step that ends no call for want of a quorum.
LEMMA OtherUnserved ==
    ASSUME MemoInv, MemoGood(memo'), Grows(memo, memo'),
           \A y \in Execution : \/ rcall'[y] = rcall[y]
                                \/ rcall'[y].outcome # "no_quorum"
    PROVE  MemoInv'
<1>1. ASSUME NEW y \in Execution PROVE Unserved(rcall'[y], memo')
  <2>1. CASE rcall'[y] = rcall[y]
    BY <2>1, UnservedStays DEF MemoInv
  <2>2. CASE rcall'[y].outcome # "no_quorum"
    BY <2>2 DEF Unserved
  <2>3. QED
    BY <2>1, <2>2
<1>2. QED
  BY <1>1 DEF MemoInv

\* The other steps of a call.
LEMMA SendUnserved ==
    ASSUME CallInv, CallInv', MemoInv, NEW x \in Execution,
           \/ SendRequest(x) \/ GatewayFails(x) \/ SendFails(x) \/ RelayRefuses(x)
           \/ Backoff(x) \/ WindowCloses(x) \/ DecodeSecrets(x)
    PROVE  MemoInv'
<1>0. CallGood(rcall[x]) /\ DOMAIN rcall = Execution /\ CallGood(rcall'[x])
  BY DEF CallInv
<1>1. MemoGood(memo') /\ Grows(memo, memo')
  <2>1. CASE GatewayFails(x) \/ SendFails(x) \/ RelayRefuses(x)
    BY <1>0, <2>1, MemoizedGood DEF GatewayFails, SendFails, RelayRefuses, MemoInv
  <2>2. CASE UNCHANGED memo
    BY <2>2 DEF MemoInv, Grows
  <2>3. QED
    BY <2>1, <2>2 DEF SendRequest, Backoff, WindowCloses, DecodeSecrets
<1>2. \A y \in Execution : y # x => rcall'[y] = rcall[y]
  BY <1>0 DEF SendRequest, GatewayFails, SendFails, RelayRefuses, Backoff,
              WindowCloses, DecodeSecrets
<1>3. rcall'[x].outcome # "no_quorum"
  <2>1. CASE SendRequest(x) \/ GatewayFails(x) \/ SendFails(x) \/ Backoff(x)
    <3>1. rcall'[x].pc # "done"
      BY <1>0, <2>1 DEF SendRequest, GatewayFails, SendFails, Backoff, CallGood,
                        CallFields
    <3>2. QED
      BY <1>0, <3>1, RelayConstants DEF CallGood
  <2>2. CASE RelayRefuses(x) \/ WindowCloses(x)
    BY ZenonT(30), <1>0, <2>2
       DEF RelayRefuses, WindowCloses, Done, CallGood, CallFields
  <2>3. CASE DecodeSecrets(x)
    <3> DEFINE R(o, bad) == IF o = Nil THEN Done(x, "error")
                     ELSE [Done(x, "ok") EXCEPT !.response = SecretResponses(o, bad)]
    <3>1. \E o, bad : rcall' = [rcall EXCEPT ![x] = R(o, bad)]
      BY <2>3 DEF DecodeSecrets
    <3>2. PICK o, bad : rcall' = [rcall EXCEPT ![x] = R(o, bad)]
      BY <3>1
    <3>3. rcall'[x] = R(o, bad)
      <4> HIDE DEF R
      <4> QED BY <1>0, <3>2
    <3>4. R(o, bad).outcome \in {"error", "ok"}
      BY <1>0 DEF Done, CallGood, CallFields
    <3>5. QED
      BY <3>3, <3>4
  <2>4. QED
    BY <2>1, <2>2, <2>3
<1>4. QED
  BY <1>1, <1>2, <1>3, OtherUnserved

\* Every step keeps it.
LEMMA MemoStep ==
    ASSUME CallInv, CallInv', MemoInv, [AppNext]_appVars
    PROVE  MemoInv'
<1>0. DOMAIN rcall = Execution
  BY DEF CallInv
<1>1. ASSUME NEW x \in Execution, RelayStep(x)
      PROVE  MemoInv'
  BY <1>1, SendUnserved, BundleUnserved DEF RelayStep
<1>2. ASSUME UNCHANGED memo,
             \A y \in Execution : \/ rcall'[y] = rcall[y]
                                  \/ rcall'[y].outcome # "no_quorum"
      PROVE  MemoInv'
  BY <1>2, OtherUnserved DEF MemoInv, Grows
<1>3. ASSUME NEW x \in Execution, ExecStep(x)
      PROVE  MemoInv'
  <2>1. CASE GuestEnds(x) \/ GuestTimesOut(x)
    <3>1. rcall' = [rcall EXCEPT ![x] = NoRemoteCall] /\ UNCHANGED memo
      BY <2>1 DEF GuestEnds, GuestTimesOut
    <3>2. NoRemoteCall.outcome # "no_quorum"
      BY RelayConstants DEF NoRemoteCall
    <3>3. QED
      BY <1>0, <1>2, <3>1, <3>2
  <2>2. CASE GuestCalls(x)
    <3>1. UNCHANGED memo
      BY <2>2 DEF GuestCalls
    <3>2. CASE \E kind \in {"secrets", "capability"} : CallNotSent(x, kind)
      <4>1. PICK kind \in {"secrets", "capability"} : CallNotSent(x, kind)
        BY <3>2
      <4> DEFINE c == [NoRemoteCall EXCEPT !.pc = "done", !.kind = kind,
                                           !.outcome = "error"]
      <4>2. c.outcome # "no_quorum"
        BY DEF NoRemoteCall
      <4>3. rcall' = [rcall EXCEPT ![x] = c]
        BY <4>1 DEF CallNotSent
      <4> HIDE DEF c
      <4>4. QED
        BY <1>0, <1>2, <3>1, <4>2, <4>3
    <3>3. CASE \/ \E cb \in Callback, req \in Requests :
                     GetSecrets(x, cb, req, dispatcher)
               \/ \E cb \in Callback : CallCapability(x, cb, dispatcher)
      <4>1. rcall'[x].pc = "send" /\ \A y \in Execution : y # x => rcall'[y] = rcall[y]
        BY <1>0, <3>3 DEF GetSecrets, CallCapability, NoRemoteCall
      <4>2. rcall'[x].outcome # "no_quorum"
        BY <4>1, RelayConstants DEF CallInv, CallGood
      <4>3. QED
        BY <1>2, <3>1, <4>1, <4>2
    <3>4. QED
      BY <2>2, <3>2, <3>3 DEF GuestCalls
  <2>3. CASE ~(GuestCalls(x) \/ GuestEnds(x) \/ GuestTimesOut(x))
    <3>1. UNCHANGED <<rcall, memo>>
      BY <1>3, <2>3 DEF ExecStep, Admit, Validate, Snapshot, FetchCached, Downloaded,
         DownloadFails, CheckRequirements, LoadCompileSlots, AcquireCompileSlot,
         CompileEnds, Return, relayVars
    <3>2. QED
      BY <1>2, <3>1
  <2>4. QED
    BY <2>1, <2>2, <2>3
<1>4. CASE (\E i \in Post : InjectStep(i)) \/ UpdateStep \/ UNCHANGED appVars
  <2>1. UNCHANGED <<rcall, memo>>
    BY <1>4 DEF InjectStep, InjectLost, InjectSettings, InjectTimeout, InjectCompileSlots,
       InjectStorage, InjectClosesOld, InjectDispatcher, InjectAnswerLost,
       InjectAgain, UpdateStep, OnConfigUpdate, SetConfig, relayVars, appVars
  <2>2. QED
    BY <1>2, <2>1
<1>5. QED
  BY <1>1, <1>3, <1>4 DEF AppNext, CallStep

\* The calls that ended without a quorum, in every reachable state.
LEMMA MemoInvariant == AppSpec => []MemoInv
<1>1. AppInit => MemoInv
  <2> SUFFICES ASSUME AppInit PROVE MemoInv
    OBVIOUS
  <2>1. memo = [n \in CorrectRelay |-> {}] /\ rcall = [x \in Execution |-> NoRemoteCall]
    BY DEF AppInit, RelayInit
  <2>2. NoRemoteCall.outcome # "no_quorum"
    BY RelayConstants DEF NoRemoteCall
  <2>3. QED
    BY <2>1, <2>2 DEF MemoInv, MemoGood, Unserved
<1>2. AppInv /\ AppInv' /\ MemoInv /\ [AppNext]_appVars => MemoInv'
  BY MemoStep DEF AppInv
<1>3. QED
  BY <1>1, <1>2, AppInvariant, PTL DEF AppSpec

-----------------------------------------------------------------------------
\* However config updates, injections of settings and their retries interleave,
\* a dispatcher that exists holds the last config once the update has returned
\* (app.go, OnConfigUpdate and InjectSettings).
THEOREM ConfigReachesDispatcher == AppSpec => []DispatcherCurrent
<1>1. AppInv => DispatcherCurrent
  BY DEF AppInv, ConfigInv
<1>2. QED
  BY <1>1, AppInvariant, PTL

\* For any relay DON, any bundles and any change of the config meanwhile, the
\* guest is given only what correct nodes signed, each secret with its own value,
\* and if no secret was asked for twice, each in its place (remote_dispatcher.go,
\* selectQuorumResult and orderRelaySecrets).
THEOREM RelayResultTrue == AppSpec => []RelayHonest
<1>1. AppInv => RelayHonest
  <2> SUFFICES ASSUME AppInv, NEW x \in Execution, rcall[x].outcome = "ok"
               PROVE  /\ rcall[x].result.body = "true"
                      /\ rcall[x].kind = "secrets" =>
                            /\ \A i \in DOMAIN rcall[x].response :
                                  rcall[x].response[i].value
                                     \in {rcall[x].response[i].id, Nil}
                            /\ IsInjective(rcall[x].params.secrets) =>
                                  /\ DOMAIN rcall[x].response
                                     = DOMAIN rcall[x].params.secrets
                                  /\ \A i \in DOMAIN rcall[x].params.secrets :
                                        rcall[x].response[i].id
                                           = rcall[x].params.secrets[i]
    BY DEF RelayHonest
  <2>1. rcall[x].result.body = "true" /\ (rcall[x].kind = "secrets" => Secrets(rcall[x]))
    BY DEF AppInv, CallInv, CallTrue
  <2>2. \A req \in Requests : IsInjective(req) => RequestOrder(req) = req
    BY RelayConstants, OrderKept
  <2>3. QED
    BY <2>1, <2>2 DEF Secrets
<1>2. QED
  BY <1>1, AppInvariant, PTL

\* For any relay DON and any history of its answers, a call fails for want of a
\* quorum only if at most F correct members answered for its parameters
\* (remote_dispatcher.go, relaySecretsCallbackID; relay_response.go,
\* canonicalCapabilityPayload).
THEOREM RelayServes == AppSpec => []RelayAvailable
<1>1. MemoInv => RelayAvailable
  BY DEF MemoInv, Unserved, Answered, RelayAvailable
<1>2. QED
  BY <1>1, MemoInvariant, PTL

-----------------------------------------------------------------------------
\* The slots.  The executions at one stage under semaphore g, and the executions
\* in progress.
At(g, pc) == {x \in Execution : exec[x].pc = pc /\ exec[x].gate = g}

InProgress == {x \in Execution : exec[x].pc \in Admitted}

\* A semaphore whose slots are held by the executions in C and which those in Q
\* wait for, each once.
GateGood(gate, C, Q) ==
    /\ gate \in [size : Nat, cur : Nat, queue : Seq(Execution)]
    /\ IsFiniteSet(C) /\ gate.cur = Cardinality(C)
    /\ gate.cur <= gate.size
    /\ Range(gate.queue) = Q
    /\ gate.queue # <<>> => gate.cur = gate.size
    /\ \A i, j \in DOMAIN gate.queue : gate.queue[i] = gate.queue[j] => i = j

\* A slot is taken, or asked for.
LEMMA GateAcquire ==
    ASSUME NEW gate, NEW C, NEW Q, GateGood(gate, C, Q), NEW x \in Execution,
           x \notin C, x \notin Q
    PROVE  IF gate.cur < gate.size /\ gate.queue = <<>>
           THEN GateGood([gate EXCEPT !.cur = @ + 1], C \cup {x}, Q)
           ELSE GateGood([gate EXCEPT !.queue = Append(@, x)], C, Q \cup {x})
<1> USE DEF GateGood
<1>1. CASE gate.cur < gate.size /\ gate.queue = <<>>
  <2> DEFINE new == [gate EXCEPT !.cur = @ + 1]
  <2>1. /\ new \in [size : Nat, cur : Nat, queue : Seq(Execution)]
        /\ new.cur = gate.cur + 1 /\ new.size = gate.size /\ new.queue = gate.queue
    OBVIOUS
  <2>2. IsFiniteSet(C \cup {x}) /\ Cardinality(C \cup {x}) = Cardinality(C) + 1
    BY FS_AddElement
  <2> HIDE DEF new
  <2>3. GateGood(new, C \cup {x}, Q)
    BY <1>1, <2>1, <2>2
  <2>4. QED
    BY <1>1, <2>3 DEF new
<1>2. CASE ~(gate.cur < gate.size /\ gate.queue = <<>>)
  <2> DEFINE q == gate.queue
             new == [gate EXCEPT !.queue = Append(@, x)]
  <2>1. /\ new \in [size : Nat, cur : Nat, queue : Seq(Execution)]
        /\ new.cur = gate.cur /\ new.size = gate.size /\ new.queue = Append(q, x)
    OBVIOUS
  <2>2. gate.cur = gate.size
    BY <1>2
  <2>3. /\ q \in Seq(Execution) /\ Range(q) = Q
        /\ \A i, j \in DOMAIN q : q[i] = q[j] => i = j
    OBVIOUS
  <2> HIDE DEF q, GateGood
  <2>4. /\ DOMAIN Append(q, x) = 1 .. Len(q) + 1 /\ DOMAIN q = 1 .. Len(q)
        /\ Len(q) \in Nat
        /\ \A i \in 1 .. Len(q) : Append(q, x)[i] = q[i]
        /\ Append(q, x)[Len(q) + 1] = x
    BY <2>3
  <2>5. Range(Append(q, x)) = Q \cup {x}
    BY <2>3, <2>4 DEF Range
  <2>6. \A i \in 1 .. Len(q) : q[i] # x
    BY <2>3, <2>4 DEF Range
  <2>7. \A i, j \in DOMAIN Append(q, x) : Append(q, x)[i] = Append(q, x)[j] => i = j
    BY <2>3, <2>4, <2>6
  <2> HIDE DEF new
  <2>8. GateGood(new, C, Q \cup {x})
    BY <2>1, <2>2, <2>5, <2>7 DEF GateGood
  <2>9. QED
    BY <1>2, <2>8 DEF new, q
<1>3. QED
  BY <1>1, <1>2

\* A list with one element replaced.
LEMMA SeqUpdate ==
    ASSUME NEW T, NEW s \in Seq(T), NEW i \in DOMAIN s, NEW e \in T,
           NEW t, t = [s EXCEPT ![i] = e]
    PROVE  /\ t \in Seq(T) /\ DOMAIN t = DOMAIN s /\ Len(t) = Len(s) /\ t # <<>>
           /\ t[i] = e
           /\ \A h \in DOMAIN s : h # i => t[h] = s[h]
<1>1. DOMAIN t = DOMAIN s /\ t[i] = e /\ \A h \in DOMAIN s : h # i => t[h] = s[h]
  OBVIOUS
<1>2. t \in Seq(T) /\ Len(t) = Len(s)
  OBVIOUS
<1>3. DOMAIN t # {}
  BY <1>1
<1>4. t # <<>>
  BY <1>3
<1>5. QED
  BY <1>1, <1>2, <1>4

\* A semaphore with another count and another queue.
LEMMA GateFields ==
    ASSUME NEW gate \in [size : Nat, cur : Nat, queue : Seq(Execution)],
           NEW c \in Nat, NEW q \in Seq(Execution), NEW new,
           new = [gate EXCEPT !.cur = c, !.queue = q]
    PROVE  /\ new \in [size : Nat, cur : Nat, queue : Seq(Execution)]
           /\ new.size = gate.size /\ new.cur = c /\ new.queue = q
OBVIOUS

\* A slot is given back: the first execution that waits gets it.  No more than
\* one can be granted, since a queue forms only when every slot is taken.
LEMMA GateRelease ==
    ASSUME NEW gate, NEW C, NEW Q, GateGood(gate, C, Q), NEW x \in C,
           C \cap Q = {}
    PROVE  LET G == Range(Granted(gate))
           IN  /\ G \subseteq Q
               /\ GateGood(Released(gate), (C \ {x}) \cup G, Q \ G)
<1> DEFINE q == gate.queue
           free == gate.size - (gate.cur - 1)
           n == IF free < Len(q) THEN free ELSE Len(q)
           G == Range(Granted(gate))
<1>0. /\ q \in Seq(Execution) /\ Range(q) = Q /\ Len(q) \in Nat
      /\ DOMAIN q = 1 .. Len(q)
      /\ gate \in [size : Nat, cur : Nat, queue : Seq(Execution)]
      /\ gate.size \in Nat /\ gate.cur \in Nat /\ gate.cur <= gate.size
      /\ gate.cur = Cardinality(C) /\ IsFiniteSet(C)
      /\ \A i, j \in DOMAIN q : q[i] = q[j] => i = j
      /\ q # <<>> => gate.cur = gate.size
  BY DEF GateGood
<1>1. Granted(gate) = SubSeq(q, 1, n)
  BY DEF Granted
<1>2. /\ IsFiniteSet(C \ {x}) /\ Cardinality(C \ {x}) = gate.cur - 1
      /\ Cardinality(C \ {x}) \in Nat
  BY <1>0, FS_RemoveElement, FS_CardinalityType
<1>3. /\ n = gate.size - (gate.cur - 1) \/ n = Len(q)
      /\ n <= Len(q) /\ n <= gate.size - (gate.cur - 1)
  BY <1>0
<1>a. \A k : Len(Granted(gate)) = k =>
              Released(gate) = [gate EXCEPT !.cur = gate.cur - 1 + k,
                                            !.queue = SubSeq(q, k + 1, Len(q))]
  BY DEF Released
<1>b. gate.size \in Nat /\ gate.cur \in Nat /\ Len(q) \in Nat /\ gate.cur - 1 \in Nat
  BY <1>0, <1>2
<1> HIDE DEF q, n
<1>4. CASE q = <<>>
  <2>1. n = 0 /\ Len(q) = 0
    BY <1>0, <1>3, <1>4
  <2>2. Granted(gate) = <<>> /\ Len(Granted(gate)) = 0
    BY <1>1, <1>4, <2>1
  <2>3. G = {} /\ Q = {}
    BY <1>0, <1>4, <2>2 DEF Range
  <2>4. SubSeq(q, 0 + 1, Len(q)) = <<>> /\ <<>> \in Seq(Execution)
    BY <1>4
  <2>p. gate.cur - 1 + 0 = gate.cur - 1
    BY <1>b
  <2>q. Released(gate) = [gate EXCEPT !.cur = gate.cur - 1, !.queue = <<>>]
    <3>1. Released(gate) = [gate EXCEPT !.cur = gate.cur - 1 + 0,
                                        !.queue = SubSeq(q, 0 + 1, Len(q))]
      BY <1>a, <2>2
    <3>2. QED
      BY <2>4, <2>p, <3>1, Zenon
  <2>5. /\ Released(gate) \in [size : Nat, cur : Nat, queue : Seq(Execution)]
        /\ Released(gate).size = gate.size /\ Released(gate).cur = gate.cur - 1
        /\ Released(gate).queue = <<>>
    BY ZenonT(30), <1>0, <1>b, <2>4, <2>q, GateFields
  <2>6. Range(<<>>) = {}
    BY DEF Range
  <2> HIDE DEF G
  <2>7. GateGood(Released(gate), C \ {x}, {})
    BY <1>0, <1>2, <2>5, <2>6 DEF GateGood
  <2>8. (C \ {x}) \cup G = C \ {x} /\ Q \ G = {}
    BY <2>3
  <2>9. QED
    BY <2>3, <2>7, <2>8 DEF G
<1>5. CASE q # <<>>
  <2>1. Len(q) >= 1 /\ gate.cur = gate.size
    BY <1>0, <1>5
  <2>2. n = 1
    <3>1. gate.size - (gate.cur - 1) = 1
      BY <1>b, <2>1
    <3>2. QED
      BY <1>3, <1>b, <2>1, <3>1
  <2>3. /\ Len(Granted(gate)) = 1 /\ DOMAIN Granted(gate) = 1 .. 1
        /\ Granted(gate)[1] = q[1]
    <3>1. q \in Seq(Execution) /\ Len(q) >= 1
      BY <1>0, <2>1
    <3>2. /\ Len(SubSeq(q, 1, 1)) = 1 /\ DOMAIN SubSeq(q, 1, 1) = 1 .. 1
          /\ SubSeq(q, 1, 1)[1] = q[1]
      BY <3>1
    <3>3. QED
      BY <1>1, <2>2, <3>2
  <2>4. G = {q[1]} /\ q[1] \in Q
    <3>1. G = {q[1]}
      BY <2>3 DEF Range
    <3>2. q[1] \in Range(q)
      BY <1>0, <2>1 DEF Range
    <3>3. QED
      BY <1>0, <3>1, <3>2
  <2> DEFINE t == SubSeq(q, 2, Len(q))
  <2>5. /\ t \in Seq(Execution) /\ Len(t) = Len(q) - 1 /\ DOMAIN t = 1 .. Len(q) - 1
        /\ \A i \in 1 .. Len(q) - 1 : t[i] = q[i + 1]
    BY <1>0, <2>1
  <2>6. Released(gate) = [gate EXCEPT !.cur = gate.cur, !.queue = t]
    <3>1. gate.cur - 1 + 1 = gate.cur /\ 1 + 1 = 2
      BY <1>b
    <3>2. Released(gate) = [gate EXCEPT !.cur = gate.cur - 1 + 1,
                                        !.queue = SubSeq(q, 1 + 1, Len(q))]
      BY <1>a, <2>3
    <3>3. QED
      BY <3>1, <3>2
  <2>7. /\ Released(gate) \in [size : Nat, cur : Nat, queue : Seq(Execution)]
        /\ Released(gate).size = gate.size /\ Released(gate).cur = gate.cur
        /\ Released(gate).queue = t
    BY <1>0, <2>5, <2>6, GateFields
  <2> HIDE DEF t, G
  <2>8. Range(t) = Q \ {q[1]}
    <3>1. \A i \in 1 .. Len(q) - 1 : t[i] \in Range(q) /\ t[i] # q[1]
      <4> SUFFICES ASSUME NEW i \in 1 .. Len(q) - 1
                   PROVE  t[i] \in Range(q) /\ t[i] # q[1]
        OBVIOUS
      <4>1. /\ i + 1 \in DOMAIN q /\ 1 \in DOMAIN q /\ i + 1 # 1
            /\ t[i] = q[i + 1]
        BY <1>0, <1>b, <2>1, <2>5
      <4>2. q[i + 1] # q[1]
        BY <1>0, <4>1
      <4>3. QED
        BY <4>1, <4>2 DEF Range
    <3>2. \A i \in 2 .. Len(q) : i - 1 \in DOMAIN t /\ t[i - 1] = q[i]
      BY <1>0, <2>5
    <3>3. \A y \in Range(q) : y # q[1] => y \in Range(t)
      <4> SUFFICES ASSUME NEW i \in 1 .. Len(q), q[i] # q[1]
                   PROVE  q[i] \in Range(t)
        BY <1>0 DEF Range
      <4>1. i \in 2 .. Len(q)
        BY <1>0
      <4>2. QED
        BY <3>2, <4>1 DEF Range
    <3>4. \A y \in Range(t) : y \in Range(q) /\ y # q[1]
      BY <2>5, <3>1 DEF Range
    <3>5. QED
      BY <1>0, <3>3, <3>4
  <2>9. \A i, j \in DOMAIN t : t[i] = t[j] => i = j
    <3> SUFFICES ASSUME NEW i \in DOMAIN t, NEW j \in DOMAIN t, t[i] = t[j]
                 PROVE  i = j
      OBVIOUS
    <3>1. i + 1 \in DOMAIN q /\ j + 1 \in DOMAIN q /\ q[i + 1] = q[j + 1]
      BY <1>0, <2>5
    <3>2. i + 1 = j + 1
      BY <1>0, <3>1
    <3>3. QED
      BY <1>0, <2>5, <3>2
  <2>10. /\ IsFiniteSet((C \ {x}) \cup {q[1]})
         /\ Cardinality((C \ {x}) \cup {q[1]}) = gate.cur
    <3>1. q[1] \notin C \ {x}
      BY <2>4
    <3>2. /\ IsFiniteSet((C \ {x}) \cup {q[1]})
          /\ Cardinality((C \ {x}) \cup {q[1]}) = Cardinality(C \ {x}) + 1
      BY <1>2, <3>1, FS_AddElement
    <3>3. QED
      BY <1>0, <1>2, <3>2
  <2>11. GateGood(Released(gate), (C \ {x}) \cup {q[1]}, Q \ {q[1]})
    BY <1>0, <2>1, <2>7, <2>8, <2>9, <2>10 DEF GateGood
  <2>12. QED
    BY <2>4, <2>11 DEF G
<1>6. QED
  BY <1>4, <1>5

-----------------------------------------------------------------------------
\* limiter.go: as many slots are taken as executions are in progress.
LimiterInv ==
    MaxExecutions > 0 =>
        /\ IsFiniteSet(InProgress) /\ slots = Cardinality(InProgress)
        /\ slots <= MaxExecutions

\* The stages of an execution that has loaded a semaphore and not left it.
AtGate == {"loaded", "compiling", "queued"}

\* wasm.go: every semaphore, the replaced ones included, is good for the
\* executions that loaded it.
GatesInv ==
    /\ gates \in Seq([size : Nat, cur : Nat, queue : Seq(Execution)])
    /\ gates # <<>>
    /\ \A g \in DOMAIN gates : GateGood(gates[g], At(g, "compiling"), At(g, "queued"))
    /\ \A x \in Execution : /\ exec[x].gate \in 0 .. Len(gates)
                            /\ exec[x].pc \in AtGate => exec[x].gate # 0

\* A POST that has begun, once or again, carries one of the payloads.
InjectInv ==
    /\ DOMAIN inject = Post
    /\ \A i \in Post :
          /\ DOMAIN inject[i] = {"pc", "settings", "old", "attempt"}
          /\ inject[i].pc # "idle" \/ inject[i].attempt # 1 => inject[i].settings \in Settings

SlotInv == LimiterInv /\ GatesInv /\ InjectInv

\* A new semaphore has nobody.
LEMMA NewGateGood ==
    ASSUME NEW n \in Nat
    PROVE  /\ GateGood(NewGate(n), {}, {})
           /\ NewGate(n) \in [size : Nat, cur : Nat, queue : Seq(Execution)]
<1>1. /\ NewGate(n) \in [size : Nat, cur : Nat, queue : Seq(Execution)]
      /\ NewGate(n).size = n /\ NewGate(n).cur = 0 /\ NewGate(n).queue = <<>>
  BY DEF NewGate
<1>2. Range(<<>>) = {}
  BY DEF Range
<1>3. IsFiniteSet({}) /\ Cardinality({}) = 0
  BY FS_EmptySet
<1>4. QED
  BY <1>1, <1>2, <1>3 DEF GateGood

\* At the start nothing is in progress.
LEMMA SlotInit == AppInit => SlotInv
<1> SUFFICES ASSUME AppInit PROVE SlotInv
  OBVIOUS
<1>0. \A x \in Execution : exec[x].pc = "idle" /\ exec[x].gate = 0
  BY DEF AppInit
<1>1. LimiterInv
  <2>1. InProgress = {}
    BY <1>0 DEF InProgress, Admitted
  <2>2. slots = 0
    BY DEF AppInit
  <2>3. QED
    <3>1. IsFiniteSet(InProgress) /\ Cardinality(InProgress) = 0
      BY <2>1, FS_EmptySet
    <3>2. QED
      BY <2>2, <3>1, AppConstants DEF LimiterInv
<1>2. GatesInv
  <2>1. gates = <<NewGate(DefaultCompilations)>> /\ DefaultCompilations \in Nat
    BY AppConstants DEF AppInit
  <2>2. /\ GateGood(NewGate(DefaultCompilations), {}, {})
        /\ NewGate(DefaultCompilations) \in [size : Nat, cur : Nat, queue : Seq(Execution)]
    BY <2>1, NewGateGood
  <2>3. \A g, pc : pc \in {"compiling", "queued"} => At(g, pc) = {}
    BY <1>0 DEF At
  <2>4. DOMAIN gates = 1 .. 1 /\ gates[1] = NewGate(DefaultCompilations)
        /\ Len(gates) = 1
    BY <2>1
  <2>5. \A g \in DOMAIN gates : GateGood(gates[g], At(g, "compiling"), At(g, "queued"))
    <3> SUFFICES ASSUME NEW g \in DOMAIN gates
                 PROVE  GateGood(gates[g], At(g, "compiling"), At(g, "queued"))
      OBVIOUS
    <3>1. g = 1
      BY <2>4
    <3>2. gates[g] = NewGate(DefaultCompilations)
      BY <2>4, <3>1
    <3>3. At(g, "compiling") = {} /\ At(g, "queued") = {}
      BY <2>3
    <3>4. QED
      BY <2>2, <3>2, <3>3, Zenon
  <2>6. gates \in Seq([size : Nat, cur : Nat, queue : Seq(Execution)]) /\ gates # <<>>
    BY <2>1, <2>2
  <2>7. QED
    BY <1>0, <2>4, <2>5, <2>6 DEF GatesInv, AtGate
<1>3. InjectInv
  BY DEF AppInit, InjectInv
<1>4. QED
  BY <1>1, <1>2, <1>3 DEF SlotInv

\* The payloads: a POST begins with one, and is made again with its own.
LEMMA InjectInvStep ==
    ASSUME InjectInv, [AppNext]_appVars
    PROVE  InjectInv'
<1>1. CASE UNCHANGED inject
  BY <1>1 DEF InjectInv
<1>2. ASSUME NEW i \in Post, InjectStep(i)
      PROVE  InjectInv'
  <2>0. /\ DOMAIN inject = Post
        /\ DOMAIN inject[i] = {"pc", "settings", "old", "attempt"}
    BY DEF InjectInv
  <2>1. ASSUME NEW s \in Payloads(i), InjectLost(i, s) \/ InjectSettings(i, s)
        PROVE  InjectInv'
    <3>1. s \in Settings
      BY DEF Payloads, InjectInv
    <3>2. PICK pc : inject' = [inject EXCEPT ![i].pc = pc, ![i].settings = s]
      BY <2>1 DEF InjectLost, InjectSettings
    <3>3. QED
      BY <2>0, <3>1, <3>2 DEF InjectInv
  <2>2. ASSUME NEW pc, InjectGoes(i, pc), inject[i].pc # "idle"
        PROVE  InjectInv'
    BY <2>0, <2>2 DEF InjectInv, InjectGoes
  <2>3. CASE InjectStorage(i)
    <3>1. inject[i].pc # "idle"
      BY <2>3 DEF InjectStorage
    <3>2. CASE InjectGoes(i, "failed")
      BY <2>2, <3>1, <3>2
    <3>3. CASE inject' = [inject EXCEPT ![i].pc = "closing", ![i].old = storageFetcher]
      BY <2>0, <3>1, <3>3 DEF InjectInv
    <3>4. QED
      BY <2>3, <3>2, <3>3 DEF InjectStorage
  <2>4. CASE InjectAgain(i)
    <3>1. /\ inject[i].pc = "failed"
          /\ inject' = [inject EXCEPT ![i].pc = "idle", ![i].old = Nil,
                                      ![i].attempt = @ + 1]
      BY <2>4 DEF InjectAgain
    <3>2. QED
      BY <2>0, <3>1 DEF InjectInv
  <2>5. CASE InjectTimeout(i) \/ InjectCompileSlots(i)
    BY <2>2, <2>5 DEF InjectTimeout, InjectCompileSlots
  <2>6. CASE InjectClosesOld(i)
    BY <2>2, <2>6 DEF InjectClosesOld
  <2>7. CASE InjectDispatcher(i)
    BY <2>2, <2>7 DEF InjectDispatcher
  <2>8. CASE InjectAnswerLost(i)
    BY <2>2, <2>8 DEF InjectAnswerLost
  <2>9. QED
    BY <1>2, <2>1, <2>3, <2>4, <2>5, <2>6, <2>7, <2>8 DEF InjectStep
<1>3. CASE \/ \E x \in Execution : ExecStep(x) \/ CallStep(x)
           \/ UpdateStep \/ UNCHANGED appVars
  <2>1. UNCHANGED inject
    BY <1>3, ExecStepSettings DEF UpdateStep, OnConfigUpdate, SetConfig, settingsVars,
       appVars
  <2>2. QED
    BY <1>1, <2>1
<1>4. QED
  BY <1>2, <1>3 DEF AppNext

\* A step after which the same executions are in progress, with the slots as
\* they were.
LEMMA SameInProgress ==
    ASSUME LimiterInv, slots' = slots,
           \A y \in Execution : (exec'[y].pc \in Admitted) <=> (exec[y].pc \in Admitted)
    PROVE  LimiterInv'
<1>1. InProgress' = InProgress
  BY DEF InProgress
<1>2. QED
  BY <1>1 DEF LimiterInv

\* A step that neither begins nor ends a compilation, nor the wait for one.
LEMMA SameGates ==
    ASSUME GatesInv, gates' = gates,
           \A y \in Execution :
              /\ exec'[y].gate = exec[y].gate
              /\ \A pc \in AtGate : exec'[y].pc = pc <=> exec[y].pc = pc
    PROVE  GatesInv'
<1>1. \A g : \A pc \in {"compiling", "queued"} : At(g, pc)' = At(g, pc)
  BY DEF At, AtGate
<1>2. QED
  BY <1>1 DEF GatesInv

\* Between two stages at which it holds an execution slot and has nothing to do
\* with a semaphore.
LEMMA Moves ==
    ASSUME LimiterInv, GatesInv, slots' = slots, gates' = gates,
           NEW x \in Execution,
           exec[x].pc \in Admitted \ AtGate,
           exec'[x].pc \in Admitted \ AtGate,
           \A y \in Execution : exec'[y].gate = exec[y].gate,
           \A y \in Execution : y # x => exec'[y] = exec[y]
    PROVE  LimiterInv' /\ GatesInv'
<1>1. \A y \in Execution : (exec'[y].pc \in Admitted) <=> (exec[y].pc \in Admitted)
  OBVIOUS
<1>2. \A y \in Execution : \A p \in AtGate :
          exec'[y].pc = p <=> exec[y].pc = p
  OBVIOUS
<1>3. LimiterInv'
  BY <1>1, SameInProgress
<1>4. GatesInv'
  BY <1>2, SameGates
<1>5. QED
  BY <1>3, <1>4

\* So it is when the execution goes on to another such stage ...
LEMMA GoesOn ==
    ASSUME ExecInv, LimiterInv, GatesInv, slots' = slots, gates' = gates,
           NEW x \in Execution, NEW pc \in Admitted \ AtGate,
           exec[x].pc \in Admitted \ AtGate, Goes(x, pc)
    PROVE  LimiterInv' /\ GatesInv'
<1>1. /\ exec'[x].pc = pc
      /\ \A y \in Execution : exec'[y].gate = exec[y].gate
      /\ \A y \in Execution : y # x => exec'[y] = exec[y]
  BY DEF Goes, ExecInv, ExecFields
<1>2. QED
  BY <1>1, Moves

\* ... and when it is over and has a result code.
LEMMA GivesUp ==
    ASSUME ExecInv, LimiterInv, GatesInv, slots' = slots, gates' = gates,
           NEW x \in Execution, NEW code,
           exec[x].pc \in Admitted \ AtGate, Returning(x, code)
    PROVE  LimiterInv' /\ GatesInv'
<1>1. /\ exec'[x].pc = "returning"
      /\ \A y \in Execution : exec'[y].gate = exec[y].gate
      /\ \A y \in Execution : y # x => exec'[y] = exec[y]
  BY DEF Returning, ExecInv, ExecFields
<1>2. exec'[x].pc \in Admitted \ AtGate
  BY <1>1 DEF Admitted, AtGate
<1>3. QED
  BY <1>1, <1>2, Moves

\* Admit: the execution takes a free slot, or is rejected.
LEMMA AdmitSlots ==
    ASSUME ExecInv, LimiterInv, GatesInv, NEW x \in Execution, Admit(x)
    PROVE  LimiterInv' /\ GatesInv'
<1>0. exec[x].pc = "idle" /\ gates' = gates /\ MaxExecutions \in Nat
  BY AppConstants DEF Admit
<1>1. CASE MaxExecutions = 0 \/ slots < MaxExecutions
  <2>1. /\ slots' = IF MaxExecutions = 0 THEN slots ELSE slots + 1
        /\ exec' = [exec EXCEPT ![x].pc = "checking"]
    BY <1>1 DEF Admit, Goes
  <2>2. /\ exec'[x].pc = "checking"
        /\ \A y \in Execution : exec'[y].gate = exec[y].gate
        /\ \A y \in Execution : y # x => exec'[y] = exec[y]
    BY <2>1 DEF ExecInv, ExecFields
  <2>3. GatesInv'
    BY <1>0, <2>2, SameGates DEF AtGate
  <2>4. InProgress' = InProgress \cup {x} /\ x \notin InProgress
    BY <1>0, <2>2 DEF InProgress, Admitted
  <2>5. LimiterInv'
    <3> SUFFICES ASSUME MaxExecutions > 0
                 PROVE  /\ IsFiniteSet(InProgress') /\ slots' = Cardinality(InProgress')
                        /\ slots' <= MaxExecutions
      BY DEF LimiterInv
    <3>1. /\ IsFiniteSet(InProgress) /\ slots = Cardinality(InProgress)
          /\ Cardinality(InProgress) \in Nat
      BY FS_CardinalityType DEF LimiterInv
    <3>2. /\ IsFiniteSet(InProgress \cup {x})
          /\ Cardinality(InProgress \cup {x}) = Cardinality(InProgress) + 1
      BY <2>4, <3>1, FS_AddElement
    <3>3. slots' = slots + 1 /\ slots < MaxExecutions
      BY <1>0, <1>1, <2>1
    <3>4. QED
      BY <1>0, <2>4, <3>1, <3>2, <3>3
  <2>6. QED
    BY <2>3, <2>5
<1>2. CASE ~(MaxExecutions = 0 \/ slots < MaxExecutions)
  <2>1. slots' = slots /\ exec' = [exec EXCEPT ![x].pc = "ended", ![x].code = 429]
    BY <1>2 DEF Admit
  <2>2. /\ exec'[x].pc = "ended"
        /\ \A y \in Execution : exec'[y].gate = exec[y].gate
        /\ \A y \in Execution : y # x => exec'[y] = exec[y]
    BY <2>1 DEF ExecInv, ExecFields
  <2>3. GatesInv'
    BY <1>0, <2>2, SameGates DEF AtGate
  <2>4. \A y \in Execution : (exec'[y].pc \in Admitted) <=> (exec[y].pc \in Admitted)
    BY <1>0, <2>2 DEF Admitted
  <2>5. QED
    BY <2>1, <2>3, <2>4, SameInProgress
<1>3. QED
  BY <1>1, <1>2

\* Return: the deferred release gives the slot back.
LEMMA ReturnSlots ==
    ASSUME ExecInv, LimiterInv, GatesInv, NEW x \in Execution, Return(x)
    PROVE  LimiterInv' /\ GatesInv'
<1>0. /\ exec[x].pc = "returning" /\ gates' = gates /\ MaxExecutions \in Nat
      /\ slots' = IF MaxExecutions = 0 THEN slots ELSE slots - 1
      /\ exec' = [exec EXCEPT ![x].pc = "ended"]
  BY AppConstants DEF Return, Goes
<1>1. /\ exec'[x].pc = "ended"
      /\ \A y \in Execution : exec'[y].gate = exec[y].gate
      /\ \A y \in Execution : y # x => exec'[y] = exec[y]
  BY <1>0 DEF ExecInv, ExecFields
<1>2. GatesInv'
  BY <1>0, <1>1, SameGates DEF AtGate
<1>3. InProgress' = InProgress \ {x} /\ x \in InProgress
  BY <1>0, <1>1 DEF InProgress, Admitted
<1>4. LimiterInv'
  <2> SUFFICES ASSUME MaxExecutions > 0
               PROVE  /\ IsFiniteSet(InProgress') /\ slots' = Cardinality(InProgress')
                      /\ slots' <= MaxExecutions
    BY DEF LimiterInv
  <2>1. /\ IsFiniteSet(InProgress) /\ slots = Cardinality(InProgress)
        /\ Cardinality(InProgress) \in Nat /\ slots <= MaxExecutions
    BY FS_CardinalityType DEF LimiterInv
  <2>2. /\ IsFiniteSet(InProgress \ {x})
        /\ Cardinality(InProgress \ {x}) = Cardinality(InProgress) - 1
    BY <1>3, <2>1, FS_RemoveElement
  <2>3. QED
    BY <1>0, <1>3, <2>1, <2>2
<1>5. QED
  BY <1>2, <1>4

\* LoadCompileSlots: the execution holds the current semaphore, and nothing of it
\* yet.
LEMMA LoadSlots ==
    ASSUME ExecInv, LimiterInv, GatesInv, NEW x \in Execution, LoadCompileSlots(x)
    PROVE  LimiterInv' /\ GatesInv'
<1>g. PICK g : g = Len(gates)
  OBVIOUS
<1>1. /\ exec[x].pc = "timed" /\ slots' = slots /\ gates' = gates
      /\ exec' = [exec EXCEPT ![x].pc = "loaded", ![x].gate = g]
  BY <1>g DEF LoadCompileSlots
<1>2. /\ exec'[x].pc = "loaded" /\ exec'[x].gate = g
      /\ \A y \in Execution : y # x => exec'[y] = exec[y]
  BY <1>1 DEF ExecInv, ExecFields
<1>3. g \in 0 .. Len(gates) /\ g # 0
  <2> DEFINE T == [size : Nat, cur : Nat, queue : Seq(Execution)]
  <2>1. gates \in Seq(T) /\ gates # <<>>
    BY DEF GatesInv
  <2> HIDE DEF T
  <2>2. Len(gates) \in Nat /\ Len(gates) >= 1
    BY <2>1
  <2>3. QED
    BY <1>g, <2>2
<1>4. LimiterInv'
  <2>1. \A y \in Execution : (exec'[y].pc \in Admitted) <=> (exec[y].pc \in Admitted)
    BY <1>1, <1>2 DEF Admitted
  <2>2. QED
    BY <1>1, <2>1, SameInProgress
<1>5. \A h : \A p \in {"compiling", "queued"} : At(h, p)' = At(h, p)
  BY <1>1, <1>2 DEF At
<1>6. \A y \in Execution : /\ exec'[y].gate \in 0 .. Len(gates')
                           /\ exec'[y].pc \in AtGate => exec'[y].gate # 0
  BY <1>1, <1>2, <1>3 DEF GatesInv
<1>7. GatesInv'
  BY <1>1, <1>5, <1>6 DEF GatesInv
<1>8. QED
  BY <1>4, <1>7

\* AcquireCompileSlot: the execution takes a compile slot of the semaphore it
\* loaded, or queues for it.
LEMMA AcquireSlots ==
    ASSUME ExecInv, LimiterInv, GatesInv, NEW x \in Execution, AcquireCompileSlot(x)
    PROVE  LimiterInv' /\ GatesInv'
<1>g. PICK g : g = exec[x].gate
  OBVIOUS
<1> DEFINE free == gates[g].cur < gates[g].size /\ gates[g].queue = <<>>
           pc == IF free THEN "compiling" ELSE "queued"
           C == At(g, "compiling")
           Q == At(g, "queued")
<1>0. exec[x].pc = "loaded" /\ slots' = slots
  BY DEF AcquireCompileSlot
<1>e. /\ exec' = [exec EXCEPT ![x].pc = pc]
      /\ gates' = IF free THEN [gates EXCEPT ![g].cur = @ + 1]
                  ELSE [gates EXCEPT ![g].queue = Append(@, x)]
  BY <1>g DEF AcquireCompileSlot, Goes
<1>1. /\ DOMAIN gates = 1 .. Len(gates) /\ g \in DOMAIN gates
      /\ g \in 0 .. Len(gates) /\ g # 0
      /\ \A h \in DOMAIN gates :
            gates[h] \in [size : Nat, cur : Nat, queue : Seq(Execution)]
      /\ gates \in Seq([size : Nat, cur : Nat, queue : Seq(Execution)])
  <2>1. /\ gates \in Seq([size : Nat, cur : Nat, queue : Seq(Execution)])
        /\ g \in 0 .. Len(gates) /\ g # 0
    BY <1>g, <1>0 DEF GatesInv, AtGate
  <2> DEFINE T == [size : Nat, cur : Nat, queue : Seq(Execution)]
  <2> HIDE DEF T
  <2>2. gates \in Seq(T)
    BY <2>1 DEF T
  <2>3. /\ DOMAIN gates = 1 .. Len(gates) /\ Len(gates) \in Nat
        /\ \A h \in DOMAIN gates : gates[h] \in T
    BY <2>2
  <2>4. g \in DOMAIN gates
    BY <2>1, <2>3
  <2>5. QED
    BY <2>1, <2>3, <2>4 DEF T
<1>2. GateGood(gates[g], C, Q) /\ x \notin C /\ x \notin Q
  BY <1>0, <1>1 DEF GatesInv, At
<1>3. IF free THEN GateGood([gates[g] EXCEPT !.cur = @ + 1], C \cup {x}, Q)
      ELSE GateGood([gates[g] EXCEPT !.queue = Append(@, x)], C, Q \cup {x})
  BY <1>2, GateAcquire
<1> DEFINE new == IF free THEN [gates[g] EXCEPT !.cur = @ + 1]
                  ELSE [gates[g] EXCEPT !.queue = Append(@, x)]
<1>4. gates' = [gates EXCEPT ![g] = new]
  BY <1>e
<1>5. /\ free => GateGood(new, C \cup {x}, Q)
      /\ ~free => GateGood(new, C, Q \cup {x})
  BY <1>3
<1>6. /\ pc \in {"compiling", "queued"}
      /\ free => pc = "compiling"
      /\ ~free => pc = "queued"
  OBVIOUS
<1> HIDE DEF free, pc, new
<1>7. new \in [size : Nat, cur : Nat, queue : Seq(Execution)]
  BY <1>5 DEF GateGood
<1>8. /\ gates' \in Seq([size : Nat, cur : Nat, queue : Seq(Execution)])
      /\ DOMAIN gates' = DOMAIN gates /\ Len(gates') = Len(gates) /\ gates' # <<>>
      /\ gates'[g] = new
      /\ \A h \in DOMAIN gates : h # g => gates'[h] = gates[h]
  <2> DEFINE T == [size : Nat, cur : Nat, queue : Seq(Execution)]
  <2>1. gates \in Seq(T) /\ g \in DOMAIN gates /\ new \in T
    BY <1>1, <1>7
  <2> HIDE DEF T
  <2>2. /\ gates' \in Seq(T) /\ DOMAIN gates' = DOMAIN gates
        /\ Len(gates') = Len(gates) /\ gates' # <<>> /\ gates'[g] = new
        /\ \A h \in DOMAIN gates : h # g => gates'[h] = gates[h]
    BY <1>4, <2>1, SeqUpdate
  <2>3. QED
    BY <2>2 DEF T
<1>9. /\ exec'[x].pc = pc /\ exec'[x].gate = g
      /\ \A y \in Execution : y # x => exec'[y] = exec[y]
  BY <1>e, <1>g DEF ExecInv, ExecFields
<1>10. LimiterInv'
  <2>1. \A y \in Execution : (exec'[y].pc \in Admitted) <=> (exec[y].pc \in Admitted)
    BY <1>0, <1>6, <1>9 DEF Admitted
  <2>2. QED
    BY <1>0, <2>1, SameInProgress
<1>11. /\ free => At(g, "compiling")' = C \cup {x} /\ At(g, "queued")' = Q
       /\ ~free => At(g, "compiling")' = C /\ At(g, "queued")' = Q \cup {x}
  <2>1. \A p \in {"compiling", "queued"} :
           {y \in Execution : exec'[y].pc = p /\ exec'[y].gate = g}
           = {y \in Execution : exec[y].pc = p /\ exec[y].gate = g}
             \cup (IF p = pc THEN {x} ELSE {})
    BY <1>0, <1>6, <1>9
  <2>2. QED
    BY <1>6, <2>1 DEF At
<1>12. \A h \in DOMAIN gates' :
          GateGood(gates'[h], At(h, "compiling")', At(h, "queued")')
  <2> SUFFICES ASSUME NEW h \in DOMAIN gates
               PROVE  GateGood(gates'[h], At(h, "compiling")', At(h, "queued")')
    BY <1>8
  <2>1. CASE h = g
    <3>1. CASE free
      BY <1>5, <1>8, <1>11, <2>1, <3>1
    <3>2. CASE ~free
      BY <1>5, <1>8, <1>11, <2>1, <3>2
    <3>3. QED
      BY <3>1, <3>2
  <2>2. CASE h # g
    <3>1. \A p \in {"compiling", "queued"} : At(h, p)' = At(h, p)
      BY <1>0, <1>9, <2>2 DEF At
    <3>2. gates'[h] = gates[h] /\ GateGood(gates[h], At(h, "compiling"), At(h, "queued"))
      BY <1>8, <2>2 DEF GatesInv
    <3>3. QED
      BY <3>1, <3>2
  <2>3. QED
    BY <2>1, <2>2
<1>13. \A y \in Execution : /\ exec'[y].gate \in 0 .. Len(gates')
                            /\ exec'[y].pc \in AtGate => exec'[y].gate # 0
  BY <1>1, <1>8, <1>9 DEF GatesInv
<1>14. GatesInv'
  BY <1>8, <1>12, <1>13 DEF GatesInv
<1>15. QED
  BY <1>10, <1>14

\* CompileEnds: the compile slot goes back to the semaphore it came from, and
\* from there to the execution that waited longest for it.
LEMMA CompileSlots ==
    ASSUME ExecInv, LimiterInv, GatesInv, NEW x \in Execution,
           NEW outcome \in {"ok", "error", "deadline"}, CompileEnds(x, outcome)
    PROVE  LimiterInv' /\ GatesInv'
<1>g. PICK g : g = exec[x].gate
  OBVIOUS
<1> DEFINE C == At(g, "compiling")
           Q == At(g, "queued")
           G == Range(Granted(gates[g]))
<1>0. /\ exec[x].pc = "compiling" /\ slots' = slots
      /\ gates' = [gates EXCEPT ![g] = Released(gates[g])]
      /\ exec' = [y \in Execution |->
             IF y = x THEN Compiled(x, outcome)
             ELSE IF y \in Range(Granted(gates[g]))
                  THEN [exec[y] EXCEPT !.pc = "compiling"] ELSE exec[y]]
  BY <1>g DEF CompileEnds
<1>1. /\ g \in DOMAIN gates /\ DOMAIN gates = 1 .. Len(gates)
      /\ gates \in Seq([size : Nat, cur : Nat, queue : Seq(Execution)])
  BY <1>g, <1>0 DEF GatesInv, AtGate
<1>2. GateGood(gates[g], C, Q) /\ x \in C /\ C \cap Q = {} /\ Q \subseteq Execution
  BY <1>g, <1>0, <1>1 DEF GatesInv, At
<1> HIDE DEF C, Q
<1>3. /\ G \subseteq Q
      /\ GateGood(Released(gates[g]), (C \ {x}) \cup G, Q \ G)
  BY <1>2, GateRelease
<1>4. exec' = [y \in Execution |->
             IF y = x THEN Compiled(x, outcome)
             ELSE IF y \in G THEN [exec[y] EXCEPT !.pc = "compiling"] ELSE exec[y]]
  BY <1>0, <1>3
<1>5. /\ Compiled(x, outcome).pc \in {"running", "returning"}
      /\ Compiled(x, outcome).gate = g
  BY <1>g DEF Compiled, ExecInv, ExecFields
<1>6. \A y \in Q : exec[y].pc = "queued" /\ exec[y].gate = g /\ y # x
  BY <1>0 DEF At, Q
<1> DEFINE new == Released(gates[g])
<1> HIDE DEF G, new
<1>7. /\ exec'[x].pc \in {"running", "returning"} /\ exec'[x].gate = g
      /\ \A y \in G : exec'[y].pc = "compiling" /\ exec'[y].gate = g
      /\ \A y \in Execution : y # x /\ y \notin G => exec'[y] = exec[y]
  <2>1. exec'[x] = Compiled(x, outcome)
    BY <1>4
  <2>2. ASSUME NEW y \in G
        PROVE  exec'[y].pc = "compiling" /\ exec'[y].gate = g
    <3>1. y \in Execution /\ y # x /\ exec[y].gate = g /\ DOMAIN exec[y] = ExecFields
      BY <1>2, <1>3, <1>6 DEF ExecInv
    <3>2. exec'[y] = [exec[y] EXCEPT !.pc = "compiling"]
      BY <1>4, <3>1
    <3>3. QED
      BY <3>1, <3>2 DEF ExecFields
  <2>3. QED
    BY <1>4, <1>5, <2>1, <2>2
<1>8. LimiterInv'
  <2>1. \A y \in Execution : (exec'[y].pc \in Admitted) <=> (exec[y].pc \in Admitted)
    BY <1>0, <1>3, <1>6, <1>7 DEF Admitted
  <2>2. QED
    BY <1>0, <2>1, SameInProgress
<1>9. /\ gates' \in Seq([size : Nat, cur : Nat, queue : Seq(Execution)])
      /\ DOMAIN gates' = DOMAIN gates /\ Len(gates') = Len(gates) /\ gates' # <<>>
      /\ gates'[g] = new
      /\ \A h \in DOMAIN gates : h # g => gates'[h] = gates[h]
  <2>1. gates' = [gates EXCEPT ![g] = new]
    BY <1>0 DEF new
  <2>2. new \in [size : Nat, cur : Nat, queue : Seq(Execution)]
    BY <1>3 DEF new, GateGood
  <2> DEFINE T == [size : Nat, cur : Nat, queue : Seq(Execution)]
  <2>3. gates \in Seq(T) /\ g \in DOMAIN gates /\ new \in T
    BY <1>1, <2>2
  <2> HIDE DEF T
  <2>4. /\ gates' \in Seq(T) /\ DOMAIN gates' = DOMAIN gates
        /\ Len(gates') = Len(gates) /\ gates' # <<>> /\ gates'[g] = new
        /\ \A h \in DOMAIN gates : h # g => gates'[h] = gates[h]
    BY <2>1, <2>3, SeqUpdate
  <2>5. QED
    BY <2>4 DEF T
<1>10. At(g, "compiling")' = (C \ {x}) \cup G /\ At(g, "queued")' = Q \ G
  <2>1. {y \in Execution : exec'[y].pc = "compiling" /\ exec'[y].gate = g}
        = (C \ {x}) \cup G
    BY <1>g, <1>2, <1>3, <1>6, <1>7 DEF At, C
  <2>2. {y \in Execution : exec'[y].pc = "queued" /\ exec'[y].gate = g} = Q \ G
    <3>1. ASSUME NEW y \in Execution
          PROVE  (exec'[y].pc = "queued" /\ exec'[y].gate = g) <=> (y \in Q \ G)
      <4>1. y \in Q <=> (exec[y].pc = "queued" /\ exec[y].gate = g)
        BY DEF At, Q
      <4>2. CASE y = x
        BY <1>0, <1>7, <4>1, <4>2
      <4>3. CASE y \in G
        BY <1>7, <4>3
      <4>4. CASE y # x /\ y \notin G
        BY <1>7, <4>1, <4>4
      <4>5. QED
        BY <4>2, <4>3, <4>4
    <3>2. QED
      BY <1>2, <3>1
  <2>3. QED
    BY <2>1, <2>2 DEF At
<1>11. \A h \in DOMAIN gates' : GateGood(gates'[h], At(h, "compiling")', At(h, "queued")')
  <2> SUFFICES ASSUME NEW h \in DOMAIN gates
               PROVE  GateGood(gates'[h], At(h, "compiling")', At(h, "queued")')
    BY <1>9
  <2>1. CASE h = g
    BY <1>3, <1>9, <1>10, <2>1 DEF new
  <2>2. CASE h # g
    <3>1. \A p \in {"compiling", "queued"} : At(h, p)' = At(h, p)
      BY <1>g, <1>2, <1>3, <1>6, <1>7, <2>2 DEF At
    <3>2. gates'[h] = gates[h] /\ GateGood(gates[h], At(h, "compiling"), At(h, "queued"))
      BY <1>9, <2>2 DEF GatesInv
    <3>3. QED
      BY <3>1, <3>2
  <2>3. QED
    BY <2>1, <2>2
<1>12. \A y \in Execution : /\ exec'[y].gate \in 0 .. Len(gates')
                            /\ exec'[y].pc \in AtGate => exec'[y].gate # 0
  <2>1. g \in 0 .. Len(gates) /\ g # 0
    BY <1>g, <1>0 DEF GatesInv, AtGate
  <2>2. QED
    BY <1>7, <1>9, <2>1 DEF GatesInv
<1>13. GatesInv'
  BY <1>9, <1>11, <1>12 DEF GatesInv
<1>14. QED
  BY <1>8, <1>13

\* The steps of an execution.
LEMMA ExecSlots ==
    ASSUME ExecInv, LimiterInv, GatesInv, NEW x \in Execution, ExecStep(x)
    PROVE  LimiterInv' /\ GatesInv'
<1> DEFINE Here == Admitted \ AtGate
<1>0. \A pc \in {"checking", "grace", "fetching", "downloading", "fetched", "timed",
                 "running", "returning"} : pc \in Here
  BY DEF Admitted, AtGate
<1> HIDE DEF Here
<1>1. ASSUME NEW pc \in Here, slots' = slots, gates' = gates, exec[x].pc \in Here,
             Goes(x, pc)
      PROVE  LimiterInv' /\ GatesInv'
  BY <1>1, GoesOn DEF Here
<1>r. ASSUME NEW code, slots' = slots, gates' = gates, exec[x].pc \in Here,
             Returning(x, code)
      PROVE  LimiterInv' /\ GatesInv'
  BY <1>r, GivesUp DEF Here
<1>2. CASE Validate(x)
  <2>1. /\ slots' = slots /\ gates' = gates /\ exec[x].pc = "checking"
        /\ Goes(x, "grace") \/ Returning(x, 400)
    BY <1>2 DEF Validate
  <2>2. QED
    BY <1>0, <1>1, <1>r, <2>1
<1>3. CASE Snapshot(x)
  <2>1. slots' = slots /\ gates' = gates /\ exec[x].pc = "grace"
    BY <1>3 DEF Snapshot
  <2>2. CASE Returning(x, 502)
    BY <1>0, <1>r, <2>1, <2>2
  <2>3. CASE exec' = [exec EXCEPT ![x].pc = "fetching", ![x].sf = storageFetcher,
                                  ![x].remote = (dispatcher # Nil)]
    <3>1. /\ exec'[x].pc = "fetching" /\ exec'[x].gate = exec[x].gate
          /\ \A y \in Execution : y # x => exec'[y] = exec[y]
      BY <2>3 DEF ExecInv, ExecFields
    <3>2. \A y \in Execution : exec'[y].gate = exec[y].gate
      BY <3>1
    <3>3. exec[x].pc \in Here /\ exec'[x].pc \in Here
      BY <1>0, <2>1, <3>1
    <3>4. QED
      BY <2>1, <3>1, <3>2, <3>3, Moves DEF Here
  <2>4. QED
    BY <1>3, <2>2, <2>3 DEF Snapshot
<1>4. CASE FetchCached(x)
  <2>1. /\ slots' = slots /\ gates' = gates /\ exec[x].pc = "fetching"
        /\ Goes(x, "fetched") \/ Goes(x, "downloading") \/ Returning(x, 502)
    BY <1>4 DEF FetchCached
  <2>2. QED
    BY <1>0, <1>1, <1>r, <2>1
<1>5. CASE Downloaded(x)
  <2>1. /\ slots' = slots /\ gates' = gates /\ exec[x].pc = "downloading"
        /\ Goes(x, "fetched")
    BY <1>5 DEF Downloaded
  <2>2. QED
    BY <1>0, <1>1, <2>1
<1>6. CASE DownloadFails(x)
  <2>1. /\ slots' = slots /\ gates' = gates /\ exec[x].pc = "downloading"
        /\ Returning(x, 502)
    BY <1>6 DEF DownloadFails
  <2>2. QED
    BY <1>0, <1>r, <2>1
<1>7. CASE GuestEnds(x) \/ GuestTimesOut(x)
  <2>1. /\ slots' = slots /\ gates' = gates /\ exec[x].pc = "running"
        /\ \E code : Returning(x, code)
    BY <1>7 DEF GuestEnds, GuestTimesOut
  <2>2. QED
    BY <1>0, <1>r, <2>1
<1>8. CASE GuestCalls(x)
  <2>1. UNCHANGED <<slots, exec, gates>>
    BY <1>8 DEF GuestCalls, execVars
  <2>2. QED
    BY <2>1, SameInProgress, SameGates
<1>9. CASE CheckRequirements(x)
  <2>1. slots' = slots /\ gates' = gates /\ exec[x].pc = "fetched"
    BY <1>9 DEF CheckRequirements
  <2>2. CASE Returning(x, 400)
    BY <1>0, <1>r, <2>1, <2>2
  <2>3. CASE exec' = [exec EXCEPT ![x].pc = "timed", ![x].timed = executionTimeout]
    <3>1. /\ exec'[x].pc = "timed" /\ exec'[x].gate = exec[x].gate
          /\ \A y \in Execution : y # x => exec'[y] = exec[y]
      BY <2>3 DEF ExecInv, ExecFields
    <3>2. \A y \in Execution : exec'[y].gate = exec[y].gate
      BY <3>1
    <3>3. exec[x].pc \in Here /\ exec'[x].pc \in Here
      BY <1>0, <2>1, <3>1
    <3>4. QED
      BY <2>1, <3>1, <3>2, <3>3, Moves DEF Here
  <2>4. QED
    BY <1>9, <2>2, <2>3 DEF CheckRequirements
<1>10. QED
  BY <1>2, <1>3, <1>4, <1>5, <1>6, <1>7, <1>8, <1>9, AdmitSlots, ReturnSlots, LoadSlots,
     AcquireSlots, CompileSlots DEF ExecStep

\* Settings that bound the compilations replace the semaphore.
LEMMA NewSlots ==
    ASSUME LimiterInv, GatesInv, InjectInv, NEW i \in Post, InjectCompileSlots(i)
    PROVE  LimiterInv' /\ GatesInv'
<1>0. slots' = slots /\ exec' = exec
  BY DEF InjectCompileSlots
<1>1. LimiterInv'
  BY <1>0, SameInProgress
<1>2. CASE gates' = gates
  BY <1>0, <1>1, <1>2, SameGates
<1>3. CASE /\ inject[i].settings.compilations > 0
           /\ gates' = Append(gates, NewGate(inject[i].settings.compilations))
  <2> DEFINE n == inject[i].settings.compilations
             T == [size : Nat, cur : Nat, queue : Seq(Execution)]
  <2>1. n \in Nat
    <3>1. inject[i].settings \in Settings
      BY DEF InjectCompileSlots, InjectInv
    <3>2. QED
      BY <1>3, <3>1, AppConstants
  <2>2. GateGood(NewGate(n), {}, {}) /\ NewGate(n) \in T
    BY <2>1, NewGateGood
  <2>3. gates \in Seq(T) /\ gates # <<>> /\ gates' = Append(gates, NewGate(n))
    BY <1>3 DEF GatesInv
  <2> HIDE DEF n, T
  <2>4. /\ gates' \in Seq(T) /\ gates' # <<>>
        /\ Len(gates) \in Nat /\ DOMAIN gates = 1 .. Len(gates)
        /\ Len(gates') = Len(gates) + 1 /\ DOMAIN gates' = 1 .. Len(gates) + 1
        /\ gates'[Len(gates) + 1] = NewGate(n)
        /\ \A g \in DOMAIN gates : gates'[g] = gates[g]
    BY <2>2, <2>3
  <2>5. \A y \in Execution : /\ exec[y].gate \in 0 .. Len(gates)
                             /\ exec[y].pc \in AtGate => exec[y].gate # 0
    BY DEF GatesInv
  <2>6. \A g, pc : At(g, pc)' = At(g, pc)
    BY <1>0 DEF At
  <2>7. ASSUME NEW g \in DOMAIN gates'
        PROVE  GateGood(gates'[g], At(g, "compiling"), At(g, "queued"))
    <3>1. CASE g \in DOMAIN gates
      BY <2>4, <3>1 DEF GatesInv
    <3>2. CASE g = Len(gates) + 1
      <4>1. \A pc : At(g, pc) = {}
        <5>1. \A y \in Execution : exec[y].gate # g
          BY <2>4, <2>5, <3>2
        <5>2. QED
          BY <5>1 DEF At
      <4>2. QED
        BY <2>2, <2>4, <3>2, <4>1
    <3>3. QED
      BY <2>4, <3>1, <3>2
  <2>8. \A y \in Execution : exec'[y].gate \in 0 .. Len(gates')
    BY <1>0, <2>4, <2>5
  <2>9. GatesInv'
    BY <1>0, <2>4, <2>5, <2>6, <2>7, <2>8 DEF GatesInv, T
  <2>10. QED
    BY <1>1, <2>9
<1>4. QED
  BY <1>2, <1>3 DEF InjectCompileSlots

\* Every step.
LEMMA SlotStep ==
    ASSUME ExecInv, SlotInv, [AppNext]_appVars
    PROVE  SlotInv'
<1> USE DEF SlotInv
<1>1. InjectInv'
  BY InjectInvStep
<1>2. ASSUME NEW x \in Execution, ExecStep(x)
      PROVE  SlotInv'
  BY <1>1, <1>2, ExecSlots
<1>3. ASSUME NEW i \in Post, InjectCompileSlots(i)
      PROVE  SlotInv'
  BY <1>1, <1>3, NewSlots
<1>4. CASE UNCHANGED <<slots, exec, gates>>
  BY <1>1, <1>4, SameInProgress, SameGates
<1>5. ASSUME NEW i \in Post, InjectStep(i)
      PROVE  SlotInv'
  <2>1. CASE InjectCompileSlots(i)
    BY <1>3, <2>1
  <2>2. CASE ~InjectCompileSlots(i)
    <3>1. UNCHANGED <<slots, exec, gates>>
      BY <1>5, <2>2 DEF InjectStep, InjectLost, InjectSettings, InjectStorage,
         InjectTimeout, InjectClosesOld, InjectDispatcher, InjectAnswerLost, InjectAgain,
         execVars
    <3>2. QED
      BY <1>4, <3>1
  <2>3. QED
    BY <2>1, <2>2
<1>6. CASE (\E x \in Execution : CallStep(x)) \/ UpdateStep \/ UNCHANGED appVars
  <2>1. UNCHANGED <<slots, exec, gates>>
    BY <1>6 DEF CallStep, UpdateStep, OnConfigUpdate, SetConfig, execVars, appVars
  <2>2. QED
    BY <1>4, <2>1
<1>7. QED
  BY <1>2, <1>5, <1>6 DEF AppNext

\* limiter.go:35-36 and wasm.go:32-33, for any number of executions, settings and
\* updates: every taken execution slot and every taken compile slot belongs to
\* exactly one execution, whatever semaphores replaced the one it came from, no
\* capacity is exceeded, and nobody waits for a compile slot that is free.
THEOREM SlotsBalance == AppSpec => []SlotsExact
<1>1. AppInit => SlotInv
  BY SlotInit
<1>2. ASSUME AppInv, SlotInv, [AppNext]_appVars
      PROVE  SlotInv'
  BY <1>2, SlotStep DEF AppInv
<1>3. SlotInv => SlotsExact
  <2> SUFFICES ASSUME SlotInv PROVE SlotsExact
    OBVIOUS
  <2>1. \A g \in DOMAIN gates : GateGood(gates[g], At(g, "compiling"), At(g, "queued"))
    BY DEF SlotInv, GatesInv
  <2>2. QED
    BY <2>1 DEF SlotInv, LimiterInv, SlotsExact, GateGood, At, InProgress
<1>4. QED
  BY AppInvariant, <1>1, <1>2, <1>3, PTL DEF AppSpec
-----------------------------------------------------------------------------
\* Every step of the app: a cached binary is found, a downloaded one inserted, a
\* payload brings a new bound, and nothing else touches the cache.
LEMMA CacheSteps ==
    ASSUME InjectInv, [AppNext]_appVars
    PROVE  \/ UNCHANGED cacheVars
           \/ \E b \in Binary : cacheGet(b) \/ cachePut(b)
           \/ \E limit \in Int : SetMaxCacheBytes(limit)
<1> DEFINE Step == \/ UNCHANGED cacheVars
                   \/ \E b \in Binary : cacheGet(b) \/ cachePut(b)
                   \/ \E limit \in Int : SetMaxCacheBytes(limit)
<1>1. ASSUME NEW x \in Execution, ExecStep(x)
      PROVE  Step
  <2>1. BinaryOf[x] \in Binary
    BY AppConstants
  <2>2. CASE FetchCached(x)
    <3>1. cacheGet(BinaryOf[x])
      BY <2>2 DEF FetchCached
    <3>2. QED
      BY <2>1, <3>1, Zenon
  <2>3. CASE Downloaded(x)
    <3>1. cachePut(BinaryOf[x])
      BY <2>3 DEF Downloaded
    <3>2. QED
      BY <2>1, <3>1, Zenon
  <2>4. CASE ~FetchCached(x) /\ ~Downloaded(x)
    <3>1. UNCHANGED cacheVars
      BY <1>1, <2>4 DEF ExecStep, Admit, Validate, Snapshot, DownloadFails,
         CheckRequirements, LoadCompileSlots, AcquireCompileSlot, CompileEnds, GuestCalls,
         GuestEnds, GuestTimesOut, Return
    <3>2. QED
      BY <3>1
  <2>5. QED
    BY <2>2, <2>3, <2>4
<1>2. ASSUME NEW i \in Post, InjectStep(i)
      PROVE  Step
  <2>1. ASSUME NEW s \in Payloads(i), InjectSettings(i, s)
        PROVE  Step
    <3>1. inject[i].pc = "idle"
          /\ IF Complete(s) THEN SetMaxCacheBytes(s.cacheBytes) ELSE UNCHANGED cacheVars
      BY <2>1 DEF InjectSettings
    <3>2. s \in Settings
      BY <3>1 DEF Payloads, InjectInv
    <3>3. s.cacheBytes \in Int
      BY <3>2, AppConstants
    <3>4. QED
      BY <3>1, <3>3, Zenon
  <2>2. CASE ~ \E s \in Payloads(i) : InjectSettings(i, s)
    <3>1. UNCHANGED cacheVars
      BY <1>2, <2>2 DEF InjectStep, InjectLost, InjectTimeout, InjectCompileSlots,
         InjectStorage,
         InjectClosesOld, InjectDispatcher, InjectAnswerLost, InjectAgain
    <3>2. QED
      BY <3>1
  <2>3. QED
    BY <2>1, <2>2
<1>3. CASE (\E x \in Execution : CallStep(x)) \/ UpdateStep \/ UNCHANGED appVars
  <2>1. UNCHANGED cacheVars
    BY <1>3 DEF CallStep, UpdateStep, OnConfigUpdate, SetConfig, appVars
  <2>2. QED
    BY <2>1
<1>4. \/ \E x \in Execution : ExecStep(x)
      \/ \E i \in Post : InjectStep(i)
      \/ (\E x \in Execution : CallStep(x)) \/ UpdateStep \/ UNCHANGED appVars
  BY Zenon DEF AppNext
<1>5. QED
  BY <1>1, <1>2, <1>3, <1>4, Zenon

\* The invariant of the cache of binaries, beside the payloads that bound it.
LEMMA AlwaysLRU == AppSpec => [](LRUInv /\ InjectInv)
<1>1. AppInit => LRUInv /\ InjectInv
  <2> SUFFICES ASSUME AppInit PROVE LRUInv /\ InjectInv
    OBVIOUS
  <2>1. lru = <<>> /\ cacheBytes = 0 /\ maxCacheBytes = DefaultCacheBytes
    BY DEF AppInit
  <2>2. Bytes(lru) = 0
    BY <2>1, BytesOne
  <2>3. LRUInv
    BY <2>1, <2>2, AppConstants DEF LRUInv, LRUExact
  <2>4. InjectInv
    BY SlotInit DEF SlotInv
  <2>5. QED
    BY <2>3, <2>4
<1>2. ASSUME LRUInv, InjectInv, [AppNext]_appVars
      PROVE  LRUInv' /\ InjectInv'
  <2>1. CASE UNCHANGED cacheVars
    BY <1>2, <2>1, InjectInvStep DEF LRUInv, LRUExact, cacheVars
  <2>2. CASE ~UNCHANGED cacheVars
    <3>1. LRUInv'
      BY <1>2, <2>2, CacheSteps, GetLRU, PutLRU, BoundLRU
    <3>2. QED
      BY <1>2, <3>1, InjectInvStep
  <2>3. QED
    BY <2>1, <2>2
<1>3. QED
  BY <1>1, <1>2, PTL DEF AppSpec

\* fetcher.go:23-26, for any executions, binaries, sizes, bounds and settings: the
\* byte counter is the total size of what is cached, which stays within the
\* bound but for a single entry larger than it, and no binary is cached twice.
THEOREM CacheOfBinaries == AppSpec => []LRUExact
<1>1. LRUInv /\ InjectInv => LRUExact
  BY DEF LRUInv
<1>2. QED
  BY AlwaysLRU, <1>1, PTL

\* fetcher.go:89 and 121, the two eviction loops, stop as soon as there is room: a
\* binary leaves the cache only if it and the more recently used ones are too
\* large for the bound, counting the binary for which room is made.
THEOREM NoNeedlessEviction == AppSpec => [][EvictedForSpace]_appVars
<1>1. ASSUME LRUInv, InjectInv, [AppNext]_appVars
      PROVE  [EvictedForSpace]_appVars
  <2>1. CASE UNCHANGED cacheVars
    <3>1. \A n \in 1 .. Len(lru) : lru[n] \in Range(lru')
      BY <1>1, <2>1 DEF cacheVars, LRUInv, Range
    <3>2. QED
      BY <3>1 DEF EvictedForSpace
  <2>2. CASE ~UNCHANGED cacheVars
    <3>1. EvictedForSpace
      BY <1>1, <2>2, CacheSteps, GetEvicts, PutEvicts, BoundEvicts
    <3>2. QED
      BY <3>1
  <2>3. QED
    BY <2>1, <2>2
<1>2. QED
  BY AlwaysLRU, <1>1, PTL DEF AppSpec
=============================================================================
