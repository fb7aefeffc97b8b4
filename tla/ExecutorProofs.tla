--------------------------- MODULE ExecutorProofs ----------------------------
(***************************************************************************)
(* What RealExecutor sends is coherent, what it asks of the VaultDON it    *)
(* asks under a fresh reference, and no execution makes more attempts than *)
(* its limit allows: proved for any enclaves, executions, secrets, limits  *)
(* and bounds.                                                             *)
(***************************************************************************)
EXTENDS Executor, FiniteSetTheorems, TLAPS

Fields == {"pc", "list", "entry", "key", "secrets", "todo", "shares", "mpk",
           "tries", "retries", "caching", "sent", "ref", "refs", "reqs",
           "timedOut", "out"}

\* The references used so far are at most the current one, which is among them
\* only once the attempt has got as far as its shares.
RefsGood(r) ==
    /\ r.ref \in Nat /\ r.reqs \in Nat /\ r.sent \in BOOLEAN
    /\ r.refs \subseteq 0 .. r.ref
    /\ Cardinality(r.refs) = r.reqs
    /\ ~r.sent => r.ref \notin r.refs
    /\ r.pc \in {"update", "commit", "publish", "fresh", "fetch", "params", "vault"}
          => ~r.sent

\* The shares an execution holds are one set, under the key and the master key
\* it holds with them.
Coherent(r) ==
    /\ \A s \in r.secrets : \E c \in r.shares : c.secret = s
    /\ \A c \in r.shares : /\ c.key = r.key /\ c.mpk = r.mpk
                           /\ c.mpk # NoKey => c.gen = c.mpk
    /\ \A c, d \in r.shares : c.secret = d.secret => c = d

SharesGood(r) == r.pc \in {"store", "send", "sent"} => Coherent(r)

\* The cache holds one share set for each secret and key, and the master key
\* beside a share set is that of its generation.
CacheInv ==
    /\ \A c \in secretsCache : c.mpk # NoKey => c.gen = c.mpk
    /\ \A c, d \in secretsCache : (c.secret = d.secret /\ c.key = d.key) => c = d

IInv ==
    /\ DOMAIN th = Thread
    /\ \A t \in Thread : DOMAIN th[t] = Fields
    /\ \A x \in Exec : RefsGood(th[x]) /\ SharesGood(th[x])
    /\ CacheInv

-----------------------------------------------------------------------------
\* An update of a record leaves its other fields alone.  Every step from here on
\* has this among its facts: the SMT backend leaves out its type inference, slow
\* in a long module, for an obligation in which it meets such an update.
LEMMA Untyped == [[a |-> 0, b |-> 0] EXCEPT !.a = 1].b = 0
OBVIOUS

USE Untyped

\* A thread that has not begun, or has returned, is in good order.
LEMMA IdleGood ==
    /\ DOMAIN Idle = Fields
    /\ RefsGood(Idle) /\ SharesGood(Idle)
    /\ \A pc \in {"attempt", "done"} : \A S, n, o :
          LET r == [Idle EXCEPT !.pc = pc, !.secrets = S, !.retries = n, !.out = o]
          IN  DOMAIN r = Fields /\ RefsGood(r) /\ SharesGood(r)
<1>1. Cardinality({}) = 0
  BY FS_EmptySet
<1>2. DOMAIN Idle = Fields
  BY DEF Idle, Fields
<1>3. RefsGood(Idle) /\ SharesGood(Idle)
  BY <1>1 DEF Idle, RefsGood, SharesGood
<1>4. ASSUME NEW pc \in {"attempt", "done"}, NEW S, NEW n, NEW o
      PROVE  LET r == [Idle EXCEPT !.pc = pc, !.secrets = S, !.retries = n, !.out = o]
             IN  DOMAIN r = Fields /\ RefsGood(r) /\ SharesGood(r)
  BY <1>1, <1>2 DEF Idle, RefsGood, SharesGood, Fields
<1>5. QED
  BY <1>2, <1>3, <1>4

\* The initial states satisfy the inductive invariant.
LEMMA InitIInv == Init => IInv
<1> SUFFICES ASSUME Init PROVE IInv
  OBVIOUS
<1>1. th = [t \in Thread |-> Idle] /\ secretsCache = {}
  BY DEF Init
<1>2. QED
  BY <1>1, IdleGood DEF IInv, CacheInv, Thread

\* A step of one thread.
LEMMA OneThread ==
    ASSUME IInv, NEW t \in Thread, DOMAIN th' = Thread,
           \A u \in Thread : u # t => th'[u] = th[u],
           DOMAIN th'[t] = Fields,
           t \in Exec => RefsGood(th'[t]) /\ SharesGood(th'[t]),
           CacheInv'
    PROVE  IInv'
  BY DEF IInv, Thread

\* Execute returns.
LEMMA FinishKeeps ==
    ASSUME IInv, NEW x \in Exec, NEW out, Finish(x, out), CacheInv'
    PROVE  IInv'
<1> DEFINE r == [Idle EXCEPT !.pc = "done", !.out = out]
<1>1. th' = [th EXCEPT ![x] = r] /\ x \in Thread
  BY DEF Finish, Thread
<1>2. DOMAIN r = Fields /\ RefsGood(r) /\ SharesGood(r)
  BY FS_EmptySet DEF Idle, RefsGood, SharesGood, Fields
<1>3. th'[x] = r /\ DOMAIN th' = Thread /\ \A u \in Thread : u # x => th'[u] = th[u]
  BY <1>1 DEF IInv
<1>4. QED
  BY <1>1, <1>2, <1>3, OneThread

\* An attempt fails: the execution keeps its references and drops its shares.
LEMMA FailedKeeps ==
    ASSUME IInv, NEW t \in Thread, NEW late, Failed(t, late), CacheInv'
    PROVE  IInv'
<1>1. DOMAIN th' = Thread /\ \A u \in Thread : u # t => th'[u] = th[u]
  BY DEF Failed, IInv
<1>2. CASE t = Loop
  <2>1. th'[t] = Idle
    BY <1>2 DEF Failed, IInv
  <2>2. QED
    BY <1>1, <1>2, <2>1, IdleGood, OneThread
<1>3. CASE t # Loop
  <2>1. t \in Exec /\ DOMAIN th[t] = Fields /\ RefsGood(th[t])
    BY <1>3 DEF Thread, IInv
  <2>2. /\ DOMAIN th'[t] = Fields /\ th'[t].pc = "backoff"
        /\ th'[t].ref = th[t].ref /\ th'[t].refs = th[t].refs
        /\ th'[t].reqs = th[t].reqs /\ th'[t].sent = th[t].sent
    BY <1>3, <2>1 DEF Failed, IInv, Fields
  <2>3. RefsGood(th'[t]) /\ SharesGood(th'[t])
    BY <2>1, <2>2 DEF RefsGood, SharesGood
  <2>4. QED
    BY <1>1, <2>2, <2>3, OneThread
<1>4. QED
  BY <1>2, <1>3

\* A step that changes only the program counter of a thread.
LEMMA GotoKeeps ==
    ASSUME IInv, NEW t \in Thread, NEW pc, Goto(t, pc), CacheInv',
           t \in Exec => pc \in {"publish", "commit", "fresh", "vault", "attempt"},
           (t \in Exec /\ pc # "attempt") => ~th[t].sent
    PROVE  IInv'
<1>1. /\ DOMAIN th' = Thread /\ \A u \in Thread : u # t => th'[u] = th[u]
      /\ th'[t] = [th[t] EXCEPT !.pc = pc] /\ DOMAIN th[t] = Fields
  BY DEF Goto, IInv
<1>2. /\ DOMAIN th'[t] = Fields /\ th'[t].pc = pc
      /\ th'[t].ref = th[t].ref /\ th'[t].refs = th[t].refs
      /\ th'[t].reqs = th[t].reqs /\ th'[t].sent = th[t].sent
  BY <1>1 DEF Fields
<1>3. t \in Exec => RefsGood(th'[t]) /\ SharesGood(th'[t])
  BY <1>2 DEF RefsGood, SharesGood, IInv
<1>4. QED
  BY <1>1, <1>2, <1>3, OneThread

\* The steps that executions and the refresh loop share.
LEMMA ThreadStepKeeps ==
    ASSUME IInv, NEW t \in Thread, ThreadStep(t)
    PROVE  IInv'
<1>0. /\ DOMAIN th[t] = Fields
      /\ t \in Exec => RefsGood(th[t]) /\ SharesGood(th[t])
  BY DEF IInv
<1>a. CacheInv'
  BY DEF ThreadStep, Attempt, RefreshFails, CheckNodes, Commit, Publish, Select,
         Local, IInv, CacheInv
<1>1. CASE Attempt(t)
  <2> DEFINE ref == th[t].ref + (IF th[t].sent THEN 1 ELSE 0)
             now == [th[t] EXCEPT !.ref = ref, !.sent = FALSE]
             r == [now EXCEPT !.pc = "update", !.list = GetEnclaveNodes]
  <2>1. th' = [th EXCEPT ![t] = r]
    BY <1>1 DEF Attempt
  <2>2. /\ DOMAIN th' = Thread /\ \A u \in Thread : u # t => th'[u] = th[u]
        /\ th'[t] = r
    BY <2>1 DEF IInv
  <2>3. /\ DOMAIN r = Fields /\ r.pc = "update" /\ r.sent = FALSE
        /\ r.ref = ref /\ r.refs = th[t].refs /\ r.reqs = th[t].reqs
    BY <1>0 DEF Fields
  <2>4. t \in Exec => RefsGood(r)
    <3> HIDE DEF r, now
    <3> SUFFICES ASSUME t \in Exec PROVE RefsGood(r)
      OBVIOUS
    <3>1. /\ th[t].ref \in Nat /\ th[t].reqs \in Nat /\ th[t].sent \in BOOLEAN
          /\ th[t].refs \subseteq 0 .. th[t].ref
          /\ Cardinality(th[t].refs) = th[t].reqs
          /\ ~th[t].sent => th[t].ref \notin th[t].refs
      BY <1>0 DEF RefsGood
    <3>2. ref \in Nat /\ th[t].refs \subseteq 0 .. ref /\ ref \notin th[t].refs
      BY <3>1
    <3> HIDE DEF ref
    <3>3. QED
      BY <2>3, <3>1, <3>2 DEF RefsGood
  <2>5. SharesGood(r)
    <3> HIDE DEF r
    <3> QED BY <2>3 DEF SharesGood
  <2>6. QED
    BY ZenonT(30), <1>a, <2>2, <2>3, <2>4, <2>5, OneThread
<1>2. CASE RefreshFails(t)
  BY <1>2, <1>a, FailedKeeps DEF RefreshFails
<1>3. CASE CheckNodes(t)
  <2>1. \E pc \in {"publish", "commit", "fresh"} : Goto(t, pc)
    BY <1>3 DEF CheckNodes
  <2>2. PICK pc \in {"publish", "commit", "fresh"} : Goto(t, pc)
    BY <2>1
  <2>3. t \in Exec => ~th[t].sent
    BY <1>0, <1>3 DEF CheckNodes, RefsGood
  <2>4. QED
    BY <1>a, <2>2, <2>3, GotoKeeps
<1>4. CASE Commit(t)
  BY <1>0, <1>4, <1>a, GotoKeeps DEF Commit, RefsGood
<1>5. CASE Publish(t)
  BY <1>0, <1>5, <1>a, GotoKeeps DEF Publish, RefsGood
<1>6. CASE Select(t)
  <2>1. CASE t = Loop /\ th' = [th EXCEPT ![t] = Idle]
    <3>1. /\ DOMAIN th' = Thread /\ \A u \in Thread : u # t => th'[u] = th[u]
          /\ th'[t] = Idle
      BY <2>1 DEF IInv
    <3>2. QED
      BY <1>a, <3>1, IdleGood, OneThread
  <2>2. CASE /\ t \in Exec
             /\ \E n \in SelectEnclaves(ReqID[t], nodes) :
                  th' = [th EXCEPT ![t].pc = "fetch", ![t].entry = n,
                                   ![t].list = <<>>]
    <3>1. PICK n : th' = [th EXCEPT ![t].pc = "fetch", ![t].entry = n,
                                    ![t].list = <<>>]
      BY <2>2
    <3> DEFINE r == [th[t] EXCEPT !.pc = "fetch", !.entry = n, !.list = <<>>]
    <3>2. /\ DOMAIN th' = Thread /\ \A u \in Thread : u # t => th'[u] = th[u]
          /\ th'[t] = r
      BY <3>1 DEF IInv
    <3>3. /\ DOMAIN r = Fields /\ r.pc = "fetch" /\ r.sent = th[t].sent
          /\ r.ref = th[t].ref /\ r.refs = th[t].refs /\ r.reqs = th[t].reqs
      BY <1>0 DEF Fields
    <3> HIDE DEF r
    <3>4. RefsGood(r) /\ SharesGood(r)
      BY <1>0, <1>6, <2>2, <3>3 DEF RefsGood, SharesGood, Select
    <3>5. QED
      BY <1>a, <3>2, <3>3, <3>4, OneThread
  <2>3. CASE Failed(t, FALSE)
    BY <1>a, <2>3, FailedKeeps
  <2>4. QED
    BY <1>6, <2>1, <2>2, <2>3 DEF Select
<1>7. QED
  BY <1>1, <1>2, <1>3, <1>4, <1>5, <1>6 DEF ThreadStep

-----------------------------------------------------------------------------
\* A step of execution x after which x is in good order.
LEMMA TurnKeeps ==
    ASSUME IInv, NEW x \in Exec, NEW r, th'[x] = r, DOMAIN th' = Thread,
           \A u \in Thread : u # x => th'[u] = th[u],
           DOMAIN r = Fields, RefsGood(r), SharesGood(r), CacheInv'
    PROVE  IInv'
  BY OneThread DEF Thread

\* GetPublicKeys.
LEMMA FetchKeyKeeps ==
    ASSUME IInv, NEW x \in Exec, FetchKey(x), CacheInv'
    PROVE  IInv'
<1>0. /\ DOMAIN th[x] = Fields /\ RefsGood(th[x]) /\ x \in Thread
      /\ th[x].pc = "fetch"
  BY DEF IInv, FetchKey, Thread
<1>1. CASE \E pc \in {"params", "vault"} : \E k :
               th' = [th EXCEPT ![x].pc = pc, ![x].key = k]
  <2>0. PICK pc \in {"params", "vault"} :
               \E k : th' = [th EXCEPT ![x].pc = pc, ![x].key = k]
    BY <1>1
  <2>1. PICK k : th' = [th EXCEPT ![x].pc = pc, ![x].key = k]
    BY <2>0
  <2> DEFINE r == [th[x] EXCEPT !.pc = pc, !.key = k]
  <2>2. /\ DOMAIN th' = Thread /\ \A u \in Thread : u # x => th'[u] = th[u]
        /\ th'[x] = r
    BY <1>0, <2>1 DEF IInv
  <2>3. /\ DOMAIN r = Fields /\ r.pc = pc /\ r.sent = th[x].sent
        /\ r.ref = th[x].ref /\ r.refs = th[x].refs /\ r.reqs = th[x].reqs
    BY <1>0 DEF Fields
  <2> HIDE DEF r
  <2>4. RefsGood(r) /\ SharesGood(r)
    BY <1>0, <2>3 DEF RefsGood, SharesGood
  <2>5. QED
    BY <2>2, <2>3, <2>4, TurnKeeps
<1>2. CASE Failed(x, FALSE)
  BY <1>0, <1>2, FailedKeeps
<1>3. QED
  <2> DEFINE n == th[x].entry
  <2>1. \/ th' = [th EXCEPT ![x].pc = "params", ![x].key = NewestKey(n.id)]
        \/ th' = [th EXCEPT ![x].pc = "vault", ![x].key = keyCache[n.id]]
        \/ Failed(x, FALSE)
    BY DEF FetchKey
  <2> HIDE DEF n
  <2>2. QED
    BY <1>1, <1>2, <2>1

\* A batch served from the cache is coherent: the cached entries are of one
\* generation if they have one master key.
LEMMA SharesAtHandKeeps ==
    ASSUME IInv, NEW x \in Exec, SharesAtHand(x), CacheInv'
    PROVE  IInv'
<1> DEFINE C == Cached(x)
           m == IF C = {} THEN NoKey ELSE (CHOOSE c \in C : TRUE).mpk
           r == [th[x] EXCEPT !.pc = "send", !.sent = TRUE, !.shares = C, !.mpk = m]
<1>0. /\ DOMAIN th[x] = Fields /\ RefsGood(th[x]) /\ x \in Thread
      /\ th[x].pc = "vault" /\ CacheInv
  BY DEF IInv, SharesAtHand, Thread
<1>1. /\ DOMAIN th' = Thread /\ \A u \in Thread : u # x => th'[u] = th[u]
      /\ th'[x] = r
  BY <1>0 DEF IInv, SharesAtHand
<1>2. /\ DOMAIN r = Fields /\ r.pc = "send" /\ r.sent = TRUE
      /\ r.ref = th[x].ref /\ r.refs = th[x].refs /\ r.reqs = th[x].reqs
      /\ r.secrets = th[x].secrets /\ r.key = th[x].key
      /\ r.shares = C /\ r.mpk = m
  BY <1>0 DEF Fields
<1>3. \A c \in C : c \in secretsCache /\ c.secret \in th[x].secrets /\ c.key = th[x].key
  BY DEF Cached
<1>4. /\ \A s \in th[x].secrets : \E c \in C : c.secret = s
      /\ \A c, d \in C : c.mpk = d.mpk
  BY <1>3 DEF SharesAtHand, Servable, AllCached, CachedPublicKeysMatch
<1>5. \A c \in C : c.mpk = m
  BY <1>4
<1> HIDE DEF r, m, C
<1>6. RefsGood(r)
  BY <1>0, <1>2 DEF RefsGood
<1>7. SharesGood(r)
  BY <1>0, <1>2, <1>3, <1>4, <1>5 DEF SharesGood, Coherent, CacheInv
<1>8. QED
  BY <1>1, <1>2, <1>6, <1>7, TurnKeeps

\* The request to the VaultDON adds the current reference, which is new.
LEMMA AskVaultKeeps ==
    ASSUME IInv, NEW x \in Exec, AskVault(x), CacheInv'
    PROVE  IInv'
<1> DEFINE r == [th[x] EXCEPT !.pc = "asked", !.sent = TRUE,
                              !.caching = capConfig.cache,
                              !.refs = th[x].refs \cup {th[x].ref},
                              !.reqs = th[x].reqs + 1]
<1>0. /\ DOMAIN th[x] = Fields /\ RefsGood(th[x]) /\ x \in Thread
      /\ th[x].pc = "vault"
  BY DEF IInv, AskVault, Thread
<1>1. /\ DOMAIN th' = Thread /\ \A u \in Thread : u # x => th'[u] = th[u]
      /\ th'[x] = r
  BY <1>0 DEF IInv, AskVault, Fields
<1>2. /\ DOMAIN r = Fields /\ r.pc = "asked" /\ r.sent = TRUE
      /\ r.ref = th[x].ref /\ r.refs = th[x].refs \cup {th[x].ref}
      /\ r.reqs = th[x].reqs + 1
  BY <1>0 DEF Fields
<1> HIDE DEF r
<1>3. /\ th[x].ref \in Nat /\ th[x].reqs \in Nat
      /\ th[x].refs \subseteq 0 .. th[x].ref
      /\ Cardinality(th[x].refs) = th[x].reqs
      /\ th[x].ref \notin th[x].refs
  BY <1>0 DEF RefsGood
<1>4. IsFiniteSet(th[x].refs)
  <2>1. IsFiniteSet(0 .. th[x].ref)
    BY <1>3, FS_Interval
  <2>2. QED
    BY <1>3, <2>1, FS_Subset
<1>5. Cardinality(th[x].refs \cup {th[x].ref}) = th[x].reqs + 1
  BY <1>3, <1>4, FS_AddElement
<1>6. RefsGood(r)
  <2>1. r.refs \subseteq 0 .. r.ref /\ r.ref \in Nat /\ r.reqs \in Nat
    BY <1>2, <1>3
  <2>2. Cardinality(r.refs) = r.reqs
    BY <1>2, <1>5
  <2>3. QED
    BY <1>2, <2>1, <2>2 DEF RefsGood
<1>7. SharesGood(r)
  BY <1>2 DEF SharesGood
<1>8. QED
  BY <1>1, <1>2, <1>6, <1>7, TurnKeeps

\* The answer of the VaultDON is one share set for each secret, of its current
\* generation.
LEMMA VaultAnswersKeeps ==
    ASSUME IInv, NEW x \in Exec, VaultAnswers(x), CacheInv'
    PROVE  IInv'
<1>0. /\ DOMAIN th[x] = Fields /\ RefsGood(th[x]) /\ x \in Thread
      /\ th[x].pc = "asked"
  BY DEF IInv, VaultAnswers, Thread
<1> DEFINE pc == IF th[x].caching THEN "store" ELSE "send"
           todo == {s \in th[x].secrets : th[x].caching}
           S(mpk) == {[secret |-> s, key |-> th[x].key, gen |-> gen, mpk |-> mpk] :
                        s \in th[x].secrets}
<1>1. PICK mpk \in {NoKey, gen} :
         th' = [th EXCEPT ![x].pc = pc, ![x].mpk = mpk, ![x].caching = FALSE,
                          ![x].todo = todo, ![x].shares = S(mpk)]
  BY DEF VaultAnswers
<1> DEFINE r == [th[x] EXCEPT !.pc = pc, !.mpk = mpk, !.caching = FALSE,
                              !.todo = todo, !.shares = S(mpk)]
<1>2. /\ DOMAIN th' = Thread /\ \A u \in Thread : u # x => th'[u] = th[u]
      /\ th'[x] = r
  <2> HIDE DEF pc, todo, S
  <2> QED BY <1>0, <1>1 DEF IInv
<1>3. /\ DOMAIN r = Fields /\ r.pc = pc /\ r.sent = th[x].sent
      /\ r.ref = th[x].ref /\ r.refs = th[x].refs /\ r.reqs = th[x].reqs
      /\ r.secrets = th[x].secrets /\ r.key = th[x].key
      /\ r.shares = S(mpk) /\ r.mpk = mpk
  <2> HIDE DEF pc, todo, S
  <2> QED BY <1>0 DEF Fields
<1>4. pc \in {"store", "send"}
  OBVIOUS
<1> HIDE DEF r, pc, todo
<1>5. RefsGood(r)
  BY <1>0, <1>3, <1>4 DEF RefsGood
<1>6. /\ \A s \in th[x].secrets : \E c \in S(mpk) : c.secret = s
      /\ \A c \in S(mpk) : c.key = th[x].key /\ c.mpk = mpk /\ c.gen = gen
      /\ \A c, d \in S(mpk) : c.secret = d.secret => c = d
  <2>1. ASSUME NEW s \in th[x].secrets
        PROVE  \E c \in S(mpk) : c.secret = s
    <3> DEFINE c == [secret |-> s, key |-> th[x].key, gen |-> gen, mpk |-> mpk]
    <3>1. c \in S(mpk) /\ c.secret = s
      OBVIOUS
    <3> HIDE DEF c, S
    <3>2. QED
      BY <3>1
  <2>2. /\ \A c \in S(mpk) : c.key = th[x].key /\ c.mpk = mpk /\ c.gen = gen
        /\ \A c, d \in S(mpk) : c.secret = d.secret => c = d
    OBVIOUS
  <2> HIDE DEF S
  <2>3. QED
    BY <2>1, <2>2
<1>7. SharesGood(r)
  <2> HIDE DEF S
  <2> QED BY <1>3, <1>6 DEF SharesGood, Coherent
<1>8. QED
  BY <1>2, <1>3, <1>5, <1>7, TurnKeeps

\* Caching a share set replaces the one under its secret and key.
LEMMA CacheShareKeeps ==
    ASSUME IInv, NEW x \in Exec, CacheShare(x)
    PROVE  IInv'
<1>0. /\ DOMAIN th[x] = Fields /\ RefsGood(th[x]) /\ x \in Thread
      /\ th[x].pc = "store" /\ Coherent(th[x]) /\ CacheInv
  BY DEF IInv, CacheShare, Thread, SharesGood
<1>1. PICK c \in th[x].shares :
         /\ secretsCache' = {d \in secretsCache :
                               ~(d.secret = c.secret /\ d.key = c.key)} \cup {c}
         /\ th' = [th EXCEPT ![x].todo = @ \ {c.secret},
                             ![x].pc = IF th[x].todo = {c.secret}
                                       THEN "send" ELSE "store"]
  BY DEF CacheShare
<1>2. CacheInv'
  <2>1. c.mpk # NoKey => c.gen = c.mpk
    BY <1>0 DEF Coherent
  <2>2. QED
    BY <1>0, <1>1, <2>1 DEF CacheInv
<1> DEFINE pc == IF th[x].todo = {c.secret} THEN "send" ELSE "store"
           r == [th[x] EXCEPT !.todo = th[x].todo \ {c.secret}, !.pc = pc]
<1>3. /\ DOMAIN th' = Thread /\ \A u \in Thread : u # x => th'[u] = th[u]
      /\ th'[x] = r
  BY <1>0, <1>1 DEF IInv, Fields
<1>4. /\ DOMAIN r = Fields /\ r.pc = pc /\ r.sent = th[x].sent
      /\ r.ref = th[x].ref /\ r.refs = th[x].refs /\ r.reqs = th[x].reqs
      /\ r.secrets = th[x].secrets /\ r.key = th[x].key
      /\ r.shares = th[x].shares /\ r.mpk = th[x].mpk
  <2> HIDE DEF pc
  <2> QED BY <1>0 DEF Fields
<1>5. pc \in {"store", "send"}
  OBVIOUS
<1> HIDE DEF r, pc
<1>6. RefsGood(r)
  BY <1>0, <1>4, <1>5 DEF RefsGood
<1>7. SharesGood(r)
  BY <1>0, <1>4 DEF SharesGood, Coherent
<1>8. QED
  BY <1>2, <1>3, <1>4, <1>6, <1>7, TurnKeeps

\* ExecuteBatch's lookup keeps what will be sent.
LEMMA SendKeeps ==
    ASSUME IInv, NEW x \in Exec, Send(x), CacheInv'
    PROVE  IInv'
<1>0. /\ DOMAIN th[x] = Fields /\ RefsGood(th[x]) /\ x \in Thread
      /\ th[x].pc = "send" /\ Coherent(th[x])
  BY DEF IInv, Send, Thread, SharesGood
<1>1. CASE Failed(x, FALSE)
  BY <1>0, <1>1, FailedKeeps
<1>2. CASE \E n : th' = [th EXCEPT ![x].pc = "sent", ![x].entry = n]
  <2>1. PICK n : th' = [th EXCEPT ![x].pc = "sent", ![x].entry = n]
    BY <1>2
  <2> DEFINE r == [th[x] EXCEPT !.pc = "sent", !.entry = n]
  <2>2. /\ DOMAIN th' = Thread /\ \A u \in Thread : u # x => th'[u] = th[u]
        /\ th'[x] = r
    BY <1>0, <2>1 DEF IInv
  <2>3. /\ DOMAIN r = Fields /\ r.pc = "sent" /\ r.sent = th[x].sent
        /\ r.ref = th[x].ref /\ r.refs = th[x].refs /\ r.reqs = th[x].reqs
        /\ r.secrets = th[x].secrets /\ r.key = th[x].key
        /\ r.shares = th[x].shares /\ r.mpk = th[x].mpk
    BY <1>0 DEF Fields
  <2> HIDE DEF r
  <2>4. RefsGood(r) /\ SharesGood(r)
    BY <1>0, <2>3 DEF RefsGood, SharesGood, Coherent
  <2>5. QED
    BY <2>2, <2>3, <2>4, TurnKeeps
<1>3. QED
  BY <1>1, <1>2 DEF Send

\* The steps of an execution after the enclave list is fresh.
LEMMA ExecStepKeeps ==
    ASSUME IInv, NEW x \in Exec, ExecStep(x)
    PROVE  IInv'
<1>0. x \in Thread /\ RefsGood(th[x])
  BY DEF Thread, IInv
<1>a. ASSUME ~CacheShare(x) PROVE CacheInv'
  BY <1>a DEF ExecStep, FetchKey, CacheKey, WrongSigners, SharesAtHand, AskVault,
         VaultAnswers, VaultFails, SignFails, Send, Succeed, ExecuteFails,
         Backoff, Local, IInv, CacheInv
<1>1. CASE CacheShare(x)
  BY <1>1, CacheShareKeeps
<1>2. CASE ~CacheShare(x)
  <2>0. CacheInv'
    BY <1>2, <1>a
  <2>1. CASE FetchKey(x)
    BY <2>0, <2>1, FetchKeyKeeps
  <2>2. CASE CacheKey(x)
    BY <1>0, <2>0, <2>2, GotoKeeps DEF CacheKey, RefsGood
  <2>3. CASE WrongSigners(x)
    BY <1>0, <2>0, <2>3, FailedKeeps DEF WrongSigners
  <2>4. CASE SharesAtHand(x)
    BY <2>0, <2>4, SharesAtHandKeeps
  <2>5. CASE AskVault(x)
    BY <2>0, <2>5, AskVaultKeeps
  <2>6. CASE VaultAnswers(x)
    BY <2>0, <2>6, VaultAnswersKeeps
  <2>7. CASE VaultFails(x)
    BY <1>0, <2>0, <2>7, FailedKeeps, FinishKeeps DEF VaultFails
  <2>8. CASE SignFails(x)
    BY <1>0, <2>0, <2>8, FailedKeeps DEF SignFails
  <2>9. CASE Send(x)
    BY <2>0, <2>9, SendKeeps
  <2>10. CASE Succeed(x)
    BY <2>0, <2>10, FinishKeeps DEF Succeed
  <2>11. CASE ExecuteFails(x)
    BY <1>0, <2>0, <2>11, FailedKeeps, FinishKeeps DEF ExecuteFails
  <2>12. CASE Backoff(x)
    BY <1>0, <2>0, <2>12, GotoKeeps, FinishKeeps DEF Backoff
  <2>13. QED
    BY <1>2, <2>1, <2>2, <2>3, <2>4, <2>5, <2>6, <2>7, <2>8, <2>9, <2>10,
       <2>11, <2>12 DEF ExecStep
<1>3. QED
  BY <1>1, <1>2

\* Execute begins.
LEMMA BeginKeeps ==
    ASSUME IInv, NEW x \in Exec, Begin(x)
    PROVE  IInv'
<1>0. x \in Thread /\ CacheInv'
  BY DEF Thread, IInv, Begin, CacheInv
<1>1. CASE \E out : Finish(x, out)
  BY <1>0, <1>1, FinishKeeps
<1>2. CASE \E S \in SecretSets :
             th' = [th EXCEPT ![x] = [Idle EXCEPT !.pc = "attempt", !.secrets = S,
                                                  !.retries = limits.retries]]
  <2>1. PICK S : th' = [th EXCEPT ![x] = [Idle EXCEPT !.pc = "attempt",
                                    !.secrets = S, !.retries = limits.retries]]
    BY <1>2
  <2> DEFINE r == [Idle EXCEPT !.pc = "attempt", !.secrets = S,
                               !.retries = limits.retries]
  <2>2. /\ DOMAIN th' = Thread /\ \A u \in Thread : u # x => th'[u] = th[u]
        /\ th'[x] = r
    BY <1>0, <2>1 DEF IInv
  <2>3. DOMAIN r = Fields /\ RefsGood(r) /\ SharesGood(r)
    BY FS_EmptySet DEF Idle, RefsGood, SharesGood, Fields
  <2> HIDE DEF r
  <2>4. QED
    BY <1>0, <2>2, <2>3, TurnKeeps
<1>3. QED
  BY <1>1, <1>2 DEF Begin

-----------------------------------------------------------------------------
\* Every step preserves the inductive invariant.
LEMMA NextIInv == IInv /\ [Next]_vars => IInv'
<1> SUFFICES ASSUME IInv, [Next]_vars PROVE IInv'
  OBVIOUS
<1>1. CASE \E t \in Thread : ThreadStep(t)
  BY <1>1, ThreadStepKeeps
<1>2. CASE \E x \in Exec : Begin(x) \/ ExecStep(x)
  BY <1>2, BeginKeeps, ExecStepKeeps
<1>3. CASE ShareExpires
  <2>1. th' = th /\ secretsCache' \subseteq secretsCache
    BY <1>3 DEF ShareExpires
  <2>2. QED
    BY <2>1 DEF IInv, CacheInv
<1>4. CASE \/ CloseBegin \/ CloseLoop \/ CloseReturns \/ RegistryChanges
           \/ LimitsChange \/ Reshare \/ EnclaveStep \/ PoolStep
           \/ UNCHANGED vars
  <2>1. th' = th /\ secretsCache' = secretsCache
    BY <1>4 DEF CloseBegin, CloseLoop, CloseReturns, RegistryChanges,
        LimitsChange, Reshare, EnclaveStep, PoolStep, execVars, vars
  <2>2. QED
    BY <2>1 DEF IInv, CacheInv
<1>5. QED
  BY <1>1, <1>2, <1>3, <1>4 DEF Next

\* The inductive invariant holds in every reachable state.
LEMMA Invariant == Spec => []IInv
<1>1. Init => IInv
  BY InitIInv
<1>2. IInv /\ [Next]_vars => IInv'
  BY NextIInv
<1>3. QED
  BY <1>1, <1>2, PTL DEF Spec

\* However often an execution is retried, and wherever its attempts fail, it
\* asks the VaultDON under a new reference each time (executor.go, Execute and
\* GetEncryptedDecryptionShares).
THEOREM ReferencesFresh == Spec => []FreshVaultReference
<1>1. IInv => FreshVaultReference
  BY DEF IInv, FreshVaultReference, RefsGood
<1>2. QED
  BY <1>1, Invariant, PTL

\* For any number of executions, secrets and reshares of the VaultDON, and
\* however cached shares expire, what is sent to an enclave is one share set for
\* each secret, under one ephemeral key and one master key.
THEOREM RequestsCoherent == Spec => []RequestCoherent
<1>1. IInv => RequestCoherent
  BY DEF IInv, RequestCoherent, SharesGood, Coherent
<1>2. QED
  BY <1>1, Invariant, PTL

-----------------------------------------------------------------------------
\* The types.  An attempt is one of those the limit allows, and an execution
\* has used at most as many references as it has made attempts.
Busy == {"update", "commit", "publish", "fresh", "fetch", "params", "vault",
         "asked", "store", "send", "sent"}

Used(r) == r.ref + (IF r.sent THEN 1 ELSE 0)

Counted(r) ==
    /\ r.ref \in Nat /\ r.sent \in BOOLEAN
    /\ r.retries \in 0 .. MaxRetries /\ r.tries \in 0 .. r.retries
    /\ r.pc \in Busy => r.tries < r.retries /\ r.ref <= r.tries
    /\ r.pc \notin Busy => Used(r) <= r.tries
    /\ r.pc = "attempt" => r.tries < r.retries

\* What an execution holds at each stage of an attempt.
Held(r) ==
    /\ r.list \in Lists \cup {<<>>}
    /\ r.pc \in {"update", "commit", "publish"} => r.list \in Lists
    /\ r.entry \in Entry \cup {None} /\ r.key \in Key \cup {None}
    /\ r.pc \in {"fetch", "params", "vault", "asked", "store", "send", "sent"}
          => r.entry \in Entry
    /\ r.pc \in {"params", "vault", "asked", "store", "send", "sent"} => r.key \in Key
    /\ r.secrets \subseteq UNION SecretSets
    /\ r.shares \subseteq Share /\ r.mpk \in 0 .. MaxGen

\* The refresh loop makes no requests.
LoopState(r) ==
    /\ r.ref = 0 /\ r.sent = FALSE /\ r.refs = {} /\ r.tries = 0 /\ r.retries = 0
    /\ r.pc \in {"idle", "update", "commit", "publish", "fresh"}

ThreadsOK ==
    /\ \A t \in Thread : Held(th[t])
    /\ \A x \in Exec : Counted(th[x])
    /\ LoopState(th[Loop])

PoolOK ==
    /\ nodes \in Lists \cup {<<>>}
    /\ keyCache \in [Enclave -> Key \cup {None}]
    /\ dead \subseteq Enclave /\ up \subseteq Enclave
    /\ lastKey \in [Enclave -> 1 .. MaxKey]
    /\ refreshing \subseteq [by : {"ticker", "update"}, entry : Entry,
                             key : Key \cup {None}]

SharedOK ==
    /\ enclaves \in Lists \cup {<<>>} /\ registry \in Lists
    /\ secretsCache \subseteq Share /\ gen \in 1 .. MaxGen
    /\ closing \in {"open", "loop", "pool", "done"}
    /\ limits \in Limits /\ capConfig \in Limits

TInv == ThreadsOK /\ PoolOK /\ SharedOK

\* The initial states are well typed.
LEMMA InitTInv == Init => TInv
<1> SUFFICES ASSUME Init PROVE TInv
  OBVIOUS
<1>1. /\ th = [t \in Thread |-> Idle] /\ Loop \in Thread /\ Exec \subseteq Thread
      /\ MaxRetries \in Nat /\ MaxGen \in Nat \ {0}
  BY ExecutorConstants DEF Init, Thread
<1>2. ThreadsOK
  <2>1. Held(Idle)
    BY <1>1 DEF Held, Idle, NoKey
  <2>2. Counted(Idle)
    BY <1>1 DEF Counted, Idle, Busy, Used
  <2>3. LoopState(Idle)
    BY DEF LoopState, Idle
  <2>4. QED
    BY <1>1, <2>1, <2>2, <2>3 DEF ThreadsOK
<1>3. PoolOK
  <2>1. 1 \in 1 .. MaxKey
    BY PoolConstants
  <2>2. QED
    BY <2>1 DEF Init, PoolInit, EnclaveInit, PoolOK
<1>4. SharedOK
  BY <1>1 DEF Init, SharedOK
<1>5. QED
  BY <1>2, <1>3, <1>4 DEF TInv

\* A step of one thread.
LEMMA OneThreadOK ==
    ASSUME ThreadsOK, NEW t \in Thread, DOMAIN th' = Thread,
           \A u \in Thread : u # t => th'[u] = th[u],
           Held(th'[t]),
           t \in Exec => Counted(th'[t]),
           t = Loop => LoopState(th'[t])
    PROVE  ThreadsOK'
  BY DEF ThreadsOK, Thread

\* Within an attempt nothing is counted.
LEMMA SameAttempt ==
    ASSUME NEW r, NEW s, Counted(r), r.pc \in Busy, s.pc \in Busy,
           s.ref = r.ref, s.sent \in BOOLEAN, s.tries = r.tries, s.retries = r.retries
    PROVE  Counted(s)
<1>1. s.pc # "attempt"
  BY DEF Busy
<1>2. QED
  BY <1>1 DEF Counted

\* Execute returns.
LEMMA FinishOK ==
    ASSUME IInv, ThreadsOK, NEW x \in Exec, NEW out, Finish(x, out)
    PROVE  ThreadsOK'
<1> DEFINE r == [Idle EXCEPT !.pc = "done", !.out = out]
<1>1. th' = [th EXCEPT ![x] = r] /\ x \in Thread /\ x # Loop
  BY ExecutorConstants DEF Finish, Thread
<1>2. Held(r) /\ Counted(r)
  BY ExecutorConstants DEF Idle, Held, Counted, Busy, Used, NoKey
<1>3. th'[x] = r /\ DOMAIN th' = Thread /\ \A u \in Thread : u # x => th'[u] = th[u]
  BY <1>1 DEF IInv
<1>4. QED
  BY <1>1, <1>2, <1>3, OneThreadOK

\* An attempt fails and is counted.
LEMMA FailedOK ==
    ASSUME IInv, ThreadsOK, NEW t \in Thread, NEW late, Failed(t, late),
           th[t].pc \in Busy
    PROVE  ThreadsOK'
<1>1. DOMAIN th' = Thread /\ \A u \in Thread : u # t => th'[u] = th[u]
  BY DEF Failed, IInv
<1>2. CASE t = Loop
  <2>1. th'[t] = Idle /\ t \notin Exec
    BY <1>2, ExecutorConstants DEF Failed, IInv
  <2>2. Held(Idle) /\ LoopState(Idle)
    BY ExecutorConstants DEF Idle, Held, LoopState, NoKey
  <2>3. QED
    BY <1>1, <1>2, <2>1, <2>2, OneThreadOK
<1>3. CASE t # Loop
  <2>1. t \in Exec /\ DOMAIN th[t] = Fields /\ Counted(th[t]) /\ Held(th[t])
    BY <1>3 DEF Thread, IInv, ThreadsOK
  <2>2. /\ th'[t].pc = "backoff" /\ th'[t].tries = th[t].tries + 1
        /\ th'[t].retries = th[t].retries
        /\ th'[t].ref = th[t].ref /\ th'[t].sent = th[t].sent
        /\ th'[t].list = <<>> /\ th'[t].entry = None /\ th'[t].key = None
        /\ th'[t].shares = {} /\ th'[t].mpk = NoKey
        /\ th'[t].secrets = th[t].secrets
    <3>0. th[t].tries \in Int
      BY <2>1 DEF Counted
    <3>a. th'[t].tries = th[t].tries + 1
      BY <1>3, <2>1, <3>0 DEF Failed, IInv, Fields
    <3>1. /\ th'[t].pc = "backoff" /\ th'[t].retries = th[t].retries
          /\ th'[t].ref = th[t].ref /\ th'[t].sent = th[t].sent
      BY <1>3, <2>1 DEF Failed, IInv, Fields
    <3>2. /\ th'[t].list = <<>> /\ th'[t].entry = None /\ th'[t].key = None
      BY <1>3, <2>1 DEF Failed, IInv, Fields
    <3>3. /\ th'[t].shares = {} /\ th'[t].mpk = NoKey
          /\ th'[t].secrets = th[t].secrets
      BY <1>3, <2>1 DEF Failed, IInv, Fields
    <3>4. QED
      BY <3>a, <3>1, <3>2, <3>3
  <2>3. Counted(th'[t])
    <3>1. /\ th[t].tries \in Nat /\ th[t].retries \in 0 .. MaxRetries
          /\ th[t].tries < th[t].retries
          /\ th[t].ref <= th[t].tries /\ th[t].ref \in Nat /\ th[t].sent \in BOOLEAN
      BY <2>1, ExecutorConstants DEF Counted
    <3>2. Used(th'[t]) <= th'[t].tries
      BY <2>2, <3>1 DEF Used
    <3>3. "backoff" \notin Busy
      BY DEF Busy
    <3>4. th'[t].tries \in 0 .. th'[t].retries
      BY <2>2, <3>1, ExecutorConstants
    <3>5. QED
      BY <2>2, <3>1, <3>2, <3>3, <3>4 DEF Counted
  <2>4. Held(th'[t])
    BY <2>1, <2>2, ExecutorConstants DEF Held, NoKey
  <2>5. QED
    BY <1>1, <1>3, <2>1, <2>3, <2>4, OneThreadOK
<1>4. QED
  BY <1>2, <1>3

\* Only the program counter changes, within an attempt.
LEMMA GotoOK ==
    ASSUME IInv, ThreadsOK, NEW t \in Thread, NEW pc, Goto(t, pc),
           th[t].pc \in Busy, pc \in Busy \ {"update"},
           pc \in {"commit", "publish"} => th[t].list \in Lists,
           pc \in {"commit", "publish", "fresh", "vault"},
           pc = "vault" => t \in Exec /\ th[t].entry \in Entry /\ th[t].key \in Key
    PROVE  ThreadsOK'
<1>1. /\ DOMAIN th' = Thread /\ \A u \in Thread : u # t => th'[u] = th[u]
      /\ th'[t] = [th[t] EXCEPT !.pc = pc] /\ DOMAIN th[t] = Fields
      /\ Held(th[t])
  BY DEF Goto, IInv, ThreadsOK
<1>2. /\ th'[t].pc = pc /\ th'[t].tries = th[t].tries
      /\ th'[t].retries = th[t].retries
      /\ th'[t].ref = th[t].ref /\ th'[t].sent = th[t].sent
      /\ th'[t].list = th[t].list /\ th'[t].entry = th[t].entry
      /\ th'[t].key = th[t].key /\ th'[t].refs = th[t].refs
      /\ th'[t].shares = th[t].shares /\ th'[t].mpk = th[t].mpk
      /\ th'[t].secrets = th[t].secrets
  BY <1>1 DEF Fields
<1>3. Held(th'[t])
  BY <1>1, <1>2 DEF Held
<1>4. ASSUME t \in Exec PROVE Counted(th'[t])
  <2>1. Counted(th[t]) /\ th[t].sent \in BOOLEAN
    BY <1>4 DEF ThreadsOK, Counted
  <2>2. QED
    BY <1>2, <2>1, SameAttempt
<1>5. ASSUME t = Loop PROVE LoopState(th'[t])
  <2>1. LoopState(th[t]) /\ t \notin Exec
    BY <1>5, ExecutorConstants DEF ThreadsOK
  <2>2. QED
    BY <1>2, <2>1 DEF LoopState
<1>6. QED
  BY <1>1, <1>3, <1>4, <1>5, OneThreadOK

\* SelectEnclaves returns an entry of the list.
LEMMA ListedEntry ==
    ASSUME NEW list \in Lists \cup {<<>>}
    PROVE  /\ Entries(list) \subseteq Entry
           /\ \A k \in Nat : SelectEnclaves(k, list) \subseteq Entry
<1>1. list \in Seq(Entry)
  <2>1. <<>> \in Seq(Entry)
    OBVIOUS
  <2>2. QED
    BY <2>1, PoolConstants
<1>2. Entries(list) \subseteq Entry
  BY <1>1 DEF Entries
<1>3. ASSUME NEW k \in Nat, NEW o \in 0 .. Len(list) - 1
      PROVE  list[Slot(k, list, o)] \in Entry
  <2>1. Len(list) \in Nat /\ Len(list) > 0 /\ k + o \in Nat
    BY <1>1
  <2>2. (k + o) % Len(list) \in 0 .. Len(list) - 1
    BY <2>1
  <2>3. Slot(k, list, o) \in 1 .. Len(list)
    BY <2>1, <2>2 DEF Slot
  <2>4. QED
    BY <1>1, <2>3
<1>4. QED
  BY <1>2, <1>3 DEF SelectEnclaves

\* The steps that executions and the refresh loop share.
LEMMA ThreadStepTypes ==
    ASSUME IInv, TInv, NEW t \in Thread, ThreadStep(t)
    PROVE  TInv'
<1> USE DEF TInv
<1>0. /\ DOMAIN th = Thread /\ DOMAIN th[t] = Fields /\ Held(th[t])
      /\ t \in Exec => Counted(th[t])
      /\ t = Loop => LoopState(th[t])
  BY DEF IInv, ThreadsOK
<1>a. ASSUME Local PROVE PoolOK' /\ SharedOK'
  BY <1>a DEF Local, poolVars, enclaveVars, PoolOK, SharedOK
<1>b. {"update", "fresh", "commit", "publish"} \subseteq Busy
  BY DEF Busy
<1>1. CASE Attempt(t)
  <2> DEFINE ref == th[t].ref + (IF th[t].sent THEN 1 ELSE 0)
             now == [th[t] EXCEPT !.ref = ref, !.sent = FALSE]
             r == [now EXCEPT !.pc = "update", !.list = GetEnclaveNodes]
  <2>1. /\ th' = [th EXCEPT ![t] = r] /\ Local
        /\ \/ t \in Exec /\ th[t].pc = "attempt"
           \/ t = Loop /\ th[t].pc = "idle"
    BY <1>1 DEF Attempt
  <2>2. /\ DOMAIN th' = Thread /\ \A u \in Thread : u # t => th'[u] = th[u]
        /\ th'[t] = r
    BY <1>0, <2>1
  <2>3. /\ r.pc = "update" /\ r.sent = FALSE /\ r.ref = ref /\ r.refs = th[t].refs
        /\ r.tries = th[t].tries /\ r.retries = th[t].retries
    BY <1>0 DEF Fields
  <2>4. /\ r.list = registry /\ r.entry = th[t].entry /\ r.key = th[t].key
        /\ r.secrets = th[t].secrets /\ r.shares = th[t].shares /\ r.mpk = th[t].mpk
    BY <1>0 DEF Fields, GetEnclaveNodes
  <2> HIDE DEF r, now
  <2>5. Held(r)
    BY <1>0, <2>3, <2>4 DEF Held, SharedOK
  <2>6. ASSUME t \in Exec PROVE Counted(r)
    <3>1. th[t].pc = "attempt" /\ "attempt" \notin Busy /\ Counted(th[t])
      BY <1>0, <2>1, <2>6, ExecutorConstants DEF Busy
    <3>2. /\ ref <= th[t].tries /\ ref \in Nat /\ th[t].tries < th[t].retries
          /\ th[t].retries \in 0 .. MaxRetries /\ th[t].tries \in 0 .. th[t].retries
      BY <3>1 DEF Counted, Used
    <3> HIDE DEF ref
    <3>3. "update" \in Busy
      BY <1>b
    <3>4. QED
      BY <2>3, <3>2, <3>3 DEF Counted
  <2>7. ASSUME t = Loop PROVE LoopState(r)
    <3>1. ref = 0
      BY <1>0, <2>7 DEF LoopState
    <3> HIDE DEF ref
    <3>2. QED
      BY <1>0, <2>3, <2>7, <3>1 DEF LoopState
  <2>8. ThreadsOK'
    BY <2>2, <2>5, <2>6, <2>7, OneThreadOK
  <2>9. QED
    BY <1>a, <2>1, <2>8
<1>2. CASE RefreshFails(t)
  BY <1>2, <1>a, <1>b, FailedOK DEF RefreshFails
<1>3. CASE CheckNodes(t)
  <2>1. PICK pc \in {"publish", "commit", "fresh"} : Goto(t, pc)
    BY <1>3 DEF CheckNodes
  <2>2. th[t].pc \in Busy /\ pc \in Busy \ {"update"} /\ th[t].list \in Lists /\ Local
    BY <1>0, <1>3, <1>b DEF CheckNodes, Held
  <2>3. ThreadsOK'
    BY <2>1, <2>2, GotoOK
  <2>4. QED
    BY <1>a, <2>2, <2>3
<1>4. CASE Commit(t)
  <2>1. /\ th[t].pc = "commit" /\ CommitNodes(th[t].list) /\ Goto(t, "publish")
        /\ UNCHANGED <<enclaveVars, registry, changes, limits, capConfig, gen,
                       secretsCache, enclaves, initialized, loopOn, closing, calls>>
    BY <1>4 DEF Commit
  <2>2. th[t].pc \in Busy /\ "publish" \in Busy \ {"update"} /\ th[t].list \in Lists
    BY <1>0, <1>b, <2>1 DEF Held
  <2>3. ThreadsOK'
    BY <2>1, <2>2, GotoOK
  <2>4. SharedOK'
    BY <2>1 DEF SharedOK
  <2>5. PoolOK'
    <3>1. RefreshAllCachedKeys("update", th[t].list)
          \subseteq [by : {"ticker", "update"}, entry : Entry, key : Key \cup {None}]
      BY <2>2, ListedEntry DEF RefreshAllCachedKeys
    <3>2. /\ nodes' = th[t].list /\ keyCache' = [e \in Enclave |-> None]
          /\ refreshing' = refreshing \cup RefreshAllCachedKeys("update", th[t].list)
          /\ dead' = dead /\ up' = up /\ lastKey' = lastKey
      BY <2>1 DEF CommitNodes, enclaveVars
    <3>3. QED
      BY <2>2, <3>1, <3>2 DEF PoolOK
  <2>6. QED
    BY <2>3, <2>4, <2>5
<1>5. CASE Publish(t)
  <2>1. /\ th[t].pc = "publish" /\ enclaves' = th[t].list /\ Goto(t, "fresh")
        /\ UNCHANGED <<poolVars, enclaveVars, registry, changes, limits, capConfig,
                       gen, secretsCache, initialized, loopOn, closing, calls>>
    BY <1>5 DEF Publish
  <2>2. th[t].pc \in Busy /\ "fresh" \in Busy \ {"update"} /\ th[t].list \in Lists
    BY <1>0, <1>b, <2>1 DEF Held
  <2>3. ThreadsOK'
    BY <2>1, <2>2, GotoOK
  <2>4. SharedOK' /\ PoolOK'
    BY <2>1, <2>2 DEF SharedOK, PoolOK, poolVars, enclaveVars
  <2>5. QED
    BY <2>3, <2>4
<1>6. CASE Select(t)
  <2>0. Local /\ th[t].pc = "fresh" /\ th[t].pc \in Busy
    BY <1>6, <1>b DEF Select
  <2>1. CASE t = Loop /\ th' = [th EXCEPT ![t] = Idle]
    <3>1. /\ DOMAIN th' = Thread /\ \A u \in Thread : u # t => th'[u] = th[u]
          /\ th'[t] = Idle /\ t \notin Exec
      BY <1>0, <2>1, ExecutorConstants
    <3>2. Held(Idle) /\ LoopState(Idle)
      BY ExecutorConstants DEF Idle, Held, LoopState, NoKey
    <3>3. QED
      BY <1>a, <2>0, <3>1, <3>2, OneThreadOK
  <2>2. CASE /\ t \in Exec
             /\ \E n \in SelectEnclaves(ReqID[t], nodes) :
                  th' = [th EXCEPT ![t].pc = "fetch", ![t].entry = n,
                                   ![t].list = <<>>]
    <3>1. PICK n \in SelectEnclaves(ReqID[t], nodes) :
                th' = [th EXCEPT ![t].pc = "fetch", ![t].entry = n, ![t].list = <<>>]
      BY <2>2
    <3>2. n \in Entry
      <4>1. ReqID[t] \in Nat /\ nodes \in Lists \cup {<<>>}
        BY <2>2, ExecutorConstants DEF PoolOK
      <4>2. QED
        BY <3>1, <4>1, ListedEntry
    <3> DEFINE r == [th[t] EXCEPT !.pc = "fetch", !.entry = n, !.list = <<>>]
    <3>3. /\ DOMAIN th' = Thread /\ \A u \in Thread : u # t => th'[u] = th[u]
          /\ th'[t] = r
      BY <1>0, <3>1
    <3>4. /\ r.pc = "fetch" /\ r.sent = th[t].sent /\ r.ref = th[t].ref
          /\ r.tries = th[t].tries /\ r.retries = th[t].retries
      BY <1>0 DEF Fields
    <3>5. /\ r.list = <<>> /\ r.entry = n /\ r.key = th[t].key
          /\ r.secrets = th[t].secrets /\ r.shares = th[t].shares /\ r.mpk = th[t].mpk
      BY <1>0 DEF Fields
    <3> HIDE DEF r
    <3>6. Held(r)
      BY <1>0, <3>2, <3>4, <3>5 DEF Held
    <3>7. Counted(r)
      <4>1. "fetch" \in Busy /\ th[t].sent \in BOOLEAN /\ Counted(th[t])
        BY <1>0, <2>2 DEF Busy, Counted
      <4>2. QED
        BY <2>0, <3>4, <4>1, SameAttempt
    <3>8. t # Loop
      BY <2>2, ExecutorConstants
    <3>9. QED
      BY <1>a, <2>0, <3>3, <3>6, <3>7, <3>8, OneThreadOK
  <2>3. CASE Failed(t, FALSE)
    BY <1>a, <2>0, <2>3, FailedOK
  <2>4. QED
    BY <1>6, <2>1, <2>2, <2>3 DEF Select
<1>7. QED
  BY <1>1, <1>2, <1>3, <1>4, <1>5, <1>6 DEF ThreadStep

\* A step of execution x within an attempt.
LEMMA TurnOK ==
    ASSUME IInv, ThreadsOK, NEW x \in Exec, NEW r, th'[x] = r, DOMAIN th' = Thread,
           \A u \in Thread : u # x => th'[u] = th[u],
           th[x].pc \in Busy, r.pc \in Busy,
           r.ref = th[x].ref, r.sent = th[x].sent \/ r.sent = TRUE,
           r.tries = th[x].tries, r.retries = th[x].retries, Held(r)
    PROVE  ThreadsOK'
<1>1. x \in Thread /\ x # Loop /\ Counted(th[x])
  BY ExecutorConstants DEF Thread, ThreadsOK
<1>2. Counted(r)
  BY <1>1, SameAttempt DEF Counted
<1>3. QED
  BY <1>1, <1>2, OneThreadOK

\* GetPublicKeys returns a key of the enclave, its newest or the cached one.
LEMMA FetchKeyOK ==
    ASSUME IInv, TInv, NEW x \in Exec, FetchKey(x)
    PROVE  ThreadsOK'
<1> USE DEF TInv
<1>0. /\ DOMAIN th[x] = Fields /\ x \in Thread /\ th[x].pc = "fetch"
      /\ DOMAIN th = Thread /\ Held(th[x]) /\ th[x].pc \in Busy
  BY DEF IInv, FetchKey, Thread, ThreadsOK, Busy
<1>1. th[x].entry.id \in Enclave
  BY <1>0 DEF Held, Entry
<1>2. NewestKey(th[x].entry.id) \in Key
  BY <1>1 DEF NewestKey, Key, PoolOK
<1>3. ASSUME NEW pc \in {"params", "vault"}, NEW k \in Key,
             th' = [th EXCEPT ![x].pc = pc, ![x].key = k]
      PROVE  ThreadsOK'
  <2> DEFINE r == [th[x] EXCEPT !.pc = pc, !.key = k]
  <2>2. /\ DOMAIN th' = Thread /\ \A u \in Thread : u # x => th'[u] = th[u]
        /\ th'[x] = r
    BY <1>0, <1>3
  <2>3. /\ r.pc = pc /\ r.sent = th[x].sent /\ r.ref = th[x].ref
        /\ r.tries = th[x].tries /\ r.retries = th[x].retries
    BY <1>0 DEF Fields
  <2>4. /\ r.list = th[x].list /\ r.entry = th[x].entry /\ r.key = k
        /\ r.secrets = th[x].secrets /\ r.shares = th[x].shares /\ r.mpk = th[x].mpk
    BY <1>0 DEF Fields
  <2> HIDE DEF r
  <2>5. Held(r)
    BY <1>0, <2>3, <2>4 DEF Held
  <2>6. r.pc \in Busy
    BY <2>3 DEF Busy
  <2>7. QED
    BY <1>0, <2>2, <2>3, <2>5, <2>6, TurnOK
<1>4. CASE Failed(x, FALSE)
  BY <1>0, <1>4, FailedOK
<1>5. QED
  <2> DEFINE n == th[x].entry
  <2>1. \/ th' = [th EXCEPT ![x].pc = "params", ![x].key = NewestKey(n.id)]
        \/ /\ keyCache[n.id] # None
           /\ th' = [th EXCEPT ![x].pc = "vault", ![x].key = keyCache[n.id]]
        \/ Failed(x, FALSE)
    BY DEF FetchKey
  <2>2. keyCache[n.id] # None => keyCache[n.id] \in Key
    BY <1>1 DEF PoolOK
  <2>3. NewestKey(n.id) \in Key
    BY <1>2
  <2> HIDE DEF n
  <2>4. QED
    BY <1>3, <1>4, <2>1, <2>2, <2>3

\* The shares of a batch come from the cache, or from the VaultDON.
LEMMA SharesOK ==
    ASSUME IInv, TInv, NEW x \in Exec, SharesAtHand(x) \/ VaultAnswers(x)
    PROVE  ThreadsOK'
<1> USE DEF TInv
<1>0. /\ DOMAIN th[x] = Fields /\ x \in Thread /\ th[x].pc \in {"vault", "asked"}
      /\ DOMAIN th = Thread /\ Held(th[x]) /\ th[x].pc \in Busy
  BY DEF IInv, SharesAtHand, VaultAnswers, Thread, ThreadsOK, Busy
<1>1. ASSUME NEW pc \in {"store", "send"}, NEW S \in SUBSET Share,
             NEW mpk \in 0 .. MaxGen, NEW r, th' = [th EXCEPT ![x] = r],
             r.pc = pc, r.sent = th[x].sent \/ r.sent = TRUE, r.ref = th[x].ref,
             r.tries = th[x].tries, r.retries = th[x].retries,
             r.list = th[x].list, r.entry = th[x].entry, r.key = th[x].key,
             r.secrets = th[x].secrets, r.shares = S, r.mpk = mpk
      PROVE  ThreadsOK'
  <2>1. /\ DOMAIN th' = Thread /\ \A u \in Thread : u # x => th'[u] = th[u]
        /\ th'[x] = r
    BY <1>0, <1>1
  <2>2. Held(r)
    BY <1>0, <1>1 DEF Held
  <2>3. r.pc \in Busy
    BY <1>1 DEF Busy
  <2>4. QED
    BY <1>0, <1>1, <2>1, <2>2, <2>3, TurnOK
<1>2. CASE SharesAtHand(x)
  <2> DEFINE C == Cached(x)
             m == IF C = {} THEN NoKey ELSE (CHOOSE c \in C : TRUE).mpk
             r == [th[x] EXCEPT !.pc = "send", !.sent = TRUE, !.shares = C, !.mpk = m]
  <2>1. th' = [th EXCEPT ![x] = r]
    BY <1>0, <1>2 DEF SharesAtHand
  <2>2. C \subseteq Share
    BY DEF Cached, SharedOK
  <2>3. m \in 0 .. MaxGen
    <3>1. CASE C = {}
      BY <3>1, ExecutorConstants DEF NoKey
    <3>2. CASE C # {}
      <4>1. (CHOOSE c \in C : TRUE) \in C
        BY <3>2
      <4>2. \A c \in Share : c.mpk \in 0 .. MaxGen
        BY DEF Share
      <4> HIDE DEF C
      <4>3. QED
        BY <2>2, <3>2, <4>1, <4>2
    <3>3. QED
      BY <3>1, <3>2
  <2> HIDE DEF C, m
  <2>4. /\ r.pc = "send" /\ r.sent = TRUE /\ r.ref = th[x].ref
        /\ r.tries = th[x].tries /\ r.retries = th[x].retries
    BY <1>0 DEF Fields
  <2>5. /\ r.list = th[x].list /\ r.entry = th[x].entry /\ r.key = th[x].key
        /\ r.secrets = th[x].secrets /\ r.shares = C /\ r.mpk = m
    BY <1>0 DEF Fields
  <2> HIDE DEF r
  <2>6. QED
    BY <1>1, <2>1, <2>2, <2>3, <2>4, <2>5
<1>3. CASE VaultAnswers(x)
  <2> DEFINE pc == IF th[x].caching THEN "store" ELSE "send"
             todo == {s \in th[x].secrets : th[x].caching}
             S(mpk) == {[secret |-> s, key |-> th[x].key, gen |-> gen, mpk |-> mpk] :
                          s \in th[x].secrets}
  <2>1. PICK mpk \in {NoKey, gen} :
           th' = [th EXCEPT ![x].pc = pc, ![x].mpk = mpk, ![x].caching = FALSE,
                            ![x].todo = todo, ![x].shares = S(mpk)]
    BY <1>3 DEF VaultAnswers
  <2> DEFINE r == [th[x] EXCEPT !.pc = pc, !.mpk = mpk, !.caching = FALSE,
                                !.todo = todo, !.shares = S(mpk)]
  <2>2. gen \in 1 .. MaxGen /\ mpk \in 0 .. MaxGen
    BY <2>1, ExecutorConstants DEF SharedOK, NoKey
  <2>3. S(mpk) \subseteq Share
    <3>1. th[x].key \in Key /\ th[x].secrets \subseteq UNION SecretSets
      BY <1>0, <1>3 DEF Held, VaultAnswers
    <3>2. QED
      BY <2>2, <3>1 DEF Share
  <2>4. pc \in {"store", "send"}
    OBVIOUS
  <2> HIDE DEF pc, todo, S
  <2>5. th' = [th EXCEPT ![x] = r]
    BY <1>0, <2>1
  <2>6. /\ r.pc = pc /\ r.sent = th[x].sent /\ r.ref = th[x].ref
        /\ r.tries = th[x].tries /\ r.retries = th[x].retries
    BY <1>0 DEF Fields
  <2>7. /\ r.list = th[x].list /\ r.entry = th[x].entry /\ r.key = th[x].key
        /\ r.secrets = th[x].secrets /\ r.shares = S(mpk) /\ r.mpk = mpk
    BY <1>0 DEF Fields
  <2> HIDE DEF r
  <2>8. QED
    BY <1>1, <2>2, <2>3, <2>4, <2>5, <2>6, <2>7
<1>4. QED
  BY <1>2, <1>3

\* The steps that change neither what an execution holds nor its counts.
LEMMA HoldingOK ==
    ASSUME IInv, TInv, NEW x \in Exec, AskVault(x) \/ CacheShare(x) \/ Send(x)
    PROVE  ThreadsOK'
<1> USE DEF TInv
<1>0. /\ DOMAIN th[x] = Fields /\ x \in Thread /\ DOMAIN th = Thread /\ Held(th[x])
      /\ th[x].pc \in {"vault", "store", "send"} /\ th[x].pc \in Busy
  BY DEF IInv, AskVault, CacheShare, Send, Thread, ThreadsOK, Busy
<1>1. ASSUME NEW pc \in {"asked", "store", "send", "sent"}, NEW n \in Entry,
             NEW r, th' = [th EXCEPT ![x] = r],
             r.pc = pc, r.sent = th[x].sent \/ r.sent = TRUE, r.ref = th[x].ref,
             r.tries = th[x].tries, r.retries = th[x].retries,
             r.list = th[x].list, r.entry = n, r.key = th[x].key,
             r.secrets = th[x].secrets, r.shares = th[x].shares, r.mpk = th[x].mpk
      PROVE  ThreadsOK'
  <2>1. /\ DOMAIN th' = Thread /\ \A u \in Thread : u # x => th'[u] = th[u]
        /\ th'[x] = r
    BY <1>0, <1>1
  <2>2. Held(r)
    BY <1>0, <1>1 DEF Held
  <2>3. r.pc \in Busy
    BY <1>1 DEF Busy
  <2>4. QED
    BY <1>0, <1>1, <2>1, <2>2, <2>3, TurnOK
<1>2. th[x].entry \in Entry
  BY <1>0 DEF Held
<1>3. CASE AskVault(x)
  <2> DEFINE r == [th[x] EXCEPT !.pc = "asked", !.sent = TRUE,
                                !.caching = capConfig.cache,
                                !.refs = th[x].refs \cup {th[x].ref},
                                !.reqs = th[x].reqs + 1]
  <2>1. th' = [th EXCEPT ![x] = r]
    BY <1>0, <1>3 DEF AskVault, Fields
  <2>2. /\ r.pc = "asked" /\ r.sent = TRUE /\ r.ref = th[x].ref
        /\ r.tries = th[x].tries /\ r.retries = th[x].retries
    BY <1>0 DEF Fields
  <2>3. /\ r.list = th[x].list /\ r.entry = th[x].entry /\ r.key = th[x].key
        /\ r.secrets = th[x].secrets /\ r.shares = th[x].shares /\ r.mpk = th[x].mpk
    BY <1>0 DEF Fields
  <2> HIDE DEF r
  <2>4. QED
    BY <1>1, <1>2, <2>1, <2>2, <2>3
<1>4. CASE CacheShare(x)
  <2>1. PICK c \in th[x].shares :
           th' = [th EXCEPT ![x].todo = @ \ {c.secret},
                            ![x].pc = IF th[x].todo = {c.secret}
                                      THEN "send" ELSE "store"]
    BY <1>4 DEF CacheShare
  <2> DEFINE pc == IF th[x].todo = {c.secret} THEN "send" ELSE "store"
             r == [th[x] EXCEPT !.todo = th[x].todo \ {c.secret}, !.pc = pc]
  <2>2. th' = [th EXCEPT ![x] = r]
    BY <1>0, <2>1 DEF Fields
  <2>3. pc \in {"store", "send"}
    OBVIOUS
  <2> HIDE DEF pc
  <2>4. /\ r.pc = pc /\ r.sent = th[x].sent /\ r.ref = th[x].ref
        /\ r.tries = th[x].tries /\ r.retries = th[x].retries
    BY <1>0 DEF Fields
  <2>5. /\ r.list = th[x].list /\ r.entry = th[x].entry /\ r.key = th[x].key
        /\ r.secrets = th[x].secrets /\ r.shares = th[x].shares /\ r.mpk = th[x].mpk
    BY <1>0 DEF Fields
  <2> HIDE DEF r
  <2>6. QED
    BY <1>1, <1>2, <2>2, <2>3, <2>4, <2>5
<1>5. CASE Send(x)
  <2>1. CASE \E n \in EntryOf(th[x].entry.id, nodes) :
               th' = [th EXCEPT ![x].pc = "sent", ![x].entry = n]
    <3>1. PICK n \in EntryOf(th[x].entry.id, nodes) :
               th' = [th EXCEPT ![x].pc = "sent", ![x].entry = n]
      BY <2>1
    <3>2. n \in Entry
      BY <3>1, ListedEntry DEF EntryOf, PoolOK
    <3> DEFINE r == [th[x] EXCEPT !.pc = "sent", !.entry = n]
    <3>3. th' = [th EXCEPT ![x] = r]
      BY <1>0, <3>1
    <3>4. /\ r.pc = "sent" /\ r.sent = th[x].sent /\ r.ref = th[x].ref
          /\ r.tries = th[x].tries /\ r.retries = th[x].retries
      BY <1>0 DEF Fields
    <3>5. /\ r.list = th[x].list /\ r.entry = n /\ r.key = th[x].key
          /\ r.secrets = th[x].secrets /\ r.shares = th[x].shares /\ r.mpk = th[x].mpk
      BY <1>0 DEF Fields
    <3> HIDE DEF r
    <3>6. QED
      BY <1>1, <3>2, <3>3, <3>4, <3>5
  <2>2. CASE Failed(x, FALSE)
    BY <1>0, <2>2, FailedOK
  <2>3. QED
    BY <1>5, <2>1, <2>2 DEF Send
<1>6. QED
  BY <1>3, <1>4, <1>5

\* The steps of an execution after the enclave list is fresh.
LEMMA ExecStepTypes ==
    ASSUME IInv, TInv, NEW x \in Exec, ExecStep(x)
    PROVE  TInv'
<1> USE DEF TInv
<1>0. /\ DOMAIN th[x] = Fields /\ x \in Thread /\ x # Loop /\ DOMAIN th = Thread
      /\ Held(th[x]) /\ Counted(th[x])
  BY ExecutorConstants DEF IInv, Thread, ThreadsOK
<1>a. ASSUME Local PROVE PoolOK' /\ SharedOK'
  BY <1>a DEF Local, poolVars, enclaveVars, PoolOK, SharedOK
<1>b. {"fetch", "params", "vault", "asked", "store", "send", "sent"} \subseteq Busy
  BY DEF Busy
<1>1. CASE FetchKey(x)
  BY <1>1, <1>a, FetchKeyOK DEF FetchKey
<1>2. CASE CacheKey(x)
  <2>1. /\ th[x].pc = "params" /\ Goto(x, "vault")
        /\ SetCachedPublicKey(th[x].entry.id, th[x].key)
        /\ UNCHANGED <<nodes, dead, refreshing, poolClosed, enclaveVars, registry,
                       changes, limits, capConfig, gen, secretsCache, enclaves,
                       initialized, loopOn, closing, calls>>
    BY <1>2 DEF CacheKey
  <2>2. /\ th[x].pc \in Busy /\ "vault" \in Busy \ {"update"}
        /\ th[x].entry \in Entry /\ th[x].key \in Key
    BY <1>0, <1>b, <2>1 DEF Held
  <2>3. ThreadsOK'
    BY <1>0, <2>1, <2>2, GotoOK
  <2>4. PoolOK' /\ SharedOK'
    BY <2>1, <2>2 DEF PoolOK, SharedOK, SetCachedPublicKey, enclaveVars
  <2>5. QED
    BY <2>3, <2>4
<1>3. CASE WrongSigners(x)
  BY <1>0, <1>3, <1>a, <1>b, FailedOK DEF WrongSigners
<1>4. CASE SharesAtHand(x) \/ VaultAnswers(x)
  BY <1>4, <1>a, SharesOK DEF SharesAtHand, VaultAnswers
<1>5. CASE AskVault(x) \/ Send(x)
  BY <1>5, <1>a, HoldingOK DEF AskVault, Send
<1>6. CASE CacheShare(x)
  <2>1. PICK c \in th[x].shares :
           secretsCache' = {d \in secretsCache :
                              ~(d.secret = c.secret /\ d.key = c.key)} \cup {c}
    BY <1>6 DEF CacheShare
  <2>2. secretsCache' \subseteq Share
    BY <1>0, <2>1 DEF Held, SharedOK
  <2>3. UNCHANGED <<poolVars, enclaveVars, registry, changes, limits, capConfig,
                    gen, enclaves, initialized, loopOn, closing, calls>>
    BY <1>6 DEF CacheShare
  <2>4. PoolOK' /\ SharedOK'
    BY <2>2, <2>3 DEF PoolOK, SharedOK, poolVars, enclaveVars
  <2>5. QED
    BY <1>6, <2>4, HoldingOK
<1>7. CASE VaultFails(x)
  BY <1>0, <1>7, <1>a, <1>b, FailedOK, FinishOK DEF VaultFails
<1>8. CASE SignFails(x)
  BY <1>0, <1>8, <1>a, <1>b, FailedOK DEF SignFails
<1>9. CASE Succeed(x)
  BY <1>9, <1>a, FinishOK DEF Succeed
<1>10. CASE ExecuteFails(x)
  BY <1>0, <1>10, <1>a, <1>b, FailedOK, FinishOK DEF ExecuteFails
<1>11. CASE Backoff(x)
  <2>1. Local /\ th[x].pc = "backoff"
    BY <1>11 DEF Backoff
  <2>2. CASE \E out : Finish(x, out)
    BY <1>a, <2>1, <2>2, FinishOK
  <2>3. CASE th[x].tries < th[x].retries /\ Goto(x, "attempt")
    <3> DEFINE r == [th[x] EXCEPT !.pc = "attempt"]
    <3>1. /\ DOMAIN th' = Thread /\ \A u \in Thread : u # x => th'[u] = th[u]
          /\ th'[x] = r
      BY <1>0, <2>3 DEF Goto
    <3>2. /\ r.pc = "attempt" /\ r.sent = th[x].sent /\ r.ref = th[x].ref
          /\ r.tries = th[x].tries /\ r.retries = th[x].retries
      BY <1>0 DEF Fields
    <3>3. /\ r.list = th[x].list /\ r.entry = th[x].entry /\ r.key = th[x].key
          /\ r.secrets = th[x].secrets /\ r.shares = th[x].shares /\ r.mpk = th[x].mpk
      BY <1>0 DEF Fields
    <3> HIDE DEF r
    <3>4. Held(r)
      BY <1>0, <3>2, <3>3 DEF Held
    <3>5. Counted(r)
      <4>1. "attempt" \notin Busy /\ "backoff" \notin Busy
        BY DEF Busy
      <4>2. Used(r) = Used(th[x])
        BY <3>2 DEF Used
      <4>3. QED
        BY <1>0, <2>1, <2>3, <3>2, <4>1, <4>2 DEF Counted
    <3>6. QED
      BY <1>0, <1>a, <2>1, <3>1, <3>4, <3>5, OneThreadOK
  <2>4. QED
    BY <1>11, <2>2, <2>3 DEF Backoff
<1>12. QED
  BY <1>1, <1>2, <1>3, <1>4, <1>5, <1>6, <1>7, <1>8, <1>9, <1>10, <1>11 DEF ExecStep

\* Execute begins, after initLazily if need be.
LEMMA BeginTypes ==
    ASSUME IInv, TInv, NEW x \in Exec, Begin(x)
    PROVE  TInv'
<1> USE DEF TInv
<1>0. x \in Thread /\ x # Loop /\ DOMAIN th = Thread
  BY ExecutorConstants DEF Thread, IInv
<1>1. PICK S \in SecretSets :
         \/ /\ InitLazily \/ (initialized /\ UNCHANGED <<poolVars, enclaves,
                                      initialized, loopOn>>)
            /\ RefreshLimitSettings
            /\ \/ th' = [th EXCEPT ![x] =
                           [Idle EXCEPT !.pc = "attempt", !.secrets = S,
                                        !.retries = limits.retries]]
               \/ Finish(x, "rejected")
         \/ InitFails /\ Finish(x, "error") /\ UNCHANGED capConfig
  BY DEF Begin
<1>2. UNCHANGED <<enclaveVars, registry, changes, limits, gen, secretsCache, closing>>
  BY DEF Begin
<1>3. ThreadsOK'
  <2>1. CASE \E out : Finish(x, out)
    BY <2>1, FinishOK
  <2>2. CASE th' = [th EXCEPT ![x] = [Idle EXCEPT !.pc = "attempt", !.secrets = S,
                                                  !.retries = limits.retries]]
    <3> DEFINE r == [Idle EXCEPT !.pc = "attempt", !.secrets = S,
                                 !.retries = limits.retries]
    <3>1. /\ DOMAIN th' = Thread /\ \A u \in Thread : u # x => th'[u] = th[u]
          /\ th'[x] = r
      BY <1>0, <2>2
    <3>2. limits.retries \in 1 .. MaxRetries
      BY DEF SharedOK, Limits
    <3>3. /\ r.pc = "attempt" /\ r.sent = FALSE /\ r.ref = 0 /\ r.tries = 0
          /\ r.retries = limits.retries
          /\ r.list = <<>> /\ r.entry = None /\ r.key = None
          /\ r.secrets = S /\ r.shares = {} /\ r.mpk = 0
      BY DEF Idle, NoKey
    <3> HIDE DEF r
    <3>4. Held(r)
      BY <3>3, ExecutorConstants DEF Held
    <3>5. Counted(r)
      <4>1. "attempt" \notin Busy
        BY DEF Busy
      <4>2. QED
        <5>1. Used(r) = 0
          BY <3>3 DEF Used
        <5>2. /\ limits.retries \in 0 .. MaxRetries /\ 0 < limits.retries
              /\ 0 \in 0 .. limits.retries
          BY <3>2, ExecutorConstants
        <5>3. /\ r.retries \in 0 .. MaxRetries /\ r.tries \in 0 .. r.retries
              /\ r.tries < r.retries /\ Used(r) <= r.tries
          BY <3>3, <5>1, <5>2
        <5>4. r.ref \in Nat
          BY <3>3
        <5>5. r.sent \in BOOLEAN
          BY <3>3, Zenon
        <5>6. r.pc \notin Busy
          BY <3>3, <4>1, Zenon
        <5>7. QED
          BY <5>3, <5>4, <5>5, <5>6 DEF Counted
    <3>6. QED
      BY <1>0, <3>1, <3>4, <3>5, OneThreadOK
  <2>3. QED
    BY <1>1, <2>1, <2>2
<1>4. PoolOK' /\ enclaves' \in Lists \cup {<<>>}
  <2>1. CASE UNCHANGED <<poolVars, enclaves>>
    BY <1>2, <2>1 DEF PoolOK, SharedOK, poolVars, enclaveVars
  <2>2. CASE InitLazily
    <3>1. registry \in Lists /\ Entries(registry) \subseteq Entry
      BY ListedEntry DEF SharedOK
    <3>2. /\ nodes' = registry /\ enclaves' = registry /\ refreshing' = refreshing
          /\ keyCache' = [e \in Enclave |->
                            IF \E n \in EntryOf(e, registry) : Answers(n)
                            THEN NewestKey(e) ELSE None]
          /\ dead' = {n.id : n \in {n \in Entries(registry) : ~Answers(n)}}
      BY <2>2 DEF InitLazily
    <3>3. \A e \in Enclave : NewestKey(e) \in Key
      BY DEF NewestKey, Key, PoolOK
    <3>4. keyCache' \in [Enclave -> Key \cup {None}]
      BY <3>2, <3>3
    <3>5. dead' \subseteq Enclave
      BY <3>1, <3>2 DEF Entry
    <3>6. QED
      BY <1>2, <3>1, <3>2, <3>4, <3>5 DEF PoolOK, enclaveVars
  <2>3. QED
    BY <1>1, <2>1, <2>2 DEF InitFails
<1>5. capConfig' \in Limits
  BY <1>1 DEF RefreshLimitSettings, SharedOK
<1>6. QED
  BY <1>2, <1>3, <1>4, <1>5 DEF SharedOK

\* The enclaves: every key they create is one of the keys.
LEMMA EnclaveStepTypes ==
    ASSUME TInv, EnclaveStep
    PROVE  TInv'
<1> USE DEF TInv
<1>1. PICK e \in Enclave : Upgrade(e) \/ RotateKey(e) \/ Outage(e) \/ Return(e)
  BY DEF EnclaveStep
<1>2. UNCHANGED <<poolVars, execVars>>
  BY DEF EnclaveStep
<1>3. lastKey' \in [Enclave -> 1 .. MaxKey]
  <2>1. \/ lastKey' = lastKey
        \/ lastKey[e] < MaxKey /\ lastKey' = [lastKey EXCEPT ![e] = @ + 1]
    BY <1>1 DEF Upgrade, RotateKey, Outage, Return
  <2>2. QED
    BY <2>1, PoolConstants DEF PoolOK
<1>4. up' \subseteq Enclave
  BY <1>1 DEF Upgrade, RotateKey, Outage, Return, PoolOK
<1>5. QED
  BY <1>2, <1>3, <1>4 DEF PoolOK, SharedOK, ThreadsOK, poolVars, execVars

\* The passes that refresh the key cache.
LEMMA PoolStepTypes ==
    ASSUME TInv, PoolStep
    PROVE  TInv'
<1> USE DEF TInv
<1> DEFINE R == [by : {"ticker", "update"}, entry : Entry, key : Key \cup {None}]
<1>0. UNCHANGED <<enclaveVars, execVars>>
  BY DEF PoolStep
<1>1. ASSUME nodes' = nodes, refreshing' \subseteq R, dead' \subseteq Enclave,
             keyCache' \in [Enclave -> Key \cup {None}]
      PROVE  TInv'
  BY <1>0, <1>1 DEF PoolOK, SharedOK, ThreadsOK, enclaveVars, execVars
<1>2. CASE RefreshTick
  <2>1. RefreshAllCachedKeys("ticker", nodes) \subseteq R
    <3>1. Entries(nodes) \subseteq Entry
      BY ListedEntry DEF PoolOK
    <3>2. QED
      BY <3>1 DEF RefreshAllCachedKeys
  <2>2. QED
    BY <1>1, <1>2, <2>1 DEF RefreshTick, PoolOK
<1>3. ASSUME NEW g \in refreshing, RefreshFetch(g)
      PROVE  TInv'
  <2>1. g \in R /\ g.entry.id \in Enclave
    BY DEF PoolOK, Entry
  <2>2. [g EXCEPT !.key = NewestKey(g.entry.id)] \in R
    <3>1. NewestKey(g.entry.id) \in Key
      BY <2>1 DEF NewestKey, Key, PoolOK
    <3>2. QED
      BY <2>1, <3>1
  <2>3. refreshing' \subseteq R
    BY <1>3, <2>2 DEF RefreshFetch, PoolOK
  <2>4. dead' \subseteq Enclave /\ nodes' = nodes /\ keyCache' = keyCache
    BY <1>3, <2>1 DEF RefreshFetch, SetEnclaveLiveness, PoolOK
  <2>5. QED
    BY <1>1, <2>3, <2>4 DEF PoolOK
<1>4. ASSUME NEW g \in refreshing, RefreshStore(g)
      PROVE  TInv'
  <2>1. g.entry.id \in Enclave /\ g.key \in Key \cup {None}
    BY DEF PoolOK, Entry
  <2>2. /\ refreshing' \subseteq R /\ dead' \subseteq Enclave /\ nodes' = nodes
        /\ keyCache' \in [Enclave -> Key \cup {None}]
    BY <1>4, <2>1 DEF RefreshStore, SetCachedPublicKey, SetEnclaveLiveness, PoolOK
  <2>3. QED
    BY <1>1, <2>2
<1>5. QED
  BY <1>2, <1>3, <1>4 DEF PoolStep

\* Every step preserves the types.
LEMMA NextTInv == IInv /\ TInv /\ [Next]_vars => TInv'
<1> SUFFICES ASSUME IInv, TInv, [Next]_vars PROVE TInv'
  OBVIOUS
<1>1. CASE \E t \in Thread : ThreadStep(t)
  BY <1>1, ThreadStepTypes
<1>2. CASE \E x \in Exec : Begin(x) \/ ExecStep(x)
  BY <1>2, BeginTypes, ExecStepTypes
<1>3. CASE EnclaveStep
  BY <1>3, EnclaveStepTypes
<1>4. CASE PoolStep
  BY <1>4, PoolStepTypes
<1>5. CASE \/ CloseBegin \/ CloseLoop \/ CloseReturns \/ RegistryChanges
           \/ LimitsChange \/ Reshare \/ ShareExpires \/ UNCHANGED vars
  <2>1. /\ th' = th /\ nodes' = nodes /\ keyCache' = keyCache /\ dead' = dead
        /\ up' = up /\ lastKey' = lastKey /\ refreshing' = refreshing
        /\ enclaves' = enclaves /\ capConfig' = capConfig
    BY <1>5 DEF CloseBegin, CloseLoop, CloseReturns, RegistryChanges, LimitsChange,
        Reshare, ShareExpires, CancelRefresh, poolVars, enclaveVars, execVars, vars
  <2>2. /\ registry' \in Lists /\ secretsCache' \subseteq Share
        /\ closing' \in {"open", "loop", "pool", "done"} /\ limits' \in Limits
    BY <1>5 DEF CloseBegin, CloseLoop, CloseReturns, RegistryChanges, LimitsChange,
        Reshare, ShareExpires, CancelRefresh, execVars, vars, TInv, SharedOK
  <2>3. gen' \in 1 .. MaxGen
    <3>1. gen' = gen \/ (gen < MaxGen /\ gen' = gen + 1)
      BY <1>5 DEF CloseBegin, CloseLoop, CloseReturns, RegistryChanges,
          LimitsChange, Reshare, ShareExpires, execVars, vars
    <3>2. gen \in 1 .. MaxGen
      BY DEF TInv, SharedOK
    <3>3. QED
      BY <3>1, <3>2, ExecutorConstants
  <2>4. QED
    BY <2>1, <2>2, <2>3 DEF TInv, ThreadsOK, PoolOK, SharedOK
<1>6. QED
  BY <1>1, <1>2, <1>3, <1>4, <1>5 DEF Next

\* executor.go and pool.go, for any enclaves, lists, executions, secrets and
\* limits: the pool, the caches and every execution keep their types; above all
\* no execution makes more attempts than the limit it started with allows, nor
\* uses more references of the VaultDON than that.
THEOREM ExecutorTypes == Spec => []TypeOK
<1>1. Init => TInv
  BY InitTInv
<1>2. IInv /\ TInv /\ [Next]_vars => TInv'
  BY NextTInv
<1>3. IInv /\ TInv => TypeOK
  <2> SUFFICES ASSUME IInv, TInv PROVE TypeOK
    OBVIOUS
  <2>1. ASSUME NEW t \in Thread
        PROVE  /\ th[t].list \in Lists \cup {<<>>}
               /\ th[t].entry \in Entry \cup {None} /\ th[t].key \in Key \cup {None}
               /\ th[t].shares \subseteq Share /\ th[t].mpk \in 0 .. MaxGen
    BY DEF TInv, ThreadsOK, Held
  <2>2. ASSUME NEW t \in Thread
        PROVE  /\ th[t].tries \in 0 .. th[t].retries
               /\ th[t].ref \in 0 .. MaxRetries
               /\ th[t].refs \subseteq 0 .. MaxRetries
    <3>1. CASE t = Loop
      BY <3>1, ExecutorConstants DEF TInv, ThreadsOK, LoopState
    <3>2. CASE t \in Exec
      <4>1. Counted(th[t]) /\ RefsGood(th[t])
        BY <3>2 DEF TInv, ThreadsOK, IInv
      <4>2. th[t].ref <= th[t].tries
        BY <4>1 DEF Counted, Used
      <4>3. /\ th[t].ref \in 0 .. MaxRetries /\ th[t].tries \in 0 .. th[t].retries
        BY <4>1, <4>2, ExecutorConstants DEF Counted
      <4>4. th[t].refs \subseteq 0 .. MaxRetries
        BY <4>1, <4>3, ExecutorConstants DEF RefsGood
      <4>5. QED
        BY <4>3, <4>4
    <3>3. QED
      BY <3>1, <3>2 DEF Thread
  <2>3. QED
    BY <2>1, <2>2 DEF TypeOK, TInv, PoolOK, SharedOK
<1>4. QED
  BY Invariant, <1>1, <1>2, <1>3, PTL DEF Spec
=============================================================================
