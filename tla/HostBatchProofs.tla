--------------------------- MODULE HostBatchProofs ---------------------------
(***************************************************************************)
(* The host's batching proved for any number of calls, hashes, signers and *)
(* configs, with and without --require-bft-quorum.  What the quorum means  *)
(* is proved of configs that agree on F and for an enclave of any speed;   *)
(* that nobody's answer is dropped or forgotten, of all configs.           *)
(***************************************************************************)
EXTENDS HostBatch, FiniteSetTheorems, TLAPS

\* The calls that have not reached the lock's critical section.
Early == {"idle", "arrived"}

\* As many signers as any config asks for.
Reached(seen) == \A d \in Configs : Cardinality(seen) >= quorumThreshold(d.f)

\* Some batch for h collected a quorum.
HasQuorum(h) ==
    \E b \in Call : /\ batch[b].hash = h
                    /\ batch[b].waiters # {}
                    /\ Reached(batch[b].seen)

-----------------------------------------------------------------------------
\* The inductive invariant, part by part.

\* A call waits on the one batch it names, which has its hash.
WaitersJoined ==
    \A b \in Call : \A c \in batch[b].waiters :
        calls[c].batch = b /\ calls[c].hash = batch[b].hash

JoinedWaits ==
    \A c \in Call : calls[c].batch # NoCall =>
        calls[c].batch \in Call /\ c \in batch[calls[c].batch].waiters

\* A call that has not been admitted has no batch and no answer, and only a
\* call with a batch has an answer.
EarlyAlone ==
    \A c \in Call : /\ calls[c].pc \in Early => calls[c].batch = NoCall
                    /\ calls[c].batch = NoCall => calls[c].ch = "empty"

\* The call that created a batch, and names it, is the first to wait on it: so
\* a call that is not admitted yet names no batch in use.
OwnerWaits ==
    \A b \in Call : batch[b].waiters # {} => b \in batch[b].waiters

\* A pending batch has the hash it is pending under.
PendingUsed ==
    \A h \in Hash : pending[h] # NoCall =>
        batch[pending[h]].hash = h /\ batch[pending[h]].waiters # {}

\* Every signature of a batch came with a call that waits on it.
SignersWait ==
    \A b \in Call : \A s \in batch[b].seen :
        \E c \in batch[b].waiters : calls[c].signer = s

\* A call past the first check has a config of the enclave.
Configured ==
    \A c \in Call : calls[c].pc \in {"arrived", "waiting", "served"} =>
        calls[c].cfg \in Configs

\* A dispatched batch is in use, under the hash of the job.
JobsNamed ==
    \A j \in jobs : /\ batch[j.batch].hash = j.hash
                    /\ batch[j.batch].waiters # {}

\* A dispatched batch has reached the quorum.
JobsReached == \A j \in jobs : Reached(batch[j.batch].seen)

\* A response exists only for a hash with a quorum.
ResponsesReached ==
    /\ \A h \in responseCache : HasQuorum(h)
    /\ \A c \in Call : calls[c].ch = "ok" \/ calls[c].pc = "served" =>
           HasQuorum(calls[c].hash)

Shape ==
    /\ WaitersJoined /\ JoinedWaits /\ EarlyAlone /\ OwnerWaits
    /\ PendingUsed /\ SignersWait /\ Configured

\* What holds for all configs ...
BInv ==
    /\ TypeOK /\ Shape /\ JobsNamed
    /\ NoDroppedNotification
    /\ ProcessingNotCancelled

\* ... and what the quorum adds when they agree on F.
QInv == JobsReached /\ DispatchOnce /\ ResponsesReached

IInv == BInv /\ QInv
-----------------------------------------------------------------------------
\* An update of a record leaves its other fields alone.  Every step from here on
\* has this among its facts: the SMT backend leaves out its type inference, slow
\* in a long module, for an obligation in which it meets such an update.
LEMMA Untyped == [[a |-> 0, b |-> 0] EXCEPT !.a = 1].b = 0
OBVIOUS

USE Untyped

\* The initial states satisfy the inductive invariant.
LEMMA InitIInv == Init => IInv
<1> SUFFICES ASSUME Init PROVE IInv
  OBVIOUS
<1>1. (CHOOSE h \in Hash : TRUE) \in Hash
  BY HostConstants
<1>2. NoBatchYet \in BatchState /\ NoBatchYet.waiters = {} /\ NoBatchYet.seen = {}
  BY <1>1 DEF NoBatchYet, BatchState
<1>3. /\ calls \in [Call -> CallState]
      /\ \A c \in Call : /\ calls[c].pc = "idle" /\ calls[c].batch = NoCall
                         /\ calls[c].ch = "empty"
  BY DEF Init
<1>4. batch \in [Call -> BatchState]
      /\ \A b \in Call : batch[b].waiters = {} /\ batch[b].seen = {}
  BY <1>2 DEF Init
<1>5. TypeOK
  BY <1>3, <1>4 DEF Init, TypeOK
<1>6. Shape
  BY <1>3, <1>4 DEF Init, Shape, WaitersJoined, JoinedWaits, EarlyAlone,
     OwnerWaits, PendingUsed, SignersWait, Configured
<1>7. QED
  BY <1>3, <1>5, <1>6 DEF Init, IInv, BInv, QInv, NoDroppedNotification,
     ProcessingNotCancelled, JobsNamed, JobsReached, DispatchOnce, ResponsesReached

\* A step that admits no call keeps the invariant when it forgets batches but
\* adds none, and answers calls only with what their batch allows.
LEMMA QuietStep ==
    ASSUME BInv, TypeOK',
           \A c \in Call :
              /\ calls'[c].hash = calls[c].hash
              /\ calls'[c].signer = calls[c].signer
              /\ calls'[c].batch = calls[c].batch
              /\ calls'[c].pc \in Early => calls[c].pc \in Early
              /\ calls[c].batch = NoCall => calls'[c].ch = calls[c].ch
              /\ calls'[c].pc \in {"arrived", "waiting", "served"} =>
                    calls'[c].cfg \in Configs
              /\ calls'[c].ch \in {"quorum_timeout", "server_shutdown"} =>
                    ~batch[calls[c].batch].processing,
           \A b \in Call :
              /\ batch'[b].hash = batch[b].hash
              /\ batch'[b].seen = batch[b].seen
              /\ batch'[b].waiters = batch[b].waiters
              /\ batch'[b].processing = batch[b].processing,
           \A h \in Hash : pending'[h] \in {pending[h], NoCall},
           NoDroppedNotification',
           \A j \in jobs' : \E i \in jobs : i.batch = j.batch /\ i.hash = j.hash
    PROVE  BInv'
<1>1. WaitersJoined' /\ JoinedWaits' /\ OwnerWaits' /\ SignersWait'
  <2>1. \A b \in Call : batch[b].waiters \subseteq Call
    BY DEF BInv, TypeOK, BatchState
  <2>2. QED
    BY <2>1 DEF BInv, Shape, WaitersJoined, JoinedWaits, OwnerWaits, SignersWait
<1>2. EarlyAlone' /\ Configured'
  BY DEF BInv, Shape, EarlyAlone, Configured
<1>3. PendingUsed'
  BY DEF BInv, TypeOK, Shape, PendingUsed
<1>4. ProcessingNotCancelled'
  <2> SUFFICES ASSUME NEW c \in Call,
                      calls'[c].ch \in {"quorum_timeout", "server_shutdown"}
               PROVE  ~batch'[calls'[c].batch].processing
    BY DEF ProcessingNotCancelled
  <2>1. calls[c].batch # NoCall
    BY DEF BInv, Shape, EarlyAlone
  <2>2. calls[c].batch \in Call
    BY <2>1 DEF BInv, Shape, JoinedWaits
  <2>3. QED
    BY <2>2
<1>5. JobsNamed'
  <2> SUFFICES ASSUME NEW j \in jobs'
               PROVE  /\ batch'[j.batch].hash = j.hash
                      /\ batch'[j.batch].waiters # {}
    BY DEF JobsNamed
  <2>1. PICK i \in jobs : i.batch = j.batch /\ i.hash = j.hash
    OBVIOUS
  <2>2. i.batch \in Call
    BY DEF BInv, TypeOK, Job
  <2>3. QED
    BY <2>1, <2>2 DEF BInv, JobsNamed
<1>6. QED
  BY <1>1, <1>2, <1>3, <1>4, <1>5 DEF BInv, Shape

\* Such a step keeps what the quorum means when it answers with a response only
\* where there was one, or a quorum.
LEMMA QuietQuorum ==
    ASSUME BInv, QInv,
           \A c \in Call :
              /\ calls'[c].hash = calls[c].hash
              /\ calls'[c].pc = "served" \/ calls'[c].ch = "ok" =>
                    HasQuorum(calls[c].hash),
           \A b \in Call :
              /\ batch'[b].hash = batch[b].hash
              /\ batch'[b].seen = batch[b].seen
              /\ batch'[b].waiters = batch[b].waiters,
           \A j \in jobs' : \E i \in jobs : i.batch = j.batch /\ i.hash = j.hash,
           DispatchOnce',
           \A h \in responseCache' : HasQuorum(h)
    PROVE  QInv'
<1>1. \A h : HasQuorum(h) => HasQuorum(h)'
  BY DEF HasQuorum, Reached
<1>2. JobsReached'
  <2> SUFFICES ASSUME NEW j \in jobs' PROVE Reached(batch'[j.batch].seen)
    BY DEF JobsReached, Reached
  <2>1. PICK i \in jobs : i.batch = j.batch /\ i.hash = j.hash
    OBVIOUS
  <2>2. i.batch \in Call
    BY DEF BInv, TypeOK, Job
  <2>3. QED
    BY <2>1, <2>2 DEF QInv, JobsReached
<1>3. ResponsesReached'
  BY <1>1 DEF ResponsesReached
<1>4. QED
  BY <1>2, <1>3 DEF QInv

\* The calls that act alone change their own pc, and the config they copied.
LEMMA CallStep ==
    ASSUME BInv, NEW c \in Call,
           Arrive(c) \/ RejectSignature(c) \/ ServeCached(c)
              \/ Receive(c) \/ Disconnect(c)
    PROVE  BInv' /\ (QInv => QInv')
<1> USE DEF BInv
<1>1. PICK p \in {"arrived", "waiting"} \cup Finished, g \in Configs \cup {ZeroConfig} :
         /\ calls' = [calls EXCEPT ![c].cfg = g, ![c].pc = p]
         /\ p = "arrived" => g \in Configs /\ calls[c].pc = "idle"
         /\ p = "served" => /\ g \in Configs
                            /\ \/ calls[c].hash \in responseCache
                               \/ calls[c].ch = "ok"
         /\ p # "waiting"
  <2> USE DEF Finished
  <2> calls[c].cfg \in Configs \cup {ZeroConfig}
    BY DEF TypeOK, CallState
  <2>1. CASE Arrive(c)
    <3> config \in Configs \cup {ZeroConfig}
      BY DEF TypeOK
    <3>1. config \in Configs \/ (config.t = 0 /\ config.f = 0)
      BY DEF ZeroConfig
    <3>2. CASE config.t = 0 /\ config.f = 0
      <4>1. calls' = [calls EXCEPT ![c].cfg = config, ![c].pc = "rejected"]
        BY <2>1, <3>2 DEF Arrive
      <4> WITNESS "rejected" \in {"arrived", "waiting"} \cup Finished,
                  config \in Configs \cup {ZeroConfig}
      <4>2. QED
        BY <4>1
    <3>3. CASE ~(config.t = 0 /\ config.f = 0)
      <4>1. calls' = [calls EXCEPT ![c].cfg = config, ![c].pc = "arrived"]
        BY <2>1, <3>3 DEF Arrive
      <4>2. calls[c].pc = "idle" /\ config \in Configs
        BY <2>1, <3>1, <3>3 DEF Arrive
      <4> WITNESS "arrived" \in {"arrived", "waiting"} \cup Finished,
                  config \in Configs \cup {ZeroConfig}
      <4>3. QED
        BY <4>1, <4>2
    <3>4. QED
      BY <3>2, <3>3
  <2>2. CASE RejectSignature(c) \/ Disconnect(c)
    <3>1. calls' = [calls EXCEPT ![c].cfg = calls[c].cfg, ![c].pc = "rejected"]
          \/ calls' = [calls EXCEPT ![c].cfg = calls[c].cfg, ![c].pc = "gone"]
      BY <2>2 DEF RejectSignature, Disconnect, TypeOK, CallState
    <3>2. CASE calls' = [calls EXCEPT ![c].cfg = calls[c].cfg, ![c].pc = "rejected"]
      <4> WITNESS "rejected" \in {"arrived", "waiting"} \cup Finished,
                  calls[c].cfg \in Configs \cup {ZeroConfig}
      <4> QED
        BY <3>2
    <3>3. CASE calls' = [calls EXCEPT ![c].cfg = calls[c].cfg, ![c].pc = "gone"]
      <4> WITNESS "gone" \in {"arrived", "waiting"} \cup Finished,
                  calls[c].cfg \in Configs \cup {ZeroConfig}
      <4> QED
        BY <3>3
    <3>4. QED
      BY <3>1, <3>2, <3>3
  <2>3. CASE ServeCached(c)
    <3>1. calls' = [calls EXCEPT ![c].cfg = calls[c].cfg, ![c].pc = "served"]
      BY <2>3 DEF ServeCached, TypeOK, CallState
    <3>2. calls[c].cfg \in Configs
      BY <2>3 DEF ServeCached, Shape, Configured
    <3>3. calls[c].hash \in responseCache
      BY <2>3 DEF ServeCached
    <3> WITNESS "served" \in {"arrived", "waiting"} \cup Finished,
                calls[c].cfg \in Configs \cup {ZeroConfig}
    <3>4. QED
      BY <3>1, <3>2, <3>3
  <2>4. CASE Receive(c)
    <3>1. \/ /\ calls' = [calls EXCEPT ![c].cfg = calls[c].cfg, ![c].pc = "served"]
             /\ calls[c].ch = "ok"
          \/ calls' = [calls EXCEPT ![c].cfg = calls[c].cfg, ![c].pc = "failed"]
      BY <2>4 DEF Receive, TypeOK, CallState
    <3>2. calls[c].cfg \in Configs
      BY <2>4 DEF Receive, Shape, Configured
    <3>3. CASE /\ calls' = [calls EXCEPT ![c].cfg = calls[c].cfg, ![c].pc = "served"]
               /\ calls[c].ch = "ok"
      <4> WITNESS "served" \in {"arrived", "waiting"} \cup Finished,
                  calls[c].cfg \in Configs \cup {ZeroConfig}
      <4> QED
        BY <3>2, <3>3
    <3>4. CASE calls' = [calls EXCEPT ![c].cfg = calls[c].cfg, ![c].pc = "failed"]
      <4> WITNESS "failed" \in {"arrived", "waiting"} \cup Finished,
                  calls[c].cfg \in Configs \cup {ZeroConfig}
      <4> QED
        BY <3>4
    <3>5. QED
      BY <3>1, <3>3, <3>4
  <2>5. QED
    BY <2>1, <2>2, <2>3, <2>4
<1>2. UNCHANGED <<config, batch, pending, jobs, responseCache, shutdown>>
  BY DEF Arrive, RejectSignature, ServeCached, Receive, Disconnect
<1>3. TypeOK'
  <2>1. calls \in [Call -> CallState]
    BY DEF TypeOK
  <2>2. [calls[c] EXCEPT !.cfg = g, !.pc = p] \in CallState
    BY <2>1 DEF CallState
  <2>3. calls' \in [Call -> CallState]
    BY <1>1, <2>1, <2>2
  <2>4. QED
    BY <1>2, <2>3 DEF TypeOK
<1>4. \A d \in Call :
         /\ calls'[d].hash = calls[d].hash /\ calls'[d].signer = calls[d].signer
         /\ calls'[d].batch = calls[d].batch /\ calls'[d].ch = calls[d].ch
         /\ d # c => calls'[d] = calls[d]
         /\ d = c => calls'[d].pc = p /\ calls'[d].cfg = g
  BY <1>1 DEF TypeOK, CallState
<1>5. \A d \in Call :
         /\ calls'[d].pc \in Early => calls[d].pc \in Early
         /\ calls'[d].pc \in {"arrived", "waiting", "served"} =>
               calls'[d].cfg \in Configs
  BY <1>1, <1>4 DEF Early, Finished, Shape, Configured
<1>6. NoDroppedNotification'
  <2>1. \A b \in Call : batch[b].waiters \subseteq Call
    BY DEF TypeOK, BatchState
  <2>2. QED
    BY <1>2, <1>4, <2>1 DEF TypeOK, NoDroppedNotification
<1>7. \A d \in Call : calls'[d].ch \in {"quorum_timeout", "server_shutdown"} =>
         ~batch[calls[d].batch].processing
  BY <1>4 DEF ProcessingNotCancelled
<1>8. BInv'
  BY <1>2, <1>3, <1>4, <1>5, <1>6, <1>7, QuietStep
<1>9. ASSUME QInv PROVE QInv'
  <2>1. \A d \in Call : calls'[d].pc = "served" \/ calls'[d].ch = "ok" =>
           HasQuorum(calls[d].hash)
    BY <1>1, <1>4, <1>9 DEF QInv, ResponsesReached
  <2>2. DispatchOnce' /\ \A h \in responseCache' : HasQuorum(h)
    BY <1>2, <1>9 DEF QInv, DispatchOnce, ResponsesReached
  <2>3. QED
    BY <1>2, <1>4, <1>9, <2>1, <2>2, QuietQuorum
<1>10. QED
  BY <1>8, <1>9

\* Answering the calls of the batch pending under h, and forgetting the batch.
LEMMA NotifyStep ==
    ASSUME BInv, TypeOK', NEW h \in Hash, pending[h] # NoCall,
           NEW out \in {"ok"} \cup Errors,
           calls' = notifyWaiters(pending[h], out),
           pending' = [pending EXCEPT ![h] = NoCall],
           out \in {"quorum_timeout", "server_shutdown"} =>
              ~batch[pending[h]].processing,
           \A b \in Call :
              /\ batch'[b].hash = batch[b].hash
              /\ batch'[b].seen = batch[b].seen
              /\ batch'[b].waiters = batch[b].waiters
              /\ batch'[b].processing = batch[b].processing,
           \A j \in jobs' : \E i \in jobs : i.batch = j.batch /\ i.hash = j.hash
    PROVE  /\ BInv'
           /\ (/\ QInv /\ DispatchOnce'
               /\ out = "ok" => HasQuorum(h)
               /\ \A g \in responseCache' : HasQuorum(g)) => QInv'
<1> DEFINE b == pending[h]
<1>1. b \in Call /\ batch[b].hash = h
  BY DEF BInv, TypeOK, Shape, PendingUsed
<1>2. \A c \in Call :
         /\ calls'[c].hash = calls[c].hash /\ calls'[c].signer = calls[c].signer
         /\ calls'[c].batch = calls[c].batch /\ calls'[c].pc = calls[c].pc
         /\ calls'[c].cfg = calls[c].cfg
         /\ \/ calls'[c].ch = calls[c].ch
            \/ c \in batch[b].waiters /\ calls'[c].ch = out
  BY DEF notifyWaiters, BInv, TypeOK, CallState
<1>3. \A c \in Call : c \in batch[b].waiters =>
         calls[c].batch = b /\ calls[c].hash = h
  BY <1>1 DEF BInv, Shape, WaitersJoined
<1>4. \A c \in Call : calls[c].batch = NoCall => calls'[c].ch = calls[c].ch
  BY <1>1, <1>2, <1>3, HostConstants
<1>5. \A c \in Call : calls'[c].ch \in {"quorum_timeout", "server_shutdown"} =>
         ~batch[calls[c].batch].processing
  BY <1>2, <1>3 DEF BInv, ProcessingNotCancelled
<1>6. NoDroppedNotification'
  <2> SUFFICES ASSUME NEW g \in Hash, pending'[g] # NoCall,
                      NEW c \in batch'[pending'[g]].waiters
               PROVE  calls'[c].ch = "empty"
    BY DEF NoDroppedNotification
  <2>1. g # h /\ pending'[g] = pending[g] /\ pending[g] \in Call
    BY DEF BInv, TypeOK
  <2>2. batch[pending[g]].hash = g /\ c \in batch[pending[g]].waiters
    BY <2>1 DEF BInv, Shape, PendingUsed
  <2>3. c \in Call /\ calls[c].batch = pending[g] /\ calls[c].ch = "empty"
    BY <2>1, <2>2 DEF BInv, TypeOK, BatchState, Shape, WaitersJoined,
       NoDroppedNotification
  <2>4. c \notin batch[b].waiters
    BY <1>1, <1>3, <2>1, <2>2, <2>3
  <2>5. QED
    BY <1>2, <2>3, <2>4
<1>7. \A g \in Hash : pending'[g] \in {pending[g], NoCall}
  BY DEF BInv, TypeOK
<1>8. \A c \in Call :
         /\ calls'[c].pc \in Early => calls[c].pc \in Early
         /\ calls'[c].pc \in {"arrived", "waiting", "served"} =>
               calls'[c].cfg \in Configs
  BY <1>2 DEF BInv, Shape, Configured
<1>9. BInv'
  BY <1>2, <1>4, <1>5, <1>6, <1>7, <1>8, QuietStep
<1>10. ASSUME QInv, DispatchOnce', out = "ok" => HasQuorum(h),
              \A g \in responseCache' : HasQuorum(g)
       PROVE  QInv'
  <2>1. \A c \in Call : calls'[c].pc = "served" \/ calls'[c].ch = "ok" =>
           HasQuorum(calls[c].hash)
    BY <1>2, <1>3, <1>10 DEF QInv, ResponsesReached, Errors
  <2>2. QED
    BY <1>2, <1>10, <2>1, QuietQuorum
<1>11. QED
  BY <1>9, <1>10

\* Growing a batch loses no quorum.
LEMMA ReachedGrows ==
    ASSUME NEW S \in SUBSET Signer, NEW T \in SUBSET Signer, S \subseteq T,
           Reached(S)
    PROVE  Reached(T)
<1>1. IsFiniteSet(S) /\ IsFiniteSet(T) /\ Cardinality(S) <= Cardinality(T)
  BY HostConstants, FS_Subset
<1>2. Cardinality(S) \in Nat /\ Cardinality(T) \in Nat
  BY <1>1, FS_CardinalityType
<1>3. \A d \in Configs : quorumThreshold(d.f) \in Nat
  BY HostConstants DEF quorumThreshold
<1>4. QED
  BY <1>1, <1>2, <1>3 DEF Reached

\* What a call that is admitted finds: the batch it joins is either in use, and
\* then it is the pending one with unanswered waiters, or it is the call's own,
\* which nobody uses yet.
LEMMA JoinedFacts ==
    ASSUME BInv, NEW c \in Call, calls[c].pc = "arrived"
    PROVE  LET b == BatchOf(c)  br == JoinedBatch(c)
           IN  /\ b \in Call /\ br \in BatchState
               /\ br.hash = calls[c].hash
               /\ br.waiters = batch[b].waiters /\ c \notin br.waiters
               /\ calls[c].batch = NoCall /\ calls[c].ch = "empty"
               /\ calls[c].cfg \in Configs
               /\ \A w \in br.waiters : calls[w].ch = "empty"
               /\ \/ br.waiters # {} /\ br = batch[b]
                  \/ /\ br.waiters = {} /\ b = c /\ br.seen = {}
                     /\ ~br.processing
<1> DEFINE h == calls[c].hash
<1> USE DEF BInv
<1>1. h \in Hash
  BY DEF TypeOK, CallState
<1>2. calls[c].batch = NoCall /\ calls[c].ch = "empty" /\ calls[c].cfg \in Configs
  BY DEF Shape, EarlyAlone, Configured, Early
<1>3. \A b \in Call : c \notin batch[b].waiters
  BY <1>2, HostConstants DEF Shape, WaitersJoined
<1>4. CASE pending[h] = NoCall
  <2>1. BatchOf(c) = c
    BY <1>4 DEF BatchOf
  <2>2. JoinedBatch(c) = [hash |-> h, seen |-> {}, waiters |-> {},
                          processing |-> FALSE, done |-> FALSE, timer |-> "armed"]
    BY <1>4 DEF JoinedBatch, NoBatchYet
  <2>3. batch[c].waiters = {}
    BY <1>3 DEF Shape, OwnerWaits
  <2>4. JoinedBatch(c) \in BatchState
    BY <1>1, <2>2 DEF BatchState
  <2>5. QED
    BY <1>2, <2>1, <2>2, <2>3, <2>4
<1>5. CASE pending[h] # NoCall
  <2>1. BatchOf(c) = pending[h] /\ JoinedBatch(c) = batch[pending[h]]
    BY <1>5 DEF BatchOf, JoinedBatch
  <2>2. pending[h] \in Call
    BY <1>1, <1>5 DEF TypeOK
  <2>3. batch[pending[h]] \in BatchState
    BY <2>2 DEF TypeOK
  <2>4. batch[pending[h]].hash = h /\ batch[pending[h]].waiters # {}
    BY <1>1, <1>5 DEF Shape, PendingUsed
  <2>5. \A w \in batch[pending[h]].waiters : calls[w].ch = "empty"
    BY <1>1, <1>5 DEF NoDroppedNotification
  <2>6. QED
    BY <1>2, <1>3, <2>1, <2>2, <2>3, <2>4, <2>5
<1>6. QED
  BY <1>4, <1>5

\* A call that is admitted to a batch, new or pending.
LEMMA AdmitStep ==
    ASSUME BInv, NEW c \in Call, Admit(c)
    PROVE  BInv' /\ (ConstantF /\ QInv => QInv')
<1> DEFINE h  == calls[c].hash
           s  == calls[c].signer
           b  == BatchOf(c)
           br == JoinedBatch(c)
           nb == batch'[b]
           seen == br.seen \cup {s}
           go == s \notin br.seen /\ shouldProcess(c, seen)
<1>1. /\ b \in Call /\ br \in BatchState
      /\ br.hash = h
      /\ br.waiters = batch[b].waiters /\ c \notin br.waiters
      /\ calls[c].batch = NoCall /\ calls[c].ch = "empty"
      /\ calls[c].cfg \in Configs
      /\ \A w \in br.waiters : calls[w].ch = "empty"
      /\ \/ br.waiters # {} /\ br = batch[b]
         \/ br.waiters = {} /\ b = c /\ br.seen = {} /\ ~br.processing
  BY JoinedFacts DEF Admit
<1>2. h \in Hash /\ s \in Signer /\ b # NoCall /\ seen \in SUBSET Signer
  BY <1>1, HostConstants DEF BInv, TypeOK, CallState, BatchState
<1>3. /\ batch' = [batch EXCEPT ![b] = [br EXCEPT
                      !.seen = seen,
                      !.waiters = @ \cup {c},
                      !.processing = IF go THEN TRUE ELSE @]]
      /\ pending' = [pending EXCEPT ![h] = b]
      /\ jobs' = IF go THEN jobs \cup {[batch |-> b, hash |-> h,
                                        sigs |-> seen, open |-> TRUE]}
                       ELSE jobs
      /\ calls' = [calls EXCEPT ![c].pc = "waiting", ![c].batch = b]
      /\ UNCHANGED <<config, responseCache, shutdown>>
  BY DEF Admit
<1>seen. seen = br.seen \cup {s}
  OBVIOUS
<1> HIDE DEF b, br, go, seen
\* The facts about the step that the invariant is preserved by.
<1>4. /\ nb \in BatchState /\ nb.hash = h /\ nb.seen = seen
      /\ nb.waiters = br.waiters \cup {c}
  <2>1. PICK p \in BOOLEAN : batch' = [batch EXCEPT ![b] = [br EXCEPT
            !.seen = seen, !.waiters = @ \cup {c}, !.processing = p]]
    <3>1. CASE go
      BY <1>3, <3>1
    <3>2. CASE ~go
      BY <1>1, <1>3, <3>2 DEF BatchState
    <3>3. QED
      BY <3>1, <3>2
  <2>2. nb = [br EXCEPT !.seen = seen, !.waiters = @ \cup {c}, !.processing = p]
    BY <1>1, <2>1 DEF BInv, TypeOK
  <2> HIDE DEF nb
  <2>3. QED
    BY <1>1, <1>2, <2>2 DEF BatchState
<1>5. \A d \in Call : d # b => batch'[d] = batch[d]
  BY <1>3 DEF BInv, TypeOK
<1>6. /\ calls' \in [Call -> CallState]
      /\ \A d \in Call : d # c => calls'[d] = calls[d]
      /\ calls'[c].pc = "waiting" /\ calls'[c].batch = b
      /\ calls'[c].hash = h /\ calls'[c].signer = s /\ calls'[c].ch = "empty"
      /\ calls'[c].cfg \in Configs
  BY ZenonT(30), <1>1, <1>3 DEF BInv, TypeOK, CallState
<1>7. /\ pending'[h] = b
      /\ \A g \in Hash : g # h => pending'[g] = pending[g]
  BY <1>2, <1>3 DEF BInv, TypeOK
<1>8. TypeOK'
  <2>1. batch' \in [Call -> BatchState]
    BY <1>3, <1>4, <1>5 DEF BInv, TypeOK
  <2>2. jobs' \subseteq Job
    <3>1. [batch |-> b, hash |-> h, sigs |-> seen, open |-> TRUE] \in Job
      BY <1>1, <1>2 DEF Job
    <3>2. QED
      BY <1>3, <3>1 DEF BInv, TypeOK
  <2>3. pending' \in [Hash -> Call \cup {NoCall}]
    BY <1>1, <1>3 DEF BInv, TypeOK
  <2>4. QED
    BY <1>3, <1>6, <2>1, <2>2, <2>3 DEF BInv, TypeOK
\* A batch in use grows.
<1>9. \A d \in Call : batch[d].waiters # {} =>
         /\ batch'[d].hash = batch[d].hash
         /\ batch[d].seen \subseteq batch'[d].seen
         /\ batch[d].waiters \subseteq batch'[d].waiters
  BY <1>1, <1>4, <1>5, <1>seen
<1>10. \A d \in Call : batch[d].waiters \subseteq Call
  BY DEF BInv, TypeOK, BatchState
<1>11. \A d \in Call : c \notin batch[d].waiters
  BY <1>1, HostConstants DEF BInv, Shape, WaitersJoined
<1>12. WaitersJoined'
  <2> SUFFICES ASSUME NEW d \in Call, NEW w \in batch'[d].waiters
               PROVE  calls'[w].batch = d /\ calls'[w].hash = batch'[d].hash
    BY DEF WaitersJoined
  <2>1. CASE d # b
    BY <1>5, <1>6, <1>10, <1>11, <2>1 DEF BInv, Shape, WaitersJoined
  <2>2. CASE d = b /\ w = c
    BY <1>4, <1>6, <2>2
  <2>3. CASE d = b /\ w # c
    <3>1. w \in batch[b].waiters /\ batch[b].hash = h
      BY <1>1, <1>4, <2>3
    <3>2. calls[w].batch = b /\ calls[w].hash = h
      BY <1>1, <3>1 DEF BInv, Shape, WaitersJoined
    <3>3. QED
      BY <1>1, <1>4, <1>6, <1>10, <2>3, <3>1, <3>2
  <2>4. QED
    BY <2>1, <2>2, <2>3
<1>13. JoinedWaits'
  <2> SUFFICES ASSUME NEW d \in Call, calls'[d].batch # NoCall
               PROVE  /\ calls'[d].batch \in Call
                      /\ d \in batch'[calls'[d].batch].waiters
    BY DEF JoinedWaits
  <2>1. CASE d = c
    BY <1>1, <1>4, <1>6, <2>1
  <2>2. CASE d # c
    BY <1>6, <1>9, <2>2 DEF BInv, Shape, JoinedWaits
  <2>3. QED
    BY <2>1, <2>2
<1>14. EarlyAlone' /\ Configured'
  BY <1>2, <1>6 DEF BInv, Shape, EarlyAlone, Configured, Early
<1>15. OwnerWaits'
  <2> SUFFICES ASSUME NEW d \in Call, batch'[d].waiters # {}
               PROVE  d \in batch'[d].waiters
    BY DEF OwnerWaits
  <2>1. CASE d # b
    BY <1>5, <2>1 DEF BInv, Shape, OwnerWaits
  <2>2. CASE d = b
    BY <1>1, <1>4, <2>2 DEF BInv, Shape, OwnerWaits
  <2>3. QED
    BY <2>1, <2>2
<1>16. PendingUsed'
  <2> SUFFICES ASSUME NEW g \in Hash, pending'[g] # NoCall
               PROVE  /\ batch'[pending'[g]].hash = g
                      /\ batch'[pending'[g]].waiters # {}
    BY DEF PendingUsed
  <2>1. CASE g = h
    BY <1>4, <1>7, <2>1
  <2>2. CASE g # h
    <3>1. pending[g] \in Call /\ pending'[g] = pending[g]
      BY <1>7, <2>2 DEF BInv, TypeOK
    <3>2. batch[pending[g]].hash = g /\ batch[pending[g]].waiters # {}
      BY <3>1 DEF BInv, Shape, PendingUsed
    <3>3. QED
      BY <1>9, <3>1, <3>2
  <2>3. QED
    BY <2>1, <2>2
<1>17. SignersWait'
  <2> SUFFICES ASSUME NEW d \in Call, NEW t \in batch'[d].seen
               PROVE  \E w \in batch'[d].waiters : calls'[w].signer = t
    BY DEF SignersWait
  <2>1. CASE d # b
    BY <1>5, <1>6, <1>10, <1>11, <2>1 DEF BInv, Shape, SignersWait
  <2>2. CASE d = b /\ t = s
    BY <1>4, <1>6, <2>2
  <2>3. CASE d = b /\ t # s
    <3>1. br = batch[b] /\ t \in batch[b].seen
      BY <1>1, <1>4, <1>seen, <2>3
    <3>2. PICK w \in batch[b].waiters : calls[w].signer = t
      BY <1>1, <3>1 DEF BInv, Shape, SignersWait
    <3>3. w \in Call /\ w # c /\ w \in batch'[b].waiters
      BY <1>1, <1>4, <1>10, <1>11, <3>1
    <3>4. QED
      BY <1>6, <2>3, <3>2, <3>3
  <2>4. QED
    BY <2>1, <2>2, <2>3
<1>18. NoDroppedNotification'
  <2> SUFFICES ASSUME NEW g \in Hash, pending'[g] # NoCall,
                      NEW w \in batch'[pending'[g]].waiters
               PROVE  calls'[w].ch = "empty"
    BY DEF NoDroppedNotification
  <2>1. pending'[g] \in Call /\ w \in Call
    BY <1>8 DEF TypeOK, BatchState
  <2>2. CASE w = c
    BY <1>6, <2>2
  <2>3. CASE w # c /\ pending'[g] = b
    BY <1>1, <1>4, <1>6, <2>1, <2>3
  <2>4. CASE w # c /\ pending'[g] # b
    BY <1>5, <1>6, <1>7, <2>1, <2>4 DEF BInv, NoDroppedNotification
  <2>5. QED
    BY <2>2, <2>3, <2>4
<1>19. ProcessingNotCancelled'
  <2> SUFFICES ASSUME NEW d \in Call,
                      calls'[d].ch \in {"quorum_timeout", "server_shutdown"}
               PROVE  ~batch'[calls'[d].batch].processing
    BY DEF ProcessingNotCancelled
  <2>1. d # c /\ calls'[d] = calls[d]
    BY <1>6
  <2>2. calls[d].batch \in Call /\ d \in batch[calls[d].batch].waiters
    BY <2>1 DEF BInv, Shape, EarlyAlone, JoinedWaits
  <2>3. calls[d].batch # b
    BY <1>1, <2>1, <2>2
  <2>4. QED
    BY <1>5, <2>1, <2>2, <2>3 DEF BInv, ProcessingNotCancelled
<1>20. JobsNamed'
  <2> SUFFICES ASSUME NEW j \in jobs'
               PROVE  /\ batch'[j.batch].hash = j.hash
                      /\ batch'[j.batch].waiters # {}
    BY DEF JobsNamed
  <2>1. CASE j \in jobs
    <3>1. j.batch \in Call
      BY <2>1 DEF BInv, TypeOK, Job
    <3>2. batch[j.batch].hash = j.hash /\ batch[j.batch].waiters # {}
      BY <2>1 DEF BInv, JobsNamed
    <3>3. QED
      BY <1>9, <3>1, <3>2
  <2>2. CASE j \notin jobs
    <3>1. j = [batch |-> b, hash |-> h, sigs |-> seen, open |-> TRUE]
      BY <1>3, <2>2
    <3>2. QED
      BY <1>4, <3>1
  <2>3. QED
    BY <2>1, <2>2
<1>21. BInv'
  BY <1>8, <1>12, <1>13, <1>14, <1>15, <1>16, <1>17, <1>18, <1>19, <1>20
  DEF BInv, Shape
\* A quorum stays.
<1>22. \A g : HasQuorum(g) => HasQuorum(g)'
  <2> SUFFICES ASSUME NEW g, HasQuorum(g) PROVE HasQuorum(g)'
    OBVIOUS
  <2>1. PICK d \in Call : /\ batch[d].hash = g /\ batch[d].waiters # {}
                          /\ Reached(batch[d].seen)
    BY DEF HasQuorum
  <2>2. batch[d].seen \in SUBSET Signer /\ batch'[d].seen \in SUBSET Signer
    BY <1>8 DEF BInv, TypeOK, BatchState
  <2>3. Reached(batch'[d].seen)
    BY <1>9, <2>1, <2>2, ReachedGrows
  <2>4. batch'[d].hash = g /\ batch'[d].waiters # {}
    BY <1>9, <2>1
  <2>5. QED
    BY <2>3, <2>4 DEF HasQuorum, Reached
<1>23. ASSUME ConstantF, QInv PROVE QInv'
  <2> USE <1>23
  \* The batch reaches the threshold once: it had fewer signatures before.
  <2>1. go => Reached(seen) /\ \A j \in jobs : j.batch # b
    <3> SUFFICES ASSUME go
                 PROVE  Reached(seen) /\ \A j \in jobs : j.batch # b
      OBVIOUS
    <3> DEFINE T == quorumThreshold(calls[c].cfg.f)
    <3>1. s \notin br.seen /\ Cardinality(seen) = T
      BY DEF go, shouldProcess
    <3>2. T \in Nat /\ \A d \in Configs : quorumThreshold(d.f) = T
      BY <1>1, HostConstants DEF ConstantF, quorumThreshold
    <3>3. IsFiniteSet(br.seen)
      BY <1>1, HostConstants, FS_Subset DEF BatchState
    <3>4. Cardinality(seen) = Cardinality(br.seen) + 1 /\ Cardinality(br.seen) \in Nat
      BY <1>seen, <3>1, <3>3, FS_AddElement, FS_CardinalityType
    <3> HIDE DEF T
    <3>5. Reached(seen)
      BY <3>1, <3>2 DEF Reached
    <3>6. ~Reached(br.seen)
      BY <1>1, <3>1, <3>2, <3>4 DEF Reached
    <3>7. QED
      BY <1>1, <3>5, <3>6 DEF BInv, QInv, JobsNamed, JobsReached
  <2>2. DispatchOnce'
    <3>1. CASE go
      <4>1. PICK n : n.batch = b /\ jobs' = jobs \cup {n}
        BY <1>3, <3>1
      <4>2. \A j \in jobs : j.batch # n.batch
        BY <2>1, <3>1, <4>1
      <4>3. QED
        BY <4>1, <4>2 DEF QInv, DispatchOnce
    <3>2. CASE ~go
      BY <1>3, <3>2 DEF QInv, DispatchOnce
    <3>3. QED
      BY <3>1, <3>2
  <2>3. JobsReached'
    <3> SUFFICES ASSUME NEW j \in jobs' PROVE Reached(batch'[j.batch].seen)
      BY DEF JobsReached, Reached
    <3>1. CASE j \in jobs
      <4>1. j.batch \in Call
        BY <3>1 DEF BInv, TypeOK, Job
      <4>2. batch[j.batch].waiters # {} /\ Reached(batch[j.batch].seen)
        BY <3>1 DEF BInv, QInv, JobsNamed, JobsReached
      <4>3. batch[j.batch].seen \in SUBSET Signer /\ batch'[j.batch].seen \in SUBSET Signer
        BY <1>8, <4>1 DEF BInv, TypeOK, BatchState
      <4>4. QED
        BY <1>9, <4>1, <4>2, <4>3, ReachedGrows
    <3>2. CASE j \notin jobs
      <4>1. go /\ j = [batch |-> b, hash |-> h, sigs |-> seen, open |-> TRUE]
        BY <1>3, <3>2
      <4>2. QED
        BY <1>4, <2>1, <4>1
    <3>3. QED
      BY <3>1, <3>2
  <2>4. ResponsesReached'
    <3>1. \A g \in responseCache' : HasQuorum(g)'
      BY <1>3, <1>22 DEF QInv, ResponsesReached
    <3>2. \A d \in Call : calls'[d].ch = "ok" \/ calls'[d].pc = "served" =>
             HasQuorum(calls[d].hash)'
      BY <1>6, <1>22 DEF QInv, ResponsesReached
    <3>3. QED
      BY <3>1, <3>2, <1>6 DEF ResponsesReached
  <2>5. QED
    BY <2>2, <2>3, <2>4 DEF QInv
<1>24. QED
  BY <1>21, <1>23

\* The end of a job answers the batch pending under its hash, its own or a
\* later one.
LEMMA FinishStep ==
    ASSUME BInv, NEW j \in jobs, NEW outcome \in {"ok", "error"},
           FinishJob(j, outcome)
    PROVE  BInv' /\ (QInv => QInv')
<1> DEFINE h == j.hash
           k == [j EXCEPT !.open = FALSE]
<1>1. j \in Job
  BY DEF BInv, TypeOK
<1>2. h \in Hash /\ k \in Job /\ k.batch = j.batch /\ k.hash = j.hash
  BY <1>1 DEF Job
<1>3. jobs' = (jobs \ {j}) \cup {k} /\ UNCHANGED <<config, shutdown>>
  BY DEF FinishJob
<1>4. completeBatch(h, outcome)
  BY DEF FinishJob
<1> HIDE DEF k, h
<1>5. /\ \A n \in jobs' : \E i \in jobs : i.batch = n.batch /\ i.hash = n.hash
      /\ jobs' \subseteq Job
  BY <1>2, <1>3 DEF BInv, TypeOK, h
<1>6. QInv => DispatchOnce'
  BY <1>2, <1>3 DEF QInv, DispatchOnce
<1>7. QInv => HasQuorum(h)
  BY <1>1 DEF BInv, JobsNamed, QInv, JobsReached, HasQuorum, Job, h
<1>8. CASE pending[h] = NoCall
  <2>1. UNCHANGED <<calls, batch, pending, responseCache>>
    BY <1>4, <1>8 DEF completeBatch
  <2>2. TypeOK'
    BY <1>3, <1>5, <2>1 DEF BInv, TypeOK
  <2>3. NoDroppedNotification'
    BY <2>1 DEF BInv, NoDroppedNotification
  <2>4. BInv'
    BY <1>5, <2>1, <2>2, <2>3, QuietStep DEF BInv, Shape, Configured,
       ProcessingNotCancelled
  <2>5. QInv => QInv'
    BY <1>5, <1>6, <2>1, QuietQuorum DEF QInv, ResponsesReached
  <2>6. QED
    BY <2>4, <2>5
<1>9. CASE pending[h] # NoCall
  <2> DEFINE b == pending[h]
  <2>1. b \in Call
    BY <1>2, <1>9 DEF BInv, TypeOK
  <2>2. /\ batch' = [batch EXCEPT ![b].done = TRUE]
        /\ calls' = notifyWaiters(b, outcome)
        /\ responseCache' = IF outcome = "ok" THEN responseCache \cup {h}
                                              ELSE responseCache
        /\ pending' = [pending EXCEPT ![h] = NoCall]
    BY <1>4, <1>9 DEF completeBatch
  <2> HIDE DEF b
  <2>3. calls' \in [Call -> CallState]
    BY <2>2 DEF notifyWaiters, BInv, TypeOK, CallState, Errors
  <2>4. batch' \in [Call -> BatchState]
    BY ZenonT(30), <2>1, <2>2 DEF BInv, TypeOK, BatchState
  <2>5. TypeOK'
    BY <1>2, <1>3, <1>5, <2>2, <2>3, <2>4 DEF BInv, TypeOK
  <2>6. \A d \in Call :
           /\ batch'[d].hash = batch[d].hash
           /\ batch'[d].seen = batch[d].seen
           /\ batch'[d].waiters = batch[d].waiters
           /\ batch'[d].processing = batch[d].processing
    BY <2>1, <2>2 DEF BInv, TypeOK, BatchState
  <2>7. QInv => \A g \in responseCache' : HasQuorum(g)
    BY <1>7, <2>2 DEF QInv, ResponsesReached
  <2>8. outcome \in {"ok"} \cup Errors
        /\ outcome \notin {"quorum_timeout", "server_shutdown"}
    BY DEF Errors
  <2>9. QED
    BY <1>2, <1>5, <1>6, <1>7, <1>9, <2>2, <2>5, <2>6, <2>7, <2>8, NotifyStep
    DEF b
<1>10. QED
  BY <1>8, <1>9

\* A timeout goroutine changes its timer, and may fail a batch.
LEMMA TimerStep ==
    ASSUME BInv, NEW b \in Call,
           TimerFires(b) \/ TimerReleased(b) \/ TimerCancelled(b) \/ FailBatch(b)
    PROVE  BInv' /\ (QInv => QInv')
<1>1. PICK t \in {"timeout", "shutdown", "exited"} :
         batch' = [batch EXCEPT ![b].timer = t]
  BY DEF TimerFires, TimerReleased, TimerCancelled, FailBatch
<1>2. UNCHANGED <<config, jobs, responseCache, shutdown>>
  BY DEF TimerFires, TimerReleased, TimerCancelled, FailBatch
<1>3. batch' \in [Call -> BatchState]
  BY <1>1 DEF BInv, TypeOK, BatchState
<1>4. \A d \in Call :
         /\ batch'[d].hash = batch[d].hash
         /\ batch'[d].seen = batch[d].seen
         /\ batch'[d].waiters = batch[d].waiters
         /\ batch'[d].processing = batch[d].processing
  BY <1>1 DEF BInv, TypeOK, BatchState
<1>5. /\ \A j \in jobs' : \E i \in jobs : i.batch = j.batch /\ i.hash = j.hash
      /\ QInv => DispatchOnce' /\ \A g \in responseCache' : HasQuorum(g)
  BY <1>2 DEF QInv, DispatchOnce, ResponsesReached
<1>6. CASE UNCHANGED <<calls, pending>>
  <2>1. TypeOK'
    BY <1>2, <1>3, <1>6 DEF BInv, TypeOK
  <2>2. NoDroppedNotification'
    BY <1>4, <1>6 DEF BInv, TypeOK, NoDroppedNotification
  <2>3. BInv'
    BY <1>4, <1>5, <1>6, <2>1, <2>2, QuietStep DEF BInv, Shape, Configured,
       ProcessingNotCancelled
  <2>4. QInv => QInv'
    BY <1>4, <1>5, <1>6, QuietQuorum DEF QInv, ResponsesReached
  <2>5. QED
    BY <2>3, <2>4
<1>7. CASE ~UNCHANGED <<calls, pending>>
  <2> DEFINE h == batch[b].hash
  <2>1. FailBatch(b)
    BY <1>7 DEF TimerFires, TimerReleased, TimerCancelled
  <2>2. h \in Hash
    BY DEF BInv, TypeOK, BatchState
  <2>3. pending[h] # NoCall /\ ~batch[pending[h]].processing
    BY <1>7, <2>1 DEF FailBatch, notProcessed
  <2>4. pending' = [pending EXCEPT ![h] = NoCall]
    BY <1>7, <2>1 DEF FailBatch, notProcessed
  <2>5. PICK out \in {"server_shutdown", "quorum_timeout"} :
           calls' = notifyWaiters(pending[h], out)
    BY <1>7, <2>1 DEF FailBatch, notProcessed
  <2> HIDE DEF h
  <2>6. calls' \in [Call -> CallState]
    BY <2>5 DEF notifyWaiters, BInv, TypeOK, CallState, Errors
  <2>7. TypeOK'
    BY <1>2, <1>3, <2>4, <2>6 DEF BInv, TypeOK
  <2>8. out \in {"ok"} \cup Errors /\ out # "ok"
    BY DEF Errors
  <2>9. QED
    BY <1>4, <1>5, <2>2, <2>3, <2>4, <2>5, <2>7, <2>8, NotifyStep
<1>8. QED
  BY <1>6, <1>7

\* Caches expire, the config changes, the host shuts down.
LEMMA OtherStep ==
    ASSUME BInv,
           \/ \E c \in Configs : AdoptConfig(c)
           \/ \E h \in Hash : ExpireResponse(h) \/ ExpirePending(h)
           \/ Shutdown
           \/ UNCHANGED vars
    PROVE  BInv' /\ (QInv => QInv')
<1> USE DEF AdoptConfig, ExpireResponse, ExpirePending, Shutdown, vars
<1>1. UNCHANGED <<calls, batch, jobs>> /\ responseCache' \subseteq responseCache
  OBVIOUS
<1>2. \A h \in Hash : pending'[h] \in {pending[h], NoCall}
  BY DEF BInv, TypeOK
<1>3. TypeOK'
  <2>1. pending' \in [Hash -> Call \cup {NoCall}]
    BY DEF BInv, TypeOK
  <2>2. config' \in Configs \cup {ZeroConfig} /\ shutdown' \in BOOLEAN
    BY DEF BInv, TypeOK
  <2>3. QED
    BY <1>1, <2>1, <2>2 DEF BInv, TypeOK
<1>4. NoDroppedNotification'
  BY <1>1, <1>2 DEF BInv, NoDroppedNotification
<1>5. BInv'
  BY <1>1, <1>2, <1>3, <1>4, QuietStep DEF BInv, Shape, Configured,
     ProcessingNotCancelled
<1>6. QInv => QInv'
  BY <1>1, QuietQuorum DEF QInv, DispatchOnce, ResponsesReached
<1>7. QED
  BY <1>5, <1>6

\* Every step preserves what holds for all configs ...
LEMMA NextBInv == ASSUME BInv, [Next]_vars PROVE BInv'
  BY CallStep, AdmitStep, FinishStep, TimerStep, OtherStep DEF Next

\* ... and the inductive invariant when they agree on F.
LEMMA NextIInv == ASSUME ConstantF, IInv, [Next]_vars PROVE IInv'
  BY CallStep, AdmitStep, FinishStep, TimerStep, OtherStep DEF Next, IInv

\* So both always hold.
LEMMA AlwaysBInv == Spec => []BInv
<1>1. BInv /\ [Next]_vars => BInv'
  BY NextBInv
<1>2. Init => BInv
  BY InitIInv DEF IInv
<1>3. QED
  BY <1>1, <1>2, PTL DEF Spec

\* The inductive invariant, of configs that agree on F.
LEMMA AlwaysIInv == ASSUME ConstantF PROVE Spec => []IInv
<1>1. ConstantF /\ IInv /\ [Next]_vars => IInv'
  BY NextIInv
<1>2. QED
  BY <1>1, InitIInv, PTL DEF Spec

-----------------------------------------------------------------------------
\* The state of the host keeps its type: every batch, job and channel that the
\* code of host.go can reach is one of those declared.
THEOREM HostTypes == Spec => []TypeOK
<1>1. BInv => TypeOK
  BY DEF BInv
<1>2. QED
  BY <1>1, AlwaysBInv, PTL

\* A batch that was sent to the enclave is failed by no timer and no shutdown
\* (host.go:839-849), for any interleaving and whatever the configs.
THEOREM SentIsNotFailed == Spec => []ProcessingNotCancelled
<1>1. BInv => ProcessingNotCancelled
  BY DEF BInv
<1>2. QED
  BY <1>1, AlwaysBInv, PTL

\* The non-blocking send of notifyWaiters (host.go:781-801) never finds a full
\* channel: no outcome is dropped, whatever the configs.
THEOREM Notified == Spec => []NoDroppedNotification
<1>1. BInv => NoDroppedNotification
  BY DEF BInv
<1>2. QED
  BY <1>1, AlwaysBInv, PTL

\* Every batch is sent to the enclave at most once (host.go:614-637), whatever
\* calls, expiries and earlier batches under the same hash do, as long as all
\* configs have the same F.
THEOREM Dispatched ==
    ASSUME ConstantF
    PROVE  Spec => []DispatchOnce
<1>1. IInv => DispatchOnce
  BY DEF IInv, QInv
<1>2. QED
  BY <1>1, AlwaysIInv, PTL

\* The host's promise (host.go:73-75): a call is served only when a threshold
\* of distinct signers submitted its request, whether the response comes from
\* its batch, from another batch of the same hash or from the cache.
THEOREM QuorumBeforeResponse ==
    ASSUME ConstantF
    PROVE  Spec => []ServedImpliesQuorum
<1>1. ASSUME IInv PROVE ServedImpliesQuorum
  <2> SUFFICES ASSUME NEW c \in Call, calls[c].pc = "served"
               PROVE  Cardinality(Submitted(calls[c].hash))
                         >= quorumThreshold(calls[c].cfg.f)
    BY DEF ServedImpliesQuorum
  <2> DEFINE h == calls[c].hash
  <2>1. PICK b \in Call : batch[b].hash = h /\ Reached(batch[b].seen)
    BY <1>1 DEF IInv, QInv, ResponsesReached, HasQuorum
  <2>2. batch[b].seen \in SUBSET Signer /\ batch[b].waiters \subseteq Call
    BY <1>1 DEF IInv, BInv, TypeOK, BatchState
  <2>3. batch[b].seen \subseteq Submitted(h)
    <3> SUFFICES ASSUME NEW s \in batch[b].seen PROVE s \in Submitted(h)
      OBVIOUS
    <3>1. PICK w \in batch[b].waiters : calls[w].signer = s
      BY <1>1 DEF IInv, BInv, Shape, SignersWait
    <3>2. calls[w].batch = b /\ calls[w].hash = h
      BY <1>1, <2>1, <3>1 DEF IInv, BInv, Shape, WaitersJoined
    <3>3. QED
      BY <2>2, <3>1, <3>2, HostConstants DEF Submitted
  <2>4. Submitted(h) \in SUBSET Signer
    BY <1>1 DEF IInv, BInv, TypeOK, CallState, Submitted
  <2>5. Reached(Submitted(h))
    BY <2>1, <2>2, <2>3, <2>4, ReachedGrows
  <2>6. calls[c].cfg \in Configs
    BY <1>1 DEF IInv, BInv, Shape, Configured
  <2>7. QED
    BY <2>5, <2>6 DEF Reached
<1>2. QED
  BY <1>1, AlwaysIInv, PTL

-----------------------------------------------------------------------------
\* A batch that is not processing has too few signers for any config, and the
\* calls that joined a batch have a config of the enclave.
TooFew(seen) == \A d \in Configs : Cardinality(seen) < quorumThreshold(d.f)

WaitingInv ==
    /\ \A b \in Call : (batch[b].waiters # {} /\ ~batch[b].processing) =>
           TooFew(batch[b].seen)
    /\ \A c \in Call : calls[c].batch # NoCall => calls[c].cfg \in Configs

\* A signature that does not complete the quorum leaves a batch short of it.
LEMMA TooFewGrows ==
    ASSUME ConstantF, BInv, NEW c \in Call, calls[c].cfg \in Configs,
           NEW seen \in SUBSET Signer, NEW s \in Signer, s \notin seen,
           TooFew(seen), ~shouldProcess(c, seen \cup {s})
    PROVE  TooFew(seen \cup {s})
<1>1. IsFiniteSet(seen)
  BY HostConstants, FS_Subset
<1>2. /\ Cardinality(seen) \in Nat
      /\ Cardinality(seen \cup {s}) = Cardinality(seen) + 1
  BY <1>1, FS_CardinalityType, FS_AddElement
<1>3. \A d \in Configs : /\ quorumThreshold(d.f) \in Nat
                         /\ quorumThreshold(d.f) = quorumThreshold(calls[c].cfg.f)
  BY HostConstants DEF quorumThreshold, ConstantF
<1>4. Cardinality(seen \cup {s}) # quorumThreshold(calls[c].cfg.f)
  BY DEF shouldProcess
<1>5. QED
  BY <1>2, <1>3, <1>4 DEF TooFew

\* The admission of a call.
LEMMA AdmitWaiting ==
    ASSUME ConstantF, BInv, WaitingInv, NEW c \in Call, Admit(c)
    PROVE  WaitingInv'
<1> DEFINE s  == calls[c].signer
           b  == BatchOf(c)
           br == JoinedBatch(c)
           seen == br.seen \cup {s}
           go == s \notin br.seen /\ shouldProcess(c, seen)
           nb == [br EXCEPT !.seen = seen, !.waiters = br.waiters \cup {c},
                            !.processing = IF go THEN TRUE ELSE br.processing]
<1>1. /\ b \in Call /\ br \in BatchState /\ calls[c].cfg \in Configs
      /\ \/ br.waiters # {} /\ br = batch[b]
         \/ br.waiters = {} /\ b = c /\ br.seen = {} /\ ~br.processing
  BY JoinedFacts DEF Admit
<1>2. batch' = [batch EXCEPT ![b] = nb]
  BY DEF Admit
<1>3. calls' = [calls EXCEPT ![c].pc = "waiting", ![c].batch = b]
  BY DEF Admit
<1>4. s \in Signer /\ br.seen \in SUBSET Signer
  BY <1>1 DEF BInv, TypeOK, CallState, BatchState
<1>5. ~br.processing => TooFew(br.seen)
  <2>1. CASE br.waiters # {} /\ br = batch[b]
    BY <1>1, <2>1 DEF WaitingInv
  <2>2. CASE br.seen = {}
    <3>1. Cardinality(br.seen) = 0
      BY <2>2, FS_EmptySet
    <3>2. \A d \in Configs : quorumThreshold(d.f) \in Nat /\ quorumThreshold(d.f) > 0
      BY HostConstants DEF quorumThreshold
    <3>3. QED
      BY <3>1, <3>2 DEF TooFew
  <2>3. QED
    BY <1>1, <2>1, <2>2
<1>6. ASSUME ~nb.processing PROVE TooFew(nb.seen)
  <2>1. nb.seen = seen /\ ~go /\ ~br.processing
    BY <1>1, <1>6 DEF BatchState
  <2>2. CASE s \in br.seen
    <3>1. seen = br.seen
      BY <2>2
    <3>2. QED
      BY <1>5, <2>1, <3>1
  <2>3. CASE s \notin br.seen
    BY <1>1, <1>4, <1>5, <2>1, <2>3, TooFewGrows
  <2>4. QED
    BY <2>2, <2>3
<1> HIDE DEF nb, b
<1>7. \A d \in Call : batch'[d] = IF d = b THEN nb ELSE batch[d]
  BY <1>1, <1>2 DEF BInv, TypeOK
<1>8. \A d \in Call : calls'[d].batch # NoCall => calls'[d].cfg \in Configs
  BY <1>1, <1>3 DEF BInv, TypeOK, CallState, WaitingInv
<1>9. QED
  BY <1>6, <1>7, <1>8 DEF WaitingInv

\* No other step adds a signature, or changes the config of a call that waits.
LEMMA OtherWaiting ==
    ASSUME BInv, WaitingInv, [Next]_vars, \A c \in Call : ~Admit(c)
    PROVE  WaitingInv'
<1> USE DEF BInv, TypeOK
<1>1. \A b \in Call : /\ batch'[b].seen = batch[b].seen
                      /\ batch'[b].waiters = batch[b].waiters
                      /\ batch'[b].processing = batch[b].processing
  <2>1. CASE UNCHANGED batch
    BY <2>1
  <2>2. CASE \E b \in Call : \E t : batch' = [batch EXCEPT ![b].timer = t]
    BY <2>2 DEF BatchState
  <2>3. CASE \E b \in Call : batch' = [batch EXCEPT ![b].done = TRUE]
    BY <2>3 DEF BatchState
  <2>4. ASSUME NEW j \in jobs, NEW outcome \in {"ok", "error"}, FinishJob(j, outcome)
        PROVE  UNCHANGED batch \/ \E b \in Call : batch' = [batch EXCEPT ![b].done = TRUE]
    <3>1. j.hash \in Hash
      BY DEF Job
    <3>2. QED
      BY <2>4, <3>1 DEF FinishJob, completeBatch
  <2>5. ASSUME NEW b \in Call, TimerFires(b) \/ TimerReleased(b) \/ TimerCancelled(b)
                               \/ FailBatch(b)
        PROVE  \E t : batch' = [batch EXCEPT ![b].timer = t]
    BY <2>5 DEF TimerFires, TimerReleased, TimerCancelled, FailBatch
  <2>6. QED
    BY <2>1, <2>2, <2>3, <2>4, <2>5 DEF Next, AdoptConfig, Arrive, RejectSignature,
       ServeCached, Receive, Disconnect, ExpireResponse, ExpirePending, Shutdown, vars
<1>2. \A c \in Call : calls'[c].batch # NoCall => calls'[c].cfg \in Configs
  <2>1. \A c \in Call : \/ calls'[c].batch = calls[c].batch /\ calls'[c].cfg = calls[c].cfg
                        \/ calls'[c].batch = NoCall
    <3>1. CASE UNCHANGED calls
      BY <3>1
    <3>2. CASE \E c \in Call : \E p : calls' = [calls EXCEPT ![c].pc = p]
      BY <3>2 DEF CallState
    <3>3. CASE \E b \in Call : \E o : calls' = notifyWaiters(b, o)
      BY <3>3 DEF notifyWaiters, CallState
    <3>4. ASSUME NEW c \in Call, Arrive(c)
          PROVE  /\ calls'[c].batch = NoCall
                 /\ \A d \in Call : d # c => calls'[d] = calls[d]
      BY <3>4 DEF Arrive, CallState, Shape, EarlyAlone, Early
    <3>5. ASSUME NEW j \in jobs, NEW outcome \in {"ok", "error"}, FinishJob(j, outcome)
          PROVE  UNCHANGED calls \/ \E b \in Call : \E o : calls' = notifyWaiters(b, o)
      <4>1. j.hash \in Hash
        BY DEF Job
      <4>2. QED
        BY <3>5, <4>1 DEF FinishJob, completeBatch
    <3>6. ASSUME NEW b \in Call, TimerFires(b) \/ TimerReleased(b) \/ TimerCancelled(b)
                                 \/ FailBatch(b)
          PROVE  UNCHANGED calls \/ \E d \in Call : \E o : calls' = notifyWaiters(d, o)
      <4>1. batch[b].hash \in Hash
        BY DEF BatchState
      <4>2. QED
        BY <3>6, <4>1 DEF TimerFires, TimerReleased, TimerCancelled, FailBatch,
           notProcessed
    <3>7. ASSUME NEW c \in Call, RejectSignature(c) \/ ServeCached(c) \/ Receive(c)
                                 \/ Disconnect(c)
          PROVE  \E p : calls' = [calls EXCEPT ![c].pc = p]
      BY <3>7 DEF RejectSignature, ServeCached, Receive, Disconnect
    <3>8. QED
      BY <3>1, <3>2, <3>3, <3>4, <3>5, <3>6, <3>7 DEF Next, AdoptConfig,
         ExpireResponse, ExpirePending, Shutdown, vars
  <2>2. QED
    BY <2>1 DEF WaitingInv
<1>3. QED
  BY <1>1, <1>2 DEF WaitingInv

\* A call is told quorum_timeout only when the signers of its batch are too few
\* for it (host.go:839-849 and 894), whichever batch's timer failed it, as long
\* as all configs have the same F.
THEOREM TimeoutHonest ==
    ASSUME ConstantF
    PROVE  Spec => []TimeoutMeansNoQuorum
<1>1. Init => WaitingInv
  <2> SUFFICES ASSUME Init PROVE WaitingInv
    OBVIOUS
  <2>1. \A c \in Call : batch[c].waiters = {} /\ calls[c].batch = NoCall
    BY DEF Init, NoBatchYet
  <2>2. QED
    BY <2>1 DEF WaitingInv
<1>2. ConstantF /\ BInv /\ WaitingInv /\ [Next]_vars => WaitingInv'
  BY AdmitWaiting, OtherWaiting
<1>3. ASSUME BInv, WaitingInv PROVE TimeoutMeansNoQuorum
  <2> SUFFICES ASSUME NEW c \in Call, calls[c].ch = "quorum_timeout"
               PROVE  Cardinality(batch[calls[c].batch].seen)
                         < quorumThreshold(calls[c].cfg.f)
    BY DEF TimeoutMeansNoQuorum
  <2>1. calls[c].batch # NoCall
    BY <1>3 DEF BInv, Shape, EarlyAlone
  <2>2. calls[c].batch \in Call /\ c \in batch[calls[c].batch].waiters
    BY <1>3, <2>1 DEF BInv, Shape, JoinedWaits
  <2>3. ~batch[calls[c].batch].processing
    BY <1>3 DEF BInv, ProcessingNotCancelled
  <2>4. QED
    BY <1>3, <2>1, <2>2, <2>3 DEF WaitingInv, TooFew
<1>4. QED
  BY <1>1, <1>2, <1>3, AlwaysBInv, PTL DEF Spec

-----------------------------------------------------------------------------
\* The steps of the host when no pending batch outlives its TTL.
PatientNext ==
    \/ \E c \in Configs : AdoptConfig(c)
    \/ \E c \in Call :
          \/ Arrive(c) \/ RejectSignature(c) \/ ServeCached(c) \/ Admit(c)
          \/ Receive(c) \/ Disconnect(c)
    \/ \E j \in jobs, outcome \in {"ok", "error"} : FinishJob(j, outcome)
    \/ \E b \in Call :
          \/ TimerFires(b) \/ TimerReleased(b) \/ TimerCancelled(b)
          \/ FailBatch(b)
    \/ \E h \in Hash : ExpireResponse(h)
    \/ Shutdown

\* A call without an outcome waits on the batch pending under its hash.
WaitsOnPending ==
    \A c \in Call : calls[c].pc = "waiting" =>
        /\ calls[c].batch # NoCall
        /\ calls[c].ch = "empty" => pending[calls[c].hash] = calls[c].batch

\* Somebody will answer a pending batch: the timeout goroutine that has not
\* exited, or the job of a batch that is processing.
PendingHeld ==
    \A h \in Hash : pending[h] # NoCall =>
        /\ ~batch[pending[h]].done
        /\ batch[pending[h]].timer = "exited" => batch[pending[h]].processing
        /\ batch[pending[h]].processing => \E j \in jobs : j.open /\ j.hash = h

PInv == WaitsOnPending /\ PendingHeld

\* A job that runs is the job of the batch pending under its hash.
OpenInv ==
    \A j \in jobs : j.open =>
        pending[j.hash] = j.batch /\ batch[j.batch].processing

\* The calls that act alone are answered before they stop waiting.
LEMMA CallPending ==
    ASSUME BInv, NEW c \in Call,
           Arrive(c) \/ RejectSignature(c) \/ ServeCached(c)
              \/ Receive(c) \/ Disconnect(c)
    PROVE  (PInv => PInv') /\ (OpenInv => OpenInv')
<1>1. UNCHANGED <<batch, pending, jobs>>
  BY DEF Arrive, RejectSignature, ServeCached, Receive, Disconnect
<1>2. \A d \in Call : calls'[d].pc = "waiting" => calls'[d] = calls[d]
  BY DEF Arrive, RejectSignature, ServeCached, Receive, Disconnect, BInv, TypeOK,
     CallState
<1>3. QED
  BY <1>1, <1>2 DEF PInv, WaitsOnPending, PendingHeld, OpenInv

\* A call that is admitted waits on the pending batch, and the batch it brings
\* to the quorum has a job.
LEMMA AdmitPending ==
    ASSUME BInv, NEW c \in Call, Admit(c)
    PROVE  (PInv => PInv') /\ (OpenInv => OpenInv')
<1> DEFINE h  == calls[c].hash
           b  == BatchOf(c)
           br == JoinedBatch(c)
           seen == br.seen \cup {calls[c].signer}
           go == calls[c].signer \notin br.seen /\ shouldProcess(c, seen)
           new == [batch |-> b, hash |-> h, sigs |-> seen, open |-> TRUE]
<1>1. /\ b \in Call /\ br \in BatchState /\ br.hash = h
      /\ br.waiters = batch[b].waiters /\ calls[c].ch = "empty"
      /\ \/ br.waiters # {} /\ br = batch[b]
         \/ br.waiters = {} /\ b = c /\ br.seen = {} /\ ~br.processing
  BY JoinedFacts DEF Admit
<1>2. h \in Hash /\ b # NoCall
  BY <1>1, HostConstants DEF BInv, TypeOK, CallState
<1>3. /\ batch' = [batch EXCEPT ![b] = [br EXCEPT
                      !.seen = seen,
                      !.waiters = @ \cup {c},
                      !.processing = IF go THEN TRUE ELSE @]]
      /\ pending' = [pending EXCEPT ![h] = b]
      /\ jobs' = IF go THEN jobs \cup {new} ELSE jobs
      /\ calls' = [calls EXCEPT ![c].pc = "waiting", ![c].batch = b]
  BY DEF Admit
<1>4. \/ pending[h] = NoCall /\ br.timer = "armed" /\ ~br.done /\ ~br.processing
      \/ pending[h] = b /\ br = batch[b]
  BY DEF BatchOf, JoinedBatch, NoBatchYet
<1>5. new.open /\ new.hash = h /\ new.batch = b
  OBVIOUS
<1> HIDE DEF b, br, go, seen, new
<1>6. /\ batch'[b].done = br.done /\ batch'[b].timer = br.timer
      /\ batch'[b].processing = (go \/ br.processing)
  <2>1. br.processing \in BOOLEAN
    BY <1>1 DEF BatchState
  <2>2. batch'[b] = [br EXCEPT !.seen = seen, !.waiters = @ \cup {c},
                               !.processing = IF go THEN TRUE ELSE @]
    BY <1>1, <1>3 DEF BInv, TypeOK
  <2>3. CASE go
    BY <1>1, <2>1, <2>2, <2>3 DEF BatchState
  <2>4. CASE ~go
    BY <1>1, <2>1, <2>2, <2>4 DEF BatchState
  <2>5. QED
    BY <2>3, <2>4
<1>7. \A d \in Call : d # b => batch'[d] = batch[d]
  BY <1>3 DEF BInv, TypeOK
<1>8. /\ pending'[h] = b
      /\ \A g \in Hash : g # h => pending'[g] = pending[g]
  BY <1>2, <1>3 DEF BInv, TypeOK
<1>9. /\ \A d \in Call : d # c => calls'[d] = calls[d]
      /\ calls'[c].hash = h /\ calls'[c].batch = b
  BY <1>3 DEF BInv, TypeOK, CallState
<1>10. jobs \subseteq jobs' /\ (go => new \in jobs')
       /\ \A j \in jobs' : j \in jobs \/ (j = new /\ go)
  BY <1>3
<1>11. \A d \in Call : d = b /\ batch[d].waiters # {} => br = batch[b]
  BY <1>1
<1>12. ASSUME PInv PROVE WaitsOnPending'
  <2> SUFFICES ASSUME NEW d \in Call, calls'[d].pc = "waiting"
               PROVE  /\ calls'[d].batch # NoCall
                      /\ calls'[d].ch = "empty" =>
                            pending'[calls'[d].hash] = calls'[d].batch
    BY DEF WaitsOnPending
  <2>1. CASE d = c
    BY <1>2, <1>8, <1>9, <2>1
  <2>2. CASE d # c
    <3>1. calls'[d] = calls[d] /\ calls[d].hash \in Hash
      BY <1>9, <2>2 DEF BInv, TypeOK, CallState
    <3>2. /\ calls[d].batch # NoCall
          /\ calls[d].ch = "empty" => pending[calls[d].hash] = calls[d].batch
      BY <1>12, <3>1 DEF PInv, WaitsOnPending
    <3>3. QED
      BY <1>4, <1>8, <3>1, <3>2
  <2>3. QED
    BY <2>1, <2>2
<1>13. ASSUME PInv PROVE PendingHeld'
  <2> SUFFICES ASSUME NEW g \in Hash, pending'[g] # NoCall
               PROVE  LET p == batch'[pending'[g]]
                      IN  /\ ~p.done
                          /\ p.timer = "exited" => p.processing
                          /\ p.processing => \E j \in jobs' : j.open /\ j.hash = g
    BY DEF PendingHeld
  <2>1. CASE g = h
    <3>1. /\ ~br.done
          /\ br.timer = "exited" => br.processing
          /\ br.processing => \E j \in jobs : j.open /\ j.hash = h
      BY <1>2, <1>4, <1>13 DEF PInv, PendingHeld
    <3>2. QED
      BY <1>5, <1>6, <1>8, <1>10, <2>1, <3>1
  <2>2. CASE g # h
    <3>1. pending'[g] = pending[g] /\ pending[g] \in Call
      BY <1>8, <2>2 DEF BInv, TypeOK
    <3>2. batch[pending[g]].hash = g /\ batch[pending[g]].waiters # {}
      BY <3>1 DEF BInv, Shape, PendingUsed
    <3>3. pending[g] # b
      BY <1>1, <1>11, <2>2, <3>1, <3>2
    <3>4. QED
      BY <1>7, <1>10, <1>13, <3>1, <3>3 DEF PInv, PendingHeld
  <2>3. QED
    BY <2>1, <2>2
<1>14. ASSUME OpenInv PROVE OpenInv'
  <2> SUFFICES ASSUME NEW j \in jobs', j.open
               PROVE  pending'[j.hash] = j.batch /\ batch'[j.batch].processing
    BY DEF OpenInv
  <2>1. CASE j \in jobs
    <3>1. /\ j.hash \in Hash /\ j.batch \in Call
          /\ batch[j.batch].hash = j.hash /\ batch[j.batch].waiters # {}
          /\ pending[j.hash] = j.batch /\ batch[j.batch].processing
      BY <1>14, <2>1 DEF BInv, TypeOK, Job, JobsNamed, OpenInv
    <3>2. batch'[j.batch].processing
      BY <1>6, <1>7, <1>11, <3>1
    <3>3. pending'[j.hash] = j.batch
      BY <1>4, <1>8, <3>1, HostConstants
    <3>4. QED
      BY <3>2, <3>3
  <2>2. CASE j = new /\ go
    BY <1>5, <1>6, <1>8, <2>2
  <2>3. QED
    BY <1>10, <2>1, <2>2
<1>15. QED
  BY <1>12, <1>13, <1>14 DEF PInv

\* Answering the calls of the batch pending under h, and forgetting the batch.
LEMMA NotifyPending ==
    ASSUME BInv, PInv, NEW h \in Hash, pending[h] # NoCall,
           NEW out \in {"ok"} \cup Errors,
           calls' = notifyWaiters(pending[h], out),
           pending' = [pending EXCEPT ![h] = NoCall]
    PROVE  WaitsOnPending'
<1> SUFFICES ASSUME NEW d \in Call, calls'[d].pc = "waiting"
             PROVE  /\ calls'[d].batch # NoCall
                    /\ calls'[d].ch = "empty" =>
                          pending'[calls'[d].hash] = calls'[d].batch
  BY DEF WaitsOnPending
<1>1. /\ calls'[d].hash = calls[d].hash /\ calls'[d].batch = calls[d].batch
      /\ calls'[d].pc = calls[d].pc
      /\ d \in batch[pending[h]].waiters => calls'[d].ch # "empty"
      /\ calls'[d].ch = "empty" => calls[d].ch = "empty"
  BY DEF notifyWaiters, BInv, TypeOK, CallState, Errors
<1>2. calls[d].batch # NoCall /\ calls[d].hash \in Hash
  BY <1>1 DEF PInv, WaitsOnPending, BInv, TypeOK, CallState
<1>3. ASSUME calls'[d].ch = "empty" PROVE calls[d].hash # h
  <2>1. d \in batch[calls[d].batch].waiters
    BY <1>2 DEF BInv, Shape, JoinedWaits
  <2>2. QED
    BY <1>1, <1>3, <2>1 DEF PInv, WaitsOnPending
<1>4. QED
  BY <1>1, <1>2, <1>3 DEF PInv, WaitsOnPending, BInv, TypeOK

\* The end of a job.
LEMMA FinishPending ==
    ASSUME BInv, NEW j \in jobs, NEW outcome \in {"ok", "error"},
           FinishJob(j, outcome)
    PROVE  /\ PInv => PInv'
           /\ DispatchOnce /\ OpenInv => OpenInv'
<1> DEFINE h == j.hash
           b == pending[h]
           k == [j EXCEPT !.open = FALSE]
<1>1. j \in Job /\ j.open /\ h \in Hash
  BY DEF BInv, TypeOK, Job, FinishJob
<1>2. jobs' = (jobs \ {j}) \cup {k} /\ ~k.open
  BY <1>1 DEF FinishJob, Job
<1>3. completeBatch(h, outcome)
  BY DEF FinishJob
<1>4. \A i \in jobs : i.hash # h => i \in jobs'
  BY <1>2
<1>5. \A i \in jobs' : i.open => i \in jobs /\ i # j
  BY <1>2
<1> HIDE DEF k
<1>6. CASE b = NoCall
  <2>1. UNCHANGED <<calls, batch, pending>>
    BY <1>3, <1>6 DEF completeBatch
  <2>2. PInv => PInv'
    BY <1>4, <1>6, <2>1 DEF PInv, WaitsOnPending, PendingHeld
  <2>3. OpenInv => OpenInv'
    BY <1>5, <2>1 DEF OpenInv
  <2>4. QED
    BY <2>2, <2>3
<1>7. CASE b # NoCall
  <2>1. /\ batch' = [batch EXCEPT ![b].done = TRUE]
        /\ calls' = notifyWaiters(b, outcome)
        /\ pending' = [pending EXCEPT ![h] = NoCall]
    BY <1>3, <1>7 DEF completeBatch
  <2>2. b \in Call /\ batch[b].hash = h
    BY <1>1, <1>7 DEF BInv, TypeOK, Shape, PendingUsed
  <2>3. /\ \A d \in Call : d # b => batch'[d] = batch[d]
        /\ \A d \in Call : batch'[d].processing = batch[d].processing
    BY <2>1, <2>2 DEF BInv, TypeOK, BatchState
  <2>4. /\ pending'[h] = NoCall
        /\ \A g \in Hash : g # h => pending'[g] = pending[g]
    BY <1>1, <2>1 DEF BInv, TypeOK
  <2>5. PInv => WaitsOnPending'
    BY <1>1, <1>7, <2>1, NotifyPending DEF Errors
  <2>6. ASSUME PInv PROVE PendingHeld'
    <3> SUFFICES ASSUME NEW g \in Hash, pending'[g] # NoCall
                 PROVE  LET p == batch'[pending'[g]]
                        IN  /\ ~p.done
                            /\ p.timer = "exited" => p.processing
                            /\ p.processing => \E i \in jobs' : i.open /\ i.hash = g
      BY DEF PendingHeld
    <3>1. g # h /\ pending'[g] = pending[g] /\ pending[g] \in Call
      BY <2>4 DEF BInv, TypeOK
    <3>2. pending[g] # b
      BY <2>2, <3>1 DEF BInv, Shape, PendingUsed
    <3>3. QED
      BY <1>4, <2>3, <2>6, <3>1, <3>2 DEF PInv, PendingHeld
  <2>7. ASSUME DispatchOnce, OpenInv PROVE OpenInv'
    <3> SUFFICES ASSUME NEW i \in jobs', i.open
                 PROVE  pending'[i.hash] = i.batch /\ batch'[i.batch].processing
      BY DEF OpenInv
    <3>1. i \in jobs /\ i # j /\ i.hash \in Hash /\ i.batch \in Call
      BY <1>5 DEF BInv, TypeOK, Job
    <3>2. i.hash # h
      BY <1>1, <2>7, <3>1 DEF OpenInv, DispatchOnce
    <3>3. QED
      BY <2>3, <2>4, <2>7, <3>1, <3>2 DEF OpenInv
  <2>8. QED
    BY <2>5, <2>6, <2>7 DEF PInv
<1>8. QED
  BY <1>6, <1>7

\* A timeout goroutine exits only when its batch is answered or processing.
LEMMA TimerPending ==
    ASSUME BInv, NEW b \in Call,
           TimerFires(b) \/ TimerReleased(b) \/ TimerCancelled(b) \/ FailBatch(b)
    PROVE  (PInv => PInv') /\ (OpenInv => OpenInv')
<1>1. PICK t \in {"timeout", "shutdown", "exited"} :
         /\ batch' = [batch EXCEPT ![b].timer = t]
         /\ t = "exited" => TimerReleased(b) \/ FailBatch(b)
  BY DEF TimerFires, TimerReleased, TimerCancelled, FailBatch
<1>2. UNCHANGED jobs
  BY DEF TimerFires, TimerReleased, TimerCancelled, FailBatch
<1>3. /\ \A d \in Call : /\ batch'[d].processing = batch[d].processing
                         /\ batch'[d].done = batch[d].done
                         /\ d # b => batch'[d].timer = batch[d].timer
      /\ batch'[b].timer = t
  BY <1>1 DEF BInv, TypeOK, BatchState
<1> DEFINE h == batch[b].hash
           fails == FailBatch(b) /\ notProcessed(pending[h])
<1>4. h \in Hash
  BY DEF BInv, TypeOK, BatchState
<1>5. CASE ~fails
  <2>1. UNCHANGED <<calls, pending>>
    BY <1>5 DEF TimerFires, TimerReleased, TimerCancelled, FailBatch
  <2>2. PInv => WaitsOnPending'
    BY <2>1 DEF PInv, WaitsOnPending
  <2>3. ASSUME PInv, NEW g \in Hash, pending'[g] # NoCall
        PROVE  LET p == batch'[pending'[g]]
               IN  /\ ~p.done
                   /\ p.timer = "exited" => p.processing
                   /\ p.processing => \E i \in jobs' : i.open /\ i.hash = g
    <3>1. pending'[g] = pending[g] /\ pending[g] \in Call
      BY <2>1, <2>3 DEF BInv, TypeOK
    <3>2. ASSUME pending[g] = b, t = "exited" PROVE batch[b].processing
      <4>1. ~batch[b].done /\ h = g
        BY <2>3, <3>1, <3>2 DEF PInv, PendingHeld, BInv, Shape, PendingUsed
      <4>2. FailBatch(b)
        BY <1>1, <3>2, <4>1 DEF TimerReleased
      <4>3. QED
        BY <1>5, <3>1, <3>2, <4>1, <4>2, HostConstants DEF notProcessed
    <3>3. QED
      BY <1>2, <1>3, <2>3, <3>1, <3>2 DEF PInv, PendingHeld
  <2>4. OpenInv => OpenInv'
    BY <1>2, <1>3, <2>1 DEF OpenInv, BInv, TypeOK, Job
  <2>5. QED
    BY <2>2, <2>3, <2>4 DEF PInv, PendingHeld
<1>6. CASE fails
  <2>1. /\ pending[h] # NoCall /\ ~batch[pending[h]].processing
        /\ pending' = [pending EXCEPT ![h] = NoCall]
    BY <1>6 DEF FailBatch, notProcessed
  <2>2. PICK out \in {"server_shutdown", "quorum_timeout"} :
           calls' = notifyWaiters(pending[h], out)
    BY <1>6 DEF FailBatch, notProcessed
  <2> HIDE DEF h, fails
  <2>3. /\ pending'[h] = NoCall
        /\ \A g \in Hash : g # h => pending'[g] = pending[g]
    BY <1>4, <2>1 DEF BInv, TypeOK
  <2>4. PInv => WaitsOnPending'
    BY <1>4, <2>1, <2>2, NotifyPending DEF Errors
  <2>5. ASSUME PInv, NEW g \in Hash, pending'[g] # NoCall
        PROVE  LET p == batch'[pending'[g]]
               IN  /\ ~p.done
                   /\ p.timer = "exited" => p.processing
                   /\ p.processing => \E i \in jobs' : i.open /\ i.hash = g
    <3>1. g # h /\ pending'[g] = pending[g] /\ pending[g] \in Call
      BY <2>3, <2>5 DEF BInv, TypeOK
    <3>2. pending[g] # b
      BY <2>5, <3>1 DEF h, BInv, Shape, PendingUsed
    <3>3. QED
      BY <1>2, <1>3, <2>5, <3>1, <3>2 DEF PInv, PendingHeld
  <2>6. ASSUME OpenInv PROVE OpenInv'
    <3> SUFFICES ASSUME NEW i \in jobs, i.open
                 PROVE  pending'[i.hash] = i.batch /\ batch'[i.batch].processing
      BY <1>2 DEF OpenInv
    <3>1. i.hash \in Hash /\ i.batch \in Call
      BY DEF BInv, TypeOK, Job
    <3>2. QED
      BY <1>3, <2>1, <2>3, <2>6, <3>1 DEF OpenInv
  <2>7. QED
    BY <2>4, <2>5, <2>6 DEF PInv, PendingHeld
<1>7. QED
  BY <1>5, <1>6

\* Every step of a patient host keeps its pending batches held ...
LEMMA NextPending ==
    ASSUME BInv, PInv, [PatientNext]_vars
    PROVE  PInv'
<1>1. CASE UNCHANGED <<calls, batch, pending, jobs>>
  BY <1>1 DEF PInv, WaitsOnPending, PendingHeld
<1>2. QED
  BY <1>1, CallPending, AdmitPending, FinishPending, TimerPending
  DEF PatientNext, AdoptConfig, ExpireResponse, Shutdown, vars

\* ... and its jobs pending, when the configs agree on F.
LEMMA NextOpen ==
    ASSUME BInv, DispatchOnce, OpenInv, [PatientNext]_vars
    PROVE  OpenInv'
<1>1. CASE UNCHANGED <<calls, batch, pending, jobs>>
  BY <1>1 DEF OpenInv
<1>2. QED
  BY <1>1, CallPending, AdmitPending, FinishPending, TimerPending
  DEF PatientNext, AdoptConfig, ExpireResponse, Shutdown, vars

\* No call hangs (host.go:942-946): while a call waits without an outcome, its
\* batch is the one pending under its hash, and the timeout goroutine or a job
\* of that hash is there to answer it, for all configs, however F changes,
\* whenever executions end within the TTL of the pending cache.
THEOREM NobodyForgotten ==
    ASSUME ~SlowEnclave
    PROVE  Spec => []NoOrphanedCall
<1>1. Init => PInv
  BY DEF Init, PInv, WaitsOnPending, PendingHeld
<1>2. ~SlowEnclave /\ BInv /\ PInv /\ [Next]_vars => PInv'
  <2>1. ~SlowEnclave /\ [Next]_vars => [PatientNext]_vars
    BY DEF Next, PatientNext, ExpirePending
  <2>2. QED
    BY <2>1, NextPending
<1>3. BInv /\ PInv => NoOrphanedCall
  BY DEF BInv, TypeOK, CallState, PInv, WaitsOnPending, PendingHeld, NoOrphanedCall
<1>4. QED
  BY <1>1, <1>2, <1>3, AlwaysBInv, PTL DEF Spec
=============================================================================
