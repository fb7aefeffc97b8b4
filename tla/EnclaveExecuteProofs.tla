------------------------ MODULE EnclaveExecuteProofs -------------------------
(***************************************************************************)
(* Replay protection of the enclave, proved for any number of requests,    *)
(* hashes, signers and configs, any clock bound and any TTLs with          *)
(* KeyTTL <= ReplayTTL (server.go:82-83 gives executedReqs the default     *)
(* life of a key pair).                                                    *)
(***************************************************************************)
EXTENDS EnclaveExecute, TLAPS

\* Keys are not from the future.
BornBefore == \A h \in Hash : born[h] # Never => born[h] <= now

\* As long as the key of an answered hash can be used, the hash is on record,
\* and it was recorded after the key was created.
RecordOutlivesKey ==
    \A h \in answered :
        KeyAlive(h) => executed[h] # Never /\ born[h] <= executed[h]

\* A replay gets past the replay check only once its key has expired, and so
\* never past the key.
Stopped(r) ==
    req[r].replay # {} =>
        /\ req[r].hash \in answered
        /\ ~req[r].ran
        /\ req[r].pc \notin {"keyed", "ran", "recorded"}
        /\ req[r].pc = "fresh" => ~KeyAlive(req[r].hash)

ReplayStopped == \A r \in Req : Stopped(r)

IInv == TypeOK /\ BornBefore /\ RecordOutlivesKey /\ ReplayStopped

-----------------------------------------------------------------------------
\* The initial states satisfy the inductive invariant.
LEMMA InitIInv == Init => IInv
<1> SUFFICES ASSUME Init PROVE IInv
  OBVIOUS
<1>1. (CHOOSE h \in Hash : TRUE) \in Hash
  BY ExecConstants
<1>2. NoReq \in ReqState
  BY <1>1 DEF NoReq, ReqState
<1>3. TypeOK
  BY <1>2, ExecConstants DEF Init, TypeOK, Time
<1>4. QED
  BY <1>3, ExecConstants
  DEF Init, IInv, BornBefore, RecordOutlivesKey, ReplayStopped, Stopped, NoReq

\* A step of the handler that only moves it keeps the invariant, provided a
\* replay is not moved past the key.
LEMMA MoveKeeps ==
    ASSUME IInv, NEW r \in Req, NEW new \in ReqState,
           req' = [req EXCEPT ![r] = new],
           new.hash = req[r].hash,
           new.replay = req[r].replay,
           new.replay # {} => /\ ~new.ran
                              /\ new.pc \notin {"keyed", "ran", "recorded"}
                              /\ new.pc = "fresh" => ~KeyAlive(new.hash),
           inProgress' \subseteq Hash,
           UNCHANGED <<now, config, born, executed, answered>>
    PROVE  IInv'
<1>1. req' \in [Req -> ReqState]
  BY DEF IInv, TypeOK
<1>2. TypeOK' /\ BornBefore'
  BY <1>1 DEF IInv, TypeOK, BornBefore
<1>3. RecordOutlivesKey'
  BY DEF IInv, RecordOutlivesKey, KeyAlive
<1>4. ASSUME NEW s \in Req
      PROVE  Stopped(s)'
  <2>1. CASE s = r
    <3>1. req'[s] = new
      BY <2>1 DEF IInv, TypeOK
    <3>2. new.replay # {} => new.hash \in answered
      BY DEF IInv, ReplayStopped, Stopped
    <3>3. QED
      BY <3>1, <3>2 DEF Stopped, KeyAlive
  <2>2. CASE s # r
    <3>1. req'[s] = req[s]
      BY <2>2 DEF IInv, TypeOK
    <3>2. QED
      BY <3>1 DEF IInv, ReplayStopped, Stopped, KeyAlive
  <2>3. QED
    BY <2>1, <2>2
<1>5. QED
  BY <1>2, <1>3, <1>4 DEF IInv, ReplayStopped

\* What Goto and Fail do to a handler.
Moved(r, pc) ==
    /\ req'[r] \in ReqState
    /\ req' = [req EXCEPT ![r] = req'[r]]
    /\ req'[r].hash = req[r].hash
    /\ req'[r].replay = req[r].replay
    /\ req'[r].ran = req[r].ran
    /\ req'[r].pc = pc

\* A handler that proceeds moves as MoveKeeps asks.
LEMMA GotoMoves ==
    ASSUME TypeOK, NEW r \in Req, NEW from,
           NEW to \in {"unclaimed", "claimed", "fresh", "keyed"},
           Goto(r, from, to)
    PROVE  Moved(r, to)
<1>1. req[r] \in ReqState
  BY DEF TypeOK
<1>2. req'[r] = [req[r] EXCEPT !.pc = to]
  BY DEF Goto, TypeOK
<1>3. req' = [req EXCEPT ![r] = req'[r]]
  BY <1>2 DEF Goto, TypeOK
<1>4. QED
  BY <1>1, <1>2, <1>3 DEF Moved, ReqState, Claimed

\* A handler that fails moves as MoveKeeps asks.
LEMMA FailMoves ==
    ASSUME TypeOK, NEW r \in Req, NEW from,
           NEW out \in {"bad request", "conflict", "error"},
           Fail(r, from, out)
    PROVE  Moved(r, IF from \in Claimed THEN "failed" ELSE "done")
<1> DEFINE to == IF from \in Claimed THEN "failed" ELSE "done"
<1>1. req[r] \in ReqState
  BY DEF TypeOK
<1>2. req'[r] = [req[r] EXCEPT !.pc = to, !.out = out]
  BY DEF Fail, TypeOK
<1>3. req' = [req EXCEPT ![r] = req'[r]]
  BY <1>2 DEF Fail, TypeOK
<1>4. to \in {"failed", "done"}
  OBVIOUS
<1> HIDE DEF to
<1>5. Moved(r, to)
  BY <1>1, <1>2, <1>3, <1>4 DEF Moved, ReqState, Claimed
<1>6. QED
  BY <1>5 DEF to

\* Every step keeps the invariant when a record lives as long as a key.
LEMMA NextIInv ==
    ASSUME KeyTTL <= ReplayTTL, IInv, [Next]_vars
    PROVE  IInv'
<1>1. ASSUME NEW r \in Req, NEW h \in Hash, NEW sigs \in SUBSET Signer,
             Start(r, h, sigs)
      PROVE  IInv'
  <2> DEFINE new == req'[r]
             ok  == QuorumSigned(sigs, config)
  <2>0. new = [pc |-> IF ok THEN "verified" ELSE "done", hash |-> h,
               sigs |-> sigs, cfg |-> config, replay |-> {h} \cap answered,
               ran |-> FALSE, out |-> IF ok THEN "none" ELSE "bad request"]
    BY <1>1 DEF Start, IInv, TypeOK
  <2> HIDE DEF ok
  <2>1. /\ new \in ReqState /\ req' = [req EXCEPT ![r] = new]
        /\ new.hash = h /\ (new.replay # {} => h \in answered) /\ ~new.ran
        /\ new.pc \in {"verified", "done"}
    <3>1. req' = [req EXCEPT ![r] = new]
      BY <1>1, <2>0 DEF Start, IInv, TypeOK, ok
    <3>2. PICK pc \in {"verified", "done"}, out \in {"none", "bad request"} :
             new = [pc |-> pc, hash |-> h, sigs |-> sigs, cfg |-> config,
                    replay |-> {h} \cap answered, ran |-> FALSE, out |-> out]
      BY <2>0
    <3>3. config \in Configs \cup {ZeroConfig} /\ {h} \cap answered \in SUBSET Hash
      BY DEF IInv, TypeOK
    <3>4. QED
      <4> HIDE DEF new
      <4>1. new \in ReqState
        BY <3>2, <3>3 DEF ReqState
      <4>2. QED
        BY <3>1, <3>2, <4>1
  <2>2. TypeOK' /\ BornBefore' /\ RecordOutlivesKey'
    BY <1>1, <2>1
    DEF Start, IInv, TypeOK, BornBefore, RecordOutlivesKey, KeyAlive
  <2>3. ASSUME NEW s \in Req
        PROVE  Stopped(s)'
    <3>1. CASE s = r
      <4>1. answered' = answered
        BY <1>1 DEF Start
      <4>2. QED
        BY <2>1, <3>1, <4>1 DEF Stopped
    <3>2. CASE s # r
      <4>1. req'[s] = req[s]
        BY <2>1, <3>2 DEF IInv, TypeOK
      <4>2. answered' = answered /\ born' = born /\ now' = now
        BY <1>1 DEF Start
      <4>3. QED
        BY <4>1, <4>2 DEF IInv, ReplayStopped, Stopped, KeyAlive
    <3>3. QED
      BY <3>1, <3>2
  <2>4. QED
    BY <2>2, <2>3 DEF IInv, ReplayStopped
<1>2. ASSUME NEW r \in Req, Handler(r)
      PROVE  IInv'
  <2> DEFINE new == req'[r]
  <2> USE DEF Moved
  <2>0. req[r] \in ReqState /\ req[r].hash \in Hash /\ Stopped(r)
    BY DEF IInv, TypeOK, ReplayStopped, ReqState
  <2>1. CASE CheckInProgress(r)
    <3>1. /\ new \in ReqState /\ req' = [req EXCEPT ![r] = new]
          /\ new.hash = req[r].hash /\ new.replay = req[r].replay
          /\ new.ran = req[r].ran /\ new.pc \in {"unclaimed", "done"}
      <4>1. CASE Goto(r, "verified", "unclaimed")
        <5>1. Moved(r, "unclaimed")
          BY <4>1, GotoMoves DEF IInv
        <5>2. QED
          BY <5>1
      <4>2. CASE Fail(r, "verified", "conflict")
        <5>1. "verified" \notin Claimed
          BY DEF Claimed
        <5>2. Moved(r, "done")
          <6> HIDE DEF Moved
          <6> QED BY <4>2, <5>1, FailMoves DEF IInv
        <5>3. QED
          BY <5>2
      <4>3. QED
        BY <2>1, <4>1, <4>2 DEF CheckInProgress
    <3>2. QED
      BY <2>0, <2>1, <3>1, MoveKeeps DEF CheckInProgress, Stopped, IInv, TypeOK
  <2>2. CASE MarkInProgress(r)
    <3>1. /\ new \in ReqState /\ req' = [req EXCEPT ![r] = new]
          /\ new.hash = req[r].hash /\ new.replay = req[r].replay
          /\ new.ran = req[r].ran /\ new.pc = "claimed"
      BY <2>0, <2>2, GotoMoves DEF MarkInProgress, IInv
    <3>2. QED
      BY <2>0, <2>2, <3>1, MoveKeeps DEF MarkInProgress, Stopped, IInv, TypeOK
  <2>3. CASE CheckExecuted(r)
    <3>1. /\ new \in ReqState /\ req' = [req EXCEPT ![r] = new]
          /\ new.hash = req[r].hash /\ new.replay = req[r].replay
          /\ new.ran = req[r].ran /\ new.pc \in {"fresh", "failed"}
          /\ new.pc = "fresh" => ~ExecutedGet(req[r].hash)
      BY <2>0, <2>3, GotoMoves, FailMoves DEF CheckExecuted, IInv, Claimed
    \* The record has expired, and with it the key, which is older.
    <3>2. ASSUME new.replay # {}, new.pc = "fresh"
          PROVE  ~KeyAlive(new.hash)
      <4>1. SUFFICES ASSUME KeyAlive(new.hash) PROVE FALSE
        OBVIOUS
      <4>2. new.hash \in answered
        BY <2>0, <3>1, <3>2 DEF Stopped
      <4>3. executed[new.hash] # Never /\ born[new.hash] <= executed[new.hash]
        BY <4>1, <4>2 DEF IInv, RecordOutlivesKey
      <4>4. executed[new.hash] \in Nat /\ born[new.hash] \in Nat /\ now \in Nat
        BY <2>0, <3>1, <4>1, <4>3 DEF KeyAlive, IInv, TypeOK, Time
      <4>5. now - executed[new.hash] > ReplayTTL
        BY <3>1, <3>2, <4>3, <4>4, ExecConstants DEF ExecutedGet
      <4>6. QED
        BY <4>1, <4>3, <4>4, <4>5, ExecConstants DEF KeyAlive
    <3>3. QED
      BY <2>0, <2>3, <3>1, <3>2, MoveKeeps DEF CheckExecuted, Stopped, IInv, TypeOK
  <2>4. CASE GetKeyPair(r)
    <3>1. /\ new \in ReqState /\ req' = [req EXCEPT ![r] = new]
          /\ new.hash = req[r].hash /\ new.replay = req[r].replay
          /\ new.ran = req[r].ran /\ new.pc \in {"keyed", "failed"}
          /\ new.pc = "keyed" => req[r].pc = "fresh" /\ KeyAlive(req[r].hash)
      <4>1. CASE Goto(r, "fresh", "keyed") /\ KeyAlive(req[r].hash)
        <5>1. req[r].pc = "fresh" /\ Moved(r, "keyed")
          BY <4>1, GotoMoves DEF IInv, Goto
        <5>2. QED
          BY <4>1, <5>1
      <4>2. CASE Fail(r, "fresh", "bad request")
        <5>1. Moved(r, "failed")
          BY <4>2, FailMoves DEF IInv, Claimed
        <5>2. QED
          BY <5>1
      <4>3. QED
        BY <2>4, <4>1, <4>2 DEF GetKeyPair
    <3>2. QED
      BY <2>0, <2>4, <3>1, MoveKeeps DEF GetKeyPair, Stopped, IInv, TypeOK
  <2>5. CASE AggregateFails(r)
    <3>1. /\ new \in ReqState /\ req' = [req EXCEPT ![r] = new]
          /\ new.hash = req[r].hash /\ new.replay = req[r].replay
          /\ new.ran = req[r].ran /\ new.pc = "failed"
      BY <2>0, <2>5, FailMoves DEF AggregateFails, IInv, Claimed
    <3>2. QED
      BY <2>0, <2>5, <3>1, MoveKeeps DEF AggregateFails, Stopped, IInv, TypeOK
  <2>6. CASE RunApp(r)
    <3>1. /\ new \in ReqState /\ req' = [req EXCEPT ![r] = new]
          /\ new.hash = req[r].hash /\ new.replay = req[r].replay
          /\ req[r].pc = "keyed"
      <4>1. PICK ok \in BOOLEAN :
               req' = [req EXCEPT ![r].pc = IF ok THEN "ran" ELSE "failed",
                                  ![r].out = IF ok THEN "none" ELSE "error",
                                  ![r].ran = TRUE]
        BY <2>6 DEF RunApp
      <4>2. new = [req[r] EXCEPT !.pc = IF ok THEN "ran" ELSE "failed",
                                 !.out = IF ok THEN "none" ELSE "error",
                                 !.ran = TRUE]
        BY <4>1 DEF IInv, TypeOK
      <4>3. new \in ReqState /\ new.hash = req[r].hash /\ new.replay = req[r].replay
        BY <2>0, <4>2 DEF ReqState, Claimed
      <4>4. req' = [req EXCEPT ![r] = new]
        BY <4>1, <4>2 DEF IInv, TypeOK
      <4>5. QED
        BY <2>6, <4>3, <4>4 DEF RunApp
    <3>2. new.replay = {}
      BY <2>0, <3>1 DEF Stopped
    <3>3. QED
      BY <2>6, <3>1, <3>2, MoveKeeps DEF RunApp, IInv, TypeOK
  <2>7. CASE AttestFails(r)
    <3>1. /\ new \in ReqState /\ req' = [req EXCEPT ![r] = new]
          /\ new.hash = req[r].hash /\ new.replay = req[r].replay
          /\ new.ran = req[r].ran /\ new.pc = "failed"
      BY <2>0, <2>7, FailMoves DEF AttestFails, IInv, Claimed
    <3>2. QED
      BY <2>0, <2>7, <3>1, MoveKeeps DEF AttestFails, Stopped, IInv, TypeOK
  <2>8. CASE Record(r)
    <3>1. /\ new \in ReqState /\ req' = [req EXCEPT ![r] = new]
          /\ new.hash = req[r].hash /\ new.replay = req[r].replay
          /\ req[r].pc = "ran"
      BY <2>0, <2>8 DEF Record, IInv, TypeOK, ReqState, Claimed
    <3>2. new.replay = {}
      BY <2>0, <3>1 DEF Stopped
    <3>3. TypeOK' /\ BornBefore'
      BY <2>0, <2>8, <3>1 DEF Record, IInv, TypeOK, BornBefore
    <3>4. ASSUME NEW h \in answered', KeyAlive(h)'
          PROVE  executed'[h] # Never /\ born'[h] <= executed'[h]
      <4>1. CASE h = req[r].hash
        <5>1. executed'[h] = now /\ born'[h] = born[h] /\ now \in Nat
          BY <2>0, <2>8, <4>1 DEF Record, IInv, TypeOK, Time
        <5>2. born[h] # Never
          BY <2>8, <3>4 DEF Record, KeyAlive
        <5>3. QED
          BY <2>0, <4>1, <5>1, <5>2, ExecConstants DEF IInv, BornBefore
      <4>2. CASE h # req[r].hash
        <5>1. h \in answered /\ KeyAlive(h)
          BY <2>8, <3>4, <4>2 DEF Record, KeyAlive
        <5>2. executed'[h] = executed[h] /\ born'[h] = born[h]
          BY <2>8, <4>2, <5>1 DEF Record, IInv, TypeOK
        <5>3. QED
          BY <5>1, <5>2 DEF IInv, RecordOutlivesKey
      <4>3. QED
        BY <4>1, <4>2
    <3>5. ASSUME NEW s \in Req
          PROVE  Stopped(s)'
      <4>1. CASE s = r
        BY <3>2, <4>1 DEF Stopped
      <4>2. CASE s # r
        <5>1. req'[s] = req[s]
          BY <3>1, <4>2 DEF IInv, TypeOK
        <5>2. born' = born /\ now' = now /\ answered \subseteq answered'
          BY <2>8 DEF Record
        <5>3. QED
          BY <5>1, <5>2 DEF IInv, ReplayStopped, Stopped, KeyAlive
      <4>3. QED
        BY <4>1, <4>2
    <3>6. QED
      BY <3>3, <3>4, <3>5 DEF IInv, RecordOutlivesKey, ReplayStopped
  <2>9. CASE Release(r)
    <3>1. /\ new \in ReqState /\ req' = [req EXCEPT ![r] = new]
          /\ new.hash = req[r].hash /\ new.replay = req[r].replay
          /\ new.ran = req[r].ran /\ new.pc = "done"
      BY <2>0, <2>9 DEF Release, IInv, TypeOK, ReqState
    <3>2. QED
      BY <2>0, <2>9, <3>1, MoveKeeps DEF Release, Stopped, IInv, TypeOK
  <2>10. QED
    BY <1>2, <2>1, <2>2, <2>3, <2>4, <2>5, <2>6, <2>7, <2>8, <2>9 DEF Handler
<1>3. ASSUME NEW c \in Configs, ChangeConfig(c)
      PROVE  IInv'
  BY <1>3 DEF ChangeConfig, IInv, TypeOK, BornBefore, RecordOutlivesKey,
     ReplayStopped, Stopped, KeyAlive
<1>4. ASSUME NEW h \in Hash, CreateKey(h)
      PROVE  IInv'
  <2>1. TypeOK' /\ BornBefore'
    BY <1>4, ExecConstants DEF CreateKey, IInv, TypeOK, BornBefore, Time
  <2>2. RecordOutlivesKey'
    BY <1>4 DEF CreateKey, IInv, TypeOK, RecordOutlivesKey, KeyAlive
  <2>3. ASSUME NEW s \in Req
        PROVE  Stopped(s)'
    BY <1>4 DEF CreateKey, IInv, TypeOK, ReplayStopped, Stopped, KeyAlive
  <2>4. QED
    BY <2>1, <2>2, <2>3 DEF IInv, ReplayStopped
<1>5. CASE Restart
  <2>1. ASSUME NEW s \in Req
        PROVE  /\ req'[s] \in ReqState
               /\ req'[s].hash = req[s].hash /\ req'[s].replay = req[s].replay
               /\ req'[s].ran = req[s].ran /\ req'[s].pc \in {"idle", "done"}
    BY <1>5 DEF Restart, IInv, TypeOK, ReqState
  <2>2. \A h \in Hash : born'[h] = Never
    BY <1>5 DEF Restart
  <2>3. TypeOK' /\ BornBefore'
    BY <1>5, <2>1, <2>2 DEF Restart, IInv, TypeOK, BornBefore
  <2>4. RecordOutlivesKey'
    BY <1>5, <2>2 DEF Restart, IInv, TypeOK, RecordOutlivesKey, KeyAlive
  <2>5. ASSUME NEW s \in Req
        PROVE  Stopped(s)'
    <3>1. answered' = answered
      BY <1>5 DEF Restart
    <3>2. QED
      BY <2>1, <3>1 DEF IInv, ReplayStopped, Stopped
  <2>6. QED
    BY <2>3, <2>4, <2>5 DEF IInv, ReplayStopped
<1>6. CASE Tick
  <2>1. now \in Nat /\ now' = now + 1 /\ now' \in Time
    BY <1>6, ExecConstants DEF Tick, IInv, TypeOK, Time
  <2>2. \A h \in Hash : KeyAlive(h)' => KeyAlive(h)
    BY <1>6, <2>1, ExecConstants DEF Tick, IInv, TypeOK, Time, KeyAlive
  <2>3. TypeOK'
    BY <1>6, <2>1 DEF Tick, IInv, TypeOK
  <2>4. BornBefore'
    BY <1>6, <2>1, ExecConstants DEF Tick, IInv, TypeOK, Time, BornBefore
  <2>5. RecordOutlivesKey'
    BY <1>6, <2>2 DEF Tick, IInv, TypeOK, RecordOutlivesKey
  <2>6. ASSUME NEW s \in Req
        PROVE  Stopped(s)'
    <3>1. req[s].hash \in Hash /\ Stopped(s)
      BY DEF IInv, TypeOK, ReqState, ReplayStopped
    <3>2. req' = req /\ answered' = answered /\ born' = born
      BY <1>6 DEF Tick
    <3>3. KeyAlive(req[s].hash)' => KeyAlive(req[s].hash)
      BY <2>2, <3>1, <3>2 DEF KeyAlive
    <3>4. QED
      BY <3>1, <3>2, <3>3 DEF Stopped
  <2>7. QED
    BY <2>3, <2>4, <2>5, <2>6 DEF IInv, ReplayStopped
<1>7. CASE UNCHANGED vars
  BY <1>7 DEF vars, IInv, TypeOK, BornBefore, RecordOutlivesKey, ReplayStopped,
     Stopped, KeyAlive
<1>8. QED
  BY <1>1, <1>2, <1>3, <1>4, <1>5, <1>6, <1>7 DEF Next

\* server.go:584-591, 736-738: once a response for a hash has been produced, no
\* handler that starts later runs the app for it, whatever the interleaving of
\* handlers, the expiry of records and keys, reconfigurations and restarts.
THEOREM ReplayProtection ==
    ASSUME KeyTTL <= ReplayTTL
    PROVE  Spec => []NoReplay
<1>1. IInv /\ [Next]_vars => IInv'
  BY NextIInv
<1>2. IInv => NoReplay
  BY DEF IInv, ReplayStopped, Stopped, NoReplay
<1>3. QED
  BY InitIInv, <1>1, <1>2, PTL DEF Spec

-----------------------------------------------------------------------------
\* A step of a handler keeps its hash; it touches the marker of its hash only,
\* and leaves the claimed stages only by deleting it.
LEMMA HandlerStep ==
    ASSUME TypeOK, NEW r \in Req, Handler(r)
    PROVE  /\ TypeOK'
           /\ req' = [req EXCEPT ![r] = req'[r]]
           /\ req'[r].hash = req[r].hash
           /\ \/ /\ req'[r].pc \in Claimed
                 /\ inProgress' \subseteq inProgress \cup {req[r].hash}
              \/ inProgress' = inProgress \ {req[r].hash}
              \/ req[r].pc \notin Claimed /\ inProgress' = inProgress
<1> DEFINE new == req'[r]
<1>0. req[r] \in ReqState /\ req[r].hash \in Hash
  BY DEF TypeOK, ReqState
<1>1. CASE CheckInProgress(r)
  <2>1. CASE Goto(r, "verified", "unclaimed")
    <3>1. Moved(r, "unclaimed") /\ req[r].pc = "verified"
      BY <2>1, GotoMoves DEF Goto
    <3>2. QED
      BY <1>1, <3>1 DEF Moved, CheckInProgress, TypeOK, Claimed
  <2>2. CASE Fail(r, "verified", "conflict")
    <3>1. "verified" \notin Claimed /\ req[r].pc = "verified"
      BY <2>2 DEF Claimed, Fail
    <3>2. Moved(r, "done")
      BY <2>2, <3>1, FailMoves
    <3>3. QED
      BY <1>1, <3>1, <3>2 DEF Moved, CheckInProgress, TypeOK
  <2>3. QED
    BY <1>1, <2>1, <2>2 DEF CheckInProgress
<1>2. CASE MarkInProgress(r)
  <2>1. Moved(r, "claimed")
    BY <1>2, GotoMoves DEF MarkInProgress
  <2>2. QED
    BY <1>0, <1>2, <2>1 DEF Moved, MarkInProgress, TypeOK, Claimed
<1>3. CASE CheckExecuted(r)
  <2>1. Moved(r, "fresh") \/ Moved(r, "failed")
    BY <1>3, GotoMoves, FailMoves DEF CheckExecuted, Claimed
  <2>2. QED
    BY <1>3, <2>1 DEF Moved, CheckExecuted, TypeOK, Claimed
<1>4. CASE GetKeyPair(r)
  <2>1. Moved(r, "keyed") \/ Moved(r, "failed")
    BY <1>4, GotoMoves, FailMoves DEF GetKeyPair, Claimed
  <2>2. QED
    BY <1>4, <2>1 DEF Moved, GetKeyPair, TypeOK, Claimed
<1>5. CASE AggregateFails(r)
  <2>1. Moved(r, "failed")
    BY <1>5, FailMoves DEF AggregateFails, Claimed
  <2>2. QED
    BY <1>5, <2>1 DEF Moved, AggregateFails, TypeOK, Claimed
<1>6. CASE RunApp(r)
  <2>1. PICK ok \in BOOLEAN :
           req' = [req EXCEPT ![r].pc = IF ok THEN "ran" ELSE "failed",
                              ![r].out = IF ok THEN "none" ELSE "error",
                              ![r].ran = TRUE]
    BY <1>6 DEF RunApp
  <2>2. new = [req[r] EXCEPT !.pc = IF ok THEN "ran" ELSE "failed",
                             !.out = IF ok THEN "none" ELSE "error",
                             !.ran = TRUE]
    BY <2>1 DEF TypeOK
  <2>3. new \in ReqState /\ new.hash = req[r].hash /\ new.pc \in Claimed
    BY <1>0, <2>2 DEF ReqState, Claimed
  <2>4. req' = [req EXCEPT ![r] = new]
    BY <2>1, <2>2 DEF TypeOK
  <2>5. QED
    BY <1>6, <2>3, <2>4 DEF RunApp, TypeOK
<1>7. CASE AttestFails(r)
  <2>1. Moved(r, "failed")
    BY <1>7, FailMoves DEF AttestFails, Claimed
  <2>2. QED
    BY <1>7, <2>1 DEF Moved, AttestFails, TypeOK, Claimed
<1>8. CASE Record(r)
  <2>1. /\ new \in ReqState /\ req' = [req EXCEPT ![r] = new]
        /\ new.hash = req[r].hash /\ new.pc = "recorded"
    BY <1>0, <1>8 DEF Record, TypeOK, ReqState, Claimed
  <2>2. QED
    BY <1>0, <1>8, <2>1 DEF Record, TypeOK, Claimed
<1>9. CASE Release(r)
  <2>1. /\ new \in ReqState /\ req' = [req EXCEPT ![r] = new]
        /\ new.hash = req[r].hash
    BY <1>0, <1>9 DEF Release, TypeOK, ReqState
  <2>2. QED
    BY <1>9, <2>1 DEF Release, TypeOK
<1>10. QED
  BY <1>1, <1>2, <1>3, <1>4, <1>5, <1>6, <1>7, <1>8, <1>9 DEF Handler

\* Every step keeps the markers and the handlers that hold them in step.
LEMMA NextMarkers ==
    ASSUME TypeOK, NoLeakedMarker, [Next]_vars
    PROVE  TypeOK' /\ NoLeakedMarker'
<1>1. ASSUME NEW r \in Req, NEW h \in Hash, NEW sigs \in SUBSET Signer,
             Start(r, h, sigs)
      PROVE  TypeOK' /\ NoLeakedMarker'
  <2> DEFINE new == req'[r]
  <2>1. PICK pc \in {"verified", "done"}, out \in {"none", "bad request"} :
           req' = [req EXCEPT ![r] =
                     [pc |-> pc, hash |-> h, sigs |-> sigs, cfg |-> config,
                      replay |-> {h} \cap answered, ran |-> FALSE, out |-> out]]
    BY <1>1 DEF Start
  <2>2. {h} \cap answered \in SUBSET Hash
    BY DEF TypeOK
  <2>3. [pc |-> pc, hash |-> h, sigs |-> sigs, cfg |-> config,
         replay |-> {h} \cap answered, ran |-> FALSE, out |-> out] \in ReqState
    BY <2>2 DEF ReqState, TypeOK
  <2>4. TypeOK'
    BY <1>1, <2>1, <2>3 DEF Start, TypeOK
  <2>5. req[r].pc \notin Claimed /\ inProgress' = inProgress
        /\ \A s \in Req : s # r => req'[s] = req[s]
    BY <1>1, <2>1 DEF Start, TypeOK, Claimed
  <2>6. NoLeakedMarker'
    BY <2>5 DEF NoLeakedMarker
  <2>7. QED
    BY <2>4, <2>6
<1>2. ASSUME NEW r \in Req, Handler(r)
      PROVE  TypeOK' /\ NoLeakedMarker'
  <2>1. /\ TypeOK'
        /\ req' = [req EXCEPT ![r] = req'[r]]
        /\ req'[r].hash = req[r].hash
        /\ \/ /\ req'[r].pc \in Claimed
              /\ inProgress' \subseteq inProgress \cup {req[r].hash}
           \/ inProgress' = inProgress \ {req[r].hash}
           \/ req[r].pc \notin Claimed /\ inProgress' = inProgress
    BY <1>2, HandlerStep
  <2>2. \A s \in Req : s # r => req'[s] = req[s]
    BY <2>1 DEF TypeOK
  <2>3. ASSUME NEW h \in inProgress'
        PROVE  \E s \in Req : req'[s].hash = h /\ req'[s].pc \in Claimed
    <3>1. CASE h = req[r].hash /\ req'[r].pc \in Claimed
      BY <2>1, <3>1
    <3>2. CASE ~(h = req[r].hash /\ req'[r].pc \in Claimed)
      <4>1. h \in inProgress
        BY <2>1, <2>3, <3>2
      <4>2. PICK s \in Req : req[s].hash = h /\ req[s].pc \in Claimed
        BY <4>1 DEF NoLeakedMarker
      <4>3. s # r
        BY <2>1, <2>3, <3>2, <4>2
      <4>4. QED
        BY <2>2, <4>2, <4>3
    <3>3. QED
      BY <3>1, <3>2
  <2>4. QED
    BY <2>1, <2>3 DEF NoLeakedMarker
<1>3. ASSUME NEW c \in Configs, ChangeConfig(c)
      PROVE  TypeOK' /\ NoLeakedMarker'
  BY <1>3 DEF ChangeConfig, TypeOK, NoLeakedMarker
<1>4. ASSUME NEW h \in Hash, CreateKey(h)
      PROVE  TypeOK' /\ NoLeakedMarker'
  BY <1>4 DEF CreateKey, TypeOK, NoLeakedMarker
<1>5. CASE Restart
  <2>1. \A s \in Req : req'[s] \in ReqState
    BY ZenonT(30), <1>5 DEF Restart, TypeOK, ReqState
  <2>2. QED
    BY <1>5, <2>1 DEF Restart, TypeOK, NoLeakedMarker
<1>6. CASE Tick
  BY <1>6, ExecConstants DEF Tick, TypeOK, Time, NoLeakedMarker
<1>7. CASE UNCHANGED vars
  BY <1>7 DEF vars, TypeOK, NoLeakedMarker
<1>8. QED
  BY <1>1, <1>2, <1>3, <1>4, <1>5, <1>6, <1>7 DEF Next

\* Both hold in every reachable state.
LEMMA MarkersInvariant == Spec => [](TypeOK /\ NoLeakedMarker)
<1>1. Init => TypeOK /\ NoLeakedMarker
  BY InitIInv DEF IInv, Init, NoLeakedMarker
<1>2. TypeOK /\ NoLeakedMarker /\ [Next]_vars => (TypeOK /\ NoLeakedMarker)'
  BY NextMarkers
<1>3. QED
  BY <1>1, <1>2, PTL DEF Spec

\* server.go, the handlers, the key rotation and a restart: the maps of the
\* enclave, the record of every request and the clock keep their types, for any
\* requests, keys and times to live.
THEOREM EnclaveTypes == Spec => []TypeOK
  BY MarkersInvariant, PTL

\* server.go:573-582: whatever handlers, errors and restarts do, a marker in
\* inProgressReqs has a handler that will delete it, so no hash is blocked for
\* good.  No assumption on the times to live is needed.
THEOREM MarkersFreed == Spec => []NoLeakedMarker
  BY MarkersInvariant, PTL
=============================================================================
