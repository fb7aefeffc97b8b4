-------------------------- MODULE HostEnclaveProofs --------------------------
(***************************************************************************)
(* The host and the enclave together, proved for any number of calls,      *)
(* hashes, signers and configs.  Each part of the composition behaves as   *)
(* its own specification, so what is proved of the parts holds of the      *)
(* whole; and two results need both: what the host serves is a response    *)
(* that the enclave produced, and behind one host the enclave answers no   *)
(* hash twice.                                                             *)
(***************************************************************************)
EXTENDS HostEnclave, HostBatchProofs

USE Untyped

\* The stages of a handler that has passed verification and not answered.
Running == {"verified", "unclaimed", "claimed", "fresh", "keyed", "ran"}

-----------------------------------------------------------------------------
\* The inductive invariant, part by part.

\* A handler has answered exactly when it is past its running stages.  One that
\* runs or has responded has a quorum of signatures of its config, and one that
\* responds has run the app.
Handlers ==
    \A r \in Call :
        /\ req[r].pc \in Running \cup {"idle"} => req[r].out = "none"
        /\ req[r].pc \notin Running \cup {"idle"} => req[r].out # "none"
        /\ req[r].pc \in Running \/ req[r].out = "ok" =>
              Enc!QuorumSigned(req[r].sigs, req[r].cfg)
        /\ req[r].pc = "ran" \/ req[r].out = "ok" => req[r].ran

EInv == Enc!TypeOK /\ now = 0 /\ Handlers

\* A handler is one of a batch of the host, under the hash of that batch.
Delivered ==
    \A b \in Call : req[b].pc # "idle" =>
        batch[b].waiters # {} /\ batch[b].hash = req[b].hash

\* The enclave responded to h, having run the app under a quorum.
Produced(h) ==
    \E r \in Call : /\ req[r].hash = h
                    /\ req[r].ran
                    /\ req[r].out = "ok"
                    /\ Enc!QuorumSigned(req[r].sigs, req[r].cfg)

\* Every response that the host holds or has served was produced.
Backed ==
    /\ \A h \in responseCache : Produced(h)
    /\ \A c \in Call : calls[c].ch = "ok" \/ calls[c].pc = "served" =>
           Produced(calls[c].hash)

SInv == BInv /\ EInv /\ Delivered /\ Backed

-----------------------------------------------------------------------------
\* Every step of the system is a step of a patient host, or leaves it alone.
LEMMA HostSteps ==
    ASSUME [SystemNext]_allVars
    PROVE  [PatientNext]_vars
<1>1. CASE \E c \in Configs : EnclaveConfigured(c) \/ HostConfigured(c)
  BY <1>1 DEF EnclaveConfigured, HostConfigured, PatientNext
<1>2. CASE HostStep
  BY <1>2 DEF HostStep, PatientNext
<1>3. ASSUME NEW j \in jobs, Deliver(j) \/ Reply(j) \/ BreakConnection(j)
      PROVE  [PatientNext]_vars
  <2>1. CASE Deliver(j)
    BY <2>1 DEF Deliver
  <2>2. ASSUME \E outcome \in {"ok", "error"} : FinishJob(j, outcome)
        PROVE  PatientNext
    BY <2>2 DEF PatientNext
  <2>3. QED
    BY <1>3, <2>1, <2>2 DEF Reply, BreakConnection
<1>4. CASE EnclaveStep
  BY <1>4 DEF EnclaveStep
<1>5. CASE UNCHANGED allVars
  BY <1>5 DEF allVars
<1>6. QED
  BY <1>1, <1>2, <1>3, <1>4, <1>5 DEF SystemNext

\* Every step of the system is a step of the enclave, or leaves it alone.
LEMMA EnclaveSteps ==
    ASSUME BInv, [SystemNext]_allVars
    PROVE  [Enc!Next]_(Enc!vars)
<1> USE DEF encVars, Enc!vars
<1>1. ASSUME NEW c \in Configs, EnclaveConfigured(c) \/ HostConfigured(c)
      PROVE  [Enc!Next]_(Enc!vars)
  BY <1>1 DEF EnclaveConfigured, HostConfigured, Enc!Next
<1>2. CASE HostStep
  BY <1>2 DEF HostStep
<1>3. ASSUME NEW j \in jobs, Deliver(j) \/ Reply(j) \/ BreakConnection(j)
      PROVE  [Enc!Next]_(Enc!vars)
  <2>1. CASE Deliver(j)
    <3>1. j.batch \in Call /\ j.hash \in Hash /\ j.sigs \in SUBSET Signer
      BY DEF BInv, TypeOK, Job
    <3>2. QED
      BY <2>1, <3>1 DEF Deliver, Enc!Next
  <2>2. CASE Reply(j) \/ BreakConnection(j)
    BY <2>2 DEF Reply, BreakConnection
  <2>3. QED
    BY <1>3, <2>1, <2>2
<1>4. CASE EnclaveStep
  BY <1>4 DEF EnclaveStep, Enc!Next
<1>5. CASE UNCHANGED allVars
  BY <1>5 DEF allVars
<1>6. QED
  BY <1>1, <1>2, <1>3, <1>4, <1>5 DEF SystemNext

\* The host of the composition is the host of HostBatch, with an enclave that
\* answers as it does there: every behaviour of the system, seen from host.go,
\* is a behaviour of that specification.
THEOREM HostRefined == System => Spec
<1>1. [SystemNext]_allVars => [Next]_vars
  <2>1. [PatientNext]_vars => [Next]_vars
    BY DEF PatientNext, Next
  <2>2. QED
    BY <2>1, HostSteps
<1>2. SystemInit => Init
  BY DEF SystemInit
<1>3. QED
  BY <1>1, <1>2, PTL DEF System, Spec

\* What holds of the host alone holds of the host in the system.
LEMMA AlwaysHost == System => []BInv
  BY HostRefined, AlwaysBInv, PTL

\* The enclave of the composition is the enclave of EnclaveExecute: every
\* behaviour of the system, seen from server.go, is a behaviour of that
\* specification, driven by the requests that host.go forwards.
THEOREM EnclaveRefined == System => Enc!Spec
<1>1. BInv /\ [SystemNext]_allVars => [Enc!Next]_(Enc!vars)
  BY EnclaveSteps
<1>2. SystemInit => Enc!Init
  BY DEF SystemInit
<1>3. QED
  BY <1>1, <1>2, AlwaysHost, PTL DEF System, Enc!Spec

-----------------------------------------------------------------------------
\* What a step of handler r does to it: it goes to pc with the answer out.
Moved(r, pc, out, ran) ==
    /\ req' \in [Call -> Enc!ReqState]
    /\ \A s \in Call : s # r => req'[s] = req[s]
    /\ req'[r].hash = req[r].hash
    /\ req'[r].sigs = req[r].sigs
    /\ req'[r].cfg = req[r].cfg
    /\ req'[r].pc = pc
    /\ req'[r].out = out
    /\ req'[r].ran = ran

\* The three forms of such a step.
LEMMA MovedTo ==
    ASSUME Enc!TypeOK, NEW r \in Call,
           NEW pc \in {"idle", "verified", "unclaimed", "done"} \cup Enc!Claimed,
           NEW out \in {"none", "ok", "bad request", "conflict", "error", "lost"},
           NEW ran \in BOOLEAN,
           \/ /\ req' = [req EXCEPT ![r].pc = pc]
              /\ out = req[r].out /\ ran = req[r].ran
           \/ /\ req' = [req EXCEPT ![r].pc = pc, ![r].out = out]
              /\ ran = req[r].ran
           \/ req' = [req EXCEPT ![r].pc = pc, ![r].out = out, ![r].ran = ran]
    PROVE  Moved(r, pc, out, ran)
<1>1. req[r] \in Enc!ReqState
  BY DEF Enc!TypeOK
<1>2. req' = [req EXCEPT ![r] = [req[r] EXCEPT !.pc = pc, !.out = out, !.ran = ran]]
  <2>1. CASE /\ req' = [req EXCEPT ![r].pc = pc]
             /\ out = req[r].out /\ ran = req[r].ran
    <3>1. [req[r] EXCEPT !.pc = pc] = [req[r] EXCEPT !.pc = pc, !.out = out, !.ran = ran]
      BY <1>1, <2>1 DEF Enc!ReqState
    <3>2. QED
      BY <2>1, <3>1
  <2>2. CASE req' = [req EXCEPT ![r].pc = pc, ![r].out = out] /\ ran = req[r].ran
    <3>1. [req[r] EXCEPT !.pc = pc, !.out = out]
             = [req[r] EXCEPT !.pc = pc, !.out = out, !.ran = ran]
      BY <1>1, <2>2 DEF Enc!ReqState
    <3>2. req' = [req EXCEPT ![r] = [req[r] EXCEPT !.pc = pc, !.out = out]]
      BY <2>2 DEF Enc!TypeOK
    <3>3. QED
      BY <3>1, <3>2
  <2>3. CASE req' = [req EXCEPT ![r].pc = pc, ![r].out = out, ![r].ran = ran]
    BY <2>3 DEF Enc!TypeOK
  <2>4. QED
    BY <2>1, <2>2, <2>3
<1>3. [req[r] EXCEPT !.pc = pc, !.out = out, !.ran = ran] \in Enc!ReqState
  BY <1>1 DEF Enc!ReqState
<1>4. QED
  BY <1>1, <1>2, <1>3 DEF Moved, Enc!TypeOK, Enc!ReqState

\* Everything a handler can do, with what it looked at first.
Stage(r) ==
    LET h == req[r].hash
    IN  \/ /\ req[r].pc = "verified" /\ Moved(r, "unclaimed", "none", req[r].ran)
           /\ UNCHANGED <<inProgress, executed, answered>>
        \/ /\ req[r].pc = "unclaimed" /\ Moved(r, "claimed", "none", req[r].ran)
           /\ UNCHANGED <<executed, answered>>
        \/ /\ req[r].pc = "claimed" /\ Moved(r, "fresh", "none", req[r].ran)
           /\ ~Enc!ExecutedGet(h)
           /\ UNCHANGED <<inProgress, executed, answered>>
        \/ /\ req[r].pc = "fresh" /\ Moved(r, "keyed", "none", req[r].ran)
           /\ Enc!KeyAlive(h)
           /\ UNCHANGED <<inProgress, executed, answered>>
        \/ /\ req[r].pc = "keyed" /\ Moved(r, "ran", "none", TRUE)
           /\ UNCHANGED <<inProgress, executed, answered>>
        \/ /\ req[r].pc = "ran" /\ Moved(r, "recorded", "ok", req[r].ran)
           /\ executed' = [executed EXCEPT ![h] = now]
           /\ answered' = answered \cup {h}
        \/ /\ req[r].pc \in Running
           /\ \E pc \in {"failed", "done"}, ran \in BOOLEAN,
                 out \in {"bad request", "conflict", "error"} : Moved(r, pc, out, ran)
           /\ UNCHANGED <<inProgress, executed, answered>>
        \/ /\ req[r].pc \in {"recorded", "failed"}
           /\ Moved(r, "done", req[r].out, req[r].ran)
           /\ UNCHANGED <<executed, answered>>

\* A handler that writes an error and returns.
LEMMA FailStage ==
    ASSUME Enc!TypeOK, NEW r \in Call, NEW from \in Running,
           NEW out \in {"bad request", "conflict", "error"},
           Enc!Fail(r, from, out), UNCHANGED <<inProgress, executed, answered>>
    PROVE  Stage(r)
<1>1. PICK pc \in {"failed", "done"} : req' = [req EXCEPT ![r].pc = pc, ![r].out = out]
  BY DEF Enc!Fail
<1>2. req[r].pc = from /\ req[r].ran \in BOOLEAN
  BY DEF Enc!Fail, Enc!TypeOK, Enc!ReqState
<1>3. Moved(r, pc, out, req[r].ran)
  BY <1>1, <1>2, MovedTo DEF Enc!Claimed
<1>4. QED
  BY <1>2, <1>3 DEF Stage

\* A handler that proceeds keeps its empty answer.
LEMMA GotoStage ==
    ASSUME EInv, NEW r \in Call, NEW from \in Running,
           NEW to \in {"unclaimed", "claimed", "fresh", "keyed"},
           Enc!Goto(r, from, to)
    PROVE  req[r].pc = from /\ Moved(r, to, "none", req[r].ran)
<1>1. req[r].pc = from /\ req' = [req EXCEPT ![r].pc = to]
  BY DEF Enc!Goto
<1>2. req[r].out = "none" /\ req[r].ran \in BOOLEAN
  BY <1>1 DEF EInv, Handlers, Enc!TypeOK, Enc!ReqState
<1>3. QED
  BY <1>1, <1>2, MovedTo DEF EInv, Enc!Claimed

\* Every action of a handler is one of the stages.
LEMMA HandlerStages ==
    ASSUME EInv, NEW r \in Call, Enc!Handler(r)
    PROVE  /\ Stage(r)
           /\ UNCHANGED <<now, encConfig, born>>
           /\ inProgress' \subseteq Hash
<1>0. /\ Enc!TypeOK /\ req[r] \in Enc!ReqState /\ req[r].ran \in BOOLEAN
      /\ req[r].hash \in Hash /\ inProgress \subseteq Hash
  BY DEF EInv, Enc!TypeOK, Enc!ReqState
<1>r. {"verified", "unclaimed", "claimed", "fresh", "keyed", "ran"} = Running
  BY DEF Running
<1>1. CASE Enc!CheckInProgress(r)
  <2>1. UNCHANGED <<now, encConfig, born, inProgress, executed, answered>>
    BY <1>1 DEF Enc!CheckInProgress
  <2>2. CASE Enc!Fail(r, "verified", "conflict")
    BY <1>0, <1>r, <2>1, <2>2, FailStage
  <2>3. CASE Enc!Goto(r, "verified", "unclaimed")
    BY <1>0, <1>r, <2>1, <2>3, GotoStage DEF Stage
  <2>4. QED
    BY <1>1, <2>2, <2>3 DEF Enc!CheckInProgress
<1>2. CASE Enc!MarkInProgress(r)
  <2>1. /\ UNCHANGED <<now, encConfig, born, executed, answered>>
        /\ inProgress' \subseteq Hash
        /\ Enc!Goto(r, "unclaimed", "claimed")
    BY <1>0, <1>2 DEF Enc!MarkInProgress
  <2>2. QED
    BY <1>r, <2>1, GotoStage DEF Stage
<1>3. CASE Enc!CheckExecuted(r)
  <2>1. UNCHANGED <<now, encConfig, born, inProgress, executed, answered>>
    BY <1>3 DEF Enc!CheckExecuted
  <2>2. CASE Enc!Fail(r, "claimed", "conflict")
    BY <1>0, <1>r, <2>1, <2>2, FailStage
  <2>3. CASE Enc!Goto(r, "claimed", "fresh") /\ ~Enc!ExecutedGet(req[r].hash)
    BY <1>0, <1>r, <2>1, <2>3, GotoStage DEF Stage
  <2>4. QED
    BY <1>3, <2>2, <2>3 DEF Enc!CheckExecuted
<1>4. CASE Enc!GetKeyPair(r)
  <2>1. UNCHANGED <<now, encConfig, born, inProgress, executed, answered>>
    BY <1>4 DEF Enc!GetKeyPair
  <2>2. CASE Enc!Fail(r, "fresh", "bad request")
    BY <1>0, <1>r, <2>1, <2>2, FailStage
  <2>3. CASE Enc!Goto(r, "fresh", "keyed") /\ Enc!KeyAlive(req[r].hash)
    BY <1>0, <1>r, <2>1, <2>3, GotoStage DEF Stage
  <2>4. QED
    BY <1>4, <2>2, <2>3 DEF Enc!GetKeyPair
<1>5. CASE Enc!AggregateFails(r)
  BY <1>0, <1>r, <1>5, FailStage DEF Enc!AggregateFails
<1>6. CASE Enc!RunApp(r)
  <2>1. /\ UNCHANGED <<now, encConfig, born, inProgress, executed, answered>>
        /\ req[r].pc = "keyed"
    BY <1>6 DEF Enc!RunApp
  <2>2. PICK ok \in BOOLEAN :
           req' = [req EXCEPT ![r].pc = IF ok THEN "ran" ELSE "failed",
                              ![r].out = IF ok THEN "none" ELSE "error",
                              ![r].ran = TRUE]
    BY <1>6 DEF Enc!RunApp
  <2>3. CASE ok
    <3>1. req' = [req EXCEPT ![r].pc = "ran", ![r].out = "none", ![r].ran = TRUE]
      BY <2>2, <2>3
    <3>2. Moved(r, "ran", "none", TRUE)
      BY <1>0, <3>1, MovedTo DEF Enc!Claimed
    <3>3. QED
      BY <1>0, <2>1, <3>2 DEF Stage
  <2>4. CASE ~ok
    <3>1. req' = [req EXCEPT ![r].pc = "failed", ![r].out = "error", ![r].ran = TRUE]
      BY <2>2, <2>4
    <3>2. Moved(r, "failed", "error", TRUE)
      BY <1>0, <3>1, MovedTo DEF Enc!Claimed
    <3>3. QED
      BY <1>0, <1>r, <2>1, <3>2 DEF Stage
  <2>5. QED
    BY <2>3, <2>4
<1>7. CASE Enc!AttestFails(r)
  BY <1>0, <1>r, <1>7, FailStage DEF Enc!AttestFails
<1>8. CASE Enc!Record(r)
  <2>1. /\ req[r].pc = "ran"
        /\ req' = [req EXCEPT ![r].pc = "recorded", ![r].out = "ok"]
        /\ executed' = [executed EXCEPT ![req[r].hash] = now]
        /\ answered' = answered \cup {req[r].hash}
        /\ UNCHANGED <<now, encConfig, born, inProgress>>
    BY <1>8 DEF Enc!Record
  <2>2. Moved(r, "recorded", "ok", req[r].ran)
    BY <1>0, <2>1, MovedTo DEF Enc!Claimed
  <2>3. QED
    BY <1>0, <2>1, <2>2 DEF Stage
<1>9. CASE Enc!Release(r)
  <2>1. /\ req[r].pc \in {"recorded", "failed"}
        /\ req' = [req EXCEPT ![r].pc = "done"]
        /\ inProgress' \subseteq Hash
        /\ UNCHANGED <<now, encConfig, born, executed, answered>>
    BY <1>0, <1>9 DEF Enc!Release
  <2>2. Moved(r, "done", req[r].out, req[r].ran)
    BY <1>0, <2>1, MovedTo DEF Enc!ReqState
  <2>3. QED
    BY <2>1, <2>2 DEF Stage
<1>10. QED
  BY <1>1, <1>2, <1>3, <1>4, <1>5, <1>6, <1>7, <1>8, <1>9 DEF Enc!Handler

\* A batch that arrives starts a handler, which is verified or rejected.
LEMMA StartStage ==
    ASSUME EInv, NEW r \in Call, NEW h \in Hash, NEW sigs \in SUBSET Signer,
           Enc!Start(r, h, sigs)
    PROVE  /\ req[r].pc = "idle"
           /\ req' \in [Call -> Enc!ReqState]
           /\ \A s \in Call : s # r => req'[s] = req[s]
           /\ req'[r].hash = h
           /\ \/ /\ req'[r].pc = "verified" /\ req'[r].out = "none"
                 /\ Enc!QuorumSigned(req'[r].sigs, req'[r].cfg)
              \/ req'[r].pc = "done" /\ req'[r].out = "bad request"
           /\ UNCHANGED <<now, encConfig, born, inProgress, executed, answered>>
<1> DEFINE ok == Enc!QuorumSigned(sigs, encConfig)
<1>1. PICK pc \in {"verified", "done"}, out \in {"none", "bad request"} :
         /\ req' = [req EXCEPT ![r] =
               [pc |-> pc, hash |-> h, sigs |-> sigs, cfg |-> encConfig,
                replay |-> {h} \cap answered, ran |-> FALSE, out |-> out]]
         /\ \/ ok /\ pc = "verified" /\ out = "none"
            \/ pc = "done" /\ out = "bad request"
  <2>1. CASE ok
    <3>1. req' = [req EXCEPT ![r] =
             [pc |-> "verified", hash |-> h, sigs |-> sigs, cfg |-> encConfig,
              replay |-> {h} \cap answered, ran |-> FALSE, out |-> "none"]]
      BY <2>1 DEF Enc!Start
    <3>2. QED
      BY <2>1, <3>1
  <2>2. CASE ~ok
    <3>1. req' = [req EXCEPT ![r] =
             [pc |-> "done", hash |-> h, sigs |-> sigs, cfg |-> encConfig,
              replay |-> {h} \cap answered, ran |-> FALSE, out |-> "bad request"]]
      BY <2>2 DEF Enc!Start
    <3>2. QED
      BY <2>2, <3>1
  <2>3. QED
    BY <2>1, <2>2
<1>2. /\ req[r].pc = "idle"
      /\ UNCHANGED <<now, encConfig, born, inProgress, executed, answered>>
  BY DEF Enc!Start
<1> DEFINE new == [pc |-> pc, hash |-> h, sigs |-> sigs, cfg |-> encConfig,
                   replay |-> {h} \cap answered, ran |-> FALSE, out |-> out]
<1>3. /\ new \in Enc!ReqState /\ new.hash = h /\ new.sigs = sigs
      /\ new.cfg = encConfig /\ new.pc = pc /\ new.out = out
  <2>1. encConfig \in Configs \cup {Enc!ZeroConfig} /\ {h} \cap answered \in SUBSET Hash
    BY DEF EInv, Enc!TypeOK
  <2>2. QED
    BY <2>1 DEF Enc!ReqState
<1>4. req' = [req EXCEPT ![r] = new]
  BY <1>1
<1> HIDE DEF new, ok
<1>5. /\ req' \in [Call -> Enc!ReqState]
      /\ req'[r] = new
      /\ \A s \in Call : s # r => req'[s] = req[s]
  BY <1>3, <1>4 DEF EInv, Enc!TypeOK
<1>6. QED
  BY <1>1, <1>2, <1>3, <1>5 DEF ok

\* A restart ends every handler, and loses the answers that were not written.
LEMMA RestartStage ==
    ASSUME EInv, Enc!Restart
    PROVE  /\ req' \in [Call -> Enc!ReqState]
           /\ \A r \in Call :
                 /\ req'[r].hash = req[r].hash /\ req'[r].sigs = req[r].sigs
                 /\ req'[r].cfg = req[r].cfg /\ req'[r].ran = req[r].ran
                 /\ req[r].pc = "idle" => req'[r] = req[r]
                 /\ req[r].pc # "idle" => req'[r].pc = "done"
                 /\ req[r].pc \in Running => req'[r].out = "lost"
                 /\ req[r].pc \notin Running => req'[r].out = req[r].out
           /\ born' = [h \in Hash |-> Never]
           /\ UNCHANGED <<now, answered>>
<1>1. /\ born' = [h \in Hash |-> Never] /\ UNCHANGED <<now, answered>>
      /\ req' = [r \in Call |->
                   IF req[r].pc \in {"idle", "done"} THEN req[r]
                   ELSE [req[r] EXCEPT !.pc = "done",
                                       !.out = IF @ = "none" THEN "lost" ELSE @]]
  BY DEF Enc!Restart
<1>2. ASSUME NEW r \in Call
      PROVE  /\ req'[r] \in Enc!ReqState
             /\ req'[r].hash = req[r].hash /\ req'[r].sigs = req[r].sigs
             /\ req'[r].cfg = req[r].cfg /\ req'[r].ran = req[r].ran
             /\ req[r].pc = "idle" => req'[r] = req[r]
             /\ req[r].pc # "idle" => req'[r].pc = "done"
             /\ req[r].pc \in Running => req'[r].out = "lost"
             /\ req[r].pc \notin Running => req'[r].out = req[r].out
  <2>1. /\ req[r] \in Enc!ReqState
        /\ req[r].pc \in Running => req[r].out = "none"
        /\ req[r].pc \notin Running \cup {"idle"} => req[r].out # "none"
        /\ req[r].pc \in Running => req[r].pc \notin {"idle", "done"}
    BY DEF EInv, Handlers, Enc!TypeOK, Running
  <2>2. CASE req[r].pc \in {"idle", "done"}
    <3>1. req'[r] = req[r]
      BY <1>1, <2>2
    <3>2. QED
      BY <2>1, <2>2, <3>1
  <2>3. CASE req[r].pc \in Running
    <3>1. req'[r] = [req[r] EXCEPT !.pc = "done", !.out = "lost"]
      BY <1>1, <2>1, <2>3
    <3>2. QED
      BY <2>1, <2>3, <3>1 DEF Enc!ReqState
  <2>4. CASE req[r].pc \notin Running \cup {"idle", "done"}
    <3>1. req'[r] = [req[r] EXCEPT !.pc = "done"]
      BY <1>1, <2>1, <2>4 DEF Enc!ReqState
    <3>2. QED
      BY <2>1, <2>4, <3>1 DEF Enc!ReqState
  <2>5. QED
    BY <2>2, <2>3, <2>4
<1>3. req' \in [Call -> Enc!ReqState]
  BY <1>1, <1>2
<1>4. QED
  BY <1>1, <1>2, <1>3

\* What a step of the system does to the enclave.
EnclaveMoves ==
    \/ UNCHANGED encVars
    \/ \E c \in Configs : Enc!ChangeConfig(c) /\ UNCHANGED vars
    \/ \E j \in jobs : j.open /\ Enc!Start(j.batch, j.hash, j.sigs) /\ UNCHANGED vars
    \/ \E r \in Call : Enc!Handler(r) /\ UNCHANGED vars
    \/ \E h \in Hash : Enc!CreateKey(h) /\ UNCHANGED vars
    \/ Enc!Restart /\ UNCHANGED vars

\* The steps of the enclave in the system: the clock stands still, and only jobs
\* that run start handlers.
LEMMA EnclaveCases == ASSUME [SystemNext]_allVars PROVE EnclaveMoves
<1>1. CASE \E c \in Configs : EnclaveConfigured(c) \/ HostConfigured(c)
  BY <1>1 DEF EnclaveConfigured, HostConfigured, EnclaveMoves
<1>2. CASE HostStep
  BY <1>2 DEF HostStep, EnclaveMoves
<1>3. CASE \E j \in jobs : Deliver(j) \/ Reply(j) \/ BreakConnection(j)
  BY <1>3 DEF Deliver, Reply, BreakConnection, EnclaveMoves
<1>4. CASE EnclaveStep
  BY <1>4 DEF EnclaveStep, EnclaveMoves
<1>5. CASE UNCHANGED allVars
  BY <1>5 DEF allVars, EnclaveMoves
<1>6. QED
  BY <1>1, <1>2, <1>3, <1>4, <1>5 DEF SystemNext

\* Every step keeps the invariant of the handlers.
LEMMA NextEInv ==
    ASSUME BInv, EInv, [SystemNext]_allVars
    PROVE  EInv'
<1>1. CASE UNCHANGED encVars
  BY <1>1 DEF encVars, EInv, Enc!TypeOK, Handlers, Enc!QuorumSigned
<1>2. ASSUME NEW c \in Configs, Enc!ChangeConfig(c) PROVE EInv'
  BY <1>2 DEF Enc!ChangeConfig, EInv, Enc!TypeOK, Handlers, Enc!QuorumSigned
<1>3. ASSUME NEW j \in jobs, Enc!Start(j.batch, j.hash, j.sigs) PROVE EInv'
  <2> DEFINE r == j.batch
  <2>1. r \in Call /\ j.hash \in Hash /\ j.sigs \in SUBSET Signer
    BY DEF BInv, TypeOK, Job
  <2>2. /\ req' \in [Call -> Enc!ReqState]
        /\ \A s \in Call : s # r => req'[s] = req[s]
        /\ \/ /\ req'[r].pc = "verified" /\ req'[r].out = "none"
              /\ Enc!QuorumSigned(req'[r].sigs, req'[r].cfg)
           \/ req'[r].pc = "done" /\ req'[r].out = "bad request"
        /\ UNCHANGED <<now, encConfig, born, inProgress, executed, answered>>
    BY <1>3, <2>1, StartStage
  <2> HIDE DEF r
  <2>3. Enc!TypeOK' /\ now' = 0
    BY <2>2 DEF EInv, Enc!TypeOK
  <2>4. ASSUME NEW s \in Call
        PROVE  /\ req'[s].pc \in Running \cup {"idle"} => req'[s].out = "none"
               /\ req'[s].pc \notin Running \cup {"idle"} => req'[s].out # "none"
               /\ req'[s].pc \in Running \/ req'[s].out = "ok" =>
                     Enc!QuorumSigned(req'[s].sigs, req'[s].cfg)
               /\ req'[s].pc = "ran" \/ req'[s].out = "ok" => req'[s].ran
    <3>1. CASE s = r
      BY <2>2, <3>1 DEF Running
    <3>2. CASE s # r
      BY <2>2, <3>2 DEF EInv, Handlers
    <3>3. QED
      BY <3>1, <3>2
  <2>5. QED
    BY <2>3, <2>4 DEF EInv, Handlers, Enc!QuorumSigned
<1>4. ASSUME NEW r \in Call, Enc!Handler(r) PROVE EInv'
  <2>1. Stage(r) /\ UNCHANGED <<now, encConfig, born>> /\ inProgress' \subseteq Hash
    BY <1>4, HandlerStages
  <2>2. PICK pc, out, ran : Moved(r, pc, out, ran)
    BY <2>1 DEF Stage
  <2>3. executed' \in [Hash -> Enc!Time \cup {Never}] /\ answered' \subseteq Hash
    <3>1. req[r].hash \in Hash /\ now \in Enc!Time
      BY DEF EInv, Enc!TypeOK, Enc!ReqState
    <3>2. QED
      BY <2>1, <3>1 DEF Stage, EInv, Enc!TypeOK
  <2>4. Enc!TypeOK' /\ now' = 0
    BY <2>1, <2>2, <2>3 DEF Moved, EInv, Enc!TypeOK
  <2>5. /\ req[r].pc \in Running => Enc!QuorumSigned(req[r].sigs, req[r].cfg)
        /\ req[r].out = "ok" => Enc!QuorumSigned(req[r].sigs, req[r].cfg) /\ req[r].ran
        /\ req[r].pc = "ran" => req[r].ran
        /\ req[r].pc \notin Running \cup {"idle"} => req[r].out # "none"
    BY DEF EInv, Handlers
  <2>6. /\ req'[r].pc \in Running \cup {"idle"} => req'[r].out = "none"
        /\ req'[r].pc \notin Running \cup {"idle"} => req'[r].out # "none"
        /\ req'[r].pc \in Running \/ req'[r].out = "ok" =>
              Enc!QuorumSigned(req[r].sigs, req[r].cfg)
        /\ req'[r].pc = "ran" \/ req'[r].out = "ok" => req'[r].ran
    BY <2>1, <2>5 DEF Stage, Moved, Running
  <2>7. Handlers'
    BY <2>2, <2>6 DEF Moved, EInv, Handlers, Enc!QuorumSigned
  <2>8. QED
    BY <2>4, <2>7 DEF EInv
<1>5. ASSUME NEW h \in Hash, Enc!CreateKey(h) PROVE EInv'
  BY <1>5 DEF Enc!CreateKey, EInv, Enc!TypeOK, Handlers, Enc!QuorumSigned
<1>6. CASE Enc!Restart
  <2>1. /\ req' \in [Call -> Enc!ReqState]
        /\ \A r \in Call :
              /\ req'[r].sigs = req[r].sigs /\ req'[r].cfg = req[r].cfg
              /\ req'[r].ran = req[r].ran
              /\ req[r].pc = "idle" => req'[r] = req[r]
              /\ req[r].pc # "idle" => req'[r].pc = "done"
              /\ req[r].pc \in Running => req'[r].out = "lost"
              /\ req[r].pc \notin Running => req'[r].out = req[r].out
        /\ UNCHANGED <<now, answered>>
    BY <1>6, RestartStage
  <2>2. Enc!TypeOK' /\ now' = 0
    BY <1>6, <2>1 DEF Enc!Restart, EInv, Enc!TypeOK
  <2>3. Handlers'
    BY <2>1 DEF EInv, Handlers, Running, Enc!QuorumSigned
  <2>4. QED
    BY <2>2, <2>3 DEF EInv
<1>7. QED
  BY <1>1, <1>2, <1>3, <1>4, <1>5, <1>6, EnclaveCases DEF EnclaveMoves

-----------------------------------------------------------------------------
\* A batch in use keeps its hash and its waiters.
LEMMA BatchKept ==
    ASSUME BInv, [PatientNext]_vars, NEW b \in Call, batch[b].waiters # {}
    PROVE  batch'[b].waiters # {} /\ batch'[b].hash = batch[b].hash
<1> USE DEF BInv, TypeOK
<1>1. CASE UNCHANGED batch
  BY <1>1
<1>2. ASSUME NEW d \in Call, NEW t, batch' = [batch EXCEPT ![d].timer = t]
      PROVE  batch'[b].waiters # {} /\ batch'[b].hash = batch[b].hash
  BY <1>2 DEF BatchState
<1>3. ASSUME NEW d \in Call, batch' = [batch EXCEPT ![d].done = TRUE]
      PROVE  batch'[b].waiters # {} /\ batch'[b].hash = batch[b].hash
  BY <1>3 DEF BatchState
<1>4. ASSUME NEW c \in Call, Admit(c)
      PROVE  batch'[b].waiters # {} /\ batch'[b].hash = batch[b].hash
  <2> DEFINE d == BatchOf(c)
             br == JoinedBatch(c)
  <2>1. /\ d \in Call /\ br \in BatchState /\ br.waiters = batch[d].waiters
        /\ \/ br.waiters # {} /\ br = batch[d]
           \/ br.waiters = {} /\ d = c /\ br.seen = {} /\ ~br.processing
    BY <1>4, JoinedFacts DEF Admit
  <2>2. PICK seen, p : batch' = [batch EXCEPT ![d] = [br EXCEPT
             !.seen = seen, !.waiters = @ \cup {c}, !.processing = p]]
    BY <1>4 DEF Admit
  <2> HIDE DEF d, br
  <2>3. CASE b = d
    <3>1. batch'[b] = [br EXCEPT !.seen = seen, !.waiters = @ \cup {c}, !.processing = p]
      BY <2>1, <2>2, <2>3
    <3>2. br = batch[b]
      BY <2>1, <2>3
    <3>3. batch'[b].waiters = br.waiters \cup {c} /\ batch'[b].hash = br.hash
      BY <2>1, <3>1 DEF BatchState
    <3>4. QED
      BY <3>2, <3>3
  <2>4. CASE b # d
    BY <2>2, <2>4
  <2>5. QED
    BY <2>3, <2>4
<1>5. ASSUME NEW j \in jobs, NEW outcome \in {"ok", "error"}, FinishJob(j, outcome)
      PROVE  UNCHANGED batch \/ \E d \in Call : batch' = [batch EXCEPT ![d].done = TRUE]
  <2>1. j.hash \in Hash
    BY DEF Job
  <2>2. QED
    BY <1>5, <2>1 DEF FinishJob, completeBatch
<1>6. ASSUME NEW d \in Call,
             TimerFires(d) \/ TimerReleased(d) \/ TimerCancelled(d) \/ FailBatch(d)
      PROVE  \E t : batch' = [batch EXCEPT ![d].timer = t]
  BY <1>6 DEF TimerFires, TimerReleased, TimerCancelled, FailBatch
<1>7. QED
  BY <1>1, <1>2, <1>3, <1>4, <1>5, <1>6 DEF PatientNext, AdoptConfig, Arrive,
     RejectSignature, ServeCached, Receive, Disconnect, ExpireResponse, Shutdown, vars

\* Handlers stay with the batch that started them.
LEMMA NextDelivered ==
    ASSUME BInv, EInv, Delivered, [SystemNext]_allVars
    PROVE  Delivered'
<1> SUFFICES ASSUME NEW b \in Call, req'[b].pc # "idle"
             PROVE  batch'[b].waiters # {} /\ batch'[b].hash = req'[b].hash
  BY DEF Delivered
<1>1. ASSUME req[b].pc # "idle", req'[b].hash = req[b].hash
      PROVE  batch'[b].waiters # {} /\ batch'[b].hash = req'[b].hash
  BY <1>1, HostSteps, BatchKept DEF Delivered
<1>2. CASE UNCHANGED req
  BY <1>1, <1>2
<1>3. ASSUME NEW j \in jobs, Enc!Start(j.batch, j.hash, j.sigs), UNCHANGED vars
      PROVE  batch'[b].waiters # {} /\ batch'[b].hash = req'[b].hash
  <2>1. j.batch \in Call /\ j.hash \in Hash /\ j.sigs \in SUBSET Signer
    BY DEF BInv, TypeOK, Job
  <2>2. /\ req'[j.batch].hash = j.hash
        /\ \A s \in Call : s # j.batch => req'[s] = req[s]
    BY <1>3, <2>1, StartStage
  <2>3. CASE b = j.batch
    BY <1>3, <2>2, <2>3 DEF vars, BInv, JobsNamed
  <2>4. CASE b # j.batch
    BY <1>1, <2>2, <2>4
  <2>5. QED
    BY <2>3, <2>4
<1>4. ASSUME NEW r \in Call, Enc!Handler(r)
      PROVE  batch'[b].waiters # {} /\ batch'[b].hash = req'[b].hash
  <2>1. Stage(r)
    BY <1>4, HandlerStages
  <2>2. PICK pc, out, ran : Moved(r, pc, out, ran)
    BY <2>1 DEF Stage
  <2>3. req[r].pc # "idle"
    BY <2>1 DEF Stage, Running
  <2>4. QED
    BY <1>1, <2>2, <2>3 DEF Moved
<1>5. CASE Enc!Restart
  BY <1>1, <1>5, RestartStage
<1>6. QED
  BY <1>2, <1>3, <1>4, <1>5, EnclaveCases
  DEF EnclaveMoves, encVars, Enc!ChangeConfig, Enc!CreateKey

\* A response stays produced.
LEMMA ProducedStays ==
    ASSUME BInv, EInv, [SystemNext]_allVars, NEW h, Produced(h)
    PROVE  Produced(h)'
<1>1. PICK r \in Call : /\ req[r].hash = h /\ req[r].ran /\ req[r].out = "ok"
                        /\ Enc!QuorumSigned(req[r].sigs, req[r].cfg)
  BY DEF Produced
<1>2. req[r].pc \notin Running \cup {"idle"}
  BY <1>1 DEF EInv, Handlers
<1>3. ASSUME /\ req'[r].hash = req[r].hash /\ req'[r].ran = req[r].ran
             /\ req'[r].out = req[r].out /\ req'[r].sigs = req[r].sigs
             /\ req'[r].cfg = req[r].cfg
      PROVE  Produced(h)'
  <2>1. Enc!QuorumSigned(req'[r].sigs, req'[r].cfg)
    BY <1>1, <1>3
  <2>2. QED
    BY <1>1, <1>3, <2>1 DEF Produced, Enc!QuorumSigned
<1>4. CASE req'[r] = req[r]
  BY <1>3, <1>4
<1>5. ASSUME NEW j \in jobs, Enc!Start(j.batch, j.hash, j.sigs)
      PROVE  req'[r] = req[r]
  <2>1. j.batch \in Call /\ j.hash \in Hash /\ j.sigs \in SUBSET Signer
    BY DEF BInv, TypeOK, Job
  <2>2. /\ req[j.batch].pc = "idle"
        /\ \A s \in Call : s # j.batch => req'[s] = req[s]
    BY <1>5, <2>1, StartStage
  <2>3. QED
    BY <1>2, <2>2
<1>6. ASSUME NEW s \in Call, Enc!Handler(s) PROVE Produced(h)'
  <2>1. Stage(s)
    BY <1>6, HandlerStages
  <2>2. CASE s = r
    <3>1. Moved(r, "done", req[r].out, req[r].ran)
      BY <1>2, <2>1, <2>2 DEF Stage, Running
    <3>2. QED
      BY <1>3, <3>1 DEF Moved
  <2>3. CASE s # r
    <3>1. PICK pc, out, ran : Moved(s, pc, out, ran)
      BY <2>1 DEF Stage
    <3>2. QED
      BY <1>4, <2>3, <3>1 DEF Moved
  <2>4. QED
    BY <2>2, <2>3
<1>7. CASE Enc!Restart
  BY <1>2, <1>3, <1>7, RestartStage
<1>8. QED
  BY <1>4, <1>5, <1>6, <1>7, EnclaveCases
  DEF EnclaveMoves, encVars, Enc!ChangeConfig, Enc!CreateKey

\* The end of a job gives a response only when the enclave produced it.
LEMMA FinishBacked ==
    ASSUME BInv, Backed, NEW j \in jobs, NEW outcome \in {"ok", "error"},
           FinishJob(j, outcome), outcome = "ok" => Produced(j.hash)
    PROVE  /\ \A h \in responseCache' : Produced(h)
           /\ \A c \in Call :
                 /\ calls'[c].hash = calls[c].hash
                 /\ calls'[c].ch = "ok" \/ calls'[c].pc = "served" =>
                       Produced(calls[c].hash)
<1> DEFINE h == j.hash
           b == pending[h]
<1>1. h \in Hash
  BY DEF BInv, TypeOK, Job
<1>2. completeBatch(h, outcome)
  BY DEF FinishJob
<1>3. CASE b = NoCall
  BY <1>2, <1>3 DEF completeBatch, Backed
<1>4. CASE b # NoCall
  <2>1. /\ calls' = notifyWaiters(b, outcome)
        /\ responseCache' = IF outcome = "ok" THEN responseCache \cup {h}
                                              ELSE responseCache
    BY <1>2, <1>4 DEF completeBatch
  <2>2. b \in Call /\ batch[b].hash = h
    BY <1>1, <1>4 DEF BInv, TypeOK, Shape, PendingUsed
  <2>3. \A g \in responseCache' : Produced(g)
    BY <2>1 DEF Backed
  <2>4. ASSUME NEW c \in Call
        PROVE  /\ calls'[c].hash = calls[c].hash
               /\ calls'[c].ch = "ok" \/ calls'[c].pc = "served" =>
                     Produced(calls[c].hash)
    <3>1. /\ calls'[c].hash = calls[c].hash /\ calls'[c].pc = calls[c].pc
          /\ \/ calls'[c].ch = calls[c].ch
             \/ c \in batch[b].waiters /\ calls'[c].ch = outcome
      BY <2>1 DEF notifyWaiters, BInv, TypeOK, CallState
    <3>2. c \in batch[b].waiters => calls[c].hash = h
      BY <2>2 DEF BInv, Shape, WaitersJoined
    <3>3. QED
      BY <3>1, <3>2 DEF Backed
  <2>5. QED
    BY <2>3, <2>4
<1>5. QED
  BY <1>3, <1>4

\* A call that acts alone is served from the cache or from its channel.
LEMMA CallBacked ==
    ASSUME BInv, Backed, NEW c \in Call,
           Arrive(c) \/ RejectSignature(c) \/ ServeCached(c)
              \/ Receive(c) \/ Disconnect(c) \/ Admit(c)
    PROVE  /\ UNCHANGED responseCache
           /\ \A d \in Call :
                 /\ calls'[d].hash = calls[d].hash
                 /\ calls'[d].ch = "ok" \/ calls'[d].pc = "served" =>
                       Produced(calls[d].hash)
<1>1. /\ UNCHANGED responseCache
      /\ \A d \in Call : /\ calls'[d].hash = calls[d].hash
                         /\ calls'[d].ch = calls[d].ch
                         /\ d # c => calls'[d] = calls[d]
  BY DEF BInv, TypeOK, CallState, Arrive, RejectSignature, ServeCached, Receive,
     Disconnect, Admit
<1>2. calls'[c].pc = "served" => calls[c].hash \in responseCache \/ calls[c].ch = "ok"
  BY DEF BInv, TypeOK, CallState, Arrive, RejectSignature, ServeCached, Receive,
     Disconnect, Admit
<1>3. QED
  BY <1>1, <1>2 DEF Backed

\* A timeout goroutine answers with errors only.
LEMMA TimerBacked ==
    ASSUME BInv, Backed, NEW b \in Call,
           TimerFires(b) \/ TimerReleased(b) \/ TimerCancelled(b) \/ FailBatch(b)
    PROVE  /\ UNCHANGED responseCache
           /\ \A d \in Call :
                 /\ calls'[d].hash = calls[d].hash
                 /\ calls'[d].ch = "ok" \/ calls'[d].pc = "served" =>
                       Produced(calls[d].hash)
<1>1. UNCHANGED responseCache
  BY DEF TimerFires, TimerReleased, TimerCancelled, FailBatch
<1>2. CASE UNCHANGED calls
  BY <1>1, <1>2 DEF Backed
<1>3. CASE ~UNCHANGED calls
  <2> DEFINE br == pending[batch[b].hash]
             out == IF batch[b].timer = "shutdown" THEN "server_shutdown"
                                                   ELSE "quorum_timeout"
  <2>1. calls' = notifyWaiters(br, out)
    BY <1>3 DEF TimerFires, TimerReleased, TimerCancelled, FailBatch
  <2>2. \A d \in Call : /\ calls'[d].hash = calls[d].hash /\ calls'[d].pc = calls[d].pc
                        /\ calls'[d].ch = calls[d].ch \/ calls'[d].ch = out
    BY <2>1 DEF notifyWaiters, BInv, TypeOK, CallState
  <2>3. QED
    BY <1>1, <2>2 DEF Backed
<1>4. QED
  BY <1>2, <1>3

\* Every step keeps the host's responses backed.
LEMMA NextBacked ==
    ASSUME SInv, [SystemNext]_allVars
    PROVE  Backed'
<1> DEFINE Still == /\ \A h \in responseCache' : Produced(h)
                    /\ \A c \in Call :
                          /\ calls'[c].hash = calls[c].hash
                          /\ calls'[c].ch = "ok" \/ calls'[c].pc = "served" =>
                                Produced(calls[c].hash)
<1> USE DEF SInv
<1>1. CASE \E c \in Configs : EnclaveConfigured(c) \/ HostConfigured(c)
  <2>1. UNCHANGED <<calls, responseCache>>
    BY <1>1 DEF EnclaveConfigured, HostConfigured, AdoptConfig, vars
  <2>2. Still
    BY <2>1 DEF Backed
  <2>3. QED
    BY <2>2, ProducedStays DEF Backed
<1>2. CASE HostStep
  <2>1. ASSUME NEW h \in Hash, ExpireResponse(h)
        PROVE  Still
    <3>1. UNCHANGED calls /\ responseCache' \subseteq responseCache
      BY <2>1 DEF ExpireResponse
    <3>2. QED
      BY <3>1 DEF Backed
  <2>2. ASSUME NEW c \in Call,
               Arrive(c) \/ RejectSignature(c) \/ ServeCached(c)
                  \/ Receive(c) \/ Disconnect(c) \/ Admit(c)
        PROVE  Still
    BY <2>2, CallBacked DEF Backed
  <2>3. ASSUME NEW b \in Call,
               TimerFires(b) \/ TimerReleased(b) \/ TimerCancelled(b) \/ FailBatch(b)
        PROVE  Still
    BY <2>3, TimerBacked DEF Backed
  <2>4. Shutdown => Still
    BY DEF Shutdown, Backed
  <2>5. Still
    BY <1>2, <2>1, <2>2, <2>3, <2>4 DEF HostStep
  <2>6. QED
    BY <2>5, ProducedStays DEF Backed
<1>3. ASSUME NEW j \in jobs, Deliver(j) \/ Reply(j) \/ BreakConnection(j)
      PROVE  Still
  <2>1. CASE Deliver(j)
    BY <2>1 DEF Deliver, vars, Backed
  <2>2. CASE BreakConnection(j)
    BY <2>2, FinishBacked DEF BreakConnection
  <2>3. CASE Reply(j)
    <3>1. j.batch \in Call
      BY DEF BInv, TypeOK, Job
    <3>2. req[j.batch].out = "ok" => Produced(j.hash)
      <4> SUFFICES ASSUME req[j.batch].out = "ok" PROVE Produced(j.hash)
        OBVIOUS
      <4>1. /\ req[j.batch].ran
            /\ Enc!QuorumSigned(req[j.batch].sigs, req[j.batch].cfg)
            /\ req[j.batch].pc # "idle"
        BY <3>1 DEF EInv, Handlers
      <4>2. req[j.batch].hash = j.hash
        BY <3>1, <4>1 DEF Delivered, BInv, JobsNamed
      <4>3. QED
        BY <3>1, <4>1, <4>2 DEF Produced
    <3>3. CASE req[j.batch].out = "ok"
      BY <2>3, <3>2, <3>3, FinishBacked DEF Reply
    <3>4. CASE req[j.batch].out # "ok"
      BY <2>3, <3>4, FinishBacked DEF Reply
    <3>5. QED
      BY <3>3, <3>4
  <2>4. QED
    BY <1>3, <2>1, <2>2, <2>3
<1>4. CASE EnclaveStep \/ UNCHANGED allVars
  <2>1. UNCHANGED <<calls, responseCache>>
    BY <1>4 DEF EnclaveStep, allVars, vars
  <2>2. Still
    BY <2>1 DEF Backed
  <2>3. QED
    BY <2>2, ProducedStays DEF Backed
<1>5. ASSUME Still PROVE Backed'
  BY <1>5, ProducedStays DEF Backed
<1>6. QED
  BY <1>1, <1>2, <1>3, <1>4, <1>5 DEF SystemNext

\* The initial states satisfy the invariant.
LEMMA InitSInv == SystemInit => SInv
<1> SUFFICES ASSUME SystemInit PROVE SInv
  OBVIOUS
<1>1. BInv
  BY InitIInv DEF SystemInit, IInv
<1>2. (CHOOSE h \in Hash : TRUE) \in Hash
  BY HostConstants
<1>3. /\ Enc!NoReq \in Enc!ReqState
      /\ Enc!NoReq.pc = "idle" /\ Enc!NoReq.out = "none"
  BY <1>2 DEF Enc!NoReq, Enc!ReqState
<1>4. \A r \in Call : req[r] = Enc!NoReq
  BY DEF SystemInit, Enc!Init
<1>5. Enc!TypeOK
  BY <1>3, EnclaveConstants DEF SystemInit, Enc!Init, Enc!TypeOK, Enc!Time
<1>6. Handlers /\ Delivered
  BY <1>3, <1>4 DEF Handlers, Delivered, Running
<1>7. \A c \in Call : calls[c].pc = "idle" /\ calls[c].ch = "empty"
  BY DEF SystemInit, Init
<1>8. Backed
  BY <1>7 DEF SystemInit, Init, Backed
<1>9. QED
  BY <1>1, <1>5, <1>6, <1>8 DEF SInv, EInv, SystemInit, Enc!Init

\* The invariant of the composition always holds.
LEMMA AlwaysSInv == System => []SInv
<1>1. SInv /\ [SystemNext]_allVars => SInv'
  <2> SUFFICES ASSUME SInv, [SystemNext]_allVars PROVE SInv'
    OBVIOUS
  <2>1. BInv'
    <3>1. [Next]_vars
      BY HostSteps DEF PatientNext, Next
    <3>2. QED
      BY <3>1, NextBInv DEF SInv
  <2>2. QED
    BY <2>1, NextEInv, NextDelivered, NextBacked DEF SInv
<1>2. QED
  BY <1>1, InitSInv, PTL DEF System

\* A call is served only with a response that the enclave produced, having run
\* the app for that hash under a quorum of signatures of its config
\* (host.go:614-637 and 781-801, server.go:520-620): whichever batch, cache
\* entry or job it comes from, through restarts of the enclave, connections
\* that break at any time, and configs that change on either side.
THEOREM ServedWasProduced == System => []ServedWasExecuted
<1>1. SInv => ServedWasExecuted
  BY DEF SInv, Backed, Produced, ServedWasExecuted
<1>2. QED
  BY <1>1, AlwaysSInv, PTL

-----------------------------------------------------------------------------
\* Why no hash is answered twice, when connections do not break and F is
\* constant: a handler that runs has an open job, an open job is the one of the
\* pending batch of its hash, so one handler of a hash runs at a time; and one
\* that starts after an answer finds the entry of executedReqs, or no key.
Held ==
    \A b \in Call : req[b].pc \in Running =>
        \E j \in jobs : j.open /\ j.batch = b /\ j.hash = req[b].hash

\* An answered hash has its entry, unless a restart lost it with the key.
Recorded == \A h \in answered : executed[h] # Never \/ born[h] = Never

\* Which handlers may belong to an answered hash.
Answering ==
    \A r \in Call :
        /\ req[r].pc = "fresh" =>
              req[r].hash \notin answered \/ born[req[r].hash] = Never
        /\ req[r].pc \in {"keyed", "ran"} => req[r].hash \notin answered
        /\ req[r].out = "ok" => req[r].hash \in answered

Once == Held /\ Recorded /\ Answering /\ AnsweredOnce

\* One handler of a hash runs at a time.
LEMMA OneRuns ==
    ASSUME OpenInv, Held, NEW r \in Call, NEW s \in Call,
           req[r].pc \in Running, req[s].pc \in Running, req[r].hash = req[s].hash
    PROVE  r = s
<1>1. PICK i \in jobs : i.open /\ i.batch = r /\ i.hash = req[r].hash
  BY DEF Held
<1>2. PICK j \in jobs : j.open /\ j.batch = s /\ j.hash = req[s].hash
  BY DEF Held
<1>3. QED
  BY <1>1, <1>2 DEF OpenInv

\* A job stays open until its handler has answered.
LEMMA NextHeld ==
    ASSUME ~VsockFails, BInv, EInv, Held, [SystemNext]_allVars
    PROVE  Held'
<1> SUFFICES ASSUME NEW b \in Call, req'[b].pc \in Running
             PROVE  \E j \in jobs' : j.open /\ j.batch = b /\ j.hash = req'[b].hash
  BY DEF Held
<1>1. ASSUME req[b].pc \in Running, req'[b].hash = req[b].hash,
             \A j \in jobs : j.open /\ j.batch = b => j \in jobs'
      PROVE  \E j \in jobs' : j.open /\ j.batch = b /\ j.hash = req'[b].hash
  BY <1>1 DEF Held
<1>2. ASSUME NEW j \in jobs, Enc!Start(j.batch, j.hash, j.sigs), j.open, UNCHANGED jobs
      PROVE  \E i \in jobs' : i.open /\ i.batch = b /\ i.hash = req'[b].hash
  <2>1. j.batch \in Call /\ j.hash \in Hash /\ j.sigs \in SUBSET Signer
    BY DEF BInv, TypeOK, Job
  <2>2. /\ req'[j.batch].hash = j.hash
        /\ \A s \in Call : s # j.batch => req'[s] = req[s]
    BY <1>2, <2>1, StartStage
  <2>3. QED
    BY <1>1, <1>2, <2>2
<1>3. ASSUME NEW r \in Call, Enc!Handler(r), UNCHANGED jobs
      PROVE  \E j \in jobs' : j.open /\ j.batch = b /\ j.hash = req'[b].hash
  <2>1. Stage(r)
    BY <1>3, HandlerStages
  <2>2. PICK pc, out, ran : Moved(r, pc, out, ran)
    BY <2>1 DEF Stage
  <2>3. b = r => req[b].pc \in Running
    BY <2>1 DEF Stage, Moved, Running
  <2>4. QED
    BY <1>1, <1>3, <2>2, <2>3 DEF Moved
<1>4. CASE Enc!Restart
  BY <1>4, RestartStage DEF Running
<1>5. ASSUME UNCHANGED req, jobs \subseteq jobs'
      PROVE  \E j \in jobs' : j.open /\ j.batch = b /\ j.hash = req'[b].hash
  BY <1>1, <1>5
<1>6. ASSUME NEW j \in jobs, Reply(j) \/ BreakConnection(j)
      PROVE  \E i \in jobs' : i.open /\ i.batch = b /\ i.hash = req'[b].hash
  <2>1. UNCHANGED req /\ jobs \ {j} \subseteq jobs'
    BY <1>6 DEF Reply, BreakConnection, encVars, FinishJob
  <2>2. j.batch \in Call
    BY DEF BInv, TypeOK, Job
  <2>3. req[j.batch].pc \notin Running
    BY <1>6, <2>2 DEF Reply, BreakConnection, EInv, Handlers, Running
  <2>4. QED
    BY <1>1, <2>1, <2>3
<1>7. CASE HostStep
  <2>1. UNCHANGED req /\ jobs \subseteq jobs'
    BY <1>7 DEF HostStep, encVars, Arrive, RejectSignature, ServeCached, Admit, Receive,
       Disconnect, TimerFires, TimerReleased, TimerCancelled, FailBatch, ExpireResponse,
       Shutdown
  <2>2. QED
    BY <1>5, <2>1
<1>8. CASE \E c \in Configs : EnclaveConfigured(c) \/ HostConfigured(c)
  BY <1>5, <1>8
  DEF EnclaveConfigured, HostConfigured, Enc!ChangeConfig, AdoptConfig, encVars, vars
<1>9. CASE EnclaveStep
  BY <1>3, <1>4, <1>5, <1>9 DEF EnclaveStep, Enc!CreateKey, vars
<1>10. CASE UNCHANGED allVars
  BY <1>5, <1>10 DEF allVars, encVars, vars
<1>11. QED
  BY <1>2, <1>6, <1>7, <1>8, <1>9, <1>10 DEF SystemNext, Deliver, vars

\* Every step of a handler keeps the records of the answers.
LEMMA StageOnce ==
    ASSUME EInv, OpenInv, Once, NEW r \in Call, Stage(r), UNCHANGED <<now, born>>
    PROVE  Recorded' /\ Answering' /\ AnsweredOnce'
<1> DEFINE h == req[r].hash
<1>1. /\ h \in Hash /\ 0 # Never /\ now = 0
      /\ executed \in [Hash -> Enc!Time \cup {Never}]
  <2>1. 0 # Never
    BY EnclaveConstants
  <2>2. req[r] \in Enc!ReqState /\ executed \in [Hash -> Enc!Time \cup {Never}]
    BY DEF EInv, Enc!TypeOK
  <2>3. QED
    BY <2>1, <2>2 DEF EInv, Enc!ReqState
<1>2. PICK pc, out, ran : Moved(r, pc, out, ran)
  BY DEF Stage
<1>3. /\ \A s \in Call : s # r => req'[s] = req[s]
      /\ req'[r].hash = h
  BY <1>2 DEF Moved
<1>4. CASE req[r].pc = "ran" /\ Moved(r, "recorded", "ok", req[r].ran)
            /\ executed' = [executed EXCEPT ![h] = now] /\ answered' = answered \cup {h}
  <2>1. h \notin answered
    BY <1>4 DEF Once, Answering
  <2>2. Recorded'
    BY <1>1, <1>4 DEF Once, Recorded
  <2>3. \A s \in Call : s # r /\ req[s].hash = h => req[s].pc \notin Running
    BY <1>4, OneRuns DEF Once, Running
  <2>4. req'[r].pc = "recorded" /\ req'[r].out = "ok"
    BY <1>4 DEF Moved
  <2>5. Answering'
    BY <1>3, <1>4, <2>3, <2>4 DEF Once, Answering, Running
  <2>6. \A s \in Call : req[s].out = "ok" => req[s].hash # h
    BY <2>1 DEF Once, Answering
  <2>7. AnsweredOnce'
    BY <1>3, <2>4, <2>6 DEF Once, AnsweredOnce, Enc!ExecutedOnce
  <2>8. QED
    BY <2>2, <2>5, <2>7
<1>5. CASE ~(req[r].pc = "ran" /\ Moved(r, "recorded", "ok", req[r].ran)
            /\ executed' = [executed EXCEPT ![h] = now] /\ answered' = answered \cup {h})
  <2>1. UNCHANGED <<executed, answered>>
    BY <1>5 DEF Stage
  <2>2. Recorded'
    BY <2>1 DEF Once, Recorded
  <2>3. req'[r].out = "ok" => req[r].out = "ok"
    BY <1>5 DEF Stage, Moved
  <2>4. req'[r].pc = "fresh" => h \notin answered \/ born[h] = Never
    <3>1. req'[r].pc = "fresh" => ~Enc!ExecutedGet(h)
      BY <1>5 DEF Stage, Moved
    <3>2. executed[h] # Never => Enc!ExecutedGet(h)
      BY <1>1, EnclaveConstants DEF Enc!ExecutedGet, Enc!Time
    <3>3. QED
      BY <3>1, <3>2 DEF Once, Recorded
  <2>5. req'[r].pc = "keyed" => req[r].pc = "fresh" /\ born[h] # Never
    BY <1>5 DEF Stage, Moved, Enc!KeyAlive
  <2>6. req'[r].pc = "ran" => req[r].pc = "keyed"
    BY <1>5 DEF Stage, Moved
  <2>7. Answering'
    <3> SUFFICES ASSUME NEW s \in Call
                 PROVE  /\ req'[s].pc = "fresh" =>
                              req'[s].hash \notin answered \/ born[req'[s].hash] = Never
                        /\ req'[s].pc \in {"keyed", "ran"} => req'[s].hash \notin answered
                        /\ req'[s].out = "ok" => req'[s].hash \in answered
      BY <2>1 DEF Answering
    <3>1. CASE s = r
      BY <1>3, <2>3, <2>4, <2>5, <2>6, <3>1 DEF Once, Answering
    <3>2. CASE s # r
      BY <1>3, <3>2 DEF Once, Answering
    <3>3. QED
      BY <3>1, <3>2
  <2>8. AnsweredOnce'
    BY <1>3, <2>3 DEF Once, AnsweredOnce, Enc!ExecutedOnce
  <2>9. QED
    BY <2>2, <2>7, <2>8
<1>6. QED
  BY <1>4, <1>5

\* Every step keeps the answers apart.
LEMMA NextOnce ==
    ASSUME ~VsockFails, BInv, EInv, OpenInv, Once, [SystemNext]_allVars
    PROVE  Once'
<1>1. Held'
  BY NextHeld DEF Once
<1>2. CASE UNCHANGED <<born, executed, req, answered>>
  BY <1>1, <1>2 DEF Once, Recorded, Answering, AnsweredOnce, Enc!ExecutedOnce
<1>3. ASSUME NEW j \in jobs, Enc!Start(j.batch, j.hash, j.sigs) PROVE Once'
  <2> DEFINE r == j.batch
  <2>1. r \in Call /\ j.hash \in Hash /\ j.sigs \in SUBSET Signer
    BY DEF BInv, TypeOK, Job
  <2>2. /\ \A s \in Call : s # r => req'[s] = req[s]
        /\ req'[r].pc \in {"verified", "done"} /\ req'[r].out # "ok"
        /\ UNCHANGED <<born, executed, answered>>
    BY <1>3, <2>1, StartStage
  <2> HIDE DEF r
  <2>3. Recorded' /\ Answering' /\ AnsweredOnce'
    BY <2>2 DEF Once, Recorded, Answering, AnsweredOnce, Enc!ExecutedOnce
  <2>4. QED
    BY <1>1, <2>3 DEF Once
<1>4. ASSUME NEW r \in Call, Enc!Handler(r) PROVE Once'
  BY <1>1, <1>4, HandlerStages, StageOnce DEF Once
<1>5. ASSUME NEW h \in Hash, Enc!CreateKey(h) PROVE Once'
  <2>1. /\ h \notin answered
        /\ \A r \in Call : req[r].pc # "idle" => req[r].hash # h
        /\ \A g \in Hash : g # h => born'[g] = born[g]
        /\ UNCHANGED <<executed, req, answered>>
    BY <1>5 DEF Enc!CreateKey, EInv, Enc!TypeOK
  <2>2. answered \subseteq Hash /\ \A r \in Call : req[r].hash \in Hash
    BY DEF EInv, Enc!TypeOK, Enc!ReqState
  <2>3. Recorded' /\ Answering'
    BY <2>1, <2>2 DEF Once, Recorded, Answering
  <2>4. QED
    BY <1>1, <2>1, <2>3 DEF Once, AnsweredOnce, Enc!ExecutedOnce
<1>6. CASE Enc!Restart
  <2>1. /\ \A r \in Call : /\ req'[r].hash = req[r].hash
                           /\ req'[r].pc \in {"idle", "done"}
                           /\ req'[r].out = "ok" => req[r].out = "ok"
        /\ \A h \in Hash : born'[h] = Never
        /\ answered \subseteq Hash
        /\ UNCHANGED answered
    BY <1>6, RestartStage DEF EInv, Enc!TypeOK
  <2>2. Recorded' /\ Answering' /\ AnsweredOnce'
    BY <2>1 DEF Once, Recorded, Answering, AnsweredOnce, Enc!ExecutedOnce
  <2>3. QED
    BY <1>1, <2>2 DEF Once
<1>7. QED
  BY <1>2, <1>3, <1>4, <1>5, <1>6, EnclaveCases
  DEF EnclaveMoves, encVars, Enc!ChangeConfig

\* server.go:564 and host.go:614: the enclave alone may answer two concurrent
\* requests of one hash (EnclaveExecute!ExecutedOnce is violated), but behind a
\* host that has at most one open job per hash it never answers a hash twice,
\* through any number of restarts.  For this the host's connections do not break
\* while a handler runs, and the configs agree on F.
THEOREM NoSecondAnswer ==
    ASSUME ConstantF, ~VsockFails
    PROVE  System => []AnsweredOnce
<1>1. SystemInit => OpenInv /\ Once
  <2> SUFFICES ASSUME SystemInit PROVE OpenInv /\ Once
    OBVIOUS
  <2>1. /\ \A r \in Call : req[r].pc = "idle" /\ req[r].out = "none"
        /\ answered = {} /\ jobs = {}
    BY DEF SystemInit, Init, Enc!Init, Enc!NoReq
  <2>2. QED
    BY <2>1 DEF OpenInv, Once, Held, Recorded, Answering, AnsweredOnce,
       Enc!ExecutedOnce, Running
<1>2. ASSUME SInv, DispatchOnce, OpenInv, Once, [SystemNext]_allVars
      PROVE  OpenInv' /\ Once'
  BY <1>2, HostSteps, NextOpen, NextOnce DEF SInv
<1>3. Once => AnsweredOnce
  BY DEF Once
<1>4. System => []DispatchOnce
  BY HostRefined, Dispatched, PTL
<1>5. QED
  BY <1>1, <1>2, <1>3, <1>4, AlwaysSInv, PTL DEF System
=============================================================================
