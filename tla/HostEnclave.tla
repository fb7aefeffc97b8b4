----------------------------- MODULE HostEnclave -----------------------------
(***************************************************************************)
(* A host and its enclave: HostBatch composed with EnclaveExecute.  A job  *)
(* of the host is an HTTP call over vsock, served by one handleExecute     *)
(* goroutine of the enclave, named by the batch that was dispatched.  The  *)
(* host learns the outcome from the enclave's answer, or from a connection *)
(* that breaks; the host's config follows the configs of the enclave.      *)
(*                                                                         *)
(* The composition is about F that does not change, where a batch is       *)
(* dispatched at most once (HostBatch!DispatchOnce).  The clock stands     *)
(* still: what the expiry of keys and of replay entries does is the        *)
(* subject of EnclaveExecute.                                              *)
(***************************************************************************)
EXTENDS HostBatch

CONSTANTS
    KeyTTL, ReplayTTL, MaxTime, Never,
    VsockFails     \* may a connection break while the enclave handles it?

ASSUME EnclaveConstants ==
    /\ KeyTTL \in Nat
    /\ ReplayTTL \in Nat
    /\ MaxTime \in Nat
    /\ Never \notin Nat
    /\ VsockFails \in BOOLEAN

VARIABLES
    now, born, inProgress, executed, req, answered,   \* of EnclaveExecute
    encConfig,     \* enclaveServer.config
    reported       \* the configs the enclave has held, so may have reported

Enc == INSTANCE EnclaveExecute WITH Req <- Call, config <- encConfig

encVars == <<now, encConfig, born, inProgress, executed, req, answered>>

allVars == <<vars, encVars, reported>>

SystemInit ==
    /\ Init
    /\ Enc!Init
    /\ reported = {}

-----------------------------------------------------------------------------
\* The enclave gets a config, and the host adopts one that it reported, which
\* need not be its latest: two responses to /config race on their way back.
EnclaveConfigured(c) ==
    /\ Enc!ChangeConfig(c)
    /\ reported' = reported \cup {c}
    /\ UNCHANGED vars

HostConfigured(c) ==
    /\ c \in reported
    /\ AdoptConfig(c)
    /\ UNCHANGED <<encVars, reported>>

\* The steps that the host takes alone.  Executions end within the TTL of the
\* pending cache, so no pending batch expires.
HostStep ==
    /\ \/ \E c \in Call :
             \/ Arrive(c) \/ RejectSignature(c) \/ ServeCached(c) \/ Admit(c)
             \/ Receive(c) \/ Disconnect(c)
       \/ \E b \in Call :
             \/ TimerFires(b) \/ TimerReleased(b) \/ TimerCancelled(b)
             \/ FailBatch(b)
       \/ \E h \in Hash : ExpireResponse(h)
       \/ Shutdown
    /\ UNCHANGED <<encVars, reported>>

\* processBatch: the batch reaches the enclave.
Deliver(j) ==
    /\ j.open
    /\ Enc!Start(j.batch, j.hash, j.sigs)
    /\ UNCHANGED <<vars, reported>>

\* A variation: the status of the answer is not looked at.
ReplyAny(j) ==
    /\ req[j.batch].out # "none"
    /\ FinishJob(j, "ok")
    /\ UNCHANGED <<encVars, reported>>

\* processBatch returns: the enclave's answer, which is on its way once it is
\* written, before the deferred Delete has run.
Reply(j) ==
    /\ req[j.batch].out # "none"
    /\ FinishJob(j, IF req[j.batch].out = "ok" THEN "ok" ELSE "error")
    /\ UNCHANGED <<encVars, reported>>

\* processBatch returns: the connection broke, and the answer is lost.
BreakConnection(j) ==
    /\ VsockFails \/ req[j.batch].pc = "done"
    /\ FinishJob(j, "error")
    /\ UNCHANGED <<encVars, reported>>

\* The steps that the enclave takes alone.
EnclaveStep ==
    /\ \/ \E r \in Call : Enc!Handler(r)
       \/ \E h \in Hash : Enc!CreateKey(h)
       \/ Enc!Restart
    /\ UNCHANGED <<vars, reported>>

SystemNext ==
    \/ \E c \in Configs : EnclaveConfigured(c) \/ HostConfigured(c)
    \/ HostStep
    \/ \E j \in jobs : Deliver(j) \/ Reply(j) \/ BreakConnection(j)
    \/ EnclaveStep

System == SystemInit /\ [][SystemNext]_allVars

\* The fairness of HostBatch, with the enclave's answer replaced by the steps
\* that produce it: a handler runs to its end, since every stage of it does
\* (app.Execute has a deadline).
SystemFairness ==
    /\ \A c \in Call :
          /\ WF_allVars((RejectSignature(c) \/ ServeCached(c) \/ Admit(c))
                           /\ UNCHANGED <<encVars, reported>>)
          /\ WF_allVars(Receive(c) /\ UNCHANGED <<encVars, reported>>)
          /\ WF_allVars(Enc!Handler(c) /\ UNCHANGED <<vars, reported>>)
    /\ \A b \in Call :
          /\ WF_allVars((TimerFires(b) \/ TimerReleased(b) \/ TimerCancelled(b))
                           /\ UNCHANGED <<encVars, reported>>)
          /\ WF_allVars(FailBatch(b) /\ UNCHANGED <<encVars, reported>>)
          /\ WF_allVars(\E j \in jobs : j.batch = b /\ (Deliver(j) \/ Reply(j)))

FairSystem == System /\ SystemFairness

-----------------------------------------------------------------------------
\* server.go:564 and host.go:614: behind one host the enclave never answers a
\* request hash twice, although the enclave alone does not exclude it
\* (EnclaveExecute!ExecutedOnce): the host has at most one job per hash.
AnsweredOnce == Enc!ExecutedOnce

\* A call is served only with a response the enclave produced: the enclave ran
\* the app for its hash under a quorum of signatures of its config.
ServedWasExecuted ==
    \A c \in Call : calls[c].pc = "served" =>
        \E r \in Call : /\ req[r].hash = calls[c].hash
                        /\ req[r].ran
                        /\ req[r].out = "ok"
                        /\ Enc!QuorumSigned(req[r].sigs, req[r].cfg)
=============================================================================
