---------------------------- MODULE MCWorkflowApp ----------------------------
(***************************************************************************)
(* Small instances of WorkflowApp and of TTLCache.  The two share nothing; *)
(* part selects one of them, and for the app the question asked, so that   *)
(* each question has the inputs that matter to it and the state space is   *)
(* the sum of the parts:                                                   *)
(*   slots     three executions, two execution slots, one compile slot,    *)
(*             and a second injection that replaces the compile semaphore; *)
(*   binaries  three executions of two binaries that do not fit together,  *)
(*             and an injection that moves the bound;                      *)
(*   settings  the host's injection with a second attempt and one from a   *)
(*             settings service, whole or failing, and two config updates; *)
(*   relay     two runs of one execution, with keys of their own, that     *)
(*             call the relay DON while its membership changes;            *)
(*   ttl       the TTL cache.                                              *)
(***************************************************************************)
EXTENDS TTLCache, WorkflowApp, TLC

CONSTANTS x1, x2, x3, b1, b2, p1, p2, n1, n2, n3, key1, key2, sa, sb

VARIABLE part

MCKeyOf == (x1 :> key1) @@ (x2 :> key2) @@ (x3 :> key2)
MCBinaryOf == (x1 :> b1) @@ (x2 :> b2) @@ (x3 :> b1)
MCSize == (b1 :> 1) @@ (b2 :> 3)

MCRequests == {<<sb, sa>>, <<sa, sa>>}
MCContents == {<<sa>>, <<sa, sb>>, <<sa, sa>>}

\* n3, which is faulty, leaves.
Members == <<[signers |-> {n1, n2, n3}, f |-> 1], [signers |-> {n1, n2}, f |-> 1]>>
MCAppConfigs == {Members[1], Members[2]}

Payload(bytes, slow, n) ==
    [complete |-> TRUE, cacheBytes |-> bytes, timeout |-> slow, compilations |-> n]

MCSettings == {Payload(0, FALSE, 0), Payload(1, TRUE, 1),
               [complete |-> FALSE, cacheBytes |-> 1, timeout |-> TRUE, compilations |-> 1]}

MCInit ==
    /\ Init
    /\ AppInit
    /\ part \in {"ttl", "slots", "binaries", "settings", "relay"}

\* The executions that take no part stay idle; the others start in turn.
Only(X) == \A x \in Execution \ X : exec'[x] = exec[x]
InTurn(x, y) == exec'[y].pc # "idle" => exec[x].pc # "idle"

\* The codes with which the executions of a part may end.
Codes(C) == \A x \in Execution : exec'[x].code \in C \cup {0}

Valid == \A x \in Execution : exec[x].pc = "checking" => exec'[x].code = 0

NoCompilation == \A x \in Execution : exec'[x].pc # "timed"

\* No call of the guest, no config.
NoRelay == UNCHANGED <<relayVars, lastConfig>>

\* The injections succeed, p1 before all else, and p2 with the payload s.
InOrder(s) ==
    /\ \A p \in Post : inject'[p].pc # "failed"
    /\ inject'[p1].pc # "idle" => inject'[p1].settings = Payload(0, FALSE, 0)
    /\ inject'[p2].pc # "idle" => inject'[p2].settings = s
    /\ inject[p1].pc # "done" => Only({}) /\ inject'[p2] = inject[p2]

Restriction ==
    \/ /\ part = "slots"
       /\ NoRelay
       /\ InOrder(Payload(1, TRUE, 1))
       /\ inject'[p2].pc \in {"idle", "tuning", "compilations", "storage"}
       /\ InTurn(x1, x2) /\ InTurn(x2, x3)
       /\ Codes({200, 429, 502, 504})
    \/ /\ part = "binaries"
       /\ NoRelay
       /\ NoCompilation
       /\ InOrder(Payload(1, TRUE, 1))
       /\ Codes({400, 429, 502}) /\ Valid
       /\ InTurn(x1, x2) /\ InTurn(x2, x3)
    \/ /\ part = "settings"
       /\ Only({})
    \/ /\ part = "relay"
       /\ Only({x1, x2})
       /\ exec'[x2].pc # "idle" => exec[x1].pc = "ended"
       /\ InOrder(Payload(0, FALSE, 0))
       /\ inject'[p2] = inject[p2]
       /\ Codes({200, 504}) /\ exec'[x1].code # 504
       /\ exec'[x1].pc = "returning" => rcall[x1].pc = "done"
       /\ rcall'[x1].params # Nil => rcall'[x1].params.secrets = <<sa, sa>>
       /\ rcall'[x1].tried = 0 /\ rcall'[x1].pc # "backoff"
       /\ exec'[x1].pc # "idle" => lastConfig # Nil
       /\ lastConfig' # lastConfig =>
             /\ lastConfig' = Members[update'.count]
             /\ \/ exec[x1].pc = "idle"
                \/ exec[x1].pc = "ended" /\ exec[x2].pc \in {"idle", "running"}

Allowed == part # "ttl" /\ Restriction /\ UNCHANGED <<part, vars>>

MCNext ==
    \/ part = "ttl" /\ Next /\ UNCHANGED <<part, appVars>>
    \/ AppNext /\ Allowed

\* AppFairness for the steps a part allows: no part holds an execution up and
\* is excused by a step it does not have.
MCFairness ==
    \A x \in Execution : /\ WF_<<part, vars, appVars>>(Proceeds(x) /\ Allowed)
                         /\ WF_<<part, vars, appVars>>(CallEnds(x) /\ Allowed)

MCSpec == MCInit /\ [][MCNext]_<<part, vars, appVars>> /\ MCFairness
=============================================================================
