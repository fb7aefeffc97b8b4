----------------------------- MODULE MCExecutor -----------------------------
(***************************************************************************)
(* Executor for TLC: two enclaves, one of which an update of the registry  *)
(* removes while it trusts only a new image of the other; two secrets.  To *)
(* keep the instance small, a behaviour has either changes of the registry *)
(* and faults of enclaves ("lists"), or changes of the registry and Close  *)
(* ("close"), or requests with secrets, reshares, key rotations and        *)
(* changes of the limits ("secrets").                                      *)
(***************************************************************************)
EXTENDS Executor

CONSTANTS e1, e2, m1, m2, x1, s1, s2

VARIABLE focus

MCLists ==
    {<<[id |-> e1, trusted |-> {m1}], [id |-> e2, trusted |-> {m1}]>>,
     <<[id |-> e2, trusted |-> {m2}]>>}

MCReqID == [x \in Exec |-> 0]

MCSecretSets == {{}, {s1}, {s2}, {s1, s2}}

MCInit ==
    /\ Init
    /\ focus \in {"lists", "close", "secrets"}
    /\ Len(registry) = 2
    /\ limits = [retries |-> MaxRetries, cache |-> TRUE]
    /\ meas[e1] = m1
    /\ meas[e2] = IF focus = "close" THEN m2 ELSE m1

Allowed ==
    /\ UNCHANGED focus
    /\ focus = "secrets" =>
         /\ UNCHANGED <<registry, refreshing>>
         /\ lastKey'[e2] = lastKey[e2]
         /\ limits'.cache <=> limits'.retries = MaxRetries
         /\ th'[Loop].pc = "idle"
         /\ calls' # calls => \A x \in Exec : th'[x].pc = "attempt" =>
                th'[x].secrets = CASE calls = 0 -> {s1}
                                   [] calls = 1 -> {s2}
                                   [] OTHER -> {s1, s2}
         /\ \A x \in Exec : \A c \in th'[x].shares : c.mpk = NoKey => c.gen = 1
    /\ focus # "secrets" =>
         /\ UNCHANGED <<gen, secretsCache, limits>>
         /\ calls' <= 1
         /\ \A x \in Exec : /\ th'[x].secrets = {} /\ ~th'[x].timedOut
                            /\ th'[x].out \notin {"rejected", "user"}
                            /\ th'[x].pc = "attempt" => th'[x].tries = 0
    /\ focus = "lists" => /\ lastKey' # lastKey => faults' # faults
                          /\ meas'[e1] = m1 /\ e2 \in up'
    /\ focus = "close" => UNCHANGED lastKey
    /\ focus # "lists" => UNCHANGED faults
    /\ focus # "close" => closing' = "open"

mcVars == <<vars, focus>>

MCNext == Next /\ Allowed

\* Fairness for the steps a focus allows.
MCFairness ==
    /\ \A x \in Exec : WF_mcVars((ThreadStep(x) \/ ExecStep(x)) /\ Allowed)
    /\ WF_mcVars(ThreadStep(Loop) /\ Allowed)
    /\ SF_mcVars(CheckNodes(Loop) /\ Allowed)
    /\ WF_mcVars(Ticker /\ Allowed)
    /\ \A by \in {"ticker", "update"}, e \in Enclave :
          WF_mcVars(Refresher(by, e) /\ Allowed)
    /\ WF_mcVars(CloseLoop /\ Allowed) /\ WF_mcVars(CloseReturns /\ Allowed)

MCSpec == MCInit /\ [][MCNext]_mcVars /\ MCFairness

=============================================================================
