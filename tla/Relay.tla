-------------------------------- MODULE Relay --------------------------------
(***************************************************************************)
(* Calls from a workflow inside the enclave to the relay DON, through the  *)
(* gateways (enclave/apps/confidential-workflows/app/remote_dispatcher.go  *)
(* and gateway/client.go).  A call takes one snapshot of the dispatcher's  *)
(* config, sends its request to the gateways in turn, retries what may     *)
(* still succeed until its window closes, and accepts a result that F+1    *)
(* members of the DON signed.                                              *)
(*                                                                         *)
(* The relay DON is the environment.  A correct node signs the true result *)
(* for the parameters it was asked about and memoizes it under the         *)
(* callback ID; a faulty node signs whatever it likes, any number of times *)
(* over.  A signature covers the result and all parameters.  A consensus   *)
(* report carries the OCR signatures that its node collected, which differ *)
(* from node to node.  A gateway forwards any set of answers, or fails.    *)
(* The calls of the model are runs of one workflow execution, so workflow  *)
(* and execution ID are left out.                                          *)
(***************************************************************************)
EXTENDS Integers, Sequences, FiniteSets, Functions

CONSTANTS
    Execution,     \* the calls to the app's Execute
    KeyOf,         \* [Execution -> key pairs]: GetKeyPairForRequest
    RelayNode,     \* the nodes that ever belonged to the relay DON
    FaultyRelay,   \* those that sign anything
    Callback,      \* callback IDs of the WASM guest
    Reports,       \* those whose capability answers with a consensus report
    Requests,      \* sequences of secret IDs the guest may ask for
    Contents,      \* sequences of secret IDs the vault may have answered with
    Gateways,      \* the number of gateway URLs
    MaxSends,      \* bound on the requests sent for one call
    Nil

VARIABLES
    rcall,         \* [Execution -> the remote call its guest is in]
    memo,          \* [correct node -> its answers, at most one per callback ID]
    cursor         \* the gateway client's cursor, modulo Gateways

relayVars == <<rcall, memo, cursor>>

ASSUME RelayConstants ==
    /\ IsFiniteSet(RelayNode)
    /\ \A req \in Requests : req \in Seq(Range(req))
    /\ Nil \notin {"ok", "no_quorum"}
    /\ \A body \in {"true", "forged"}, sigs \in RelayNode \cup {Nil} :
          Nil # [body |-> body, sigs |-> sigs]

CorrectRelay == RelayNode \ FaultyRelay

NoRemoteCall ==
    [pc |-> "none", kind |-> "secrets", params |-> Nil, id |-> Nil, start |-> 0,
     tried |-> 0, sends |-> 0, outcome |-> Nil, asked |-> {}, result |-> Nil,
     response |-> <<>>]

RelayInit ==
    /\ rcall = [x \in Execution |-> NoRemoteCall]
    /\ memo = [n \in CorrectRelay |-> {}]
    /\ cursor = 0

InFlight(x) == rcall[x].pc \in {"send", "try", "backoff", "verified"}

\* The call returns to the guest.
Done(x, outcome) == [rcall[x] EXCEPT !.pc = "done", !.outcome = outcome]

-----------------------------------------------------------------------------
\* A variation: the callback ID of the WASM guest is sent as it is.
relaySecretsCallbackIDOfGuest(params) == [callback |-> params.callback]

\* The hash of the request without attestation and signed requests; 31 bits of
\* SHA-256, taken as injective.
relaySecretsCallbackID(params) == params

\* GetSecrets, up to sendWithRetry, with the dispatcher's config at this moment.
GetSecrets(x, cb, req, cfg) ==
    LET params == [callback |-> cb, key |-> KeyOf[x], config |-> cfg, secrets |-> req]
    IN rcall' = [rcall EXCEPT ![x] =
           [NoRemoteCall EXCEPT !.pc = "send", !.params = params,
                                !.id = relaySecretsCallbackID(params)]]

\* CallCapability, up to sendWithRetry: the reference ID is the callback ID.
CallCapability(x, cb, cfg) ==
    rcall' = [rcall EXCEPT ![x] =
        [NoRemoteCall EXCEPT
            !.pc = "send", !.kind = "capability", !.id = [callback |-> cb],
            !.params = [callback |-> cb, key |-> Nil, config |-> cfg, secrets |-> <<>>]]]

\* No key pair for the request, or no attestation: the call fails before it is
\* sent.
CallNotSent(x, kind) ==
    rcall' = [rcall EXCEPT ![x] =
        [NoRemoteCall EXCEPT !.pc = "done", !.kind = kind, !.outcome = "error"]]

-----------------------------------------------------------------------------
\* sendWithRetry sends once more: SendRequest picks the next URL to start from.
SendRequest(x) ==
    /\ rcall[x].pc = "send"
    /\ rcall[x].sends < MaxSends
    /\ cursor' = (cursor + 1) % Gateways
    /\ rcall' = [rcall EXCEPT ![x].pc = "try", ![x].start = cursor, ![x].tried = 0,
                              ![x].sends = @ + 1]
    /\ UNCHANGED memo

\* The correct nodes of asked get the request: one that has no answer under the
\* callback ID makes one and keeps it.
Memoized(x, asked) ==
    [n \in CorrectRelay |->
        IF n \in asked /\ \A m \in memo[n] : m.id # rcall[x].id
        THEN memo[n] \cup {[id |-> rcall[x].id, params |-> rcall[x].params]}
        ELSE memo[n]]

\* The URL in turn fails with a transport or proxy error, perhaps after nodes
\* have answered: the next URL is tried, and after the last one SendRequest
\* fails.
GatewayFails(x) ==
    /\ rcall[x].pc = "try"
    /\ \E asked \in SUBSET CorrectRelay : memo' = Memoized(x, asked)
    /\ rcall' = [rcall EXCEPT
           ![x].tried = @ + 1,
           ![x].pc = IF rcall[x].tried + 1 = Gateways THEN "backoff" ELSE "try"]
    /\ UNCHANGED cursor

\* An answer that ends SendRequest without failover and that sendWithRetry
\* takes as transient: HTTP 4xx, a malformed or too large body, a gateway that
\* cannot reach the DON or whose request expired.
SendFails(x) ==
    /\ rcall[x].pc = "try"
    /\ \E asked \in SUBSET CorrectRelay : memo' = Memoized(x, asked)
    /\ rcall' = [rcall EXCEPT ![x].pc = "backoff"]
    /\ UNCHANGED cursor

\* A JSON-RPC error that is not Retryable is terminal; nodes may have answered.
RelayRefuses(x) ==
    /\ rcall[x].pc = "try"
    /\ \E asked \in SUBSET CorrectRelay : memo' = Memoized(x, asked)
    /\ rcall' = [rcall EXCEPT ![x] = Done(x, "error")]
    /\ UNCHANGED cursor

Backoff(x) ==
    /\ rcall[x].pc = "backoff"
    /\ rcall' = [rcall EXCEPT ![x].pc = "send"]
    /\ UNCHANGED <<memo, cursor>>

\* retryTimeout has passed.
WindowCloses(x) ==
    /\ rcall[x].pc \in {"send", "try", "backoff"}
    /\ rcall' = [rcall EXCEPT ![x] = Done(x, "deadline")]
    /\ UNCHANGED <<memo, cursor>>

-----------------------------------------------------------------------------
\* The result that node n sends: a body and, in a report, OCR signatures.
Result(x, n, body) ==
    [body |-> body,
     sigs |-> IF rcall[x].kind = "capability" /\ rcall[x].params.callback \in Reports
              THEN n ELSE Nil]

\* What correct node n answers: the true result for the parameters it was
\* memoized with.
TrueAnswers(x, n, store) ==
    {[node |-> n, params |-> m.params, result |-> Result(x, n, "true"), copy |-> 1] :
        m \in {m \in store[n] : m.id = rcall[x].id}}

\* What faulty node n signs; the bundle holds it twice.
ForgedAnswers(x, n, body) ==
    {[node |-> n, params |-> rcall[x].params, result |-> Result(x, n, body),
      copy |-> i] : i \in {1, 2}}

\* The answers of a bundle, with their signers.
Answers(x, asked, forged, store) ==
    (UNION {TrueAnswers(x, n, store) : n \in asked})
    \cup (UNION {ForgedAnswers(x, e[1], e[2]) : e \in forged})

\* What faulty nodes may sign.
Forgeries == FaultyRelay \X {"true", "forged"}

\* A report without its OCR signatures; any other result as it is.
canonicalCapabilityPayload(result) == [result EXCEPT !.sigs = Nil]

\* The entry of an answer: what its node signed, and the group it counts for.
relayEntry(a, group) ==
    [node |-> a.node, params |-> a.params, result |-> a.result, copy |-> a.copy,
     group |-> group]

\* Capability results are grouped by their canonical form, and
capabilityEntries(answers) ==
    {relayEntry(a, canonicalCapabilityPayload(a.result)) : a \in answers}

\* secrets by the result that was signed.
secretsEntries(answers) == {relayEntry(a, a.result) : a \in answers}

Entries(x, answers) ==
    IF rcall[x].kind = "capability" THEN capabilityEntries(answers)
    ELSE secretsEntries(answers)

\* The entries whose signature verifies, over this call's parameters, against
\* the signers of its config.
Verified(x, entries) ==
    {e \in entries : e.node \in rcall[x].params.config.signers
                     /\ e.params = rcall[x].params}

\* A variation: answers are counted, not their signers.
selectQuorumResultByEntries(x, entries) ==
    LET valid == Verified(x, entries)
        Count(g) == Cardinality({e \in valid : e.group = g})
        winners == {g \in {e.group : e \in valid} :
                        Count(g) >= rcall[x].params.config.f + 1}
    IN IF rcall[x].params.config.signers = {} \/ winners = {} THEN {Nil}
       ELSE {e.result : e \in {d \in valid : d.group \in winners
                                 /\ \A h \in winners : Count(d.group) >= Count(h)}}

\* The group with most signers among those with F+1 distinct ones wins, of
\* several the one with the smallest hash, which may be any of them.  Its first
\* entry is the result, so any of its entries, as the gateway ordered the
\* bundle; Nil without a winner.
selectQuorumResult(x, entries) ==
    LET valid == Verified(x, entries)
        Count(g) == Cardinality({e.node : e \in {d \in valid : d.group = g}})
        winners == {g \in {e.group : e \in valid} :
                        Count(g) >= rcall[x].params.config.f + 1}
    IN IF rcall[x].params.config.signers = {} \/ winners = {} THEN {Nil}
       ELSE {e.result : e \in {d \in valid : d.group \in winners
                                 /\ \A h \in winners : Count(d.group) >= Count(h)}}

\* The IDs of a request, each once, in the order of their first occurrence.
RequestOrder(requested) ==
    LET first == {i \in DOMAIN requested : \A j \in 1 .. i - 1 :
                                              requested[j] # requested[i]}
        nth(n) == CHOOSE i \in first : Cardinality(first \cap 1 .. i) = n
    IN  [n \in 1 .. Cardinality(first) |-> requested[nth(n)]]

\* Nil if the relay sent an ID that was not requested, or one twice.
orderRelaySecrets(requested, got) ==
    IF ~IsInjective(got) \/ ~(Range(got) \subseteq Range(requested)) THEN Nil
    ELSE LET order == RequestOrder(requested) IN
         [i \in DOMAIN order |-> [id |-> order[i], present |-> order[i] \in Range(got)]]

\* One response per secret: its value, or an error when the relay omitted it or
\* its shares do not decrypt and combine.
SecretResponses(ordered, bad) ==
    [i \in DOMAIN ordered |->
        [id |-> ordered[i].id,
         value |-> IF ordered[i].present /\ ordered[i].id \notin bad
                   THEN ordered[i].id ELSE Nil]]

\* What becomes of the call: no quorum is terminal; the payload of a capability's
\* result may not decode; secrets are still to be decoded.
Verdicts(x, winner) ==
    IF winner = Nil THEN {Done(x, "no_quorum")}
    ELSE IF rcall[x].kind = "capability" THEN {Done(x, "ok"), Done(x, "error")}
    ELSE {[rcall[x] EXCEPT !.pc = "verified"]}

\* A bundle arrives and verify decides.
BundleArrives(x) ==
    /\ rcall[x].pc = "try"
    /\ UNCHANGED cursor
    /\ \E asked \in SUBSET CorrectRelay, forged \in SUBSET Forgeries :
          LET store == Memoized(x, asked)
              entries == Entries(x, Answers(x, asked, forged, store))
          IN /\ memo' = store
             /\ \E winner \in selectQuorumResult(x, entries) :
                   \E verdict \in Verdicts(x, winner) :
                      rcall' = [rcall EXCEPT ![x] = [verdict EXCEPT !.asked = asked,
                                                                  !.result = winner]]

\* The secrets of the accepted result.
DecodeSecrets(x) ==
    /\ rcall[x].pc = "verified"
    /\ \E got \in Contents, bad \in SUBSET Range(rcall[x].params.secrets) :
          LET ordered == orderRelaySecrets(rcall[x].params.secrets, got)
          IN rcall' = [rcall EXCEPT ![x] =
                 IF ordered = Nil THEN Done(x, "error")
                 ELSE [Done(x, "ok") EXCEPT !.response = SecretResponses(ordered, bad)]]
    /\ UNCHANGED <<memo, cursor>>

RelayStep(x) ==
    \/ SendRequest(x)
    \/ GatewayFails(x)
    \/ SendFails(x)
    \/ RelayRefuses(x)
    \/ Backoff(x)
    \/ WindowCloses(x)
    \/ BundleArrives(x)
    \/ DecodeSecrets(x)

-----------------------------------------------------------------------------
\* remote_dispatcher.go:666-669 and 430-434: whatever up to F faulty nodes and
\* the gateways put into a bundle, the guest is given the result the correct
\* nodes signed, of a report its body; a secret comes with its own value or an
\* error; and when the request names no secret twice, there is one response per
\* requested secret, in the order of the request.  (A repeated ID is answered
\* once, 493-501, and what follows it moves up.)
RelayHonest ==
    \A x \in Execution : rcall[x].outcome = "ok" =>
        /\ rcall[x].result.body = "true"
        /\ rcall[x].kind = "secrets" =>
              LET requested == rcall[x].params.secrets
                  response == rcall[x].response
              IN /\ \A i \in DOMAIN response :
                       response[i].value \in {response[i].id, Nil}
                 /\ IsInjective(requested) =>
                       /\ DOMAIN response = DOMAIN requested
                       /\ \A i \in DOMAIN requested : response[i].id = requested[i]

\* remote_dispatcher.go:45-54, INCIDENT-2692, and relay_response.go:24-37: a call
\* fails for want of a quorum only when fewer than F+1 correct members of its
\* config answered for its parameters, whichever OCR signatures their reports
\* carry.  For secrets every member that answered counts: a re-run of the
\* execution on an enclave with another key, or after the config changed, is not
\* served an answer it cannot verify.
RelayAvailable ==
    \A x \in Execution : rcall[x].outcome = "no_quorum" =>
        LET c == rcall[x]
            answered == {n \in c.asked \cap c.params.config.signers :
                c.kind = "secrets" \/ [id |-> c.id, params |-> c.params] \in memo[n]}
        IN Cardinality(answered) <= c.params.config.f
=============================================================================
