CONSTANTS
    e1 = e1
    e2 = e2
    m1 = m1
    m2 = m2
    x1 = x1
    s1 = s1
    s2 = s2
    Enclave = {e1, e2}
    Measurement = {m1, m2}
    Exec = {x1}
    Loop = loop
    None = none
    Lists <- MCLists
    ReqID <- MCReqID
    SecretSets <- MCSecretSets
    MaxKey = 2
    MaxFaults = 1
    MaxRetries = 2
    MaxCalls = 3
    MaxGen = 2
    MaxLists = 1

SPECIFICATION MCSpec

INVARIANTS TypeOK FreshVaultReference RequestCoherent

PROPERTIES PoolHeals CloseQuiesces

CHECK_DEADLOCK FALSE
