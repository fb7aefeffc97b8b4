SPECIFICATION FairSystem
CONSTANTS
    s1 = s1
    Call = {c1, c2}
    Hash = {h1}
    Signer = {s1}
    Configs <- Solo
    RequireBFT = FALSE
    SlowEnclave = FALSE
    NoCall = NoCall
    KeyTTL = 0
    ReplayTTL = 0
    MaxTime = 0
    Never = Never
    VsockFails = FALSE
CHECK_DEADLOCK FALSE
INVARIANTS
    AnsweredOnce
    ServedWasExecuted
PROPERTY EveryCallAnswered
