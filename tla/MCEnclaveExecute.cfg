SPECIFICATION Spec
CONSTANTS
    s1 = s1
    s2 = s2
    s3 = s3
    Req = {r1, r2, r3}
    Hash = {h1}
    Signer = {s1, s2, s3}
    Configs <- TwoConfigs
    KeyTTL = 1
    ReplayTTL = 1
    MaxTime = 3
    Never = Never
CHECK_DEADLOCK FALSE
SYMMETRY ReqSymmetry
INVARIANTS
    TypeOK
    NoReplay
    NoLeakedMarker
