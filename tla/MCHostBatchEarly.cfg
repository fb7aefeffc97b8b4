SPECIFICATION Spec
CONSTANTS
    s1 = s1
    s2 = s2
    s3 = s3
    Call = {c1, c2, c3}
    Hash = {h1}
    Signer = {s1, s2, s3}
    Configs <- SameF
    RequireBFT = FALSE
    SlowEnclave = FALSE
    NoCall = NoCall
CHECK_DEADLOCK FALSE

INVARIANT NoEarlyTimeout
