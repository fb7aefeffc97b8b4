SPECIFICATION Spec
CONSTANTS
    n1 = n1
    n2 = n2
    n3 = n3
    n4 = n4
    Node = {n1, n2, n3, n4}
    Configs <- ThreeVoters
    AllowReconfig = FALSE
    VoteTTL = 1
    MaxTime = 3
    NoConfig = NoConfig
CHECK_DEADLOCK FALSE
INVARIANT QuorumWithinWindow
