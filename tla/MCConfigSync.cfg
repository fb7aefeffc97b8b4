SPECIFICATION FairSpec
CONSTANTS
    n1 = n1
    n2 = n2
    n3 = n3
    n4 = n4
    Node = {n1, n2, n3, n4}
    Proposer = {n2, n3}
    Tracker = tracker
    Faulty = {n1, n4}
    Membership <- Memberships
    Configs <- Proposals
    InitialId = 1
    MaxFaults = 2
    MaxChanges = 1
    AllowReconfig = FALSE
    VoteTTL = 0
    MaxTime = 1
    NoConfig = NoConfig
    NoMembership = NoMembership
CHECK_DEADLOCK FALSE
INVARIANTS
    TypeOK
    HostAgrees
PROPERTIES
    ReconfigAuthorized
    Converges
