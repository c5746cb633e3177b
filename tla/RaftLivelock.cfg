CONSTANTS
    Server = {1, 2, 3}
    Value = {v}
    None = 0
    Base = 2
    MaxTerm = 30
    ElectionTimeout <- Distinct
    HeartbeatTimeout = 2
    ElectionTerms <- Terms
    ProposalTerms = {1, 2, 3, 4}
    Links <- NoLinks
    Crashing = {1, 2, 3}
    MaxLog <- Single
    Blockable = {1, 2, 3}
    MaxFaults = 2
    MaxOutage = 5
    Patience = 20
SPECIFICATION ClusterSpec
INVARIANT ElectedInTime
CHECK_DEADLOCK FALSE
