CONSTANTS
    Server = {1, 2, 3}
    Value = {v}
    None = 0
    Base = 2
    MaxTerm = 9
    ElectionTimeout <- Distinct
    HeartbeatTimeout = 2
    ElectionTerms <- Terms
    ProposalTerms = {1, 2, 3, 4}
    Links <- NoLinks
    Crashing = {1, 2, 3}
    MaxLog <- Single
    Blockable = {1, 2, 3}
    MaxFaults = 2
    MaxOutage = 5
    Patience = 7
SPECIFICATION ClusterSpec
INVARIANTS TypeOK ElectedUnlessBehind
PROPERTIES LeaderSettles LogsConverge
CHECK_DEADLOCK FALSE
