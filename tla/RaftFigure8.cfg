CONSTANTS
    s1 = s1  s2 = s2  s3 = s3
    Server = {s1, s2, s3}
    Value = {v}
    None = None
    ElectionTimeout <- Staggered
    HeartbeatTimeout = 1
    T1 = {1, 3}
    T2 = {1, 2, 4}
    T3 = {}
    ElectionTerms <- Terms
    ProposalTerms = {1, 2, 3}
    Links <- Parted
    Crashing = {s1, s2, s3}
    MaxLog <- Single
SPECIFICATION Spec
VIEW View
INVARIANTS ElectionSafety StateMachineSafety LeaderCompleteness
