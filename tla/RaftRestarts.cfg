CONSTANTS
    s1 = s1  s2 = s2  s3 = s3
    Server = {s1, s2, s3}
    Value = {v}
    None = None
    ElectionTimeout <- EveryTick
    HeartbeatTimeout = 1
    T1 = {1}
    T2 = {2}
    T3 = {}
    ElectionTerms <- Terms
    ProposalTerms = {1, 2}
    Links <- Connected
    Crashing = {s1, s2, s3}
    MaxLog <- Single
SPECIFICATION Spec
VIEW View
INVARIANT StateMachineSafety
PROPERTIES CommittedIsStable OneVotePerTerm
