CONSTANTS
    s1 = s1  s2 = s2  s3 = s3
    k1 = k1  v1 = v1  v2 = v2
    Server = {s1, s2, s3}
    Key = {k1}
    Val = {v1, v2}
    Value <- Puts
    None = None
    ElectionTimeout <- EveryTick
    HeartbeatTimeout = 1
    T1 = {3}
    T2 = {}
    T3 = {4}
    ElectionTerms <- Terms
    ProposalTerms = {3, 4}
    Links <- Pair
    Crashing = {s1}
    MaxLog <- Double
SPECIFICATION SpecSplit
VIEW DBView
SYMMETRY ValSymmetry
INVARIANTS EntriesInPlace VotesBackLeaders
INVARIANTS LogMatching MatchIsReplicated CommitWithinMessage CommitWithinLog
INVARIANTS TableIsCommitted ReplicasAgree
