------------------------ MODULE MCReplicatedCluster ------------------------
(* Instances of ReplicatedCluster for TLC.                                 *)
EXTENDS MCRaft, ReplicatedCluster, TLC

CONSTANTS k1, v1, v2

(* Writes of the same key, so that what was applied last shows.            *)
Puts == {[key |-> k1, val |-> v1], [key |-> k1, val |-> v2]}
ValSymmetry == Permutations({v1, v2})

DBSplit ==
    /\ Split
    /\ table = [i \in Server |-> Nothing]
    /\ applied_index = [i \in Server |-> 0]
    /\ recovered = [i \in Server |-> << >>]

SpecSplit == DBSplit /\ [][DBNext]_<<vars, dbVars>>

(* As the View of MCRaft, with what the additional properties ask about:   *)
(* the tables, all votes ever granted, and whether every message is well   *)
(* formed.                                                                 *)
DBView ==
    <<View, dbVars, EntriesInPlace,
      {<<m.from, m.to, m.term>> : m \in {n \in Sent("RequestVoteResp") : n.vote_granted}}>>
=============================================================================
