--------------------------- MODULE MCRaftCluster ---------------------------
(* Instances of RaftCluster for TLC.                                       *)
EXTENDS RaftCluster

CONSTANTS Base, MaxTerm

(* Distinct timeouts, as in the constructor of Cluster.                    *)
Distinct == [i \in Server |-> Base + i]

Terms == [i \in Server |-> 1..MaxTerm]
Single == [t \in ProposalTerms |-> 1]
NoLinks == {}
=============================================================================
