---------------------------- MODULE RaftCluster ----------------------------
(***************************************************************************)
(* Raft objects driven in rounds, as class Cluster of                      *)
(* src/test/raft/raft_test.cc drives them: every node gets one Tick, then  *)
(* messages are delivered, with the answers they cause, until none is      *)
(* left.  Between rounds the driver may cut a node off or let it back      *)
(* (Block, Unblock), restart a node from its saved state, or propose to a  *)
(* leader.  Within a round messages arrive in any order.                   *)
(*                                                                         *)
(* The nodes are those of module Raft, whose `messages` is pending_: what  *)
(* the nodes have sent and the driver has not begun to deliver.            *)
(***************************************************************************)
EXTENDS Raft

CONSTANTS
    Blockable,         \* bound: the nodes that are ever cut off
    MaxFaults,         \* bound: blocks and restarts
    MaxOutage,         \* bound: rounds run while a node is cut off
    Patience           \* rounds without a leader that an election may take

ASSUME ClusterAssumption ==
    /\ Server \subseteq Nat /\ Blockable \subseteq Server
    /\ MaxFaults \in Nat /\ MaxOutage \in Nat /\ Patience \in Nat

VARIABLES
    batch,             \* the messages DeliverAll is delivering
    blocked,           \* blocked_, the nodes that are cut off
    ticked,            \* the nodes that have had the Tick of this round
    faults, outage,    \* blocks and restarts so far, rounds with a node cut off
    leaderless         \* rounds without a leader since the last fault, nobody being cut off

nodeVars == <<electionVars, timerVars, logVars, applyVars, leaderVars>>
driverVars == <<blocked, faults, outage, leaderless>>
clusterVars == <<vars, batch, ticked, driverVars>>

-----------------------------------------------------------------------------
ClusterInit ==
    /\ Init
    /\ batch = {} /\ blocked = {} /\ ticked = {}
    /\ faults = 0 /\ outage = 0 /\ leaderless = 0

(* TickAll, in the order of the node ids.                                  *)
Tick(i) ==
    /\ ticked # Server /\ i = Min(Server \ ticked)
    /\ ticked = {} => (blocked = {} \/ outage < MaxOutage) /\ leaderless <= Patience
    /\ TickLeader(i) \/ TickElection(i) \/ BecomeCandidate(i)
    /\ ticked' = ticked \cup {i}
    /\ UNCHANGED <<batch, driverVars>>

(* DeliverAll starts on the next batch: batch.swap(pending_).              *)
Swap ==
    /\ ticked = Server /\ batch = {} /\ messages # {}
    /\ batch' = messages
    /\ messages' = {}
    /\ UNCHANGED <<nodeVars, ticked, driverVars>>

(* Step leaves the node alone: responses of older terms, those no role     *)
(* waits for, and an AppendEntries of a leader's own term.                 *)
Ignored(i, m) ==
    \/ m.term < current_term[i] /\ m.type \in {"RequestVoteResp", "AppendEntriesResp"}
    \/ /\ m.term = current_term[i]
       /\ \/ m.type = "RequestVoteResp" /\ ~(role[i] = "Candidate" /\ m.vote_granted)
          \/ m.type = "AppendEntriesResp" /\ role[i] # "Leader"
          \/ m.type = "AppendEntries" /\ role[i] = "Leader"

(* DeliverAll drops what crosses the cut and steps the rest.               *)
Drop(m) == {m.from, m.to} \cap blocked # {} /\ UNCHANGED <<messages, nodeVars>>
Receive(m) ==
    /\ {m.from, m.to} \cap blocked = {}
    /\ \/ Step(m.to, m)
       \/ Ignored(m.to, m) /\ UNCHANGED <<messages, nodeVars>>

Deliver(m) ==
    /\ ticked = Server
    /\ Drop(m) \/ Receive(m)
    /\ batch' = batch \ {m}
    /\ UNCHANGED <<ticked, driverVars>>

EndRound ==
    /\ ticked = Server /\ messages = {} /\ batch = {}
    /\ ticked' = {}
    /\ outage' = IF blocked = {} THEN outage ELSE outage + 1
    /\ leaderless' =
          IF blocked # {} \/ \E i \in Server : role[i] = "Leader" THEN 0
          ELSE Min({leaderless + 1, Patience + 1})
    /\ UNCHANGED <<messages, nodeVars, batch, blocked, faults>>

-----------------------------------------------------------------------------
(* Between rounds.                                                         *)

Block(i) ==
    /\ ticked = {} /\ faults < MaxFaults /\ outage < MaxOutage
    /\ i \in Blockable \ blocked
    /\ blocked' = blocked \cup {i} /\ faults' = faults + 1 /\ leaderless' = 0
    /\ UNCHANGED <<messages, nodeVars, batch, ticked, outage>>

Unblock(i) ==
    /\ ticked = {}
    /\ i \in blocked
    /\ blocked' = blocked \ {i} /\ leaderless' = 0
    /\ UNCHANGED <<messages, nodeVars, batch, ticked, faults, outage>>

RestartNode(i) ==
    /\ ticked = {} /\ faults < MaxFaults
    /\ Restart(i)
    /\ faults' = faults + 1 /\ leaderless' = 0
    /\ UNCHANGED <<batch, ticked, blocked, outage>>

ProposeAt(i, data) ==
    /\ ticked = {}
    /\ Propose(i, data)
    /\ UNCHANGED <<batch, ticked, driverVars>>

ClusterNext ==
    \/ \E i \in Server : Tick(i) \/ Block(i) \/ Unblock(i) \/ RestartNode(i)
    \/ \E i \in Server, data \in Value : ProposeAt(i, data)
    \/ \E m \in batch : Deliver(m)
    \/ Swap
    \/ EndRound

(* The driver keeps running rounds.  Faults and proposals are bounded, so  *)
(* nothing more is needed for the rounds to go on without them.            *)
ClusterSpec == ClusterInit /\ [][ClusterNext]_clusterVars /\ WF_clusterVars(ClusterNext)

-----------------------------------------------------------------------------
(* Properties.                                                             *)

(* The node whose election timer runs out first.                           *)
Fastest == CHOOSE i \in Server : \A j \in Server : ElectionTimeout[i] <= ElectionTimeout[j]

(* So many nodes have a newer log than the fastest one that it cannot win. *)
FastestBehind ==
    LET Newer(lg, than) == \/ LastTerm(lg) > LastTerm(than)
                           \/ LastTerm(lg) = LastTerm(than) /\ LastIndex(lg) > LastIndex(than)
        refusing == {i \in Server : Newer(log[i], log[Fastest])}
    IN  Cardinality(Server \ refusing) < QuorumSize

(* Every node follows i in i's term.                                       *)
Led(i) ==
    /\ role[i] = "Leader"
    /\ \A j \in Server : leader[j] = i /\ current_term[j] = current_term[i]

(* raft.h:21-22: "the caller supplies distinct timeouts to break           *)
(* symmetry".  With distinct timeouts and nobody cut off, a leader is      *)
(* elected within Patience rounds.  It is not: BecomeFollower restarts the *)
(* election timer of a node that then refuses its vote, so a node with the *)
(* shortest timeout and a log too old to win keeps all others from         *)
(* campaigning.                                                            *)
ElectedInTime == leaderless <= Patience

(* That is the only way in which an election takes longer: after any cut   *)
(* or restart, a leader is elected within Patience rounds unless a quorum  *)
(* of newer logs is held by slower nodes (Tick, Step, HandleRequestVote).  *)
ElectedUnlessBehind == leaderless > Patience => FastestBehind

(* Heartbeats keep a leader (BecomeFollower restarting the timer on every  *)
(* AppendEntries): once faults cease, either one node leads all others for *)
(* good or the fastest node is behind for good.                            *)
LeaderSettles == <>[](\E i \in Server : Led(i)) \/ <>[]FastestBehind

(* Heartbeats repair logs (next_index_ backed off one step per refusal     *)
(* until the consistency check passes): once faults cease, every node has  *)
(* the leader's log as its prefix for good and, where the leader's last    *)
(* entry is of its own term, exactly that log, all of it committed.        *)
LogsConverge ==
    <>[](\A i, j \in Server : role[i] = "Leader" =>
            /\ LastIndex(log[j]) >= LastIndex(log[i])
            /\ SubSeq(log[j], 1, LastIndex(log[i])) = log[i]
            /\ LastTerm(log[i]) = current_term[i]
                  => log[j] = log[i] /\ commit_index[j] = LastIndex(log[i]))
=============================================================================
