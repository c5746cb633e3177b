-------------------------------- MODULE Raft --------------------------------
(***************************************************************************)
(* The Raft core of mini-lsm (src/src/raft/raft.cc): a cluster of nodes,   *)
(* each a Raft object driven by its caller through Tick, Step, Propose,    *)
(* TakeCommitted and, after a crash, Restore.                              *)
(*                                                                         *)
(* One action is one call into one node, together with what the caller     *)
(* owes it (storage.h:57-62): saving the node and then handing the queued  *)
(* messages to the network.  Nothing outside the node can observe the      *)
(* states between the three, so a crash is Restart, from the state saved   *)
(* last.  stable_index_ and hard_state_dirty_, which only the caller       *)
(* reads, and the failures of Save are in module RaftStorage.              *)
(*                                                                         *)
(* The network is the set of all messages ever sent.  Any of them may be   *)
(* delivered at any time, again, or never: loss, duplication, delay and    *)
(* reordering are all behaviours of this module.                           *)
(***************************************************************************)
EXTENDS RaftLog, FiniteSets

CONSTANTS
    Server,            \* config_.peers, the same set on every node
    Value,             \* payloads given to Propose
    None,              \* NodeId 0: no vote, no known leader
    ElectionTimeout,   \* config_.election_timeout of every node
    HeartbeatTimeout,  \* config_.heartbeat_timeout
    ElectionTerms,     \* bound: the terms for which a node starts an election
    ProposalTerms,     \* bound: the terms in which a leader gets proposals
    Links,             \* bound: the pairs of nodes between which messages get through
    Crashing,          \* bound: the nodes that crash and restart
    MaxLog             \* bound: the length of log at which each of these terms stops

ASSUME ServerAssumption == IsFiniteSet(Server) /\ None \notin Server
ASSUME TimeoutAssumption == /\ ElectionTimeout \in [Server -> Nat \ {0}]
                            /\ HeartbeatTimeout \in Nat \ {0}
ASSUME BoundAssumption == /\ ElectionTerms \in [Server -> SUBSET Nat]
                          /\ ProposalTerms \subseteq Nat
                          /\ Links \subseteq Server \X Server
                          /\ Crashing \subseteq Server
                          /\ MaxLog \in [ProposalTerms -> Nat]

VARIABLES
    messages,          \* every message any node has sent
    applied,           \* every entry TakeCommitted has handed to a caller
    role, current_term, voted_for, log, commit_index, last_applied, leader,
    election_elapsed, heartbeat_elapsed, votes_granted, next_index, match_index

electionVars == <<role, current_term, voted_for, leader, votes_granted>>
timerVars == <<election_elapsed, heartbeat_elapsed>>
logVars == <<log, commit_index>>
applyVars == <<last_applied, applied>>
leaderVars == <<next_index, match_index>>
vars == <<messages, electionVars, timerVars, logVars, applyVars, leaderVars>>

-----------------------------------------------------------------------------
(* Messages and log entries (messages.h).                                  *)

LogEntry == [term : Nat, index : Nat, data : Value]

RequestVote ==
    [type : {"RequestVote"}, from : Server, to : Server, term : Nat,
     last_log_index : Nat, last_log_term : Nat]

RequestVoteResp ==
    [type : {"RequestVoteResp"}, from : Server, to : Server, term : Nat,
     vote_granted : BOOLEAN]

AppendEntries ==
    [type : {"AppendEntries"}, from : Server, to : Server, term : Nat,
     prev_log_index : Nat, prev_log_term : Nat,
     entries : Seq(LogEntry), leader_commit : Nat]

AppendEntriesResp ==
    [type : {"AppendEntriesResp"}, from : Server, to : Server, term : Nat,
     success : BOOLEAN, match_index : Nat]

Message ==
    RequestVote \cup RequestVoteResp \cup AppendEntries \cup AppendEntriesResp

-----------------------------------------------------------------------------
Peers(i) == Server \ {i}

(* Mutant: half the nodes are a quorum.                                    *)
HalfSize == Cardinality(Server) \div 2
QuorumSize == Cardinality(Server) \div 2 + 1

-----------------------------------------------------------------------------
(* What the handlers compute.                                              *)

(* Mutant: an earlier vote in the term is not looked at.                   *)
CanVoteAgain(vote, candidate) == TRUE
CanVote(vote, candidate) == vote \in {None, candidate}

(* Mutant: logs are compared by length alone.                              *)
AsLong(m, lg) == m.last_log_index >= LastIndex(lg)
(* Mutant: a candidate's log must be newer than the voter's.               *)
StrictlyNewer(m, lg) ==
    \/ m.last_log_term > LastTerm(lg)
    \/ m.last_log_term = LastTerm(lg) /\ m.last_log_index > LastIndex(lg)
UpToDate(m, lg) ==
    \/ m.last_log_term > LastTerm(lg)
    \/ m.last_log_term = LastTerm(lg) /\ m.last_log_index >= LastIndex(lg)

Replicas(i, match, n) == {i} \cup {j \in Peers(i) : match[j] >= n}

(* Mutant: an entry of an earlier term is committed by count.              *)
CommitByCount(i, lg, term, match, commit) ==
    LET agreed == {n \in (commit + 1)..LastIndex(lg) :
                      Cardinality(Replicas(i, match, n)) >= QuorumSize}
    IN  IF agreed = {} THEN commit ELSE Max(agreed)

(* The highest index above the commit index that holds an entry of the     *)
(* current term and is on a quorum; the commit index if there is none.     *)
MaybeCommit(i, lg, term, match, commit) ==
    LET agreed == {n \in (commit + 1)..LastIndex(lg) :
                      /\ TermAt(lg, n) = term
                      /\ Cardinality(Replicas(i, match, n)) >= QuorumSize}
    IN  IF agreed = {} THEN commit ELSE Max(agreed)

(* Mutant: a message carries one entry at most.                            *)
SendOneEntry(i, j, term, lg, next, commit) ==
    [type |-> "AppendEntries", from |-> i, to |-> j, term |-> term,
     prev_log_index |-> next - 1, prev_log_term |-> TermAt(lg, next - 1),
     entries |-> SubSeq(lg, next, Min({next, LastIndex(lg)})), leader_commit |-> commit]

SendAppendEntries(i, j, term, lg, next, commit) ==
    [type |-> "AppendEntries", from |-> i, to |-> j, term |-> term,
     prev_log_index |-> next - 1, prev_log_term |-> TermAt(lg, next - 1),
     entries |-> SubSeq(lg, next, LastIndex(lg)), leader_commit |-> commit]

BroadcastAppendEntries(i, term, lg, next, commit) ==
    {SendAppendEntries(i, j, term, lg, next[j], commit) : j \in Peers(i)}

RequestVotes(i, term, lg) ==
    {[type |-> "RequestVote", from |-> i, to |-> j, term |-> term,
      last_log_index |-> LastIndex(lg), last_log_term |-> LastTerm(lg)]
        : j \in Peers(i)}

VoteResp(i, j, term, granted) ==
    [type |-> "RequestVoteResp", from |-> i, to |-> j, term |-> term,
     vote_granted |-> granted]

(* Mutant: the index reported is off by one.                               *)
AppendRespBelow(i, j, term, success, match) ==
    [type |-> "AppendEntriesResp", from |-> i, to |-> j, term |-> term,
     success |-> success, match_index |-> match - 1]

AppendResp(i, j, term, success, match) ==
    [type |-> "AppendEntriesResp", from |-> i, to |-> j, term |-> term,
     success |-> success, match_index |-> match]

Send(ms) == messages' = messages \cup ms

-----------------------------------------------------------------------------
(* Every node is constructed as a follower with an empty log.              *)
Init ==
    /\ messages = {}
    /\ applied = {}
    /\ role = [i \in Server |-> "Follower"]
    /\ current_term = [i \in Server |-> 0]
    /\ voted_for = [i \in Server |-> None]
    /\ log = [i \in Server |-> << >>]
    /\ commit_index = [i \in Server |-> 0]
    /\ last_applied = [i \in Server |-> 0]
    /\ leader = [i \in Server |-> None]
    /\ election_elapsed = [i \in Server |-> 0]
    /\ heartbeat_elapsed = [i \in Server |-> 0]
    /\ votes_granted = [i \in Server |-> {}]
    /\ next_index = [i \in Server |-> [j \in Peers(i) |-> 0]]
    /\ match_index = [i \in Server |-> [j \in Peers(i) |-> 0]]

(* BecomeLeader, in term `term`: the per-peer state starts over and an     *)
(* AppendEntries, empty since next_index is past the end, asserts it.      *)
BecomeLeader(i, term) ==
    LET next == [j \in Peers(i) |-> LastIndex(log[i]) + 1]
    IN  /\ role' = [role EXCEPT ![i] = "Leader"]
        /\ leader' = [leader EXCEPT ![i] = i]
        /\ heartbeat_elapsed' = [heartbeat_elapsed EXCEPT ![i] = 0]
        /\ next_index' = [next_index EXCEPT ![i] = next]
        /\ match_index' = [match_index EXCEPT ![i] = [j \in Peers(i) |-> 0]]
        /\ Send(BroadcastAppendEntries(i, term, log[i], next, commit_index[i]))

(* Mutant: stepping down always clears the vote.                           *)
BecomeFreeFollower(i, term, lead) ==
    /\ current_term' = [current_term EXCEPT ![i] = term]
    /\ voted_for' = [voted_for EXCEPT ![i] = None]
    /\ role' = [role EXCEPT ![i] = "Follower"]
    /\ leader' = [leader EXCEPT ![i] = lead]
    /\ election_elapsed' = [election_elapsed EXCEPT ![i] = 0]

(* Mutant: the leader of the term is not remembered.                       *)
BecomeLeaderlessFollower(i, term, lead) ==
    /\ current_term' = [current_term EXCEPT ![i] = term]
    /\ voted_for' = [voted_for EXCEPT
                        ![i] = IF term > current_term[i] THEN None ELSE @]
    /\ role' = [role EXCEPT ![i] = "Follower"]
    /\ leader' = [leader EXCEPT ![i] = None]
    /\ election_elapsed' = [election_elapsed EXCEPT ![i] = 0]

(* BecomeFollower: only a newer term clears the vote.                      *)
BecomeFollower(i, term, lead) ==
    /\ current_term' = [current_term EXCEPT ![i] = term]
    /\ voted_for' = [voted_for EXCEPT
                        ![i] = IF term > current_term[i] THEN None ELSE @]
    /\ role' = [role EXCEPT ![i] = "Follower"]
    /\ leader' = [leader EXCEPT ![i] = lead]
    /\ election_elapsed' = [election_elapsed EXCEPT ![i] = 0]

-----------------------------------------------------------------------------
(* Tick.                                                                   *)

TickLeader(i) ==
    /\ role[i] = "Leader"
    /\ IF heartbeat_elapsed[i] + 1 >= HeartbeatTimeout
       THEN /\ heartbeat_elapsed' = [heartbeat_elapsed EXCEPT ![i] = 0]
            /\ Send(BroadcastAppendEntries(i, current_term[i], log[i],
                                           next_index[i], commit_index[i]))
       ELSE /\ heartbeat_elapsed' = [heartbeat_elapsed EXCEPT ![i] = @ + 1]
            /\ UNCHANGED messages
    /\ UNCHANGED <<electionVars, election_elapsed, logVars, applyVars, leaderVars>>

TickElection(i) ==
    /\ role[i] # "Leader"
    /\ election_elapsed[i] + 1 < ElectionTimeout[i]
    /\ election_elapsed' = [election_elapsed EXCEPT ![i] = @ + 1]
    /\ UNCHANGED <<messages, electionVars, heartbeat_elapsed, logVars, applyVars,
                   leaderVars>>

(* The tick that reaches the election timeout.  A node that is a quorum by *)
(* itself wins at once; any other asks its peers.                          *)
BecomeCandidate(i) ==
    /\ role[i] # "Leader"
    /\ election_elapsed[i] + 1 >= ElectionTimeout[i]
    /\ current_term[i] + 1 \in ElectionTerms[i]
    /\ current_term' = [current_term EXCEPT ![i] = @ + 1]
    /\ voted_for' = [voted_for EXCEPT ![i] = i]
    /\ election_elapsed' = [election_elapsed EXCEPT ![i] = 0]
    /\ votes_granted' = [votes_granted EXCEPT ![i] = {i}]
    /\ IF 1 >= QuorumSize
       THEN BecomeLeader(i, current_term[i] + 1)
       ELSE /\ role' = [role EXCEPT ![i] = "Candidate"]
            /\ leader' = [leader EXCEPT ![i] = None]
            /\ Send(RequestVotes(i, current_term[i] + 1, log[i]))
            /\ UNCHANGED <<heartbeat_elapsed, leaderVars>>
    /\ UNCHANGED <<logVars, applyVars>>

-----------------------------------------------------------------------------
(* Step.  The term rules come first: an older term is answered or dropped, *)
(* a newer one makes the node a follower before the role's handler runs.   *)

RejectStale(i, m) ==
    /\ m.term < current_term[i]
    /\ \/ /\ m.type = "RequestVote"
          /\ Send({VoteResp(i, m.from, current_term[i], FALSE)})
       \/ /\ m.type = "AppendEntries"
          /\ Send({AppendResp(i, m.from, current_term[i], FALSE, 0)})
    /\ UNCHANGED <<electionVars, timerVars, logVars, applyVars, leaderVars>>

(* A response of a newer term: the follower it makes ignores responses.    *)
StepDown(i, m) ==
    /\ m.term > current_term[i]
    /\ m.type \in {"RequestVoteResp", "AppendEntriesResp"}
    /\ BecomeFollower(i, m.term, None)
    /\ UNCHANGED <<messages, heartbeat_elapsed, votes_granted, logVars, applyVars,
                   leaderVars>>

HandleRequestVote(i, m) ==
    /\ m.type = "RequestVote"
    /\ m.term >= current_term[i]
    /\ LET newer == m.term > current_term[i]
           vote == IF newer THEN None ELSE voted_for[i]
           granted == CanVote(vote, m.from) /\ UpToDate(m, log[i])
       IN  /\ current_term' = [current_term EXCEPT ![i] = m.term]
           /\ role' = [role EXCEPT ![i] = IF newer THEN "Follower" ELSE @]
           /\ leader' = [leader EXCEPT ![i] = IF newer THEN None ELSE @]
           /\ voted_for' = [voted_for EXCEPT ![i] = IF granted THEN m.from ELSE vote]
           /\ election_elapsed' =
                [election_elapsed EXCEPT ![i] = IF newer \/ granted THEN 0 ELSE @]
           /\ Send({VoteResp(i, m.from, m.term, granted)})
    /\ UNCHANGED <<votes_granted, heartbeat_elapsed, logVars, applyVars, leaderVars>>

(* StepCandidate on a granted vote of the current term.                    *)
HandleRequestVoteResp(i, m) ==
    /\ m.type = "RequestVoteResp"
    /\ m.term = current_term[i]
    /\ role[i] = "Candidate"
    /\ m.vote_granted
    /\ votes_granted' = [votes_granted EXCEPT ![i] = @ \cup {m.from}]
    /\ IF Cardinality(votes_granted[i] \cup {m.from}) >= QuorumSize
       THEN BecomeLeader(i, current_term[i])
       ELSE UNCHANGED <<role, leader, heartbeat_elapsed, leaderVars, messages>>
    /\ UNCHANGED <<current_term, voted_for, election_elapsed, logVars, applyVars>>

(* A follower or candidate takes the sender as the leader of the term; a   *)
(* leader ignores an AppendEntries of its own term.                        *)
HandleAppendEntries(i, m) ==
    /\ m.type = "AppendEntries"
    /\ m.term >= current_term[i]
    /\ m.term = current_term[i] => role[i] # "Leader"
    /\ BecomeFollower(i, m.term, m.from)
    /\ IF Consistent(m, log[i])
       THEN LET lg == MergeEntries(m, log[i])
            IN  /\ log' = [log EXCEPT ![i] = lg]
                /\ commit_index' = [commit_index EXCEPT
                                        ![i] = FollowerCommit(m, lg, @)]
                /\ Send({AppendResp(i, m.from, m.term, TRUE,
                                    m.prev_log_index + Len(m.entries))})
       ELSE /\ Send({AppendResp(i, m.from, m.term, FALSE, 0)})
            /\ UNCHANGED logVars
    /\ UNCHANGED <<votes_granted, heartbeat_elapsed, applyVars, leaderVars>>

(* Mutant: next_index_ is never backed off.                                *)
NeverBackOff(next) == next
BackOff(next) == IF next > 1 THEN next - 1 ELSE next

(* Mutant: a success is taken for all the leader has by now.               *)
AckOfEverything(i, m) ==
    /\ m.type = "AppendEntriesResp"
    /\ m.term = current_term[i]
    /\ role[i] = "Leader"
    /\ IF m.success
       THEN LET match == [match_index[i] EXCEPT ![m.from] = LastIndex(log[i])]
            IN  /\ match_index' = [match_index EXCEPT ![i] = match]
                /\ next_index' = [next_index EXCEPT ![i][m.from] = LastIndex(log[i]) + 1]
                /\ commit_index' = [commit_index EXCEPT
                       ![i] = MaybeCommit(i, log[i], current_term[i], match, @)]
       ELSE /\ next_index' = [next_index EXCEPT ![i][m.from] = BackOff(@)]
            /\ UNCHANGED <<match_index, commit_index>>
    /\ UNCHANGED <<messages, electionVars, timerVars, log, applyVars>>

HandleAppendEntriesResp(i, m) ==
    /\ m.type = "AppendEntriesResp"
    /\ m.term = current_term[i]
    /\ role[i] = "Leader"
    /\ IF m.success
       THEN LET match == [match_index[i] EXCEPT ![m.from] = m.match_index]
            IN  /\ match_index' = [match_index EXCEPT ![i] = match]
                /\ next_index' = [next_index EXCEPT
                                    ![i][m.from] = m.match_index + 1]
                /\ commit_index' = [commit_index EXCEPT
                       ![i] = MaybeCommit(i, log[i], current_term[i], match, @)]
       ELSE /\ next_index' = [next_index EXCEPT ![i][m.from] = BackOff(@)]
            /\ UNCHANGED <<match_index, commit_index>>
    /\ UNCHANGED <<messages, electionVars, timerVars, log, applyVars>>

Step(i, m) ==
    \/ RejectStale(i, m)
    \/ StepDown(i, m)
    \/ HandleRequestVote(i, m)
    \/ HandleRequestVoteResp(i, m)
    \/ HandleAppendEntries(i, m)
    \/ HandleAppendEntriesResp(i, m)

-----------------------------------------------------------------------------
(* The other calls of the node's caller.                                   *)

Propose(i, data) ==
    /\ role[i] = "Leader"
    /\ current_term[i] \in ProposalTerms
    /\ LastIndex(log[i]) < MaxLog[current_term[i]]
    /\ LET lg == Append(log[i], [term |-> current_term[i],
                                 index |-> LastIndex(log[i]) + 1, data |-> data])
       IN  /\ log' = [log EXCEPT ![i] = lg]
           /\ commit_index' = [commit_index EXCEPT
                  ![i] = MaybeCommit(i, lg, current_term[i], match_index[i], @)]
    /\ UNCHANGED <<messages, electionVars, timerVars, applyVars, leaderVars>>

TakeCommitted(i) ==
    /\ last_applied[i] < commit_index[i]
    /\ applied' = applied \cup {log[i][n] : n \in (last_applied[i] + 1)..commit_index[i]}
    /\ last_applied' = [last_applied EXCEPT ![i] = commit_index[i]]
    /\ UNCHANGED <<messages, electionVars, timerVars, logVars, leaderVars>>

(* Mutant: the vote is not restored.                                       *)
RestartVoteless(i) ==
    /\ i \in Crashing
    /\ role' = [role EXCEPT ![i] = "Follower"]
    /\ voted_for' = [voted_for EXCEPT ![i] = None]
    /\ commit_index' = [commit_index EXCEPT ![i] = 0]
    /\ last_applied' = [last_applied EXCEPT ![i] = 0]
    /\ leader' = [leader EXCEPT ![i] = None]
    /\ UNCHANGED <<messages, current_term, log, applied, timerVars, votes_granted, leaderVars>>

(* A crash and a new Raft object: Restore reinstalls term, vote and log;   *)
(* everything else starts over, the commit index and apply cursor included. *)
Restart(i) ==
    /\ i \in Crashing
    /\ role' = [role EXCEPT ![i] = "Follower"]
    /\ commit_index' = [commit_index EXCEPT ![i] = 0]
    /\ last_applied' = [last_applied EXCEPT ![i] = 0]
    /\ leader' = [leader EXCEPT ![i] = None]
    /\ election_elapsed' = [election_elapsed EXCEPT ![i] = 0]
    /\ heartbeat_elapsed' = [heartbeat_elapsed EXCEPT ![i] = 0]
    /\ votes_granted' = [votes_granted EXCEPT ![i] = {}]
    /\ next_index' = [next_index EXCEPT ![i] = [j \in Peers(i) |-> 0]]
    /\ match_index' = [match_index EXCEPT ![i] = [j \in Peers(i) |-> 0]]
    /\ UNCHANGED <<messages, current_term, voted_for, log, applied>>

Next ==
    \/ \E i \in Server : \/ TickLeader(i)
                         \/ TickElection(i)
                         \/ BecomeCandidate(i)
                         \/ TakeCommitted(i)
                         \/ Restart(i)
    \/ \E i \in Server, data \in Value : Propose(i, data)
    \/ \E m \in messages : <<m.from, m.to>> \in Links /\ Step(m.to, m)

Spec == Init /\ [][Next]_vars

-----------------------------------------------------------------------------
(* Properties.                                                             *)

TypeOK ==
    /\ messages \subseteq Message
    /\ role \in [Server -> {"Follower", "Candidate", "Leader"}]
    /\ current_term \in [Server -> Nat]
    /\ voted_for \in [Server -> Server \cup {None}]
    /\ log \in [Server -> Seq(LogEntry)]
    /\ commit_index \in [Server -> Nat]
    /\ last_applied \in [Server -> Nat]
    /\ leader \in [Server -> Server \cup {None}]
    /\ election_elapsed \in [Server -> Nat]
    /\ heartbeat_elapsed \in [Server -> Nat]
    /\ votes_granted \in [Server -> SUBSET Server]
    /\ DOMAIN next_index = Server /\ DOMAIN match_index = Server
    /\ \A i \in Server : /\ next_index[i] \in [Peers(i) -> Nat]
                          /\ match_index[i] \in [Peers(i) -> Nat]

Sent(type) == {m \in messages : m.type = type}

(* raft.cc addresses log_ by e.index: every entry of every log and of every *)
(* message in flight sits at its own index, so the append loop can neither  *)
(* leave a gap nor write an entry at another's place, and a leader never    *)
(* backs next_index_ off below 1 (SendAppendEntries computes next - 1).     *)
EntriesInPlace ==
    /\ \A i \in Server : InPlace(log[i], 0)
    /\ \A m \in Sent("AppendEntries") : InPlace(m.entries, m.prev_log_index)
    /\ \A i \in Server : role[i] = "Leader" => \A j \in Peers(i) : next_index[i][j] >= 1

(* Votes back every leadership (HandleRequestVote, StepCandidate): a grant *)
(* binds the voter for its whole term, no node grants to two candidates of *)
(* a term, whoever led a term voted for itself and for nobody else in it,  *)
(* and a quorum of recorded grants stands behind every leader and every    *)
(* AppendEntries ever sent.                                                *)
Granted(j, i, t) == VoteResp(j, i, t, TRUE) \in messages
Elected(i, t) ==
    \E Q \in SUBSET Server :
        Cardinality(Q) >= QuorumSize /\ \A j \in Q : j = i \/ Granted(j, i, t)
VotesBackLeaders ==
    /\ \A m \in Sent("RequestVoteResp") : m.vote_granted =>
          /\ current_term[m.from] >= m.term
          /\ current_term[m.from] = m.term => voted_for[m.from] = m.to
    /\ \A m, n \in Sent("RequestVoteResp") :
          /\ m.vote_granted /\ n.vote_granted
          /\ m.from = n.from /\ m.term = n.term
          => m.to = n.to
    /\ \A m \in Sent("AppendEntries") :
          /\ current_term[m.from] >= m.term
          /\ current_term[m.from] = m.term => voted_for[m.from] = m.from
          /\ Elected(m.from, m.term)
    /\ \A m \in Sent("RequestVoteResp"), n \in Sent("AppendEntries") :
          m.vote_granted /\ m.from = n.from /\ m.term = n.term => m.to = m.from
    /\ \A i \in Server : role[i] # "Follower" =>
          /\ voted_for[i] = i
          /\ \A j \in votes_granted[i] : j = i \/ Granted(j, i, current_term[i])
    /\ \A i \in Server : role[i] = "Leader" => Elected(i, current_term[i])

(* At most one node ever leads a term (Step, HandleRequestVote): no two    *)
(* nodes ever sent an AppendEntries of the same term, not even across      *)
(* crashes, and a node that leads a term is the one that sent them.        *)
ElectionSafety ==
    /\ \A m, n \in Sent("AppendEntries") : m.term = n.term => m.from = n.from
    /\ \A i \in Server, m \in Sent("AppendEntries") :
           role[i] = "Leader" /\ m.term = current_term[i] => m.from = i
    /\ \A i, j \in Server :
           /\ role[i] = "Leader" /\ role[j] = "Leader"
           /\ current_term[i] = current_term[j]
           => i = j

(* Two logs that hold an entry of the same term at the same index hold the *)
(* same entries up to there (the consistency check and the append loop of  *)
(* HandleAppendEntries).                                                   *)
LogMatching ==
    \A i, j \in Server : \A n \in 1..LastIndex(log[i]) :
        n <= LastIndex(log[j]) /\ log[i][n].term = log[j][n].term
            => SubSeq(log[i], 1, n) = SubSeq(log[j], 1, n)

(* TakeCommitted and ApplyCommitted read log_ up to the commit index without *)
(* a bounds check: no truncation ever leaves the commit index past the end.  *)
CommitWithinLog ==
    \A i \in Server : last_applied[i] <= commit_index[i] /\ commit_index[i] <= LastIndex(log[i])

(* An entry handed to a state machine is never lost and never contradicted *)
(* (UpToDate, MaybeCommit): TakeCommitted gives every caller, at every     *)
(* restart, the same entry at an index, and whoever leads the highest term *)
(* has them all.                                                           *)
StateMachineSafety ==
    /\ \A a, b \in applied : a.index = b.index => a = b
    /\ \A i \in Server :
          /\ role[i] = "Leader"
          /\ \A j \in Server : current_term[j] <= current_term[i]
          => \A e \in applied : e.index <= LastIndex(log[i]) /\ log[i][e.index] = e

(* A leader holds everything a node of its term or an earlier one counts   *)
(* as committed (HandleRequestVote's up-to-date check and MaybeCommit's    *)
(* current-term rule together).                                            *)
LeaderCompleteness ==
    \A i, j \in Server :
        role[i] = "Leader" /\ current_term[j] <= current_term[i]
            => /\ commit_index[j] <= LastIndex(log[i])
               /\ SubSeq(log[i], 1, commit_index[j]) = SubSeq(log[j], 1, commit_index[j])

(* HandleAppendEntries commits up to its own last index, not up to the last *)
(* entry the message carried.  That is safe only because SendAppendEntries  *)
(* always sends the leader's whole suffix: no AppendEntries announces a     *)
(* commit index beyond what it carries.                                     *)
CommitWithinMessage ==
    \A m \in Sent("AppendEntries") :
        m.leader_commit <= m.prev_log_index + Len(m.entries)

(* What a leader counts as replicated is: as long as the peer is still in  *)
(* the leader's term it holds the leader's log up to match_index_, whatever *)
(* order its responses were delivered in (HandleAppendEntriesResp).        *)
MatchIsReplicated ==
    \A i \in Server : \A j \in Peers(i) :
        role[i] = "Leader" /\ current_term[j] = current_term[i]
            => LET n == match_index[i][j]
               IN  n <= LastIndex(log[j]) /\ SubSeq(log[j], 1, n) = SubSeq(log[i], 1, n)

(* No call ever rewrites or drops an entry a node has committed, and only a *)
(* crash lowers its commit index (the append loop, FollowerCommit and       *)
(* MaybeCommit under stale, duplicated and reordered messages).             *)
CommittedIsStable ==
    [][\A i \in Server :
          /\ commit_index[i] <= LastIndex(log'[i])
          /\ SubSeq(log'[i], 1, commit_index[i]) = SubSeq(log[i], 1, commit_index[i])
          /\ commit_index'[i] >= commit_index[i] \/ Restart(i)]_vars

(* A node never goes back to an older term and never changes its vote      *)
(* within a term, restarts included (BecomeFollower, HandleRequestVote).   *)
OneVotePerTerm ==
    [][\A i \in Server :
          /\ current_term'[i] >= current_term[i]
          /\ current_term'[i] = current_term[i] /\ voted_for[i] # None
                => voted_for'[i] = voted_for[i]]_vars
=============================================================================
