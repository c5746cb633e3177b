------------------------------- MODULE MCRaft -------------------------------
(* Instances of Raft for TLC.                                              *)
EXTENDS Raft

CONSTANTS s1, s2, s3, T1, T2, T3

(* Every tick reaches the election timeout, as in ReplicatedDB::Open: with *)
(* nodes that run at their own speed no order of campaigns is excluded.    *)
EveryTick == [i \in Server |-> 1]

(* The same where s3 never campaigns and has the longer timeout.           *)
Staggered == [i \in Server |-> IF i = s3 THEN 2 ELSE 1]

(* A connected network, one in which only s3 hears of s1 and s2, and one   *)
(* that leaves s2 out.                                                     *)
Connected == Server \X Server
Parted == Connected \ {<<s1, s2>>, <<s2, s1>>}
Pair == {s1, s3} \X {s1, s3}

(* One entry at most, or two.                                              *)
Single == [t \in ProposalTerms |-> 1]
Double == [t \in ProposalTerms |-> 2]

Terms == [i \in Server |-> CASE i = s1 -> T1 [] i = s2 -> T2 [] i = s3 -> T3]

-----------------------------------------------------------------------------
(* Two leaders at once, cut off from each other: s1 leads term 1 and s3    *)
(* term 2, both with the vote of s2, each got one proposal it has not sent *)
(* yet, and everything sent so far but the two votes was lost.             *)
Split ==
    LET leads == {s1, s3}
    IN  /\ messages = {VoteResp(s2, s1, 1, TRUE), VoteResp(s2, s3, 2, TRUE)}
        /\ applied = {}
        /\ role = [i \in Server |-> IF i \in leads THEN "Leader" ELSE "Follower"]
        /\ current_term = [i \in Server |-> IF i = s1 THEN 1 ELSE 2]
        /\ voted_for = [i \in Server |-> IF i = s1 THEN s1 ELSE s3]
        /\ \E data \in [leads -> Value] :
              log = [i \in Server |->
                        IF i = s2 THEN << >>
                        ELSE <<[term |-> current_term[i], index |-> 1, data |-> data[i]]>>]
        /\ commit_index = [i \in Server |-> 0] /\ last_applied = [i \in Server |-> 0]
        /\ leader = [i \in Server |-> IF i \in leads THEN i ELSE None]
        /\ election_elapsed = [i \in Server |-> 0] /\ heartbeat_elapsed = [i \in Server |-> 0]
        /\ votes_granted = [i \in Server |-> IF i \in leads THEN {i, s2} ELSE {}]
        /\ next_index = [i \in Server |-> [j \in Peers(i) |-> IF i \in leads THEN 1 ELSE 0]]
        /\ match_index = [i \in Server |-> [j \in Peers(i) |-> 0]]

-----------------------------------------------------------------------------
(* What the rest of a behaviour can still tell apart.  Terms only grow, so *)
(* of a request older than its receiver's term only the type and the ends  *)
(* matter, and of a vote newer than its receiver's term (always a refusal) *)
(* only the term; a response of the receiver's term matters to a candidate *)
(* or a leader, and an older one never again.  Only a candidate's votes    *)
(* and a leader's replication state are ever read.  The senders and the    *)
(* commit indices of past AppendEntries are what the properties ask about. *)
Awaited(m) ==
    \/ m.type = "RequestVoteResp" /\ m.vote_granted /\ role[m.to] = "Candidate"
    \/ m.type = "AppendEntriesResp" /\ role[m.to] # "Follower"

Essence(m) ==
    LET t == current_term[m.to]
    IN  IF <<m.from, m.to>> \notin Links THEN [type |-> "Dead"]
        ELSE IF m.type \in {"RequestVote", "AppendEntries"}
        THEN IF \/ m.term > t
                \/ m.term = t /\ (m.type = "RequestVote" => voted_for[m.to] = None)
             THEN m
             ELSE [type |-> m.type, from |-> m.from, to |-> m.to]
        ELSE IF m.term > t
             THEN IF m.type = "AppendEntriesResp" THEN m
                  ELSE [type |-> "Newer", to |-> m.to, term |-> m.term]
        ELSE IF m.term = t /\ Awaited(m) THEN m
        ELSE [type |-> "Dead"]

View ==
    <<{Essence(m) : m \in messages},
      {<<m.from, m.term>> : m \in Sent("AppendEntries")}, CommitWithinMessage,
      applied, role, current_term, voted_for, log, commit_index, last_applied, leader,
      timerVars,
      [i \in Server |-> IF role[i] = "Candidate" THEN votes_granted[i] ELSE {}],
      [i \in Server |-> IF role[i] = "Leader" THEN <<next_index[i], match_index[i]>>
                                              ELSE << >>]>>
=============================================================================
