-------------------------- MODULE RaftSafetyProofs --------------------------
(***************************************************************************)
(* What Raft commits stays, for any number of nodes and any loss,          *)
(* duplication, reordering and restarts: every commit index, announced in  *)
(* a message or not, and all that is applied lies within a decided entry.  *)
(***************************************************************************)
EXTENDS RaftReplicationProofs

(* Leaves are left to Zenon unless they name another prover.               *)
USE Zenon

(* What is committed.                                                      *)

(* The first n entries of s are those of a leader's log, up to an entry    *)
(* committed in a term up to u.                                            *)
SafeUpTo(L, s, n, u) ==
    n = 0 \/ \E t, k \in Nat : t <= u /\ n <= k /\ Decided(L, t, k) /\ AgreeTo(s, L[t], n)

(* Every commit index, announced or not, and everything applied is safe.   *)
Safe(L) ==
    /\ \A i \in Server : /\ last_applied[i] <= commit_index[i]
                         /\ SafeUpTo(L, log[i], commit_index[i], current_term[i])
    /\ \A m \in Sent("AppendEntries") :
          /\ m.leader_commit <= m.prev_log_index + Len(m.entries)
          /\ SafeUpTo(L, L[m.term], m.leader_commit, m.term)
    /\ \A e \in applied : \E t, k \in Nat :
          Decided(L, t, k) /\ e.index \in 1..k /\ e = L[t][e.index]

(* A step, as far as commit indexes are concerned: they stay, start over   *)
(* or move on to what is safe; a leader announces its own; and what is     *)
(* applied is within one.                                                  *)
Commits(M) ==
    /\ \A i \in Server :
          /\ last_applied'[i] <= commit_index'[i]
          /\ \/ commit_index'[i] = commit_index[i]
             \/ commit_index'[i] = 0 /\ Restart(i)
             \/ /\ commit_index'[i] > commit_index[i]
                /\ SafeUpTo(M, log[i], commit_index[i], current_term[i])'
    /\ \A m \in messages' \ messages : m.type = "AppendEntries" =>
          /\ m.leader_commit <= m.prev_log_index + Len(m.entries)
          /\ m.leader_commit = commit_index'[m.from]
    /\ \A e \in applied' \ applied : \E i \in Server : \E n \in 1..commit_index[i] : e = log[i][n]

(* What is committed stays so.                                             *)
LEMMA DecidedStays ==
    ASSUME NEW L, NEW M, Moves(L, M), LeaderLogs(L), NEW t \in Nat, NEW k \in Nat,
           Decided(L, t, k)
    PROVE  Decided(M, t, k)'
  <1>1. messages \subseteq messages'
    BY DEF Moves
  <1>2. PICK Q \in Quorum : \A j \in Q : Has(j, t, k)
    BY DEF Decided
  <1>3. \A j \in Q : Has(j, t, k)'
    BY <1>1, <1>2, HasStays
  <1>4. Own(M, t, k)
    <2>1. k \in 1..Len(L[t]) /\ L[t][k].term = t
      BY DEF Decided, Own
    <2>2. Len(L[t]) <= Len(M[t]) /\ L[t][k] = M[t][k]
      BY <2>1 DEF Moves, Grows, AgreeTo
    <2>3. L[t] \in Seq(LogEntry) /\ M[t] \in Seq(LogEntry)
      BY DEF LeaderLogs, Moves
    <2>4. Len(L[t]) \in Nat /\ Len(M[t]) \in Nat
      BY <2>3, LenProperties
    <2>5. k \in 1..Len(M[t])
      BY <2>1, <2>2, <2>4, SMT
    <2> QED
      BY <2>1, <2>2, <2>5 DEF Own
  <1> QED
    BY <1>3, <1>4 DEF Decided, Own, Quorum

(* So does what a node has of it.                                          *)
LEMMA SafeKept ==
    ASSUME Inv, Inv', NEW L, Replicated(L), NEW M, Moves(L, M), NEW i \in Server,
           NEW n \in Nat, SafeUpTo(L, log[i], n, current_term[i])
    PROVE  SafeUpTo(M, log[i], n, current_term[i])'
  <1>1. CASE n = 0
    BY <1>1 DEF SafeUpTo
  <1>2. CASE n # 0
    <2>1. PICK t, k \in Nat : /\ t <= current_term[i] /\ n <= k
                              /\ Decided(L, t, k) /\ AgreeTo(log[i], L[t], n)
      BY <1>2 DEF SafeUpTo
    <2>2. LeaderLogs(L) /\ LeadersAgree(L) /\ Viable(L, t, k)
      BY <2>1, DecidedIsViable DEF Replicated
    <2>3. AgreeTo(log'[i], L[t], n)
      BY <2>1, <2>2, KeepsViable
    <2>4. L \in [Nat -> Seq(LogEntry)] /\ M \in [Nat -> Seq(LogEntry)] /\ Grows(L, M)
      BY <2>2 DEF LeaderLogs, Moves
    <2>5. AgreeTo(log'[i], M[t], n)
      BY <2>3, <2>4, GrowsAgree
    <2>6. Decided(M, t, k)'
      BY <2>1, <2>2, DecidedStays
    <2>7. t <= current_term'[i]
      <3>1. current_term[i] \in Nat /\ current_term'[i] \in Nat
        BY DEF Inv, TypeInv, TypeOK
      <3>2. current_term'[i] >= current_term[i]
        BY DEF Moves, Onward
      <3> QED
        BY <2>1, <3>1, <3>2, SMT
    <2> QED
      BY <2>1, <2>5, <2>6, <2>7 DEF SafeUpTo
  <1> QED
    BY <1>1, <1>2

(* And what a leader has of it.                                            *)
LEMMA SafeLeader ==
    ASSUME NEW L, LeaderLogs(L), NEW M, Moves(L, M), NEW u \in Nat, NEW n \in Nat,
           SafeUpTo(L, L[u], n, u)
    PROVE  SafeUpTo(M, M[u], n, u)'
  <1>1. CASE n = 0
    BY <1>1 DEF SafeUpTo
  <1>2. CASE n # 0
    <2>1. PICK t, k \in Nat : /\ t <= u /\ n <= k
                              /\ Decided(L, t, k) /\ AgreeTo(L[u], L[t], n)
      BY <1>2 DEF SafeUpTo
    <2>2. L \in [Nat -> Seq(LogEntry)] /\ M \in [Nat -> Seq(LogEntry)] /\ Grows(L, M)
      BY DEF LeaderLogs, Moves
    <2>3. AgreeTo(M[u], M[t], n)
      BY <2>1, <2>2, GrowsBoth
    <2>4. Decided(M, t, k)'
      BY <2>1, DecidedStays
    <2> QED
      BY <2>1, <2>3, <2>4 DEF SafeUpTo
  <1> QED
    BY <1>1, <1>2

(* What is safe is within the log.                                         *)
LEMMA SafeWithin ==
    ASSUME NEW L, NEW s \in Seq(LogEntry), NEW n \in Nat, NEW u, SafeUpTo(L, s, n, u)
    PROVE  n <= Len(s)
  <1>1. Len(s) \in Nat
    BY LenProperties
  <1>2. CASE n = 0
    BY <1>1, <1>2, SMT
  <1>3. CASE n # 0
    BY <1>3 DEF SafeUpTo, AgreeTo
  <1> QED
    BY <1>2, <1>3

(* Such steps leave everything safe.                                       *)
LEMMA SafeStep ==
    ASSUME Inv, Inv', NEW L, Replicated(L), Safe(L), NEW M, LeaderLogs(M)',
           Moves(L, M), Commits(M)
    PROVE  Safe(M)'
  <1>0. LeaderLogs(L) /\ L \in [Nat -> Seq(LogEntry)] /\ M \in [Nat -> Seq(LogEntry)]
    BY DEF Replicated, LeaderLogs, Moves
  <1>1. ASSUME NEW i \in Server
        PROVE  SafeUpTo(M, log[i], commit_index[i], current_term[i])'
    <2>1. commit_index[i] \in Nat /\ SafeUpTo(L, log[i], commit_index[i], current_term[i])
      BY DEF Inv, TypeInv, TypeOK, Safe
    <2>2. CASE commit_index'[i] = commit_index[i]
      <3>1. PICK c \in Nat : c = commit_index[i] /\ c = commit_index'[i]
        BY <2>1, <2>2
      <3>2. SafeUpTo(M, log[i], c, current_term[i])'
        BY <2>1, <3>1, SafeKept
      <3> QED
        BY <3>1, <3>2
    <2>3. CASE commit_index'[i] = 0
      BY <2>3 DEF SafeUpTo
    <2> QED
      BY <2>2, <2>3 DEF Commits
  <1>2. ASSUME NEW m \in Sent("AppendEntries")'
        PROVE  /\ m.leader_commit <= m.prev_log_index + Len(m.entries)
               /\ SafeUpTo(M, M[m.term], m.leader_commit, m.term)'
    <2>0. m \in AppendEntries
      BY MessageKinds DEF Sent, Inv, TypeInv, TypeOK
    <2>1. m.term \in Nat /\ m.leader_commit \in Nat /\ m.from \in Server
      BY <2>0 DEF AppendEntries
    <2>2. CASE m \in Sent("AppendEntries")
      <3>1. /\ m.leader_commit <= m.prev_log_index + Len(m.entries)
            /\ SafeUpTo(L, L[m.term], m.leader_commit, m.term)
        BY <2>2 DEF Safe
      <3> QED
        BY <1>0, <2>1, <3>1, SafeLeader
    <2>3. CASE m \notin Sent("AppendEntries")
      <3>1. m \in messages' \ messages /\ m.type = "AppendEntries"
        BY <2>3 DEF Sent
      <3>2. /\ m.leader_commit <= m.prev_log_index + Len(m.entries)
            /\ m.leader_commit = commit_index'[m.from]
            /\ m.term = current_term'[m.from] /\ role'[m.from] = "Leader"
        BY <3>1 DEF Commits, Moves
      <3>3. M[m.term] = log'[m.from]
        BY <2>1, <3>2 DEF LeaderLogs
      <3>4. SafeUpTo(M, log[m.from], commit_index[m.from], current_term[m.from])'
        BY <1>1, <2>1
      <3> QED
        BY <3>2, <3>3, <3>4
    <2> QED
      BY <2>2, <2>3
  <1>3. ASSUME NEW e \in applied'
        PROVE  \E t, k \in Nat : Decided(M, t, k)' /\ e.index \in 1..k /\ e = M[t][e.index]
    <2>1. PICK t, k \in Nat : Decided(L, t, k) /\ e.index \in 1..k /\ e = L[t][e.index]
      <3>1. CASE e \in applied
        BY <3>1 DEF Safe
      <3>2. CASE e \notin applied
        <4>1. PICK i \in Server : \E n \in 1..commit_index[i] : e = log[i][n]
          BY <3>2 DEF Commits
        <4>2. PICK n \in 1..commit_index[i] : e = log[i][n]
          BY <4>1
        <4>3. /\ commit_index[i] \in Nat /\ SafeUpTo(L, log[i], commit_index[i], current_term[i])
              /\ log[i] \in Seq(LogEntry)
          BY DEF Inv, TypeInv, TypeOK, Safe
        <4>4. commit_index[i] # 0
          BY <4>2, <4>3, SMT
        <4>5. PICK t, k \in Nat : /\ commit_index[i] <= k /\ Decided(L, t, k)
                                  /\ AgreeTo(log[i], L[t], commit_index[i])
          BY <4>3, <4>4 DEF SafeUpTo
        <4>6. e = L[t][n] /\ commit_index[i] <= Len(log[i])
          BY <4>2, <4>5 DEF AgreeTo
        <4>7. Len(log[i]) \in Nat
          BY <4>3, LenProperties
        <4>8. n \in 1..Len(log[i]) /\ n \in 1..k
          BY <4>2, <4>3, <4>5, <4>6, <4>7, SMT
        <4>9. e.index = n
          <5>1. log[i][n].index = 0 + n
            BY <4>8 DEF Inv, TypeInv, EntriesInPlace, InPlace
          <5> QED
            BY <4>2, <4>8, <5>1, SMT
        <4> QED
          BY <4>5, <4>6, <4>8, <4>9
      <3> QED
        BY <3>1, <3>2
    <2>2. Decided(M, t, k)'
      BY <1>0, <2>1, DecidedStays
    <2>3. M[t][e.index] = L[t][e.index]
      <3>1. k \in 1..Len(L[t])
        BY <2>1 DEF Decided, Own
      <3>2. Len(L[t]) \in Nat
        BY <1>0, LenProperties
      <3>3. e.index \in 1..Len(L[t])
        BY <2>1, <3>1, <3>2, SMT
      <3> QED
        BY <3>3 DEF Moves, Grows, AgreeTo
    <2> QED
      BY <2>1, <2>2, <2>3
  <1>4. \A i \in Server : last_applied'[i] <= commit_index'[i]
    BY DEF Commits
  <1> QED
    BY <1>1, <1>2, <1>3, <1>4 DEF Safe

-----------------------------------------------------------------------------
(* The steps that commit, announce and apply.                              *)

(* Steps that do none of it.                                               *)
LEMMA CommitsSame ==
    ASSUME NEW L, Safe(L), NEW M, commit_index' = commit_index, last_applied' = last_applied,
           applied' = applied, \A m \in messages' \ messages : m.type # "AppendEntries"
    PROVE  Commits(M)
  <1>1. \A i \in Server : last_applied[i] <= commit_index[i]
    BY DEF Safe
  <1> QED
    BY <1>1 DEF Commits

(* Steps of a node by itself.                                              *)
LEMMA CommitsOwn ==
    ASSUME Inv, Several, NEW L, Safe(L), NEW i \in Server,
           BecomeCandidate(i) \/ TickElection(i) \/ TakeCommitted(i) \/ Restart(i)
    PROVE  Commits(L)
  <1>0. \A m \in messages' \ messages : m.type # "AppendEntries"
    BY CalmOwn DEF Calm
  <1>1. CASE BecomeCandidate(i) \/ TickElection(i)
    <2>1. commit_index' = commit_index /\ last_applied' = last_applied /\ applied' = applied
      BY <1>1 DEF BecomeCandidate, TickElection, logVars, applyVars
    <2> QED
      BY <1>0, <2>1, CommitsSame
  <1>2. \A k \in Server : /\ last_applied[k] <= commit_index[k]
                          /\ commit_index[k] \in Nat /\ last_applied[k] \in Nat
    BY DEF Safe, Inv, TypeInv, TypeOK
  <1>3. CASE TakeCommitted(i)
    <2>1. /\ commit_index' = commit_index
          /\ \A k \in Server : last_applied'[k] = IF k = i THEN commit_index[i] ELSE last_applied[k]
      BY <1>3 DEF TakeCommitted, logVars, Inv, TypeInv, TypeOK
    <2>2. \A k \in Server : last_applied'[k] <= commit_index'[k]
      BY <1>2, <2>1, SMT
    <2>3. \A e \in applied' \ applied : \E n \in 1..commit_index[i] : e = log[i][n]
      <3>1. applied' = applied \cup {log[i][n] : n \in (last_applied[i] + 1)..commit_index[i]}
        BY <1>3 DEF TakeCommitted
      <3>2. \A n \in (last_applied[i] + 1)..commit_index[i] : n \in 1..commit_index[i]
        BY <1>2, SMT
      <3> QED
        BY <3>1, <3>2
    <2> QED
      BY <1>0, <2>1, <2>2, <2>3 DEF Commits
  <1>4. CASE Restart(i)
    <2>1. /\ applied' = applied
          /\ \A k \in Server : /\ commit_index'[k] = IF k = i THEN 0 ELSE commit_index[k]
                               /\ last_applied'[k] = IF k = i THEN 0 ELSE last_applied[k]
      BY <1>4 DEF Restart, Inv, TypeInv, TypeOK
    <2>2. \A k \in Server : last_applied'[k] <= commit_index'[k]
      BY <1>2, <2>1, SMT
    <2>3. \A k \in Server : commit_index'[k] = commit_index[k]
                            \/ (commit_index'[k] = 0 /\ Restart(k))
      BY <1>4, <2>1
    <2> QED
      BY <1>0, <2>1, <2>2, <2>3 DEF Commits
  <1> QED
    BY <1>1, <1>3, <1>4

(* A broadcast announces the leader's commit index, and carries its log to *)
(* the end.                                                                *)
LEMMA CommitsBroadcast ==
    ASSUME Inv, NEW L, LeaderLogs(L), Safe(L), NEW M, NEW i \in Server, NEW term,
           NEW next \in [Peers(i) -> Nat], \A j \in Peers(i) : next[j] >= 1,
           \A j \in Peers(i) : next[j] <= Len(log[i]) + 1,
           messages' \subseteq messages
              \cup BroadcastAppendEntries(i, term, log[i], next, commit_index[i]),
           commit_index' = commit_index, last_applied' = last_applied, applied' = applied
    PROVE  Commits(M)
  <1> DEFINE b == BroadcastAppendEntries(i, term, log[i], next, commit_index[i])
  <1>1. /\ commit_index[i] \in Nat /\ log[i] \in Seq(LogEntry)
        /\ SafeUpTo(L, log[i], commit_index[i], current_term[i])
    BY DEF Inv, TypeInv, TypeOK, Safe
  <1>2. commit_index[i] <= Len(log[i])
    BY <1>1, SafeWithin
  <1>3. \A m \in b : /\ m.from = i /\ m.leader_commit = commit_index[i]
                     /\ m.prev_log_index + Len(m.entries) = Len(log[i])
    BY <1>1, BroadcastPieces, SMT
  <1> HIDE DEF b
  <1>4. \A m \in messages' \ messages : m \in b
    BY DEF b
  <1>5. \A k \in Server : last_applied[k] <= commit_index[k]
    BY DEF Safe
  <1> QED
    BY <1>2, <1>3, <1>4, <1>5 DEF Commits

(* A heartbeat (Tick of a leader) commits nothing and its messages carry   *)
(* no more than the leader has committed.                                  *)
LEMMA CommitsTick ==
    ASSUME Inv, NEW L, LeaderLogs(L), Safe(L), NEW i \in Server, TickLeader(i)
    PROVE  Commits(L)
  <1>1. /\ next_index[i] \in [Peers(i) -> Nat] /\ \A j \in Peers(i) : next_index[i][j] >= 1
    BY DEF Inv, TypeInv, TypeOK, EntriesInPlace, TickLeader
  <1>2. \A j \in Peers(i) : next_index[i][j] <= Len(log[i]) + 1
    BY DEF LeaderLogs, TickLeader
  <1>3. /\ messages' \subseteq messages
              \cup BroadcastAppendEntries(i, current_term[i], log[i], next_index[i], commit_index[i])
        /\ commit_index' = commit_index /\ last_applied' = last_applied /\ applied' = applied
    BY DEF TickLeader, Send, logVars, applyVars
  <1> QED
    BY <1>1, <1>2, <1>3, CommitsBroadcast

(* Becoming leader commits nothing; the first broadcast carries the commit *)
(* index the node already had.                                             *)
LEMMA CommitsWins ==
    ASSUME Inv, NEW L, LeaderLogs(L), Safe(L), NEW M, NEW i \in Server, NEW t,
           Wins(L, M, i, t),
           commit_index' = commit_index, last_applied' = last_applied, applied' = applied
    PROVE  Commits(M)
  <1> DEFINE next == [j \in Peers(i) |-> LastIndex(log[i]) + 1]
  <1>1. Len(log[i]) \in Nat
    BY LenProperties DEF Inv, TypeInv, TypeOK
  <1>2. LastIndex(log[i]) + 1 \in Nat /\ LastIndex(log[i]) + 1 >= 1
        /\ LastIndex(log[i]) + 1 <= Len(log[i]) + 1
    BY <1>1, SMT DEF LastIndex
  <1>3. /\ next \in [Peers(i) -> Nat] /\ \A j \in Peers(i) : next[j] >= 1
        /\ \A j \in Peers(i) : next[j] <= Len(log[i]) + 1
    BY <1>2
  <1>4. messages' \subseteq messages
            \cup BroadcastAppendEntries(i, t, log[i], next, commit_index[i])
    BY DEF Wins, BecomeLeader, Send
  <1> HIDE DEF next
  <1> QED
    BY <1>3, <1>4, CommitsBroadcast

(* What a follower commits its leader had: the message that announced it   *)
(* carried it.                                                             *)
LEMMA CommitsAppended ==
    ASSUME Inv, Inv', NEW L, LeaderLogs(L), Safe(L), Moves(L, L), NEW i \in Server,
           NEW m \in messages, Appended(L, i, m)
    PROVE  Commits(L)
  <1> DEFINE p == m.prev_log_index + Len(m.entries)
             c == m.leader_commit
  <1>0. /\ m \in Sent("AppendEntries") /\ m \in AppendEntries
        /\ L \in [Nat -> Seq(LogEntry)] /\ log'[i] \in Seq(LogEntry)
    BY MessageKinds DEF Appended, Sent, Inv, TypeInv, TypeOK, LeaderLogs
  <1>1. m.term \in Nat /\ m.prev_log_index \in Nat /\ m.entries \in Seq(LogEntry) /\ c \in Nat
    BY <1>0 DEF AppendEntries
  <1>2. p \in Nat /\ Len(log'[i]) \in Nat
    <2>1. Len(m.entries) \in Nat /\ Len(log'[i]) \in Nat
      BY <1>0, <1>1, LenProperties
    <2> QED
      BY <1>1, <2>1, SMT
  <1>3. c <= p /\ SafeUpTo(L, L[m.term], c, m.term)
    BY <1>0 DEF Safe
  <1> HIDE DEF p, c
  <1>4. /\ current_term'[i] = m.term
        /\ \A k \in Server : k # i => commit_index'[k] = commit_index[k]
        /\ last_applied' = last_applied /\ applied' = applied
        /\ \/ commit_index' = commit_index
           \/ /\ AgreeTo(log'[i], L[m.term], p)
              /\ commit_index'[i] = FollowerCommit(m, log'[i], commit_index[i])
    BY DEF Appended, p
  <1>5. \A n \in messages' \ messages : n.type # "AppendEntries"
    <2>1. \/ messages' = messages \cup {AppendResp(i, m.from, m.term, FALSE, 0)}
          \/ messages' = messages \cup
                {AppendResp(i, m.from, m.term, TRUE, m.prev_log_index + Len(m.entries))}
      BY DEF Appended
    <2> QED
      BY <2>1, SMT DEF AppendResp
  <1>6. \A k \in Server : /\ last_applied[k] <= commit_index[k]
                          /\ commit_index[k] \in Nat /\ last_applied[k] \in Nat
    BY DEF Safe, Inv, TypeInv, TypeOK
  <1>7. CASE commit_index'[i] = commit_index[i]
    BY <1>4, <1>5, <1>6, <1>7 DEF Commits
  <1>8. CASE commit_index'[i] # commit_index[i]
    <2>1. /\ AgreeTo(log'[i], L[m.term], p)
          /\ commit_index'[i] = FollowerCommit(m, log'[i], commit_index[i])
      BY <1>4, <1>8
    <2>2. p <= Len(log'[i])
      BY <2>1 DEF AgreeTo
    <2>3. commit_index'[i] = c /\ c > commit_index[i]
      <3>1. c <= Len(log'[i])
        BY <1>1, <1>2, <1>3, <2>2, SMT DEF c
      <3>2. ~(c <= commit_index[i])
        BY <1>8, <2>1 DEF FollowerCommit, c
      <3>3. commit_index'[i] = c
        BY <2>1, <3>1, <3>2 DEF FollowerCommit, LastIndex, c
      <3>4. c \in Nat /\ commit_index[i] \in Nat
        BY <1>1, <1>6 DEF c
      <3> QED
        BY <3>2, <3>3, <3>4, SMT
    <2>4. c # 0 /\ c \in Nat
      BY <1>1, <1>6, <2>3, SMT DEF c
    <2>5. PICK t, k \in Nat : /\ t <= m.term /\ c <= k
                              /\ Decided(L, t, k) /\ AgreeTo(L[m.term], L[t], c)
      BY <1>3, <2>4 DEF SafeUpTo
    <2>6. Decided(L, t, k)'
      BY <2>5, DecidedStays
    <2>7. AgreeTo(log'[i], L[t], c)
      <3>1. L[m.term] \in Seq(LogEntry) /\ L[t] \in Seq(LogEntry)
        BY <1>0, <1>1
      <3>2. AgreeTo(log'[i], L[m.term], c)
        BY <1>0, <1>2, <1>3, <2>1, <2>4, <3>1, AgreeLess
      <3>3. c <= c
        BY <2>4, SMT
      <3> QED
        BY <1>0, <2>4, <2>5, <3>1, <3>2, <3>3, AgreeTrans
    <2>8. SafeUpTo(L, log[i], commit_index[i], current_term[i])'
      BY <1>4, <2>3, <2>5, <2>6, <2>7 DEF SafeUpTo
    <2>9. \A k1 \in Server : last_applied'[k1] <= commit_index'[k1]
      <3>1. last_applied[i] <= c
        BY <1>6, <2>3, <2>4, SMT
      <3> QED
        BY <1>4, <1>6, <2>3, <3>1
    <2> QED
      BY <1>4, <1>5, <2>3, <2>8, <2>9 DEF Commits
  <1> QED
    BY <1>7, <1>8

(* What a leader commits a quorum has acknowledged, and it is of its term. *)
LEMMA LeaderCommits ==
    ASSUME Inv', NEW M, LeaderLogs(M)', MatchAcked', NEW i \in Server, role'[i] = "Leader",
           NEW commit \in Nat, commit_index'[i] # commit,
           commit_index'[i] =
              MaybeCommit(i, log'[i], current_term'[i], match_index'[i], commit)
    PROVE  /\ commit_index'[i] > commit
           /\ SafeUpTo(M, log[i], commit_index[i], current_term[i])'
  <1> DEFINE n == commit_index'[i]
             t == current_term'[i]
             Q == Replicas(i, match_index'[i], n)
  <1>0. /\ log'[i] \in Seq(LogEntry) /\ t \in Nat /\ n \in Nat
        /\ match_index'[i] \in [Peers(i) -> Nat]
    BY DEF Inv, TypeInv, TypeOK
  <1>1. /\ n \in (commit + 1)..Len(log'[i]) /\ TermAt(log'[i], n) = t
        /\ Cardinality(Q) >= QuorumSize
    BY <1>0, MaybeCommitType, SMT
  <1>2. Len(log'[i]) \in Nat
    BY <1>0, LenProperties
  <1> HIDE DEF n, t, Q
  <1>3. n > commit /\ n \in 1..Len(log'[i]) /\ n <= n /\ t <= t
    BY <1>0, <1>1, <1>2, SMT
  <1>4. M[t] = log'[i] /\ LedBy(i, current_term[i])'
    BY DEF LeaderLogs, t
  <1>5. Own(M, t, n)
    BY <1>1, <1>3, <1>4 DEF Own, TermAt, LastIndex
  <1>6. Q \in Quorum
    BY <1>1 DEF Quorum, Q, Replicas, Peers
  <1>7. ASSUME NEW j \in Q PROVE Has(j, current_term[i], commit_index[i])'
    <2>1. CASE j = i
      BY <1>4, <2>1 DEF Has
    <2>2. CASE j # i
      <3>1. j \in Peers(i) /\ match_index'[i][j] >= n
        BY <2>2 DEF Q, Replicas
      <3>2. match_index'[i][j] \in Nat /\ match_index'[i][j] # 0
        BY <1>0, <1>3, <3>1, SMT
      <3>3. Acked(j, current_term[i], match_index[i][j])'
        BY <3>1, <3>2 DEF MatchAcked
      <3>4. PICK a \in Sent("AppendEntriesResp")' :
                a.success /\ a.from = j /\ a.term = t /\ a.match_index >= match_index'[i][j]
        BY <3>3 DEF Acked, t
      <3>5. a.match_index \in Nat
        BY MessageKinds DEF Sent, Inv, TypeInv, TypeOK, AppendEntriesResp
      <3>6. a.match_index >= n
        BY <1>0, <3>1, <3>2, <3>4, <3>5, SMT
      <3> QED
        BY <3>4, <3>6 DEF Acked, Has, t, n
    <2> QED
      BY <2>1, <2>2
  <1>8. Decided(M, current_term[i], commit_index[i])'
    <2>1. Own(M, current_term[i], commit_index[i])'
      BY <1>5 DEF Own, t, n
    <2>2. (\E R \in Quorum : \A j \in R : Has(j, current_term[i], commit_index[i]))'
      BY <1>6, <1>7 DEF Quorum
    <2> QED
      BY <2>1, <2>2 DEF Decided
  <1>9. AgreeTo(log'[i], M[t], n)
    BY <1>0, <1>2, <1>3, <1>4, AgreeSelf, SMT
  <1> QED
    BY <1>0, <1>3, <1>8, <1>9 DEF SafeUpTo, t, n

(* A response, and a proposal, may let the leader commit.                  *)
LEMMA CommitsLeader ==
    ASSUME Inv, Inv', NEW L, Safe(L), NEW M, LeaderLogs(M)', MatchAcked', NEW i \in Server,
           role'[i] = "Leader", messages' = messages,
           last_applied' = last_applied, applied' = applied,
           \A k \in Server : k # i => commit_index'[k] = commit_index[k],
           \/ commit_index'[i] = commit_index[i]
           \/ commit_index'[i] =
                MaybeCommit(i, log'[i], current_term'[i], match_index'[i], commit_index[i])
    PROVE  Commits(M)
  <1>1. \A k \in Server : /\ last_applied[k] <= commit_index[k]
                          /\ commit_index[k] \in Nat /\ last_applied[k] \in Nat
                          /\ commit_index'[k] \in Nat
    BY DEF Safe, Inv, TypeInv, TypeOK
  <1>2. CASE commit_index'[i] = commit_index[i]
    BY <1>1, <1>2 DEF Commits
  <1>3. CASE commit_index'[i] # commit_index[i]
    <2>1. /\ commit_index'[i] > commit_index[i]
          /\ SafeUpTo(M, log[i], commit_index[i], current_term[i])'
      BY <1>1, <1>3, LeaderCommits
    <2>2. \A k \in Server : last_applied'[k] <= commit_index'[k]
      BY <1>1, <2>1, SMT
    <2> QED
      BY <2>1, <2>2 DEF Commits
  <1> QED
    BY <1>2, <1>3

-----------------------------------------------------------------------------
(* Every step.                                                             *)

Advances(L, M) ==
    LeaderLogs(M)' /\ MatchAcked' /\ Moves(L, M) /\ Campaigns /\ Commits(M)

(* A step that leaves every log and role as it was, and commits within what *)
(* is committed, is an advance.                                            *)
LEMMA CalmAdvances ==
    ASSUME Inv, Inv', Onward, NEW L, Replicated(L), Calm, Truthful, Commits(L)
    PROVE  Advances(L, L)
  <1>1. LeaderLogs(L) /\ MatchAcked
    BY DEF Replicated
  <1>2. LeaderLogs(L)'
    BY <1>1, LeadersCalm
  <1>3. MatchAcked'
    <2>1. /\ messages \subseteq messages'
          /\ \A k \in Server : role'[k] = "Leader" =>
                /\ role[k] = "Leader" /\ current_term'[k] = current_term[k]
                /\ match_index'[k] = match_index[k]
      BY DEF Calm
    <2> QED
      BY <1>1, <2>1, MatchStep
  <1>4. Moves(L, L) /\ Campaigns
    BY <1>1, CalmMoves
  <1> QED
    BY <1>2, <1>3, <1>4 DEF Advances

(* Steps on a message.                                                     *)
LEMMA MessageAdvances ==
    ASSUME Inv, Inv', Onward, Several, NEW L, Replicated(L), Safe(L),
           NEW i \in Server, NEW m \in messages, Step(i, m)
    PROVE  \E M : Advances(L, M)
  <1>0. LeaderLogs(L) /\ MatchAcked /\ RequestsTrue
    BY DEF Replicated
  <1>1. CASE RejectStale(i, m) \/ StepDown(i, m) \/ HandleRequestVote(i, m)
    <2>1. Calm /\ Truthful
      BY <1>0, <1>1, CalmMessage, TruthfulMessage
    <2>2. commit_index' = commit_index /\ last_applied' = last_applied /\ applied' = applied
      BY <1>1 DEF RejectStale, StepDown, HandleRequestVote, logVars, applyVars
    <2>3. Commits(L)
      BY <2>1, <2>2, CommitsSame DEF Calm
    <2> QED
      BY <2>1, <2>3, CalmAdvances
  <1>2. CASE HandleRequestVoteResp(i, m)
    <2>0. /\ commit_index' = commit_index /\ last_applied' = last_applied /\ applied' = applied
          /\ current_term' = current_term /\ role[i] = "Candidate"
      BY <1>2 DEF HandleRequestVoteResp, logVars, applyVars
    <2>1. CASE Calm
      <3>1. Commits(L)
        BY <2>0, <2>1, CommitsSame DEF Calm
      <3>2. Truthful
        <4>1. CASE Cardinality(votes_granted[i] \cup {m.from}) >= QuorumSize
          <5>1. \A n \in messages' \ messages : n.type = "AppendEntries"
            BY <1>2, <4>1, SMT DEF HandleRequestVoteResp, BecomeLeader, Send,
                              BroadcastAppendEntries, SendAppendEntries
          <5> QED
            BY <5>1, SilentTruthful
        <4>2. CASE ~(Cardinality(votes_granted[i] \cup {m.from}) >= QuorumSize)
          <5>1. messages' = messages
            BY <1>2, <4>2 DEF HandleRequestVoteResp
          <5> QED
            BY <5>1, NothingSaid
        <4> QED
          BY <4>1, <4>2
      <3> QED
        BY <2>1, <3>1, <3>2, CalmAdvances
    <2>2. CASE Wins(L, [L EXCEPT ![current_term[i]] = log[i]], i, current_term[i])
      <3>1. PICK M : M = [L EXCEPT ![current_term[i]] = log[i]]
        OBVIOUS
      <3>2. PICK t \in Nat : t = current_term[i]
        BY DEF Inv, TypeInv, TypeOK
      <3>3. Wins(L, M, i, t)
        BY <2>2, <3>1, <3>2
      <3>4. LeaderLogs(M)'
        BY <1>0, <3>3, LeadersBecomeLeader
      <3>5. Moves(L, M) /\ Campaigns /\ MatchAcked'
        BY <1>0, <2>0, <3>2, <3>3, WinsMoves
      <3>6. Commits(M)
        BY <1>0, <2>0, <3>3, CommitsWins
      <3> QED
        BY <3>4, <3>5, <3>6 DEF Advances
    <2> QED
      BY <1>0, <1>2, <2>1, <2>2, VoteCounted
  <1>3. CASE HandleAppendEntries(i, m)
    <2>1. Appended(L, i, m)
      BY <1>0, <1>3, AppendedByHandler
    <2>2. LeaderLogs(L)'
      BY <1>0, <2>1, LeadersAppended
    <2>3. Moves(L, L) /\ Campaigns /\ MatchAcked'
      BY <1>0, <2>1, AppendedMoves
    <2>4. Commits(L)
      BY <1>0, <2>1, <2>3, CommitsAppended
    <2> QED
      BY <2>2, <2>3, <2>4 DEF Advances
  <1>4. CASE HandleAppendEntriesResp(i, m)
    <2>1. LeaderLogs(L)'
      BY <1>0, <1>4, LeadersAck
    <2>2. Moves(L, L) /\ Campaigns /\ MatchAcked'
      BY <1>0, <1>4, AckMoves
    <2>3. /\ role'[i] = "Leader" /\ messages' = messages
          /\ last_applied' = last_applied /\ applied' = applied
          /\ log' = log /\ current_term' = current_term
      BY <1>4 DEF HandleAppendEntriesResp, applyVars, electionVars
    <2>4. /\ \A k \in Server : k # i => commit_index'[k] = commit_index[k]
          /\ \/ commit_index'[i] = commit_index[i]
             \/ commit_index'[i] =
                  MaybeCommit(i, log'[i], current_term'[i], match_index'[i], commit_index[i])
      <3>0. commit_index \in [Server -> Nat] /\ DOMAIN match_index = Server
        BY DEF Inv, TypeInv, TypeOK
      <3>1. CASE m.success
        <4> DEFINE match == [match_index[i] EXCEPT ![m.from] = m.match_index]
        <4>1. /\ match_index' = [match_index EXCEPT ![i] = match]
              /\ commit_index' = [commit_index EXCEPT ![i] =
                    MaybeCommit(i, log[i], current_term[i], match, commit_index[i])]
          BY <1>4, <3>1 DEF HandleAppendEntriesResp
        <4> HIDE DEF match
        <4>2. match_index'[i] = match
          BY <3>0, <4>1
        <4> QED
          BY <2>3, <3>0, <4>1, <4>2
      <3>2. CASE ~m.success
        BY <1>4, <3>2 DEF HandleAppendEntriesResp
      <3> QED
        BY <3>1, <3>2
    <2>5. Commits(L)
      BY <2>1, <2>2, <2>3, <2>4, CommitsLeader
    <2> QED
      BY <2>1, <2>2, <2>5 DEF Advances
  <1> QED
    BY <1>1, <1>2, <1>3, <1>4 DEF Step

(* Every step of the system, in a cluster of several nodes, is an advance: *)
(* one case per operation of raft.cpp.                                     *)
LEMMA EveryStep ==
    ASSUME Inv, Several, NEW L, Replicated(L), Safe(L), [Next]_vars
    PROVE  Inv' /\ \E M : Advances(L, M)
  <1>0. Inv' /\ Onward /\ LeaderLogs(L) /\ MatchAcked
    BY InvNext, VoteStep DEF Inv, KeepsVote, Onward, Replicated
  <1>1. CASE UNCHANGED vars
    <2>1. /\ messages' = messages /\ commit_index' = commit_index
          /\ last_applied' = last_applied /\ applied' = applied
          /\ UNCHANGED <<role, current_term, log, next_index, match_index>>
      BY <1>1 DEF vars, electionVars, logVars, leaderVars, applyVars
    <2>2. Calm /\ Truthful
      BY <2>1, NothingSaid DEF Calm
    <2>3. Commits(L)
      BY <2>1, CommitsSame
    <2> QED
      BY <1>0, <2>2, <2>3, CalmAdvances
  <1>2. ASSUME NEW i \in Server, TickLeader(i) PROVE Advances(L, L)
    <2>1. LeaderLogs(L)'
      BY <1>0, <1>2, LeadersTickLeader
    <2>2. Moves(L, L) /\ Campaigns /\ MatchAcked'
      BY <1>0, <1>2, TickMoves
    <2>3. Commits(L)
      BY <1>0, <1>2, CommitsTick
    <2> QED
      BY <2>1, <2>2, <2>3 DEF Advances
  <1>3. ASSUME NEW i \in Server,
               BecomeCandidate(i) \/ TickElection(i) \/ TakeCommitted(i) \/ Restart(i)
        PROVE  Advances(L, L)
    <2>1. Calm /\ Truthful /\ Commits(L)
      BY <1>3, CalmOwn, TruthfulOwn, CommitsOwn
    <2> QED
      BY <1>0, <2>1, CalmAdvances
  <1>4. ASSUME NEW i \in Server, NEW data \in Value, Propose(i, data)
        PROVE  \E M : Advances(L, M)
    <2>1. PICK M : M = [L EXCEPT ![current_term[i]] = log'[i]]
      OBVIOUS
    <2>2. Proposed(L, M, i)
      BY <1>4, <2>1, ProposedByCall
    <2>3. LeaderLogs(M)'
      BY <1>0, <2>2, LeadersProposed
    <2>4. Moves(L, M) /\ Campaigns /\ MatchAcked'
      BY <1>0, <2>2, ProposedMoves
    <2>5. Commits(M)
      <3>1. /\ role'[i] = "Leader" /\ messages' = messages
            /\ last_applied' = last_applied /\ applied' = applied
            /\ \A k \in Server : k # i => commit_index'[k] = commit_index[k]
            /\ commit_index'[i] = MaybeCommit(i, log'[i], current_term'[i], match_index'[i],
                                              commit_index[i])
        BY <2>2 DEF Proposed
      <3> QED
        BY <1>0, <2>3, <2>4, <3>1, CommitsLeader
    <2> QED
      BY <2>3, <2>4, <2>5 DEF Advances
  <1>5. ASSUME NEW m \in messages, Step(m.to, m) PROVE \E M : Advances(L, M)
    <2>1. m.to \in Server
      BY MessageKinds DEF Inv, TypeInv, TypeOK
    <2> QED
      BY <1>0, <1>5, <2>1, MessageAdvances
  <1> QED
    BY <1>0, <1>1, <1>2, <1>3, <1>4, <1>5 DEF Next

-----------------------------------------------------------------------------
(* A node by itself.                                                       *)

(* A node without peers sends nothing, and only ever appends to its log.   *)
SoloInv ==
    /\ messages = {} /\ (Server = {} => applied = {})
    /\ \A i \in Server :
          /\ last_applied[i] <= commit_index[i] /\ commit_index[i] <= Len(log[i])
          /\ \A e \in applied : e.index \in 1..Len(log[i]) /\ e = log[i][e.index]
SoloStable(i) ==
    /\ Len(log[i]) <= Len(log'[i]) /\ \A n \in 1..Len(log[i]) : log'[i][n] = log[i][n]
    /\ commit_index'[i] >= commit_index[i] \/ Restart(i)

(* In a cluster of one, a step that leaves log and commit index alone.     *)
LEMMA SoloSame ==
    ASSUME Inv, SoloInv, messages' = messages, log' = log, commit_index' = commit_index,
           last_applied' = last_applied, applied' = applied
    PROVE  SoloInv' /\ \A i \in Server : SoloStable(i)
  <1>1. \A i \in Server : Len(log[i]) \in Nat /\ commit_index[i] \in Nat
    BY LenProperties DEF Inv, TypeInv, TypeOK
  <1>2. \A i \in Server : Len(log[i]) <= Len(log[i]) /\ commit_index[i] >= commit_index[i]
    BY <1>1, SMT
  <1> QED
    BY <1>2 DEF SoloInv, SoloStable

(* In a cluster of one every step keeps SoloInv: the log only grows, and   *)
(* only a crash lowers the commit index.                                   *)
LEMMA SoloStep ==
    ASSUME Inv, ~Several, SoloInv, [Next]_vars
    PROVE  SoloInv' /\ \A i \in Server : SoloStable(i)
  <1>0. ASSUME NEW i \in Server PROVE Peers(i) = {} /\ Server = {i}
    BY DEF Several, Peers
  <1>1. ASSUME NEW i \in Server
        PROVE  /\ Len(log[i]) \in Nat /\ commit_index[i] \in Nat /\ last_applied[i] \in Nat
               /\ last_applied[i] <= commit_index[i] /\ commit_index[i] <= Len(log[i])
               /\ \A e \in applied : e.index \in 1..Len(log[i]) /\ e = log[i][e.index]
    BY LenProperties DEF SoloInv, Inv, TypeInv, TypeOK
  <1>2. CASE UNCHANGED vars
    BY <1>2, SoloSame DEF vars, logVars, applyVars
  <1>3. ASSUME NEW i \in Server, TickLeader(i) \/ TickElection(i) \/ BecomeCandidate(i)
        PROVE  SoloInv' /\ \A k \in Server : SoloStable(k)
    <2>1. log' = log /\ commit_index' = commit_index /\ last_applied' = last_applied
          /\ applied' = applied
      BY <1>3 DEF TickLeader, TickElection, BecomeCandidate, logVars, applyVars
    <2>2. /\ \A term, next, commit :
                BroadcastAppendEntries(i, term, log[i], next, commit) = {}
          /\ \A term : RequestVotes(i, term, log[i]) = {}
      BY <1>0 DEF BroadcastAppendEntries, RequestVotes
    <2>3. messages' = messages
      BY <1>3, <2>2 DEF TickLeader, TickElection, BecomeCandidate, BecomeLeader, Send
    <2> QED
      BY <2>1, <2>3, SoloSame
  <1>4. ASSUME NEW i \in Server, TakeCommitted(i)
        PROVE  SoloInv' /\ \A k \in Server : SoloStable(k)
    <2>1. /\ messages' = messages /\ log' = log /\ commit_index' = commit_index
          /\ last_applied' = [last_applied EXCEPT ![i] = commit_index[i]]
          /\ applied' = applied \cup {log[i][n] : n \in (last_applied[i] + 1)..commit_index[i]}
      BY <1>4 DEF TakeCommitted, logVars
    <2>2. last_applied'[i] = commit_index[i]
      BY <2>1 DEF Inv, TypeInv, TypeOK
    <2>3. ASSUME NEW n \in (last_applied[i] + 1)..commit_index[i]
          PROVE  n \in 1..Len(log[i]) /\ log[i][n].index = n
      <3>1. n \in 1..Len(log[i])
        BY <1>1, SMT
      <3>2. log[i][n].index = 0 + n
        BY <3>1 DEF Inv, TypeInv, EntriesInPlace, InPlace
      <3> QED
        BY <3>1, <3>2, SMT
    <2>4. \A e \in applied' : e.index \in 1..Len(log[i]) /\ e = log[i][e.index]
      BY <1>1, <2>1, <2>3, SMT
    <2>5. Len(log[i]) <= Len(log[i]) /\ commit_index[i] <= commit_index[i]
      BY <1>1, SMT
    <2> QED
      BY <1>0, <1>1, <2>1, <2>2, <2>4, <2>5, SMT DEF SoloInv, SoloStable
  <1>5. ASSUME NEW i \in Server, Restart(i)
        PROVE  SoloInv' /\ \A k \in Server : SoloStable(k)
    <2>1. messages' = messages /\ log' = log /\ applied' = applied
          /\ commit_index'[i] = 0 /\ last_applied'[i] = 0
      BY <1>5 DEF Restart, Inv, TypeInv, TypeOK
    <2>2. 0 <= Len(log[i]) /\ Len(log[i]) <= Len(log[i])
      BY <1>1, SMT
    <2> QED
      BY <1>0, <1>1, <1>5, <2>1, <2>2, SMT DEF SoloInv, SoloStable
  <1>6. ASSUME NEW i \in Server, NEW data \in Value, Propose(i, data)
        PROVE  SoloInv' /\ \A k \in Server : SoloStable(k)
    <2>1. PICK L : TRUE
      OBVIOUS
    <2>2. Proposed(L, [L EXCEPT ![current_term[i]] = log'[i]], i)
      BY <1>6, ProposedByCall
    <2>3. /\ log'[i] \in Seq(LogEntry) /\ Len(log'[i]) = Len(log[i]) + 1
          /\ \A n \in 1..Len(log[i]) : log'[i][n] = log[i][n]
          /\ commit_index'[i] =
                MaybeCommit(i, log'[i], current_term[i], match_index[i], commit_index[i])
          /\ messages' = messages /\ last_applied' = last_applied /\ applied' = applied
      BY <2>2 DEF Proposed
    <2>4. /\ commit_index'[i] \in Nat /\ commit_index'[i] >= commit_index[i]
          /\ commit_index'[i] # commit_index[i] =>
                commit_index'[i] \in (commit_index[i] + 1)..Len(log'[i])
      BY <1>1, <2>3, MaybeCommitType, SMT
    <2>5. /\ last_applied[i] <= commit_index'[i] /\ commit_index'[i] <= Len(log'[i])
          /\ Len(log[i]) <= Len(log'[i]) /\ \A n \in 1..Len(log[i]) : n \in 1..Len(log'[i])
      <3>1. Len(log'[i]) = Len(log[i]) + 1
        BY <2>3
      <3> QED
        BY <1>1, <2>4, <3>1, SMT
    <2>6. \A e \in applied : e.index \in 1..Len(log'[i]) /\ e = log'[i][e.index]
      BY <1>1, <2>3, <2>5
    <2> QED
      BY <1>0, <2>3, <2>4, <2>5, <2>6, SMT DEF SoloInv, SoloStable
  <1>7. messages = {}
    BY DEF SoloInv
  <1> QED
    BY <1>2, <1>3, <1>4, <1>5, <1>6, <1>7 DEF Next

-----------------------------------------------------------------------------
(* The invariant.                                                          *)

SafeInv == /\ Several => \E L : Replicated(L) /\ Safe(L)
           /\ ~Several => SoloInv

(* At the start nothing is sent, led or committed.                         *)
LEMMA SafeInvInit == Init => SafeInv
  <1> SUFFICES ASSUME Init PROVE SafeInv
    OBVIOUS
  <1>1. /\ \A i \in Server : /\ role[i] = "Follower" /\ log[i] = << >>
                             /\ commit_index[i] = 0 /\ last_applied[i] = 0
        /\ \A type : Sent(type) = {}
        /\ messages = {} /\ applied = {}
    BY DEF Init, Sent
  <1>2. ASSUME Several PROVE \E L : Replicated(L) /\ Safe(L)
    <2>1. PICK L : LeaderLogs(L)
      BY <1>2, LogInvInit DEF LogInv
    <2>2. AcksTrue(L) /\ MatchAcked /\ RequestsTrue
      BY <1>1 DEF AcksTrue, MatchAcked, RequestsTrue
    <2>3. \A t, k, j : ~Has(j, t, k) /\ ~Led(t)
      BY <1>1 DEF Has, Acked, LedBy, Led
    <2>4. HoldersAgree(L) /\ LeadersAgree(L) /\ VotersAgree(L)
      BY <2>3 DEF HoldersAgree, LeadersAgree, VotersAgree
    <2>5. Safe(L)
      BY <1>1, SMT DEF Safe, SafeUpTo
    <2> QED
      BY <2>1, <2>2, <2>4, <2>5 DEF Replicated
  <1>3. SoloInv
    BY <1>1, SMT DEF SoloInv
  <1> QED
    BY <1>2, <1>3 DEF SafeInv

(* Every step keeps it.                                                    *)
LEMMA SafeInvNext == Inv /\ SafeInv /\ [Next]_vars => SafeInv'
  <1> SUFFICES ASSUME Inv, SafeInv, [Next]_vars PROVE SafeInv'
    OBVIOUS
  <1>1. ASSUME Several PROVE \E M : Replicated(M)' /\ Safe(M)'
    <2>1. PICK L : Replicated(L) /\ Safe(L)
      BY <1>1 DEF SafeInv
    <2>2. Inv'
      BY <1>1, <2>1, EveryStep
    <2>3. PICK M : Advances(L, M)
      BY <1>1, <2>1, EveryStep
    <2>4. Replicated(M)'
      BY <2>1, <2>2, <2>3, ReplicatedStep DEF Advances
    <2>5. Safe(M)'
      BY <2>1, <2>2, <2>3, SafeStep DEF Advances
    <2> QED
      BY <2>4, <2>5
  <1>2. ASSUME ~Several PROVE SoloInv'
    BY <1>2, SoloStep DEF SafeInv
  <1> QED
    BY <1>1, <1>2 DEF SafeInv, Several

-----------------------------------------------------------------------------
(* What follows from it.                                                   *)

(* A leader has what is committed in its term and before.                  *)
LEMMA LeaderHas ==
    ASSUME Inv, NEW L, Replicated(L), NEW i \in Server, role[i] = "Leader",
           NEW t \in Nat, NEW k \in Nat, Decided(L, t, k), t <= current_term[i]
    PROVE  AgreeTo(log[i], L[t], k)
  <1>1. LeaderLogs(L) /\ LeadersAgree(L) /\ Viable(L, t, k)
    BY DecidedIsViable DEF Replicated
  <1>2. L[current_term[i]] = log[i] /\ LedBy(i, current_term[i])
    BY <1>1 DEF LeaderLogs
  <1>3. current_term[i] \in Nat /\ log[i] \in Seq(LogEntry)
    BY DEF Inv, TypeInv, TypeOK
  <1>4. CASE t = current_term[i]
    <2>1. k \in 1..Len(log[i])
      BY <1>2, <1>4 DEF Decided, Own
    <2>2. Len(log[i]) \in Nat
      BY <1>3, LenProperties
    <2>3. k <= Len(log[i])
      BY <2>1, <2>2, SMT
    <2> QED
      BY <1>2, <1>3, <1>4, <2>3, AgreeSelf
  <1>5. CASE t < current_term[i]
    <2>1. Led(current_term[i])
      BY <1>2 DEF LedBy, Led
    <2> QED
      BY <1>1, <1>2, <1>3, <1>5, <2>1 DEF LeadersAgree
  <1>6. t = current_term[i] \/ t < current_term[i]
    BY <1>3, SMT
  <1> QED
    BY <1>4, <1>5, <1>6

(* Two committed entries are of one log.                                   *)
LEMMA DecidedAgree ==
    ASSUME NEW L, Replicated(L), NEW t \in Nat, NEW k \in Nat, Decided(L, t, k),
           NEW u \in Nat, NEW l \in Nat, Decided(L, u, l), t <= u,
           NEW n \in 1..k
    PROVE  L[t][n] = L[u][n]
  <1>1. LeaderLogs(L) /\ LeadersAgree(L) /\ Viable(L, t, k)
    BY DecidedIsViable DEF Replicated
  <1>2. CASE t = u
    BY <1>2
  <1>3. CASE t < u
    <2>1. l \in 1..Len(L[u])
      BY DEF Decided, Own
    <2>2. Len(L[u]) \in Nat
      BY <1>1, LenProperties DEF LeaderLogs
    <2>3. Len(L[u]) > 0
      BY <2>1, <2>2, SMT
    <2>4. Led(u)
      BY <1>1, <2>3 DEF LeaderLogs
    <2>5. AgreeTo(L[u], L[t], k)
      BY <1>1, <1>3, <2>4 DEF LeadersAgree
    <2> QED
      BY <2>5 DEF AgreeTo
  <1> QED
    BY <1>2, <1>3, SMT

(* Somebody has reached the term of what is committed.                     *)
LEMMA DecidedReached ==
    ASSUME Inv, NEW L, Replicated(L), NEW t \in Nat, NEW k \in Nat, Decided(L, t, k)
    PROVE  \E j \in Server : t <= current_term[j]
  <1>1. PICK Q \in Quorum : \A j \in Q : Has(j, t, k)
    BY DEF Decided
  <1>2. PICK j \in Server : j \in Q
    BY QuorumsMeet
  <1>3. AcksTrue(L)
    BY DEF Replicated
  <1>4. current_term[j] >= t /\ current_term[j] \in Nat
    BY <1>1, <1>2, <1>3, HasReached DEF Inv, TypeInv, TypeOK
  <1> QED
    BY <1>4

(* Nothing is committed that is not in the log.                            *)
LEMMA CommitWithin ==
    ASSUME Inv, SafeInv
    PROVE  CommitWithinLog
  <1>1. CASE Several
    <2>1. PICK L : Safe(L)
      BY <1>1 DEF SafeInv
    <2>2. ASSUME NEW i \in Server
          PROVE  last_applied[i] <= commit_index[i] /\ commit_index[i] <= Len(log[i])
      <3>1. commit_index[i] \in Nat /\ log[i] \in Seq(LogEntry)
        BY DEF Inv, TypeInv, TypeOK
      <3>2. /\ last_applied[i] <= commit_index[i]
            /\ SafeUpTo(L, log[i], commit_index[i], current_term[i])
        BY <2>1 DEF Safe
      <3> QED
        BY <3>1, <3>2, SafeWithin
    <2> QED
      BY <2>2 DEF CommitWithinLog, LastIndex
  <1>2. CASE ~Several
    BY <1>2 DEF SafeInv, SoloInv, CommitWithinLog, LastIndex
  <1> QED
    BY <1>1, <1>2

(* TakeCommitted and ApplyCommitted read log_ up to the commit index       *)
(* without a bounds check, and need none: for any number of nodes and any  *)
(* loss, duplication, reordering and restarts no truncation leaves the     *)
(* commit index past the end of the log, or the apply cursor past it.      *)
THEOREM CommitsStayWithinLog == Spec => []CommitWithinLog
  <1>1. Inv /\ SafeInv => CommitWithinLog
    BY CommitWithin
  <1> QED
    BY <1>1, InvInit, InvNext, SafeInvInit, SafeInvNext, PTL DEF Spec

(* No AppendEntries announces a commit index beyond what it carries, which *)
(* is what lets HandleAppendEntries commit up to its own last index.       *)
THEOREM CommitsStayWithinMessages == Spec => []CommitWithinMessage
  <1>1. Inv /\ SafeInv => CommitWithinMessage
    BY DEF SafeInv, Safe, SoloInv, CommitWithinMessage, Sent
  <1> QED
    BY <1>1, InvInit, InvNext, SafeInvInit, SafeInvNext, PTL DEF Spec

(* What a leader counts as replicated is, whatever order responses were    *)
(* delivered in (HandleAppendEntriesResp).                                 *)
THEOREM MatchIsAlwaysReplicated == Spec => []MatchIsReplicated
  <1>1. Inv /\ SafeInv => MatchIsReplicated
    <2> SUFFICES ASSUME Inv, SafeInv, NEW i \in Server, NEW j \in Peers(i), role[i] = "Leader",
                        current_term[j] = current_term[i]
                 PROVE  LET n == match_index[i][j]
                        IN  n <= Len(log[j]) /\ SubSeq(log[j], 1, n) = SubSeq(log[i], 1, n)
      BY DEF MatchIsReplicated, LastIndex
    <2> DEFINE n == match_index[i][j]
               t == current_term[i]
    <2>0. j \in Server /\ j # i
      BY DEF Peers
    <2>1. PICK L : Replicated(L)
      BY <2>0 DEF SafeInv, Several
    <2>2. LeaderLogs(L) /\ AcksTrue(L) /\ MatchAcked
      BY <2>1 DEF Replicated
    <2>3. /\ n \in Nat /\ log[i] \in Seq(LogEntry) /\ log[j] \in Seq(LogEntry)
      BY <2>0 DEF Inv, TypeInv, TypeOK
    <2>4. Len(log[i]) \in Nat /\ Len(log[j]) \in Nat
      BY <2>3, LenProperties
    <2>5. L[t] = log[i]
      BY <2>2 DEF LeaderLogs
    <2>6. n = 0 \/ Acked(j, t, n)
      BY <2>2 DEF MatchAcked
    <2>7. current_term[j] = t
      OBVIOUS
    <2> HIDE DEF n, t
    <2>8. AgreeTo(log[j], log[i], n)
      <3>1. CASE n = 0
        BY <2>4, <3>1, SMT DEF AgreeTo
      <3>2. CASE Acked(j, t, n)
        <4>1. PICK m \in Sent("AppendEntriesResp") :
                  m.success /\ m.from = j /\ m.term = t /\ m.match_index >= n
          BY <3>2 DEF Acked
        <4>2. AgreeTo(log[j], log[i], m.match_index)
          BY <2>2, <2>5, <2>7, <4>1 DEF AcksTrue
        <4>3. m.match_index \in Nat
          BY MessageKinds DEF Sent, Inv, TypeInv, TypeOK, AppendEntriesResp
        <4>4. n <= m.match_index
          BY <2>3, <4>1, <4>3
        <4> QED
          BY <2>3, <4>2, <4>3, <4>4, AgreeLess
      <3> QED
        BY <2>6, <3>1, <3>2
    <2>9. n <= Len(log[j]) /\ SubSeq(log[j], 1, n) = SubSeq(log[i], 1, n)
      BY <2>3, <2>8, AgreeSubSeq DEF AgreeTo
    <2> QED
      BY <2>9 DEF n
  <1> QED
    BY <1>1, InvInit, InvNext, SafeInvInit, SafeInvNext, PTL DEF Spec

(* A leader holds everything a node of its term or an earlier one counts   *)
(* as committed (the up-to-date check of HandleRequestVote and the current *)
(* term rule of MaybeCommit together).                                     *)
THEOREM LeadersAreComplete == Spec => []LeaderCompleteness
  <1>1. Inv /\ SafeInv => LeaderCompleteness
    <2> SUFFICES ASSUME Inv, SafeInv, NEW i \in Server, NEW j \in Server, role[i] = "Leader",
                        current_term[j] <= current_term[i]
                 PROVE  /\ commit_index[j] <= Len(log[i])
                        /\ SubSeq(log[i], 1, commit_index[j]) = SubSeq(log[j], 1, commit_index[j])
      BY DEF LeaderCompleteness, LastIndex
    <2> DEFINE n == commit_index[j]
    <2>1. CASE i = j
      <3>1. commit_index[j] <= Len(log[j])
        BY CommitWithin DEF CommitWithinLog, LastIndex
      <3> QED
        BY <2>1, <3>1
    <2>2. CASE i # j
      <3>1. PICK L : Replicated(L) /\ Safe(L)
        BY <2>2 DEF SafeInv, Several
      <3>2. SafeUpTo(L, log[j], n, current_term[j])
        BY <3>1 DEF Safe
      <3>3. /\ n \in Nat /\ log[i] \in Seq(LogEntry) /\ log[j] \in Seq(LogEntry)
            /\ L \in [Nat -> Seq(LogEntry)]
        BY <3>1 DEF Inv, TypeInv, TypeOK, Replicated, LeaderLogs
      <3>4. current_term[i] \in Nat /\ current_term[j] \in Nat
        BY DEF Inv, TypeInv, TypeOK
      <3>5. Len(log[i]) \in Nat /\ Len(log[j]) \in Nat
        BY <3>3, LenProperties
      <3> HIDE DEF n
      <3>6. AgreeTo(log[i], log[j], n)
        <4>1. CASE n = 0
          BY <3>5, <4>1, SMT DEF AgreeTo
        <4>2. CASE n # 0
          <5>1. PICK t, k \in Nat : /\ t <= current_term[j] /\ n <= k
                                    /\ Decided(L, t, k) /\ AgreeTo(log[j], L[t], n)
            BY <3>2, <4>2 DEF SafeUpTo
          <5>2. t <= current_term[i]
            BY <3>4, <5>1, SMT
          <5>3. AgreeTo(log[i], L[t], k)
            BY <3>1, <5>1, <5>2, LeaderHas
          <5>4. AgreeTo(L[t], log[i], k) /\ L[t] \in Seq(LogEntry)
            BY <3>3, <5>3, AgreeSym
          <5>5. AgreeTo(log[j], log[i], n)
            BY <3>3, <5>1, <5>4, AgreeTrans
          <5> QED
            BY <5>5, AgreeSym
        <4> QED
          BY <4>1, <4>2
      <3>7. n <= Len(log[i]) /\ SubSeq(log[i], 1, n) = SubSeq(log[j], 1, n)
        BY <3>3, <3>6, AgreeSubSeq DEF AgreeTo
      <3> QED
        BY <3>7 DEF n
    <2> QED
      BY <2>1, <2>2
  <1> QED
    BY <1>1, InvInit, InvNext, SafeInvInit, SafeInvNext, PTL DEF Spec

(* An entry handed to a state machine is never lost and never contradicted *)
(* (UpToDate, MaybeCommit): TakeCommitted gives every caller, at every     *)
(* restart, the same entry at an index, and whoever leads the highest term *)
(* has them all.                                                           *)
THEOREM StateMachinesAreSafe == Spec => []StateMachineSafety
  <1>1. Inv /\ SafeInv => StateMachineSafety
    <2> SUFFICES ASSUME Inv, SafeInv PROVE StateMachineSafety
      OBVIOUS
    <2>1. CASE Several
      <3>1. PICK L : Replicated(L) /\ Safe(L)
        BY <2>1 DEF SafeInv
      <3>2. ASSUME NEW e \in applied
            PROVE  \E t, k \in Nat :
                      Decided(L, t, k) /\ e.index \in 1..k /\ e = L[t][e.index]
        BY <3>1 DEF Safe
      <3>3. ASSUME NEW a \in applied, NEW b \in applied, a.index = b.index PROVE a = b
        <4>1. PICK t, k \in Nat : Decided(L, t, k) /\ a.index \in 1..k /\ a = L[t][a.index]
          BY <3>2
        <4>2. PICK u, l \in Nat : Decided(L, u, l) /\ b.index \in 1..l /\ b = L[u][b.index]
          BY <3>2
        <4>0. \A n \in 1..k : t <= u => L[t][n] = L[u][n]
          BY <3>1, <4>1, <4>2, DecidedAgree, SMT
        <4>6. \A n \in 1..l : u <= t => L[u][n] = L[t][n]
          BY <3>1, <4>1, <4>2, DecidedAgree, SMT
        <4>3. CASE t <= u
          <5>1. L[t][a.index] = L[u][a.index]
            BY <4>0, <4>1, <4>3
          <5> QED
            BY <3>3, <4>1, <4>2, <5>1
        <4>4. CASE u <= t
          <5>1. L[u][b.index] = L[t][b.index]
            BY <4>2, <4>4, <4>6
          <5> QED
            BY <3>3, <4>1, <4>2, <5>1
        <4>5. t <= u \/ u <= t
          BY SMT
        <4> QED
          BY <4>3, <4>4, <4>5
      <3>4. ASSUME NEW i \in Server, role[i] = "Leader",
                   \A j \in Server : current_term[j] <= current_term[i], NEW e \in applied
            PROVE  e.index <= Len(log[i]) /\ log[i][e.index] = e
        <4>1. PICK t, k \in Nat : Decided(L, t, k) /\ e.index \in 1..k /\ e = L[t][e.index]
          BY <3>2
        <4>2. PICK j \in Server : t <= current_term[j]
          BY <3>1, <4>1, DecidedReached
        <4>3. current_term[i] \in Nat /\ current_term[j] \in Nat
              /\ current_term[j] <= current_term[i]
          BY <3>4 DEF Inv, TypeInv, TypeOK
        <4>4. t <= current_term[i]
          BY <4>2, <4>3, SMT
        <4>5. AgreeTo(log[i], L[t], k)
          BY <3>1, <3>4, <4>1, <4>4, LeaderHas
        <4>6. k <= Len(log[i]) /\ log[i][e.index] = L[t][e.index]
          BY <4>1, <4>5 DEF AgreeTo
        <4>7. Len(log[i]) \in Nat
          BY LenProperties DEF Inv, TypeInv, TypeOK
        <4>8. e.index <= Len(log[i])
          BY <4>1, <4>6, <4>7, SMT
        <4> QED
          BY <4>1, <4>6, <4>8
      <3> QED
        BY <3>3, <3>4 DEF StateMachineSafety, LastIndex
    <2>2. CASE ~Several
      <3>1. SoloInv
        BY <2>2 DEF SafeInv
      <3>2. ASSUME NEW i \in Server, NEW e \in applied
            PROVE  e.index <= Len(log[i]) /\ log[i][e.index] = e
        <4>1. e.index \in 1..Len(log[i]) /\ e = log[i][e.index]
          BY <3>1 DEF SoloInv
        <4>2. Len(log[i]) \in Nat
          BY LenProperties DEF Inv, TypeInv, TypeOK
        <4> QED
          BY <4>1, <4>2, SMT
      <3>3. ASSUME NEW a \in applied, NEW b \in applied, a.index = b.index PROVE a = b
        <4>1. PICK i \in Server : TRUE
          BY <3>1 DEF SoloInv
        <4> QED
          BY <3>2, <3>3
      <3> QED
        BY <3>2, <3>3 DEF StateMachineSafety, LastIndex
    <2> QED
      BY <2>1, <2>2
  <1> QED
    BY <1>1, InvInit, InvNext, SafeInvInit, SafeInvNext, PTL DEF Spec

(* What a step keeps of what node i has committed.                         *)
KeepsCommitted(i) ==
    /\ commit_index[i] <= LastIndex(log'[i])
    /\ SubSeq(log'[i], 1, commit_index[i]) = SubSeq(log[i], 1, commit_index[i])
    /\ commit_index'[i] >= commit_index[i] \/ Restart(i)

(* Every step keeps what each node has committed.                          *)
LEMMA CommittedStep == Inv /\ SafeInv /\ [Next]_vars => \A i \in Server : KeepsCommitted(i)
  <1> SUFFICES ASSUME Inv, SafeInv, [Next]_vars, NEW i \in Server PROVE KeepsCommitted(i)
    OBVIOUS
  <1> DEFINE n == commit_index[i]
  <1>0. Inv'
    BY InvNext
  <1>1. n \in Nat /\ log[i] \in Seq(LogEntry) /\ log'[i] \in Seq(LogEntry)
    BY <1>0 DEF Inv, TypeInv, TypeOK
  <1>2. Len(log[i]) \in Nat /\ Len(log'[i]) \in Nat
    BY <1>1, LenProperties
  <1>3. CASE Several
    <2>1. PICK L : Replicated(L) /\ Safe(L)
      BY <1>3 DEF SafeInv
    <2>2. PICK M : Advances(L, M)
      BY <1>3, <2>1, EveryStep
    <2>3. Moves(L, M) /\ Commits(M) /\ LeaderLogs(L) /\ LeadersAgree(L)
      BY <2>1, <2>2 DEF Advances, Replicated
    <2>4. AgreeTo(log'[i], log[i], n)
      <3>1. CASE n = 0
        BY <1>2, <3>1, SMT DEF AgreeTo
      <3>2. CASE n # 0
        <4>1. SafeUpTo(L, log[i], n, current_term[i])
          BY <2>1 DEF Safe
        <4> HIDE DEF n
        <4>2. PICK t, k \in Nat : /\ t <= current_term[i] /\ n <= k
                                  /\ Decided(L, t, k) /\ AgreeTo(log[i], L[t], n)
          BY <3>2, <4>1 DEF SafeUpTo
        <4>3. Viable(L, t, k)
          BY <4>2, DecidedIsViable
        <4>4. AgreeTo(log'[i], L[t], n)
          BY <1>0, <1>1, <2>3, <4>2, <4>3, KeepsViable
        <4> QED
          BY <4>2, <4>4 DEF AgreeTo
      <3> QED
        BY <3>1, <3>2
    <2>5. commit_index'[i] >= n \/ Restart(i)
      <3>1. \/ commit_index'[i] = n \/ Restart(i) \/ commit_index'[i] > n
        BY <2>3 DEF Commits
      <3>2. commit_index'[i] \in Nat
        BY <1>0 DEF Inv, TypeInv, TypeOK
      <3> HIDE DEF n
      <3> QED
        BY <1>1, <3>1, <3>2, SMT
    <2>6. n <= Len(log'[i]) /\ SubSeq(log'[i], 1, n) = SubSeq(log[i], 1, n)
      BY <1>1, <2>4, AgreeSubSeq DEF AgreeTo
    <2> QED
      BY <2>5, <2>6 DEF KeepsCommitted, LastIndex
  <1>4. CASE ~Several
    <2>1. SoloStable(i) /\ n <= Len(log[i])
      BY <1>4, SoloStep DEF SafeInv, SoloInv
    <2>2. /\ Len(log[i]) <= Len(log'[i]) /\ \A l \in 1..Len(log[i]) : log'[i][l] = log[i][l]
          /\ commit_index'[i] >= n \/ Restart(i)
      BY <2>1 DEF SoloStable
    <2>3. n <= Len(log'[i]) /\ \A l \in 1..n : l \in 1..Len(log[i])
      BY <1>1, <1>2, <2>1, <2>2, Within
    <2>4. AgreeTo(log'[i], log[i], n)
      BY <2>1, <2>2, <2>3 DEF AgreeTo
    <2>5. SubSeq(log'[i], 1, n) = SubSeq(log[i], 1, n)
      BY <1>1, <2>4, AgreeSubSeq
    <2> QED
      BY <2>2, <2>3, <2>5 DEF KeepsCommitted, LastIndex
  <1> QED
    BY <1>3, <1>4

(* No call ever rewrites or drops an entry a node has committed, and only  *)
(* a crash lowers its commit index (the append loop, FollowerCommit and    *)
(* MaybeCommit under stale, duplicated and reordered messages).            *)
THEOREM CommittedStaysStable == Spec => CommittedIsStable
  <1>1. Inv /\ SafeInv /\ [Next]_vars => [\A i \in Server : KeepsCommitted(i)]_vars
    BY CommittedStep
  <1>2. [\A i \in Server : KeepsCommitted(i)]_vars
          => [\A i \in Server :
                /\ commit_index[i] <= LastIndex(log'[i])
                /\ SubSeq(log'[i], 1, commit_index[i]) = SubSeq(log[i], 1, commit_index[i])
                /\ commit_index'[i] >= commit_index[i] \/ Restart(i)]_vars
    BY DEF KeepsCommitted
  <1> QED
    BY <1>1, <1>2, InvInit, InvNext, SafeInvInit, SafeInvNext, PTL DEF Spec, CommittedIsStable
=============================================================================
