----------------------- MODULE RaftReplicationProofs -----------------------
(***************************************************************************)
(* What a quorum of Raft may hold stays, for any number of nodes and any   *)
(* loss, duplication, reordering and restarts.                             *)
(*                                                                         *)
(* The argument follows an entry of its leader's own term from the moment  *)
(* it is appended: it is viable as long as a quorum may still come to hold *)
(* it, that is, consists of nodes that hold it or have not passed its      *)
(* term.  Whoever holds a viable entry keeps it, every later leader has    *)
(* it, and no vote elects a candidate that lacks it.  A decided entry is   *)
(* one that a quorum holds, so it is viable for ever.                      *)
(***************************************************************************)
EXTENDS RaftLogProofs

(* Leaves are left to Zenon unless they name another prover.               *)
USE Zenon

Quorum == {Q \in SUBSET Server : Cardinality(Q) >= QuorumSize}

(* Node j has acknowledged the first k entries of term t, or led it.       *)
Acked(j, t, k) ==
    \E m \in Sent("AppendEntriesResp") :
        m.success /\ m.from = j /\ m.term = t /\ m.match_index >= k
Has(j, t, k) == Acked(j, t, k) \/ LedBy(j, t)

Own(L, t, k) == k \in 1..Len(L[t]) /\ L[t][k].term = t
Viable(L, t, k) ==
    Own(L, t, k) /\ \E Q \in Quorum : \A j \in Q : current_term[j] <= t \/ Has(j, t, k)
Decided(L, t, k) ==
    Own(L, t, k) /\ \E Q \in Quorum : \A j \in Q : Has(j, t, k)

(* What nodes hold, acknowledge and count of leaders' logs.                *)
AcksTrue(L) ==
    \A m \in Sent("AppendEntriesResp") : m.success =>
        /\ current_term[m.from] >= m.term
        /\ current_term[m.from] = m.term => AgreeTo(log[m.from], L[m.term], m.match_index)
MatchAcked ==
    \A i \in Server : role[i] = "Leader" =>
        \A j \in Peers(i) :
            match_index[i][j] = 0 \/ Acked(j, current_term[i], match_index[i][j])
HoldersAgree(L) ==
    \A t, k \in Nat, j \in Server :
        Viable(L, t, k) /\ Has(j, t, k) => AgreeTo(log[j], L[t], k)
LeadersAgree(L) ==
    \A t, u, k \in Nat : t < u /\ Led(u) /\ Viable(L, t, k) => AgreeTo(L[u], L[t], k)

(* What candidates say of their logs, and what a vote says of them.        *)
NewerTo(s, t, k) == LastTerm(s) > t \/ (LastTerm(s) = t /\ Len(s) >= k)
RequestsTrue ==
    /\ \A m \in Sent("RequestVote") :
          /\ current_term[m.from] >= m.term
          /\ role[m.from] = "Candidate" /\ current_term[m.from] = m.term =>
                /\ m.last_log_index = LastIndex(log[m.from])
                /\ m.last_log_term = LastTerm(log[m.from])
    /\ \A m \in Sent("RequestVoteResp") : m.vote_granted => current_term[m.to] >= m.term
VotersAgree(L) ==
    \A c, j \in Server, t, k \in Nat :
        /\ role[c] = "Candidate" /\ Granted(j, c, current_term[c]) /\ t < current_term[c]
        /\ Viable(L, t, k) /\ Has(j, t, k)
        => NewerTo(log[c], t, k)

Replicated(L) ==
    /\ LeaderLogs(L) /\ AcksTrue(L) /\ MatchAcked /\ HoldersAgree(L) /\ LeadersAgree(L)
    /\ RequestsTrue /\ VotersAgree(L)

-----------------------------------------------------------------------------
(* Agreement.                                                              *)

(* Agreement is symmetric, transitive and holds of every shorter prefix.   *)
LEMMA AgreeSym ==
    ASSUME NEW r, NEW s, NEW n, AgreeTo(r, s, n)
    PROVE  AgreeTo(s, r, n)
  BY DEF AgreeTo

(* Sequences that agree up to k agree up to every smaller bound.           *)
LEMMA AgreeLess ==
    ASSUME NEW r \in Seq(LogEntry), NEW s \in Seq(LogEntry), NEW n \in Nat, NEW k \in Nat,
           AgreeTo(r, s, k), n <= k
    PROVE  AgreeTo(r, s, n)
  <1>1. Len(r) \in Nat /\ Len(s) \in Nat
    BY LenProperties
  <1>2. k <= Len(r) /\ k <= Len(s) /\ \A l \in 1..k : r[l] = s[l]
    BY DEF AgreeTo
  <1>3. n <= Len(r) /\ n <= Len(s) /\ \A l \in 1..n : l \in 1..k
    BY <1>1, <1>2, Within
  <1> QED
    BY <1>2, <1>3 DEF AgreeTo

(* Agreement up to a bound carries over through a third sequence.          *)
LEMMA AgreeTrans ==
    ASSUME NEW r \in Seq(LogEntry), NEW s \in Seq(LogEntry), NEW q \in Seq(LogEntry),
           NEW n \in Nat, NEW k \in Nat, AgreeTo(r, s, n), AgreeTo(s, q, k), n <= k
    PROVE  AgreeTo(r, q, n)
  <1>1. AgreeTo(s, q, n)
    BY AgreeLess
  <1> QED
    BY <1>1 DEF AgreeTo

(* A log agrees with itself.                                               *)
LEMMA AgreeSelf ==
    ASSUME NEW s \in Seq(LogEntry), NEW n, n <= Len(s)
    PROVE  AgreeTo(s, s, n)
  BY DEF AgreeTo

(* So do two logs that have grown.                                         *)
LEMMA GrowsBoth ==
    ASSUME NEW L \in [Nat -> Seq(LogEntry)], NEW M \in [Nat -> Seq(LogEntry)], Grows(L, M),
           NEW t \in Nat, NEW u \in Nat, NEW n \in Nat, AgreeTo(L[u], L[t], n)
    PROVE  AgreeTo(M[u], M[t], n)
  <1>1. AgreeTo(L[u], M[t], n)
    BY GrowsAgree
  <1>2. AgreeTo(M[t], L[u], n)
    BY <1>1, AgreeSym
  <1>3. AgreeTo(M[t], M[u], n)
    BY <1>2, GrowsAgree
  <1> QED
    BY <1>3, AgreeSym

-----------------------------------------------------------------------------
(* What is viable.                                                         *)

(* Who holds an entry of a term has reached the term.                      *)
LEMMA HasReached ==
    ASSUME Inv, NEW L, AcksTrue(L), NEW j \in Server, NEW t \in Nat, NEW k \in Nat, Has(j, t, k)
    PROVE  current_term[j] >= t
  <1>1. CASE Acked(j, t, k)
    BY <1>1 DEF Acked, AcksTrue
  <1>2. CASE LedBy(j, t)
    BY <1>2 DEF LedBy, Inv, VotesBackLeaders
  <1> QED
    BY <1>1, <1>2 DEF Has

(* A quorum that holds an entry now or later leaves it viable.             *)
LEMMA DecidedIsViable ==
    ASSUME NEW L, NEW t, NEW k, Decided(L, t, k)
    PROVE  Viable(L, t, k)
  BY DEF Decided, Viable

(* A step, as far as logs and holders are concerned: logs of terms grow,   *)
(* what is sent is of the sender's term and true, a log that changes is    *)
(* made to agree better with that of its node's term, and entries of their *)
(* own term come from a proposal.                                          *)
Retains(L, j) ==
    /\ Led(current_term'[j])
    /\ \A n \in Nat : AgreeTo(log[j], L[current_term'[j]], n)
                         => AgreeTo(log'[j], L[current_term'[j]], n)
Proposes(t) ==
    \E i \in Server : /\ role[i] = "Leader" /\ current_term[i] = t
                      /\ UNCHANGED <<messages, role, current_term>>
Moves(L, M) ==
    /\ M \in [Nat -> Seq(LogEntry)] /\ Grows(L, M) /\ Onward
    /\ messages \subseteq messages'
    /\ \A m \in messages' \ messages :
          /\ m.type = "AppendEntries" =>
                m.term = current_term'[m.from] /\ role'[m.from] = "Leader"
          /\ m.type = "AppendEntriesResp" /\ m.success =>
                /\ m.term = current_term'[m.from]
                /\ AgreeTo(log'[m.from], M[m.term], m.match_index)
    /\ \A j \in Server : log'[j] = log[j] \/ Retains(L, j)
    /\ \A t \in Nat, k \in Nat : Own(M, t, k) => Own(L, t, k) \/ Proposes(t)

(* What a node comes to hold is of its present term.                       *)
LEMMA HasNew ==
    ASSUME Inv, Inv', NEW L, NEW M, Moves(L, M), NEW j \in Server, NEW t \in Nat, NEW k \in Nat,
           Has(j, t, k)', ~Has(j, t, k)
    PROVE  /\ current_term'[j] = t
           /\ \/ role'[j] = "Leader"
              \/ \E n \in Nat : n >= k /\ AgreeTo(log'[j], M[t], n)
  <1>1. CASE Acked(j, t, k)'
    <2>1. PICK m \in Sent("AppendEntriesResp")' :
              m.success /\ m.from = j /\ m.term = t /\ m.match_index >= k
      BY <1>1 DEF Acked
    <2>2. m \notin Sent("AppendEntriesResp")
      BY <2>1 DEF Acked, Has
    <2>3. m \in messages' \ messages /\ m.type = "AppendEntriesResp"
      BY <2>2 DEF Sent
    <2>4. m.match_index \in Nat
      BY <2>3, MessageKinds DEF Inv, TypeInv, TypeOK, AppendEntriesResp
    <2>5. m.term = current_term'[m.from] /\ AgreeTo(log'[m.from], M[m.term], m.match_index)
      BY <2>1, <2>3 DEF Moves
    <2> QED
      BY <2>1, <2>4, <2>5
  <1>2. CASE LedBy(j, t)'
    <2>1. PICK m \in Sent("AppendEntries")' : m.from = j /\ m.term = t
      BY <1>2 DEF LedBy
    <2>2. m \notin Sent("AppendEntries")
      BY <2>1 DEF LedBy, Has
    <2>3. m \in messages' \ messages /\ m.type = "AppendEntries"
      BY <2>2 DEF Sent
    <2>4. m.term = current_term'[m.from] /\ role'[m.from] = "Leader"
      BY <2>3 DEF Moves
    <2> QED
      BY <2>1, <2>4
  <1> QED
    BY <1>1, <1>2 DEF Has

(* What is held stays held.                                                *)
LEMMA HasStays ==
    ASSUME messages \subseteq messages', NEW j, NEW t, NEW k, Has(j, t, k)
    PROVE  Has(j, t, k)'
  <1>1. \A type : Sent(type) \subseteq Sent(type)'
    BY DEF Sent
  <1> QED
    BY <1>1 DEF Has, Acked, LedBy

(* An entry that is viable after a step was viable before it.              *)
LEMMA ViableBefore ==
    ASSUME Inv, Inv', NEW L, NEW M, Moves(L, M), NEW t \in Nat, NEW k \in Nat,
           Viable(M, t, k)', Own(L, t, k)
    PROVE  Viable(L, t, k)
  <1>1. PICK Q \in Quorum : \A j \in Q : current_term'[j] <= t \/ Has(j, t, k)'
    <2>1. \E Q \in Quorum : (\A j \in Q : current_term[j] <= t \/ Has(j, t, k))'
      BY DEF Viable
    <2> QED
      BY <2>1
  <1>2. ASSUME NEW j \in Q PROVE current_term[j] <= t \/ Has(j, t, k)
    <2>1. j \in Server
      BY DEF Quorum
    <2>2. /\ current_term[j] \in Nat /\ current_term'[j] \in Nat
          /\ current_term[j] <= current_term'[j]
      BY <2>1 DEF Inv, TypeInv, TypeOK, Moves, Onward
    <2>3. Has(j, t, k)' /\ ~Has(j, t, k) => current_term'[j] = t
      BY <2>1, HasNew
    <2>4. current_term'[j] <= t => current_term[j] <= t
      BY <2>2, SMT
    <2>5. current_term'[j] = t => current_term[j] <= t
      BY <2>2
    <2> QED
      BY <1>1, <2>3, <2>4, <2>5
  <1> QED
    BY <1>2 DEF Viable

(* Acknowledgements stay true.                                             *)
LEMMA AcksStep ==
    ASSUME Inv, Inv', NEW L, LeaderLogs(L), AcksTrue(L), NEW M, Moves(L, M)
    PROVE  AcksTrue(M)'
  <1> SUFFICES ASSUME NEW m \in Sent("AppendEntriesResp")', m.success
               PROVE  /\ current_term'[m.from] >= m.term
                      /\ current_term'[m.from] = m.term =>
                            AgreeTo(log'[m.from], M[m.term], m.match_index)
    BY DEF AcksTrue
  <1> DEFINE j == m.from
             t == m.term
  <1>1. j \in Server /\ t \in Nat /\ m.match_index \in Nat
    BY MessageKinds, SMT DEF Sent, Inv, TypeInv, TypeOK, AppendEntriesResp
  <1>2. /\ current_term[j] \in Nat /\ current_term'[j] \in Nat
        /\ current_term[j] <= current_term'[j]
    BY <1>1 DEF Inv, TypeInv, TypeOK, Moves, Onward
  <1>3. L \in [Nat -> Seq(LogEntry)] /\ M \in [Nat -> Seq(LogEntry)] /\ Grows(L, M)
    BY DEF LeaderLogs, Moves
  <1> HIDE DEF j, t
  <1>4. CASE m \in Sent("AppendEntriesResp")
    <2>1. /\ current_term[j] >= t
          /\ current_term[j] = t => AgreeTo(log[j], L[t], m.match_index)
      BY <1>4 DEF AcksTrue, j, t
    <2>2. current_term'[j] >= t /\ (current_term'[j] = t => current_term[j] = t)
      BY <1>1, <1>2, <2>1, SMT
    <2>3. ASSUME current_term'[j] = t PROVE AgreeTo(log'[j], M[t], m.match_index)
      <3>1. AgreeTo(log[j], L[t], m.match_index)
        BY <2>1, <2>2, <2>3
      <3>2. AgreeTo(log'[j], L[t], m.match_index)
        BY <1>1, <2>3, <3>1 DEF Moves, Retains
      <3> QED
        BY <1>1, <1>3, <3>2, GrowsAgree
    <2> QED
      BY <2>2, <2>3 DEF j, t
  <1>5. CASE m \notin Sent("AppendEntriesResp")
    <2>1. m \in messages' \ messages /\ m.type = "AppendEntriesResp"
      BY <1>5 DEF Sent
    <2>2. t = current_term'[j] /\ AgreeTo(log'[j], M[t], m.match_index)
      BY <2>1 DEF Moves, j, t
    <2>3. current_term'[j] >= t
      BY <1>2, <2>2, SMT
    <2> QED
      BY <2>2, <2>3 DEF j, t
  <1> QED
    BY <1>4, <1>5

(* What a node has of a viable entry's log it keeps, since the leader of   *)
(* whatever term it is in has it too.                                      *)
LEMMA KeepsViable ==
    ASSUME Inv, Inv', NEW L, LeaderLogs(L), LeadersAgree(L), NEW M, Moves(L, M),
           NEW j \in Server, NEW t \in Nat, NEW k \in Nat, NEW n \in Nat,
           Viable(L, t, k), n <= k, t <= current_term[j], AgreeTo(log[j], L[t], n)
    PROVE  AgreeTo(log'[j], L[t], n)
  <1> DEFINE u == current_term'[j]
  <1>1. CASE log'[j] = log[j]
    BY <1>1
  <1>2. CASE Retains(L, j)
    <2>1. /\ current_term[j] \in Nat /\ u \in Nat /\ current_term[j] <= u
      BY DEF Inv, TypeInv, TypeOK, Moves, Onward
    <2>2. t = u \/ t < u
      BY <2>1, SMT
    <2>3. /\ L[t] \in Seq(LogEntry) /\ L[u] \in Seq(LogEntry) /\ log[j] \in Seq(LogEntry)
          /\ log'[j] \in Seq(LogEntry)
      BY <2>1 DEF LeaderLogs, Inv, TypeInv, TypeOK
    <2>4. Led(u) /\ \A l \in Nat : AgreeTo(log[j], L[u], l) => AgreeTo(log'[j], L[u], l)
      BY <1>2 DEF Retains
    <2> HIDE DEF u
    <2>5. CASE t = u
      BY <2>4, <2>5
    <2>6. CASE t < u
      <3>1. AgreeTo(L[u], L[t], k)
        BY <2>1, <2>4, <2>6 DEF LeadersAgree
      <3>2. AgreeTo(L[t], L[u], k)
        BY <3>1, AgreeSym
      <3>3. AgreeTo(log[j], L[u], n)
        BY <2>3, <3>2, AgreeTrans
      <3>4. AgreeTo(log'[j], L[u], n)
        BY <2>4, <3>3
      <3> QED
        BY <2>3, <3>1, <3>4, AgreeTrans
    <2> QED
      BY <2>2, <2>5, <2>6
  <1> QED
    BY <1>1, <1>2 DEF Moves

(* Nobody but the leader holds what it has just appended.                  *)
LEMMA FreshHolder ==
    ASSUME Inv, NEW L, LeaderLogs(L), NEW M, Moves(L, M), NEW t \in Nat, NEW k \in Nat,
           Own(M, t, k), ~Own(L, t, k), NEW j \in Server, Has(j, t, k)
    PROVE  /\ role[j] = "Leader" /\ current_term[j] = t
           /\ messages' = messages /\ role' = role /\ current_term' = current_term
  <1>1. PICK i \in Server : /\ role[i] = "Leader" /\ current_term[i] = t
                            /\ UNCHANGED <<messages, role, current_term>>
    BY DEF Moves, Proposes
  <1>2. Len(L[t]) \in Nat
    BY LenProperties DEF LeaderLogs
  <1>3. k > Len(L[t])
    <2> SUFFICES ASSUME k \in 1..Len(L[t]) PROVE FALSE
      BY <1>2, SMT DEF Own
    <2>1. L[t][k] = M[t][k]
      BY DEF Moves, Grows, AgreeTo
    <2> QED
      BY <2>1 DEF Own
  <1>4. ~Acked(j, t, k)
    <2> SUFFICES ASSUME NEW m \in Sent("AppendEntriesResp"), m.success, m.term = t,
                        m.match_index >= k
                 PROVE  FALSE
      BY DEF Acked
    <2>1. m.match_index <= Len(L[t])
      BY DEF LeaderLogs
    <2>2. m.match_index \in Nat
      BY MessageKinds DEF Sent, Inv, TypeInv, TypeOK, AppendEntriesResp
    <2> QED
      BY <1>2, <1>3, <2>1, <2>2, SMT
  <1>5. j = i
    <2>1. PICK m \in Sent("AppendEntries") : m.from = j /\ m.term = t
      BY <1>4 DEF Has, LedBy
    <2>2. ElectionSafety
      BY ElectionSafetyFromVotes
    <2> QED
      BY <1>1, <2>1, <2>2 DEF ElectionSafety
  <1> QED
    BY <1>1, <1>5

(* Who holds a viable entry keeps it.                                      *)
LEMMA HoldersStep ==
    ASSUME Inv, Inv', NEW L, Replicated(L), NEW M, LeaderLogs(M)', Moves(L, M)
    PROVE  HoldersAgree(M)'
  <1> SUFFICES ASSUME NEW t \in Nat, NEW k \in Nat, NEW j \in Server,
                      Viable(M, t, k)', Has(j, t, k)'
               PROVE  AgreeTo(log'[j], M[t], k)
    BY DEF HoldersAgree
  <1>0. /\ LeaderLogs(L) /\ AcksTrue(L) /\ HoldersAgree(L) /\ LeadersAgree(L)
        /\ L \in [Nat -> Seq(LogEntry)] /\ M \in [Nat -> Seq(LogEntry)] /\ Grows(L, M)
    BY DEF Replicated, LeaderLogs, Moves
  <1>1. Own(M, t, k)
    BY DEF Viable, Own
  <1>2. Len(M[t]) \in Nat /\ k <= Len(M[t]) /\ M[t] \in Seq(LogEntry)
    <2>1. M[t] \in Seq(LogEntry)
      BY <1>0
    <2>2. Len(M[t]) \in Nat
      BY <2>1, LenProperties
    <2> QED
      BY <1>1, <2>1, <2>2, SMT DEF Own
  <1>3. ASSUME role'[j] = "Leader", current_term'[j] = t
        PROVE  AgreeTo(log'[j], M[t], k)
    <2>1. M[t] = log'[j]
      BY <1>3 DEF LeaderLogs
    <2> QED
      BY <1>2, <2>1, AgreeSelf
  <1>4. CASE Own(L, t, k) /\ Has(j, t, k)
    <2>1. Viable(L, t, k)
      BY <1>4, ViableBefore
    <2>2. current_term[j] >= t
      BY <1>0, <1>4, HasReached
    <2>3. AgreeTo(log[j], L[t], k)
      BY <1>0, <1>4, <2>1 DEF HoldersAgree
    <2>4. t <= current_term[j] /\ k <= k
      BY <2>2, SMT DEF Inv, TypeInv, TypeOK
    <2>5. AgreeTo(log'[j], L[t], k)
      BY <1>0, <2>1, <2>3, <2>4, KeepsViable
    <2> QED
      BY <1>0, <2>5, GrowsAgree
  <1>5. CASE ~Has(j, t, k)
    <2>1. /\ current_term'[j] = t
          /\ \/ role'[j] = "Leader"
             \/ \E n \in Nat : n >= k /\ AgreeTo(log'[j], M[t], n)
      BY <1>5, HasNew, SMT
    <2>2. ASSUME NEW n \in Nat, n >= k, AgreeTo(log'[j], M[t], n)
          PROVE  AgreeTo(log'[j], M[t], k)
      <3>1. k <= n
        BY <2>2
      <3>2. log'[j] \in Seq(LogEntry)
        BY DEF Inv, TypeInv, TypeOK
      <3> QED
        BY <1>2, <2>2, <3>1, <3>2, AgreeLess
    <2> QED
      BY <1>3, <2>1, <2>2
  <1>6. CASE ~Own(L, t, k) /\ Has(j, t, k)
    <2>1. /\ role[j] = "Leader" /\ current_term[j] = t
          /\ role' = role /\ current_term' = current_term
      BY <1>0, <1>1, <1>6, FreshHolder, SMT
    <2> QED
      BY <1>3, <2>1
  <1> QED
    BY <1>4, <1>5, <1>6

-----------------------------------------------------------------------------
(* Elections.                                                              *)

(* A step, as far as votes are concerned: whoever leads campaigned for it, *)
(* who campaigns leaves its log alone, and requests and votes are true.    *)
UpTo(r, s) == LastTerm(r) > LastTerm(s) \/ (LastTerm(r) = LastTerm(s) /\ Len(r) >= Len(s))
Truthful ==
    /\ \A m, n \in messages' \ messages : m.type = n.type
    /\ \A m \in messages' \ messages :
          /\ m.type = "RequestVote" =>
                /\ current_term'[m.from] >= m.term
                /\ role'[m.from] = "Candidate" /\ current_term'[m.from] = m.term =>
                      /\ m.last_log_index = LastIndex(log'[m.from])
                      /\ m.last_log_term = LastTerm(log'[m.from])
          /\ m.type = "RequestVoteResp" /\ m.vote_granted =>
                /\ current_term[m.to] >= m.term
                /\ role[m.to] = "Candidate" /\ current_term[m.to] = m.term =>
                      UpTo(log[m.to], log[m.from])
Campaigns ==
    /\ \A j \in Server :
          /\ role'[j] = "Candidate" =>
                /\ log'[j] = log[j]
                /\ \/ role[j] = "Candidate" /\ current_term'[j] = current_term[j]
                   \/ current_term'[j] > current_term[j]
          /\ role'[j] = "Leader" =>
                /\ current_term'[j] = current_term[j]
                /\ role[j] = "Leader" \/ (role[j] = "Candidate" /\ log'[j] = log[j])
    /\ Truthful

(* Whoever voted in an election has reached its term.                      *)
LEMMA VoterReached ==
    ASSUME Inv, NEW j, NEW c, NEW t, Granted(j, c, t)
    PROVE  current_term[j] >= t
  <1>1. PICK m \in Sent("RequestVoteResp") : m.vote_granted /\ m.from = j /\ m.term = t
    BY SMT DEF Granted, VoteResp, Sent
  <1> QED
    BY <1>1 DEF Inv, VotesBackLeaders

(* A term that has been led was reached by a quorum.                       *)
LEMMA ElectedQuorum ==
    ASSUME Inv, NEW u \in Nat, Led(u)
    PROVE  \E Q \in Quorum : \A j \in Q : current_term[j] >= u
  <1>1. PICK m \in Sent("AppendEntries") : m.term = u
    BY DEF Led
  <1>2. current_term[m.from] >= u /\ Elected(m.from, u)
    BY <1>1 DEF Inv, VotesBackLeaders
  <1>3. PICK Q \in SUBSET Server :
            Cardinality(Q) >= QuorumSize /\ \A j \in Q : j = m.from \/ Granted(j, m.from, u)
    BY <1>2 DEF Elected
  <1>4. \A j \in Q : current_term[j] >= u
    BY <1>2, <1>3, VoterReached
  <1>5. Q \in Quorum
    BY <1>3 DEF Quorum
  <1> QED
    BY <1>4, <1>5

(* Two quorums share a node.                                               *)
LEMMA QuorumsMeet ==
    ASSUME NEW Q \in Quorum, NEW R \in Quorum
    PROVE  \E j \in Server : j \in Q /\ j \in R
  <1>1. /\ Q \in SUBSET Server /\ R \in SUBSET Server
        /\ Cardinality(Q) >= QuorumSize /\ Cardinality(R) >= QuorumSize
    BY DEF Quorum
  <1>2. Q \cap R # {}
    BY <1>1, QuorumsIntersect
  <1> QED
    BY <1>1, <1>2

(* While a leader appends an entry of its term that may still reach a      *)
(* quorum, no later term has been led.                                     *)
LEMMA NoLater ==
    ASSUME Inv, NEW L, LeaderLogs(L), NEW M, Moves(L, M), NEW t \in Nat, NEW k \in Nat,
           Viable(M, t, k)', ~Own(L, t, k), NEW u \in Nat, Led(u), t < u
    PROVE  FALSE
  <1>1. Own(M, t, k) /\ \E Q \in Quorum : \A j \in Q : current_term'[j] <= t \/ Has(j, t, k)'
    BY DEF Viable, Own
  <1>2. PICK Q \in Quorum : \A j \in Q : current_term'[j] <= t \/ Has(j, t, k)'
    BY <1>1
  <1>3. PICK R \in Quorum : \A j \in R : current_term[j] >= u
    BY ElectedQuorum
  <1>4. PICK j \in Server : j \in Q /\ j \in R
    BY QuorumsMeet
  <1>5. messages' = messages /\ current_term' = current_term
    BY <1>1 DEF Moves, Proposes
  <1>6. current_term[j] \in Nat /\ current_term[j] >= u
    BY <1>3, <1>4 DEF Inv, TypeInv, TypeOK
  <1>7. ~(current_term'[j] <= t) /\ current_term[j] # t
    BY <1>5, <1>6, SMT
  <1>8. Has(j, t, k)'
    BY <1>2, <1>4, <1>7
  <1>9. Has(j, t, k)
    BY <1>5, <1>8 DEF Has, Acked, LedBy, Sent
  <1>10. current_term[j] = t
    BY <1>1, <1>9, FreshHolder, SMT
  <1> QED
    BY <1>7, <1>10

(* A log as new as a viable entry has it.                                  *)
LEMMA NewerAgrees ==
    ASSUME NEW L, LeaderLogs(L), LeadersAgree(L), NEW s \in Seq(LogEntry), OfLeaders(L, s),
           NEW t \in Nat, NEW k \in Nat, Viable(L, t, k), NewerTo(s, t, k)
    PROVE  AgreeTo(s, L[t], k)
  <1> DEFINE N == Len(s)
             T == LastTerm(s)
  <1>0. L \in [Nat -> Seq(LogEntry)] /\ L[t] \in Seq(LogEntry)
    BY DEF LeaderLogs
  <1>1. N \in Nat /\ T \in Nat /\ Len(L[t]) \in Nat
    BY <1>0, LenProperties, TermAtType, SMT DEF LastTerm, LastIndex
  <1>2. k \in 1..Len(L[t]) /\ L[t][k].term = t
    BY DEF Viable, Own
  <1>3. T > t \/ (T = t /\ N >= k)
    BY DEF NewerTo
  <1>4. T = IF N \in 1..N THEN s[N].term ELSE 0
    BY DEF LastTerm, TermAt, LastIndex
  <1> HIDE DEF T
  <1>5. N \in 1..N /\ s[N].term = T
    BY <1>1, <1>2, <1>3, <1>4, SMT
  <1>6. AgreeTo(s, L[T], N)
    BY <1>5 DEF OfLeaders
  <1>7. L[T] \in Seq(LogEntry)
    BY <1>0, <1>1
  <1>8. CASE T = t
    <2>1. k <= N
      BY <1>1, <1>3, <1>8, SMT
    <2> QED
      BY <1>0, <1>1, <1>6, <1>8, <2>1, AgreeLess
  <1>9. CASE T > t
    <2>0. Len(L[T]) \in Nat
      BY <1>7, LenProperties
    <2>1. N <= Len(L[T]) /\ s[N] = L[T][N]
      BY <1>5, <1>6 DEF AgreeTo
    <2>2. Len(L[T]) > 0 /\ t < T
      BY <1>1, <1>5, <1>9, <2>0, <2>1, SMT
    <2>3. Led(T)
      BY <1>1, <2>2 DEF LeaderLogs
    <2>4. AgreeTo(L[T], L[t], k)
      BY <1>1, <2>2, <2>3 DEF LeadersAgree
    <2>5. k <= N
      <3> SUFFICES ASSUME N < k PROVE FALSE
        BY <1>1, SMT
      <3>1. k <= Len(L[T]) /\ L[T][k] = L[t][k]
        <4>1. k \in 1..k
          BY <1>2, SMT
        <4> QED
          BY <2>4, <4>1 DEF AgreeTo
      <3>2. k \in 1..Len(L[T]) /\ N \in 1..k
        BY <1>1, <1>2, <1>5, <2>0, <3>1, SMT
      <3>3. L[T][N].term <= L[T][k].term
        BY <1>1, <3>2 DEF LeaderLogs, Sorted
      <3>4. T <= t
        BY <1>2, <1>5, <2>1, <3>1, <3>3
      <3> QED
        BY <1>1, <1>9, <3>4, SMT
    <2>6. AgreeTo(s, L[T], k)
      BY <1>1, <1>6, <1>7, <2>5, AgreeLess
    <2>7. k <= k
      BY SMT
    <2> QED
      BY <1>0, <1>7, <2>4, <2>6, <2>7, AgreeTrans
  <1> QED
    BY <1>3, <1>8, <1>9

(* The leader a step makes has every viable entry: of the quorum that      *)
(* elected it one node is of the quorum that may come to hold the entry,   *)
(* and holds it.                                                           *)
LEMMA NewLeaderAgrees ==
    ASSUME Inv, Inv', NEW L, Replicated(L), NEW M, LeaderLogs(M)', Moves(L, M), Campaigns,
           NEW t \in Nat, NEW k \in Nat, Viable(L, t, k), NEW u \in Nat, t < u,
           Led(u)', ~Led(u)
    PROVE  AgreeTo(M[u], L[t], k)
  <1>0. LeaderLogs(L) /\ HoldersAgree(L) /\ LeadersAgree(L) /\ VotersAgree(L)
    BY DEF Replicated
  <1>1. PICK m \in messages' \ messages : m.type = "AppendEntries" /\ m.term = u
    BY DEF Led, Sent
  <1> DEFINE i == m.from
  <1>2. i \in Server /\ u = current_term'[i] /\ role'[i] = "Leader"
    BY <1>1, MessageKinds DEF Moves, Inv, TypeInv, TypeOK
  <1> HIDE DEF i
  <1>3. M[u] = log'[i]
    BY <1>2 DEF LeaderLogs
  <1>4. current_term[i] = u /\ role[i] = "Candidate" /\ log'[i] = log[i]
    <2>1. current_term[i] = u /\ (role[i] = "Leader" \/ (role[i] = "Candidate" /\ log'[i] = log[i]))
      BY <1>2 DEF Campaigns
    <2>2. role[i] = "Leader" => LedBy(i, current_term[i])
      BY <1>0, <1>2 DEF LeaderLogs
    <2>3. role[i] # "Leader"
      BY <2>1, <2>2 DEF LedBy, Led
    <2> QED
      BY <2>1, <2>3
  <1>5. PICK R \in Quorum : \A j \in R : j = i \/ Granted(j, i, u)
    <2>1. Elected(i, current_term[i])'
      BY <1>2 DEF Inv, VotesBackLeaders
    <2>2. PICK R \in SUBSET Server :
              Cardinality(R) >= QuorumSize
              /\ \A j \in R : j = i \/ VoteResp(j, i, current_term'[i], TRUE) \in messages'
      BY <2>1 DEF Elected, Granted
    <2>3. ASSUME NEW j \in R, j # i PROVE Granted(j, i, u)
      <3>1. VoteResp(j, i, u, TRUE) \in messages'
        BY <1>2, <2>2, <2>3
      <3>2. VoteResp(j, i, u, TRUE).type # "AppendEntries"
        BY DEF VoteResp
      <3>3. VoteResp(j, i, u, TRUE) \in messages
        BY <1>1, <3>1, <3>2 DEF Campaigns, Truthful
      <3> QED
        BY <3>3 DEF Granted
    <2>4. R \in Quorum
      BY <2>2 DEF Quorum
    <2> QED
      BY <2>3, <2>4
  <1>6. PICK Q \in Quorum : \A j \in Q : current_term[j] <= t \/ Has(j, t, k)
    BY DEF Viable
  <1>7. PICK j \in Server : j \in Q /\ j \in R
    BY QuorumsMeet
  <1>8. Has(j, t, k)
    <2>1. current_term[j] >= u
      <3>1. CASE j = i
        BY <1>4, <3>1, SMT
      <3>2. CASE Granted(j, i, u)
        BY <3>2, VoterReached
      <3> QED
        BY <1>5, <1>7, <3>1, <3>2
    <2>2. current_term[j] \in Nat
      BY DEF Inv, TypeInv, TypeOK
    <2>3. ~(current_term[j] <= t)
      BY <2>1, <2>2, SMT
    <2> QED
      BY <1>6, <1>7, <2>3
  <1>9. AgreeTo(log[i], L[t], k)
    <2>1. CASE j = i
      BY <1>0, <1>8, <2>1 DEF HoldersAgree
    <2>2. CASE Granted(j, i, u)
      <3>1. NewerTo(log[i], t, k)
        BY <1>0, <1>2, <1>4, <1>8, <2>2 DEF VotersAgree
      <3>2. OfLeaders(L, log[i])
        BY <1>0, <1>2 DEF LeaderLogs
      <3>3. log[i] \in Seq(LogEntry)
        BY <1>2 DEF Inv, TypeInv, TypeOK
      <3> QED
        BY <1>0, <3>1, <3>2, <3>3, NewerAgrees
    <2> QED
      BY <1>5, <1>7, <2>1, <2>2
  <1> QED
    BY <1>3, <1>4, <1>9

(* Every later leader has a viable entry.                                  *)
LEMMA LeadersAgreeStep ==
    ASSUME Inv, Inv', NEW L, Replicated(L), NEW M, LeaderLogs(M)', Moves(L, M), Campaigns
    PROVE  LeadersAgree(M)'
  <1> SUFFICES ASSUME NEW t \in Nat, NEW u \in Nat, NEW k \in Nat,
                      t < u, Led(u)', Viable(M, t, k)'
               PROVE  AgreeTo(M[u], M[t], k)
    BY DEF LeadersAgree
  <1>0. /\ LeaderLogs(L) /\ LeadersAgree(L)
        /\ L \in [Nat -> Seq(LogEntry)] /\ M \in [Nat -> Seq(LogEntry)] /\ Grows(L, M)
    BY DEF Replicated, LeaderLogs, Moves
  <1>1. CASE Led(u) /\ Own(L, t, k)
    <2>1. Viable(L, t, k)
      BY <1>1, ViableBefore
    <2>2. AgreeTo(L[u], L[t], k)
      BY <1>0, <1>1, <2>1 DEF LeadersAgree
    <2> QED
      BY <1>0, <2>2, GrowsBoth
  <1>2. CASE Led(u) /\ ~Own(L, t, k)
    BY <1>0, <1>2, NoLater
  <1>3. CASE ~Led(u)
    <2>1. messages' # messages
      BY <1>3 DEF Led, Sent
    <2>2. Own(M, t, k)
      BY DEF Viable, Own
    <2>3. Own(L, t, k)
      BY <2>1, <2>2 DEF Moves, Proposes
    <2>4. Viable(L, t, k)
      BY <2>3, ViableBefore
    <2>5. AgreeTo(M[u], L[t], k)
      BY <1>3, <2>4, NewLeaderAgrees
    <2> QED
      BY <1>0, <2>5, GrowsAgree
  <1> QED
    BY <1>1, <1>2, <1>3

(* Requests and votes stay true.                                           *)
LEMMA RequestsStep ==
    ASSUME Inv, Inv', RequestsTrue, Onward, Campaigns
    PROVE  RequestsTrue'
  <1>0. /\ \A j \in Server : /\ current_term[j] \in Nat /\ current_term'[j] \in Nat
                             /\ current_term'[j] >= current_term[j]
        /\ \A m \in messages' : m.from \in Server /\ m.to \in Server /\ m.term \in Nat
    BY MessageKinds DEF Inv, TypeInv, TypeOK, Onward
  <1>1. ASSUME NEW m \in Sent("RequestVote")'
        PROVE  /\ current_term'[m.from] >= m.term
               /\ role'[m.from] = "Candidate" /\ current_term'[m.from] = m.term =>
                     /\ m.last_log_index = LastIndex(log'[m.from])
                     /\ m.last_log_term = LastTerm(log'[m.from])
    <2>0. m.from \in Server /\ m.term \in Nat
      BY <1>0 DEF Sent
    <2>1. CASE m \in Sent("RequestVote")
      <3>1. /\ current_term[m.from] >= m.term
            /\ role[m.from] = "Candidate" /\ current_term[m.from] = m.term =>
                  /\ m.last_log_index = LastIndex(log[m.from])
                  /\ m.last_log_term = LastTerm(log[m.from])
        BY <2>1 DEF RequestsTrue
      <3>2. role'[m.from] = "Candidate" =>
                /\ log'[m.from] = log[m.from]
                /\ \/ role[m.from] = "Candidate" /\ current_term'[m.from] = current_term[m.from]
                   \/ current_term'[m.from] > current_term[m.from]
        BY <2>0 DEF Campaigns
      <3>3. /\ current_term[m.from] \in Nat /\ current_term'[m.from] \in Nat
            /\ current_term'[m.from] >= current_term[m.from]
        BY <1>0, <2>0
      <3> QED
        BY <2>0, <3>1, <3>2, <3>3, SMT
    <2>2. CASE m \notin Sent("RequestVote")
      BY <2>2 DEF Sent, Campaigns, Truthful
    <2> QED
      BY <2>1, <2>2
  <1>2. ASSUME NEW m \in Sent("RequestVoteResp")', m.vote_granted
        PROVE  current_term'[m.to] >= m.term
    <2>0. m.to \in Server /\ m.term \in Nat
      BY <1>0 DEF Sent
    <2>1. current_term[m.to] >= m.term
      BY <1>2 DEF Sent, Campaigns, RequestsTrue, Truthful
    <2> QED
      BY <1>0, <2>0, <2>1, SMT
  <1> QED
    BY <1>1, <1>2 DEF RequestsTrue

(* A log that has an entry of a term is as new as it.                      *)
LEMMA AgreesNewer ==
    ASSUME NEW L, LeaderLogs(L), NEW s \in Seq(LogEntry), OfLeaders(L, s),
           NEW u \in Nat, \A n \in 1..Len(s) : s[n].term <= u,
           NEW t \in Nat, NEW k \in Nat, Own(L, t, k), AgreeTo(s, L[t], k),
           NEW r \in Seq(LogEntry), UpTo(r, s)
    PROVE  NewerTo(r, t, k)
  <1>1. /\ Len(s) \in Nat /\ LastTerm(s) \in Nat /\ Len(L[t]) \in Nat
        /\ Len(r) \in Nat /\ LastTerm(r) \in Nat
    BY LenProperties, TermAtType, SMT DEF LastTerm, LastIndex, LeaderLogs
  <1>2. k \in 1..Len(L[t]) /\ L[t][k].term = t
    BY DEF Own
  <1>3. k <= Len(s) /\ s[k] = L[t][k]
    <2>1. k \in 1..k
      BY <1>2, SMT
    <2> QED
      BY <2>1 DEF AgreeTo
  <1>4. k \in 1..Len(s) /\ Len(s) \in 1..Len(s)
    BY <1>1, <1>2, <1>3, SMT
  <1>5. Sorted(s, u)
    <2>1. \A v \in Nat : Sorted(L[v], v)
      BY DEF LeaderLogs
    <2> QED
      BY <2>1, OfLeadersSorted
  <1>6. s[k].term <= s[Len(s)].term
    BY <1>4, <1>5 DEF Sorted
  <1>7. LastTerm(s) = s[Len(s)].term
    BY <1>4 DEF LastTerm, TermAt, LastIndex
  <1>8. t <= LastTerm(s)
    BY <1>2, <1>3, <1>6, <1>7
  <1>9. LastTerm(r) > LastTerm(s) \/ (LastTerm(r) = LastTerm(s) /\ Len(r) >= Len(s))
    BY DEF UpTo
  <1>10. LastTerm(r) > t \/ (LastTerm(r) = t /\ Len(r) >= k)
    BY <1>1, <1>3, <1>8, <1>9, SMT
  <1> QED
    BY <1>10 DEF NewerTo

(* No vote backs a candidate that lacks a viable entry the voter holds.    *)
LEMMA VotersStep ==
    ASSUME Inv, Inv', NEW L, Replicated(L), NEW M, Moves(L, M), Campaigns
    PROVE  VotersAgree(M)'
  <1> SUFFICES ASSUME NEW c \in Server, NEW j \in Server, NEW t \in Nat, NEW k \in Nat,
                      role'[c] = "Candidate", Granted(j, c, current_term[c])',
                      t < current_term'[c], Viable(M, t, k)', Has(j, t, k)'
               PROVE  NewerTo(log'[c], t, k)
    BY DEF VotersAgree
  <1> DEFINE w == current_term'[c]
  <1>0. /\ LeaderLogs(L) /\ AcksTrue(L) /\ HoldersAgree(L) /\ RequestsTrue /\ VotersAgree(L)
    BY DEF Replicated
  <1>1. /\ w \in Nat /\ current_term'[j] \in Nat /\ current_term[c] \in Nat
    BY DEF Inv, TypeInv, TypeOK
  <1>2. VoteResp(j, c, w, TRUE) \in messages'
    BY DEF Granted
  <1>3. current_term'[j] >= w
    <2>1. VoteResp(j, c, w, TRUE) \in Sent("RequestVoteResp")'
      BY <1>2 DEF Sent, VoteResp
    <2>2. \A m \in Sent("RequestVoteResp")' : m.vote_granted => current_term'[m.from] >= m.term
      BY DEF Inv, VotesBackLeaders
    <2> QED
      BY <2>1, <2>2 DEF VoteResp
  <1>4. t < w
    BY SMT
  <1> HIDE DEF w
  <1>5. current_term'[j] # t
    BY <1>1, <1>3, <1>4, SMT
  <1>6. Has(j, t, k)
    BY <1>5, HasNew
  <1>7. Own(L, t, k)
    <2>1. Own(M, t, k)
      BY DEF Viable, Own
    <2>2. ~Own(L, t, k) => current_term[j] = t /\ current_term' = current_term
      BY <1>0, <1>6, <2>1, FreshHolder, SMT
    <2> QED
      BY <1>5, <2>2
  <1>8. Viable(L, t, k)
    BY <1>7, ViableBefore
  <1>9. /\ log'[c] = log[c]
        /\ \/ role[c] = "Candidate" /\ w = current_term[c]
           \/ w > current_term[c]
    BY DEF Campaigns, w
  <1>10. CASE VoteResp(j, c, w, TRUE) \in messages
    <2>1. Granted(j, c, w)
      BY <1>10 DEF Granted
    <2>2. current_term[c] >= w
      <3>1. VoteResp(j, c, w, TRUE) \in Sent("RequestVoteResp")
        BY <1>10 DEF Sent, VoteResp
      <3>2. \A m \in Sent("RequestVoteResp") : m.vote_granted => current_term[m.to] >= m.term
        BY <1>0 DEF RequestsTrue
      <3> QED
        BY <3>1, <3>2 DEF VoteResp
    <2>3. role[c] = "Candidate" /\ w = current_term[c]
      BY <1>1, <1>9, <2>2, SMT
    <2>4. NewerTo(log[c], t, k)
      BY <1>0, <1>4, <1>6, <1>8, <2>1, <2>3 DEF VotersAgree
    <2> QED
      BY <1>9, <2>4
  <1>11. CASE VoteResp(j, c, w, TRUE) \notin messages
    <2> DEFINE m == VoteResp(j, c, w, TRUE)
    <2>1. m \in messages' \ messages
      BY <1>2, <1>11
    <2>2. m.type = "RequestVoteResp" /\ m.vote_granted /\ m.to = c /\ m.from = j /\ m.term = w
      BY DEF VoteResp
    <2> HIDE DEF m
    <2>3. /\ current_term[c] >= w
          /\ role[c] = "Candidate" /\ current_term[c] = w => UpTo(log[c], log[j])
      BY <2>1, <2>2 DEF Campaigns, Truthful
    <2>4. UpTo(log[c], log[j])
      BY <1>1, <1>9, <2>3, SMT
    <2>5. AgreeTo(log[j], L[t], k)
      BY <1>0, <1>6, <1>8 DEF HoldersAgree
    <2>6. OfLeaders(L, log[j]) /\ \A n \in 1..Len(log[j]) : log[j][n].term <= current_term[j]
      BY <1>0 DEF LeaderLogs
    <2>7. log[j] \in Seq(LogEntry) /\ log[c] \in Seq(LogEntry) /\ current_term[j] \in Nat
      BY DEF Inv, TypeInv, TypeOK
    <2>8. NewerTo(log[c], t, k)
      BY <1>0, <1>7, <2>4, <2>5, <2>6, <2>7, AgreesNewer
    <2> QED
      BY <1>9, <2>8
  <1> QED
    BY <1>10, <1>11

-----------------------------------------------------------------------------
(* Steps.                                                                  *)

(* Together.                                                               *)
LEMMA ReplicatedStep ==
    ASSUME Inv, Inv', NEW L, Replicated(L), NEW M, LeaderLogs(M)', MatchAcked',
           Moves(L, M), Campaigns
    PROVE  Replicated(M)'
  <1>1. LeaderLogs(L) /\ AcksTrue(L) /\ RequestsTrue /\ Onward
    BY DEF Replicated, Moves
  <1>2. AcksTrue(M)'
    BY <1>1, AcksStep
  <1>3. HoldersAgree(M)'
    BY HoldersStep
  <1>4. LeadersAgree(M)'
    BY LeadersAgreeStep
  <1>5. RequestsTrue'
    BY <1>1, RequestsStep
  <1>6. VotersAgree(M)'
    BY VotersStep
  <1> QED
    BY <1>2, <1>3, <1>4, <1>5, <1>6 DEF Replicated

(* What leaders count stays acknowledged.                                  *)
LEMMA MatchStep ==
    ASSUME MatchAcked, messages \subseteq messages',
           \A i \in Server : role'[i] = "Leader" =>
              \/ /\ role[i] = "Leader" /\ current_term'[i] = current_term[i]
                 /\ match_index'[i] = match_index[i]
              \/ \A j \in Peers(i) : match_index'[i][j] = 0
    PROVE  MatchAcked'
  <1> SUFFICES ASSUME NEW i \in Server, role'[i] = "Leader", NEW j \in Peers(i),
                      match_index'[i][j] # 0
               PROVE  Acked(j, current_term[i], match_index[i][j])'
    BY DEF MatchAcked
  <1>1. /\ role[i] = "Leader" /\ current_term'[i] = current_term[i]
        /\ match_index'[i] = match_index[i]
    BY SMT
  <1>2. Acked(j, current_term[i], match_index[i][j])
    BY <1>1 DEF MatchAcked
  <1>3. Sent("AppendEntriesResp") \subseteq Sent("AppendEntriesResp")'
    BY DEF Sent
  <1> QED
    BY <1>1, <1>2, <1>3 DEF Acked

(* AppendEntries, their answers and refusals say nothing of candidates.    *)
LEMMA SilentTruthful ==
    ASSUME NEW type, type # "RequestVote",
           \A m \in messages' \ messages :
              m.type = type /\ ~(type = "RequestVoteResp" /\ m.vote_granted)
    PROVE  Truthful
  BY DEF Truthful

(* A step that sends nothing says nothing false.                           *)
LEMMA NothingSaid ==
    ASSUME messages' = messages
    PROVE  Truthful
  BY DEF Truthful

(* A log of leaders' logs grows into itself.                               *)
LEMMA GrowsSelf ==
    ASSUME NEW L, LeaderLogs(L)
    PROVE  L \in [Nat -> Seq(LogEntry)] /\ Grows(L, L)
  <1>1. L \in [Nat -> Seq(LogEntry)]
    BY DEF LeaderLogs
  <1>2. ASSUME NEW t \in Nat PROVE AgreeTo(L[t], L[t], Len(L[t]))
    <2>1. Len(L[t]) \in Nat
      BY <1>1, LenProperties
    <2> QED
      BY <2>1, SMT DEF AgreeTo
  <1> QED
    BY <1>1, <1>2 DEF Grows

(* Steps that change no log and make no leader.                            *)
LEMMA CalmMoves ==
    ASSUME Onward, Calm, Truthful, NEW L, LeaderLogs(L)
    PROVE  Moves(L, L) /\ Campaigns
  <1>1. L \in [Nat -> Seq(LogEntry)] /\ Grows(L, L)
    BY GrowsSelf
  <1>2. Moves(L, L)
    BY <1>1 DEF Moves, Calm
  <1>3. Campaigns
    BY DEF Campaigns, Calm
  <1> QED
    BY <1>2, <1>3

(* What a candidate says of its log is true.                               *)
LEMMA TruthfulOwn ==
    ASSUME Inv, Several, NEW i \in Server,
           BecomeCandidate(i) \/ TickElection(i) \/ TakeCommitted(i) \/ Restart(i)
    PROVE  Truthful
  <1>1. CASE BecomeCandidate(i)
    <2>1. /\ messages' = messages \cup RequestVotes(i, current_term[i] + 1, log[i])
          /\ current_term' = [current_term EXCEPT ![i] = current_term[i] + 1]
          /\ log' = log
      BY <1>1, NoneAlone DEF BecomeCandidate, Send, logVars
    <2>2. \A m \in RequestVotes(i, current_term[i] + 1, log[i]) :
              /\ m.type = "RequestVote" /\ m.from = i /\ m.term = current_term[i] + 1
              /\ m.last_log_index = LastIndex(log[i]) /\ m.last_log_term = LastTerm(log[i])
      BY SMT DEF RequestVotes
    <2>3. current_term'[i] = current_term[i] + 1 /\ current_term'[i] >= current_term[i] + 1
      BY <2>1, SMT DEF Inv, TypeInv, TypeOK
    <2>4. \A m \in messages' \ messages :
              /\ m.type = "RequestVote" /\ current_term'[m.from] >= m.term
              /\ m.last_log_index = LastIndex(log'[m.from])
              /\ m.last_log_term = LastTerm(log'[m.from])
      BY <2>1, <2>2, <2>3
    <2> QED
      BY <2>4 DEF Truthful
  <1>2. CASE TickElection(i) \/ TakeCommitted(i) \/ Restart(i)
    <2>1. messages' = messages
      BY <1>2 DEF TickElection, TakeCommitted, Restart
    <2> QED
      BY <2>1, NothingSaid
  <1> QED
    BY <1>1, <1>2

(* A vote is granted to a log that is up to date with the voter's.         *)
LEMMA TruthfulMessage ==
    ASSUME Inv, RequestsTrue, NEW i \in Server, NEW m \in messages,
           RejectStale(i, m) \/ StepDown(i, m) \/ HandleRequestVote(i, m)
    PROVE  Truthful
  <1>1. CASE RejectStale(i, m)
    <2>1. CASE messages' = messages \cup {VoteResp(i, m.from, current_term[i], FALSE)}
      <3>1. \A n \in messages' \ messages :
                n.type = "RequestVoteResp" /\ ~n.vote_granted
        BY <2>1, SMT DEF VoteResp
      <3> QED
        BY <3>1, SilentTruthful
    <2>2. CASE messages' = messages \cup {AppendResp(i, m.from, current_term[i], FALSE, 0)}
      <3>1. \A n \in messages' \ messages : n.type = "AppendEntriesResp"
        BY <2>2, SMT DEF AppendResp
      <3> QED
        BY <3>1, SilentTruthful
    <2> QED
      BY <1>1, <2>1, <2>2 DEF RejectStale, Send
  <1>2. CASE StepDown(i, m)
    <2>1. messages' = messages
      BY <1>2 DEF StepDown
    <2> QED
      BY <2>1, NothingSaid
  <1>3. CASE HandleRequestVote(i, m)
    <2>1. PICK g : /\ messages' = messages \cup {VoteResp(i, m.from, m.term, g)}
                   /\ g => UpToDate(m, log[i])
      BY <1>3 DEF HandleRequestVote, Send
    <2>2. \A n \in messages' \ messages :
              /\ n.type = "RequestVoteResp" /\ n.from = i /\ n.to = m.from /\ n.term = m.term
              /\ n.vote_granted = g
      BY <2>1, SMT DEF VoteResp
    <2>3. /\ current_term[m.from] >= m.term
          /\ role[m.from] = "Candidate" /\ current_term[m.from] = m.term =>
                /\ m.last_log_index = LastIndex(log[m.from])
                /\ m.last_log_term = LastTerm(log[m.from])
      BY <1>3 DEF HandleRequestVote, RequestsTrue, Sent
    <2>4. ASSUME g, role[m.from] = "Candidate", current_term[m.from] = m.term
          PROVE  UpTo(log[m.from], log[i])
      <3>1. UpToDate(m, log[i])
        BY <2>1, <2>4
      <3> QED
        BY <2>3, <2>4, <3>1 DEF UpToDate, UpTo, LastIndex
    <2> QED
      BY <2>2, <2>3, <2>4 DEF Truthful
  <1> QED
    BY <1>1, <1>2, <1>3

(* A leader's heartbeats.                                                  *)
LEMMA TickMoves ==
    ASSUME Inv, Onward, NEW L, LeaderLogs(L), MatchAcked, NEW i \in Server, TickLeader(i)
    PROVE  Moves(L, L) /\ Campaigns /\ MatchAcked'
  <1> DEFINE b == BroadcastAppendEntries(i, current_term[i], log[i], next_index[i], commit_index[i])
  <1>1. \A m \in b : m.type = "AppendEntries" /\ m.from = i /\ m.term = current_term[i]
    BY SMT DEF BroadcastAppendEntries, SendAppendEntries
  <1>2. messages' = messages \/ messages' = messages \cup b
    BY DEF TickLeader, Send
  <1> HIDE DEF b
  <1>3. /\ role[i] = "Leader" /\ role' = role /\ current_term' = current_term /\ log' = log
        /\ match_index' = match_index
    BY DEF TickLeader, electionVars, logVars, leaderVars
  <1>4. L \in [Nat -> Seq(LogEntry)] /\ Grows(L, L)
    BY GrowsSelf
  <1>5. /\ messages \subseteq messages'
        /\ \A m \in messages' \ messages :
              /\ m.type = "AppendEntries" /\ m.term = current_term'[m.from]
              /\ role'[m.from] = "Leader"
    BY <1>1, <1>2, <1>3
  <1>6. Moves(L, L)
    BY <1>3, <1>4, <1>5 DEF Moves
  <1>7. Truthful
    BY <1>5, SilentTruthful
  <1>8. Campaigns
    BY <1>3, <1>7 DEF Campaigns
  <1>9. MatchAcked'
    BY <1>3, <1>5, MatchStep
  <1> QED
    BY <1>6, <1>8, <1>9

(* A new leader has no entry of its term yet.                              *)
LEMMA WinsOwn ==
    ASSUME Inv, Inv', NEW L, LeaderLogs(L), NEW M, NEW i \in Server, NEW t \in Nat,
           Wins(L, M, i, t), NEW u \in Nat, NEW k \in Nat, Own(M, u, k)
    PROVE  Own(L, u, k)
  <1>1. Len(L[t]) = 0 /\ M[t] = log[i]
    BY NewLeader, SMT
  <1>2. CASE u # t
    <2>1. L \in [Nat -> Seq(LogEntry)] /\ M = [L EXCEPT ![t] = log[i]]
      BY DEF Wins, LeaderLogs
    <2>2. M[u] = L[u]
      BY <1>2, <2>1
    <2> QED
      BY <2>2 DEF Own
  <1>3. CASE u = t
    <2>1. k \in 1..Len(log[i]) /\ log[i][k].term = t
      BY <1>1, <1>3 DEF Own
    <2>2. AgreeTo(log[i], L[t], k)
      BY <2>1 DEF LeaderLogs, OfLeaders
    <2>3. k <= 0
      BY <1>1, <2>2 DEF AgreeTo
    <2>4. Len(log[i]) \in Nat
      BY LenProperties DEF Inv, TypeInv, TypeOK
    <2> QED
      BY <2>1, <2>3, <2>4, SMT
  <1> QED
    BY <1>2, <1>3

(* The leaders' logs only grow when RequestVoteResp makes a new leader.    *)
LEMMA WinsGrows ==
    ASSUME Inv, Inv', NEW L, LeaderLogs(L), NEW M, NEW i \in Server, NEW t \in Nat,
           Wins(L, M, i, t)
    PROVE  M \in [Nat -> Seq(LogEntry)] /\ Grows(L, M)
  <1>1. Grows(L, M)
    BY NewLeader
  <1>2. M \in [Nat -> Seq(LogEntry)]
    BY NewLeader
  <1> QED
    BY <1>1, <1>2

(* An election won.                                                        *)
LEMMA WinsMoves ==
    ASSUME Inv, Inv', Onward, NEW L, LeaderLogs(L), MatchAcked, NEW M, NEW i \in Server,
           NEW t \in Nat, Wins(L, M, i, t), t = current_term[i], role[i] = "Candidate",
           current_term' = current_term
    PROVE  Moves(L, M) /\ Campaigns /\ MatchAcked'
  <1> DEFINE next == [j \in Peers(i) |-> LastIndex(log[i]) + 1]
             b == BroadcastAppendEntries(i, t, log[i], next, commit_index[i])
  <1>1. M \in [Nat -> Seq(LogEntry)] /\ Grows(L, M)
    BY WinsGrows
  <1>2. log' = log /\ messages' = messages \cup b
    BY DEF Wins, BecomeLeader, Send
  <1>3. \A m \in b : m.type = "AppendEntries" /\ m.from = i /\ m.term = t
    BY SMT DEF BroadcastAppendEntries, SendAppendEntries
  <1>4. /\ \A k \in Server : role'[k] = IF k = i THEN "Leader" ELSE role[k]
        /\ \A k \in Server : k # i => match_index'[k] = match_index[k]
        /\ \A j \in Peers(i) : match_index'[i][j] = 0
    BY DEF Wins, BecomeLeader, Inv, TypeInv, TypeOK
  <1> HIDE DEF b
  <1>5. /\ messages \subseteq messages'
        /\ \A m \in messages' \ messages :
              /\ m.type = "AppendEntries" /\ m.term = current_term'[m.from]
              /\ role'[m.from] = "Leader"
    BY <1>2, <1>3, <1>4
  <1>6. \A u, k \in Nat : Own(M, u, k) => Own(L, u, k)
    BY WinsOwn
  <1>7. Moves(L, M)
    BY <1>1, <1>2, <1>5, <1>6 DEF Moves
  <1>8. Truthful
    BY <1>5, SilentTruthful
  <1>9. Campaigns
    BY <1>2, <1>4, <1>8 DEF Campaigns
  <1>10. MatchAcked'
    BY <1>4, <1>5, MatchStep
  <1> QED
    BY <1>7, <1>9, <1>10

(* A follower takes what its leader sends, and says so.                    *)
LEMMA AppendedMoves ==
    ASSUME Inv, Onward, NEW L, LeaderLogs(L), MatchAcked, NEW i \in Server, NEW m \in messages,
           Appended(L, i, m)
    PROVE  Moves(L, L) /\ Campaigns /\ MatchAcked'
  <1>1. L \in [Nat -> Seq(LogEntry)] /\ Grows(L, L)
    BY GrowsSelf
  <1>2. /\ m \in Sent("AppendEntries") /\ current_term'[i] = m.term /\ role'[i] = "Follower"
        /\ \A k \in Server : k # i =>
              log'[k] = log[k] /\ role'[k] = role[k] /\ current_term'[k] = current_term[k]
        /\ match_index' = match_index
    BY DEF Appended
  <1>3. Led(current_term'[i])
    BY <1>2 DEF Led
  <1> DEFINE Done == /\ Moves(L, L) /\ messages \subseteq messages'
                     /\ \A n \in messages' \ messages : n.type = "AppendEntriesResp"
  <1>4. ASSUME log' = log, messages' = messages \cup {AppendResp(i, m.from, m.term, FALSE, 0)}
        PROVE  Done
    <2>1. \A n \in messages' \ messages : n.type = "AppendEntriesResp" /\ ~n.success
      BY <1>4, SMT DEF AppendResp
    <2>2. messages \subseteq messages' /\ \A k \in Server : log'[k] = log[k]
      BY <1>4
    <2>3. Moves(L, L)
      BY <1>1, <2>1, <2>2 DEF Moves
    <2> QED
      BY <2>1, <2>2, <2>3
  <1>5. ASSUME messages' = messages \cup
                  {AppendResp(i, m.from, m.term, TRUE, m.prev_log_index + Len(m.entries))},
               AgreeTo(log'[i], L[m.term], m.prev_log_index + Len(m.entries)),
               \A k \in Nat : AgreeTo(log[i], L[m.term], k) => AgreeTo(log'[i], L[m.term], k)
        PROVE  Done
    <2>1. \A n \in messages' \ messages :
              /\ n.type = "AppendEntriesResp" /\ n.from = i /\ n.term = m.term
              /\ n.match_index = m.prev_log_index + Len(m.entries)
      BY <1>5, SMT DEF AppendResp
    <2>2. messages \subseteq messages'
      BY <1>5
    <2>3. Retains(L, i)
      BY <1>2, <1>3, <1>5 DEF Retains
    <2>4. \A n \in messages' \ messages :
              n.term = current_term'[n.from] /\ AgreeTo(log'[n.from], L[n.term], n.match_index)
      BY <1>2, <1>5, <2>1
    <2>5. \A k \in Server : log'[k] = log[k] \/ Retains(L, k)
      BY <1>2, <2>3
    <2>6. Moves(L, L)
      BY <1>1, <2>1, <2>2, <2>4, <2>5 DEF Moves
    <2> QED
      BY <2>1, <2>2, <2>6
  <1> HIDE DEF Done
  <1>6. Done
    BY <1>4, <1>5 DEF Appended
  <1> USE DEF Done
  <1>7. Truthful
    BY <1>6, SilentTruthful
  <1>8. Campaigns
    BY <1>2, <1>7 DEF Campaigns
  <1>9. MatchAcked'
    BY <1>2, <1>6, MatchStep
  <1> QED
    BY <1>6, <1>8, <1>9

(* What a leader counts for a peer, the peer's response says.              *)
LEMMA AckMoves ==
    ASSUME Inv, Onward, NEW L, LeaderLogs(L), MatchAcked, NEW i \in Server, NEW m \in messages,
           HandleAppendEntriesResp(i, m)
    PROVE  Moves(L, L) /\ Campaigns /\ MatchAcked'
  <1>1. L \in [Nat -> Seq(LogEntry)] /\ Grows(L, L)
    BY GrowsSelf
  <1>2. /\ messages' = messages /\ role' = role /\ current_term' = current_term /\ log' = log
        /\ m.type = "AppendEntriesResp" /\ m.term = current_term[i]
    BY DEF HandleAppendEntriesResp, electionVars
  <1>3. Moves(L, L)
    BY <1>1, <1>2 DEF Moves
  <1>4. Campaigns
    BY <1>2, NothingSaid DEF Campaigns
  <1>5. MatchAcked'
    <2> SUFFICES ASSUME NEW k \in Server, role[k] = "Leader", NEW j \in Peers(k),
                        match_index'[k][j] # 0
                 PROVE  Acked(j, current_term[k], match_index[k][j])'
      BY <1>2 DEF MatchAcked
    <2>1. DOMAIN match_index = Server /\ match_index[k] \in [Peers(k) -> Nat]
          /\ m.match_index \in Nat
      BY <1>2, MessageKinds DEF Inv, TypeInv, TypeOK, AppendEntriesResp
    <2>2. CASE m.success /\ k = i /\ j = m.from
      <3>1. match_index'[k][j] = m.match_index
        BY <2>1, <2>2, SMT DEF HandleAppendEntriesResp
      <3>2. m \in Sent("AppendEntriesResp")' /\ m.match_index >= m.match_index
        BY <1>2, <2>1, SMT DEF Sent
      <3> QED
        BY <1>2, <2>2, <3>1, <3>2 DEF Acked
    <2>3. CASE ~(m.success /\ k = i /\ j = m.from)
      <3>1. match_index'[k][j] = match_index[k][j]
        BY <2>1, <2>3, SMT DEF HandleAppendEntriesResp
      <3>2. Acked(j, current_term[k], match_index[k][j])
        BY <3>1 DEF MatchAcked
      <3> QED
        BY <1>2, <3>1, <3>2 DEF Acked, Sent
    <2> QED
      BY <2>2, <2>3
  <1> QED
    BY <1>3, <1>4, <1>5

(* A proposal is the only source of entries of a leader's own term.        *)
LEMMA ProposedMoves ==
    ASSUME Inv, Inv', Onward, NEW L, LeaderLogs(L), MatchAcked, NEW M, NEW i \in Server,
           Proposed(L, M, i)
    PROVE  Moves(L, M) /\ Campaigns /\ MatchAcked'
  <1> DEFINE t == current_term[i]
  <1>1. /\ M \in [Nat -> Seq(LogEntry)] /\ Grows(L, M)
    BY ProposedGrows
  <1>2. M[t] = log'[i] /\ L[t] = log[i] /\ \A u \in Nat : u # t => M[u] = L[u]
    BY ProposedGrows, SMT
  <1>3. /\ role[i] = "Leader" /\ Len(log'[i]) = Len(log[i]) + 1
        /\ \A n \in 1..Len(log[i]) : log'[i][n] = log[i][n]
        /\ \A k \in Server : k # i => log'[k] = log[k]
        /\ messages' = messages /\ role' = role /\ current_term' = current_term
        /\ match_index' = match_index
    BY DEF Proposed
  <1>4. Len(log[i]) \in Nat /\ t \in Nat
    BY LenProperties DEF Inv, TypeInv, TypeOK
  <1>5. Led(t)
    BY <1>3 DEF LeaderLogs, LedBy, Led
  <1> HIDE DEF t
  <1>6. Retains(L, i)
    <2>1. ASSUME NEW n \in Nat, AgreeTo(log[i], L[t], n) PROVE AgreeTo(log'[i], L[t], n)
      <3>1. n <= Len(log[i])
        BY <2>1 DEF AgreeTo
      <3>2. n <= Len(log'[i]) /\ \A k \in 1..n : k \in 1..Len(log[i])
        BY <1>3, <1>4, <3>1, SMT
      <3> QED
        BY <1>2, <1>3, <3>1, <3>2 DEF AgreeTo
    <2> QED
      BY <1>3, <1>5, <2>1 DEF Retains, t
  <1>7. \A k \in Server : log'[k] = log[k] \/ Retains(L, k)
    BY <1>3, <1>6
  <1>8. ASSUME NEW u \in Nat, NEW k \in Nat, Own(M, u, k) PROVE Own(L, u, k) \/ Proposes(u)
    <2>1. CASE u = t
      BY <1>3, <2>1 DEF Proposes, t
    <2>2. CASE u # t
      BY <1>2, <1>8, <2>2 DEF Own
    <2> QED
      BY <2>1, <2>2
  <1>9. Moves(L, M)
    BY <1>1, <1>3, <1>7, <1>8 DEF Moves
  <1>10. Campaigns
    BY <1>3, NothingSaid DEF Campaigns
  <1>11. MatchAcked'
    BY <1>3, MatchStep
  <1> QED
    BY <1>9, <1>10, <1>11
=============================================================================
