--------------------------- MODULE RaftLogProofs ---------------------------
(***************************************************************************)
(* Types, elections and logs of Raft, for any number of nodes, any         *)
(* timeouts and any bounds: with ElectionTerms[i] = Nat, Links = Server \X *)
(* Server and Crashing = Server nothing about elections, delivery and      *)
(* restarts is bounded.                                                    *)
(*                                                                         *)
(* Every entry keeps to its own index.  A node's term never decreases, and *)
(* its vote never changes within a term.  No term has two leaders: every   *)
(* leader, and every message it sent, is backed by a quorum of grants, and *)
(* a node grants once per term.  Two logs that agree in the term of an     *)
(* entry agree up to it.                                                   *)
(***************************************************************************)
EXTENDS Raft, RaftLogFacts, FiniteSetTheorems

(* Leaves are left to Zenon unless they name another prover.               *)
USE Zenon

(* What the helpers return: logs, per-peer functions and messages of the   *)
(* right kind.                                                             *)

(* A term read from a log, the sentinel's included, is a natural number.   *)
LEMMA TermAtType ==
    ASSUME NEW lg \in Seq(LogEntry), NEW n \in Int
    PROVE  TermAt(lg, n) \in Nat
  <1>1. ASSUME n \in 1..Len(lg) PROVE lg[n].term \in Nat
    <2>1. lg[n] \in LogEntry
      BY <1>1, ElementOfSeq
    <2> QED
      BY <2>1 DEF LogEntry
  <1> QED
    BY <1>1 DEF TermAt, LastIndex

(* What the append loop leaves: the log as it is, if it agrees with all of *)
(* the message; or the log up to the first place where it does not, and    *)
(* the message from there.  The term before that place is what the message *)
(* says it is, and the consistency check rules out a gap.                  *)
LEMMA MergeShape ==
    ASSUME NEW m \in AppendEntries, NEW lg \in Seq(LogEntry),
           InPlace(m.entries, m.prev_log_index), Consistent(m, lg)
    PROVE  \/ /\ MergeEntries(m, lg) = lg
              /\ \A k \in 1..Len(m.entries) :
                    /\ m.prev_log_index + k <= Len(lg)
                    /\ TermAt(lg, m.prev_log_index + k) = m.entries[k].term
           \/ \E first \in 1..Len(m.entries) :
                 LET kept == m.prev_log_index + first - 1
                     mg == MergeEntries(m, lg)
                 IN  /\ kept <= Len(lg)
                     /\ TermAt(lg, kept) = IF first = 1 THEN m.prev_log_term
                                           ELSE m.entries[first - 1].term
                     /\ \/ m.prev_log_index + first > Len(lg)
                        \/ TermAt(lg, m.prev_log_index + first) # m.entries[first].term
                     /\ mg \in Seq(LogEntry) /\ Len(mg) = m.prev_log_index + Len(m.entries)
                     /\ \A n \in 1..kept : mg[n] = lg[n]
                     /\ \A n \in (kept + 1)..Len(mg) : mg[n] = m.entries[n - m.prev_log_index]
  <1> DEFINE new == {k \in 1..Len(m.entries) :
                        LET n == m.entries[k].index
                        IN  n > LastIndex(lg) \/ TermAt(lg, n) # m.entries[k].term}
             first == Min(new)
             kept == SubSeq(lg, 1, m.entries[first].index - 1)
             added == SubSeq(m.entries, first, Len(m.entries))
  <1>1. CASE new = {}
    <2>1. MergeEntries(m, lg) = lg
      BY <1>1 DEF MergeEntries
    <2>2. ASSUME NEW k \in 1..Len(m.entries)
          PROVE  /\ m.prev_log_index + k <= Len(lg)
                 /\ TermAt(lg, m.prev_log_index + k) = m.entries[k].term
      <3>1. m.entries[k].index = m.prev_log_index + k
        BY DEF InPlace
      <3>2. ~(m.prev_log_index + k > Len(lg))
            /\ TermAt(lg, m.prev_log_index + k) = m.entries[k].term
        BY <1>1, <3>1 DEF LastIndex
      <3>3. m.prev_log_index + k \in Nat /\ Len(lg) \in Nat
        <4>1. m.prev_log_index \in Nat /\ m.entries \in Seq(LogEntry)
          BY DEF AppendEntries
        <4> QED
          BY <4>1, LenProperties, SMT
      <3> QED
        BY <3>2, <3>3, SMT
    <2> QED
      BY <2>1, <2>2
  <1>2. CASE new # {}
    <2>1. m.entries \in Seq(LogEntry) /\ m.prev_log_index \in Nat
      BY DEF AppendEntries
    <2>2. first \in new /\ \A k \in new : first <= k
      <3>1. new \subseteq Nat
        BY <2>1, SMT
      <3> QED
        BY <1>2, <3>1, MinProperties
    <2>3. first \in 1..Len(m.entries) /\ m.entries[first].index = m.prev_log_index + first
      BY <2>2 DEF InPlace
    <2>14. \/ m.prev_log_index + first > Len(lg)
           \/ TermAt(lg, m.prev_log_index + first) # m.entries[first].term
      BY <2>2, <2>3 DEF LastIndex
    <2> HIDE DEF first
    <2>0. Len(lg) \in Nat /\ Len(m.entries) \in Nat
      BY <2>1, LenProperties
    <2>4. /\ m.prev_log_index + first - 1 <= Len(lg)
          /\ TermAt(lg, m.prev_log_index + first - 1) =
                IF first = 1 THEN m.prev_log_term ELSE m.entries[first - 1].term
      <3>1. CASE first = 1
        <4>1. m.prev_log_index + first - 1 = m.prev_log_index
          BY <2>1, <3>1, SMT
        <4> QED
          BY <3>1, <4>1 DEF Consistent, LastIndex
      <3>2. CASE first # 1
        <4>1. first - 1 \in 1..Len(m.entries) /\ first - 1 \notin new
          <5>1. first - 1 \in 1..Len(m.entries)
            BY <2>0, <2>3, <3>2, SMT
          <5>2. ~(first <= first - 1)
            BY <2>3, SMT
          <5> QED
            BY <2>2, <5>1, <5>2
        <4>2. m.entries[first - 1].index = m.prev_log_index + first - 1
          <5>1. m.entries[first - 1].index = m.prev_log_index + (first - 1)
            BY <4>1 DEF InPlace
          <5> QED
            BY <2>1, <2>3, <5>1
        <4>3. ~(m.prev_log_index + first - 1 > Len(lg))
              /\ TermAt(lg, m.prev_log_index + first - 1) = m.entries[first - 1].term
          BY <4>1, <4>2 DEF LastIndex
        <4> QED
          BY <2>0, <2>1, <2>3, <3>2, <4>3, SMT
      <3> QED
        BY <3>1, <3>2
    <2>5. /\ kept \in Seq(LogEntry) /\ Len(kept) = m.prev_log_index + first - 1
          /\ \A k \in 1..Len(kept) : kept[k] = lg[k]
      <3>1. \A k \in 1..(m.entries[first].index - 1) : lg[k] \in LogEntry
        BY <2>0, <2>1, <2>3, <2>4, ElementOfSeq, SMT
      <3>2. m.entries[first].index - 1 \in Int /\ 1 \in Int
        BY <2>1, <2>3, SMT
      <3>3. /\ kept \in Seq(LogEntry)
            /\ Len(kept) = IF 1 <= m.entries[first].index - 1
                           THEN (m.entries[first].index - 1) - 1 + 1 ELSE 0
            /\ \A k \in 1..((m.entries[first].index - 1) - 1 + 1) : kept[k] = lg[1 + k - 1]
        BY <3>1, <3>2, SubSeqProperties, SMT
      <3> HIDE DEF kept
      <3> QED
        BY <2>1, <2>3, <3>3, SMT
    <2>6. /\ added \in Seq(LogEntry) /\ Len(added) = Len(m.entries) - first + 1
          /\ \A k \in 1..Len(added) : added[k] = m.entries[first + k - 1]
      <3>1. \A k \in first..Len(m.entries) : m.entries[k] \in LogEntry
        BY <2>0, <2>1, <2>3, ElementOfSeq, SMT
      <3>2. first \in Int /\ Len(m.entries) \in Int
        BY <2>0, <2>3, SMT
      <3>3. /\ added \in Seq(LogEntry)
            /\ Len(added) = IF first <= Len(m.entries) THEN Len(m.entries) - first + 1 ELSE 0
            /\ \A k \in 1..(Len(m.entries) - first + 1) : added[k] = m.entries[first + k - 1]
        BY <3>1, <3>2, SubSeqProperties, SMT
      <3> HIDE DEF added
      <3>4. Len(added) = IF first <= Len(m.entries) THEN Len(m.entries) - first + 1 ELSE 0
        BY <3>3
      <3>5. first <= Len(m.entries)
        BY <2>0, <2>3, SMT
      <3>6. Len(added) = Len(m.entries) - first + 1
        BY <3>4, <3>5
      <3> QED
        BY <3>3, <3>6
    <2>7. MergeEntries(m, lg) = kept \o added
      BY <1>2 DEF MergeEntries, first
    <2> HIDE DEF kept, added, new
    <2>8. /\ kept \o added \in Seq(LogEntry) /\ Len(kept \o added) = Len(kept) + Len(added)
          /\ \A k \in 1..(Len(kept) + Len(added)) : (kept \o added)[k] =
                 IF k <= Len(kept) THEN kept[k] ELSE added[k - Len(kept)]
      BY <2>5, <2>6, ConcatProperties
    <2>9. /\ Len(kept) + Len(added) = m.prev_log_index + Len(m.entries)
          /\ Len(kept) \in Nat /\ Len(added) \in Nat
          /\ Len(kept) = m.prev_log_index + first - 1
      <3>1. /\ Len(kept) = m.prev_log_index + first - 1
            /\ Len(added) = Len(m.entries) - first + 1
        BY <2>5, <2>6
      <3>2. first \in Nat /\ 1 <= first /\ first <= Len(m.entries) /\ m.prev_log_index \in Nat
        BY <2>0, <2>1, <2>3, SMT
      <3> QED
        BY <2>0, <3>1, <3>2, SMT
    <2>10. \A n \in 1..Len(kept) : (kept \o added)[n] = lg[n]
      BY <2>0, <2>3, <2>5, <2>6, <2>8, <2>9, SMT
    <2>11. ASSUME NEW n \in Int
           PROVE  first + (n - Len(kept)) - 1 = n - m.prev_log_index
      <3>1. first \in Nat /\ m.prev_log_index \in Nat
        BY <2>0, <2>1, <2>3, SMT
      <3>2. Len(kept) \in Nat /\ Len(kept) = m.prev_log_index + first - 1
        BY <2>9
      <3>3. \A p, f \in Nat : f + (n - (p + f - 1)) - 1 = n - p
        BY SMT
      <3>4. first + (n - (m.prev_log_index + first - 1)) - 1 = n - m.prev_log_index
        BY <3>1, <3>3
      <3> QED
        BY <3>2, <3>4
    <2>12. ASSUME NEW n \in (Len(kept) + 1)..(Len(kept) + Len(added))
           PROVE  (kept \o added)[n] = m.entries[n - m.prev_log_index]
      <3>1. n \in Int /\ n - Len(kept) \in 1..Len(added) /\ n > Len(kept)
        BY <2>9, SMT
      <3>2. (kept \o added)[n] = added[n - Len(kept)]
        BY <2>8, <2>9, <3>1, SMT
      <3>3. added[n - Len(kept)] = m.entries[first + (n - Len(kept)) - 1]
        BY <2>6, <3>1
      <3>4. first + (n - Len(kept)) - 1 = n - m.prev_log_index
        BY <2>11, <3>1
      <3> QED
        BY <3>2, <3>3, <3>4
    <2>13. /\ MergeEntries(m, lg) \in Seq(LogEntry)
           /\ Len(MergeEntries(m, lg)) = Len(kept) + Len(added)
      BY <2>7, <2>8
    <2> DEFINE mg == MergeEntries(m, lg)
    <2>15. /\ mg \in Seq(LogEntry) /\ Len(mg) = m.prev_log_index + Len(m.entries)
           /\ \A n \in 1..(m.prev_log_index + first - 1) : mg[n] = lg[n]
           /\ \A n \in (m.prev_log_index + first - 1 + 1)..Len(mg) :
                 mg[n] = m.entries[n - m.prev_log_index]
      BY <2>7, <2>9, <2>10, <2>12, <2>13
    <2> HIDE DEF mg
    <2> QED
      BY <2>3, <2>4, <2>14, <2>15 DEF mg
  <1> QED
    BY <1>1, <1>2

(* So it leaves a log in which every entry is in place.                    *)
LEMMA MergeEntriesType ==
    ASSUME NEW m \in AppendEntries, NEW lg \in Seq(LogEntry),
           InPlace(lg, 0), InPlace(m.entries, m.prev_log_index), Consistent(m, lg)
    PROVE  /\ MergeEntries(m, lg) \in Seq(LogEntry)
           /\ InPlace(MergeEntries(m, lg), 0)
  <1> DEFINE mg == MergeEntries(m, lg)
  <1>1. CASE mg = lg
    BY <1>1
  <1>2. CASE mg # lg
    <2>1. PICK first \in 1..Len(m.entries) :
              LET kept == m.prev_log_index + first - 1
              IN  /\ kept <= Len(lg)
                  /\ mg \in Seq(LogEntry) /\ Len(mg) = m.prev_log_index + Len(m.entries)
                  /\ \A n \in 1..kept : mg[n] = lg[n]
                  /\ \A n \in (kept + 1)..Len(mg) : mg[n] = m.entries[n - m.prev_log_index]
      BY <1>2, MergeShape
    <2>2. m.prev_log_index \in Nat /\ Len(m.entries) \in Nat /\ Len(lg) \in Nat
      BY LenProperties DEF AppendEntries
    <2> HIDE DEF mg
    <2>3. ASSUME NEW n \in 1..Len(mg) PROVE mg[n].index = 0 + n
      <3>1. CASE n <= m.prev_log_index + first - 1
        <4>1. mg[n] = lg[n] /\ n \in 1..Len(lg)
          BY <2>1, <2>2, <3>1, SMT
        <4> QED
          BY <4>1 DEF InPlace
      <3>2. CASE n > m.prev_log_index + first - 1
        <4>1. /\ mg[n] = m.entries[n - m.prev_log_index]
              /\ n - m.prev_log_index \in 1..Len(m.entries)
          <5>1. Len(mg) = m.prev_log_index + Len(m.entries) /\ first \in Nat /\ 1 <= first
            BY <2>1, <2>2, SMT
          <5>2. /\ n \in (m.prev_log_index + first - 1 + 1)..Len(mg)
                /\ n - m.prev_log_index \in 1..Len(m.entries)
            BY <2>2, <3>2, <5>1, SMT
          <5> QED
            BY <2>1, <5>2
        <4>2. mg[n].index = m.prev_log_index + (n - m.prev_log_index)
          BY <4>1 DEF InPlace
        <4> QED
          BY <2>2, <4>2, SMT
      <3> QED
        BY <2>1, <2>2, <3>1, <3>2, SMT
    <2> QED
      BY <2>1, <2>3 DEF InPlace, mg
  <1> QED
    BY <1>1, <1>2

(* MaybeCommit never lowers the commit index, and raises it only to an     *)
(* entry of the current term that a quorum holds.                          *)
LEMMA MaybeCommitType ==
    ASSUME NEW i, NEW lg \in Seq(LogEntry), NEW term, NEW match, NEW commit \in Nat
    PROVE  LET n == MaybeCommit(i, lg, term, match, commit)
           IN  /\ n \in Nat /\ n >= commit
               /\ n # commit => /\ n \in (commit + 1)..Len(lg)
                                /\ TermAt(lg, n) = term
                                /\ Cardinality(Replicas(i, match, n)) >= QuorumSize
  <1> DEFINE agreed == {n \in (commit + 1)..LastIndex(lg) :
                          /\ TermAt(lg, n) = term
                          /\ Cardinality(Replicas(i, match, n)) >= QuorumSize}
  <1>1. CASE agreed = {}
    BY <1>1, SMT DEF MaybeCommit
  <1>2. CASE agreed # {}
    <2>1. Len(lg) \in Nat
      BY LenProperties
    <2>2. agreed \subseteq 0..Len(lg)
      BY <2>1, SMT DEF LastIndex
    <2>3. Max(agreed) \in agreed
      BY <1>2, <2>1, <2>2, MaxProperties
    <2>4. MaybeCommit(i, lg, term, match, commit) = Max(agreed)
      BY <1>2 DEF MaybeCommit
    <2> HIDE DEF agreed
    <2>5. PICK n \in agreed : MaybeCommit(i, lg, term, match, commit) = n
      BY <2>3, <2>4
    <2>6. /\ n \in (commit + 1)..Len(lg) /\ TermAt(lg, n) = term
          /\ Cardinality(Replicas(i, match, n)) >= QuorumSize
      BY DEF agreed, LastIndex
    <2> QED
      BY <2>1, <2>5, <2>6, SMT
  <1> QED
    BY <1>1, <1>2

(* What SendAppendEntries builds from a log in place is in place.          *)
LEMMA SendAppendEntriesType ==
    ASSUME NEW i \in Server, NEW j \in Server, NEW term \in Nat,
           NEW lg \in Seq(LogEntry), InPlace(lg, 0),
           NEW next \in Nat, next >= 1, NEW commit \in Nat
    PROVE  LET m == SendAppendEntries(i, j, term, lg, next, commit)
           IN  /\ m \in AppendEntries
               /\ InPlace(m.entries, m.prev_log_index)
               /\ m.type = "AppendEntries" /\ m.from = i /\ m.term = term
  <1> DEFINE es == SubSeq(lg, next, Len(lg))
  <1>1. Len(lg) \in Nat
    BY LenProperties
  <1>2. \A k \in next..Len(lg) : lg[k] \in LogEntry
    BY <1>1, ElementOfSeq, SMT
  <1>3. /\ es \in Seq(LogEntry)
        /\ Len(es) = IF next <= Len(lg) THEN Len(lg) - next + 1 ELSE 0
        /\ \A k \in 1..(Len(lg) - next + 1) : es[k] = lg[next + k - 1]
    BY <1>1, <1>2, SubSeqProperties, SMT
  <1> HIDE DEF es
  <1>4. InPlace(es, next - 1)
    <2> SUFFICES ASSUME NEW k \in 1..Len(es) PROVE es[k].index = next - 1 + k
      BY DEF InPlace
    <2>1. k \in 1..(Len(lg) - next + 1) /\ next + k - 1 \in 1..Len(lg)
      BY <1>1, <1>3, SMT
    <2>2. es[k] = lg[next + k - 1]
      BY <1>3, <2>1
    <2>3. lg[next + k - 1].index = 0 + (next + k - 1)
      BY <2>1 DEF InPlace
    <2> QED
      BY <2>1, <2>2, <2>3, SMT
  <1>5. next - 1 \in Nat /\ TermAt(lg, next - 1) \in Nat
    BY TermAtType, SMT
  <1> DEFINE m == SendAppendEntries(i, j, term, lg, next, commit)
  <1>6. m = [type |-> "AppendEntries", from |-> i, to |-> j, term |-> term,
             prev_log_index |-> next - 1, prev_log_term |-> TermAt(lg, next - 1),
             entries |-> es, leader_commit |-> commit]
    BY DEF SendAppendEntries, LastIndex, es
  <1> HIDE DEF m
  <1>7. m \in AppendEntries
    BY <1>3, <1>5, <1>6 DEF AppendEntries
  <1>8. m.entries = es /\ m.prev_log_index = next - 1 /\ m.type = "AppendEntries"
        /\ m.from = i /\ m.term = term
    BY <1>6
  <1> QED
    BY <1>4, <1>7, <1>8 DEF m

(* A broadcast is a set of well-formed messages from a log in place.       *)
LEMMA BroadcastType ==
    ASSUME NEW i \in Server, NEW term \in Nat,
           NEW lg \in Seq(LogEntry), InPlace(lg, 0),
           NEW next \in [Peers(i) -> Nat], \A j \in Peers(i) : next[j] >= 1,
           NEW commit \in Nat,
           NEW m \in BroadcastAppendEntries(i, term, lg, next, commit)
    PROVE  /\ m \in AppendEntries /\ m.type = "AppendEntries"
           /\ InPlace(m.entries, m.prev_log_index)
           /\ m.from = i /\ m.term = term
  <1>1. PICK j \in Peers(i) : m = SendAppendEntries(i, j, term, lg, next[j], commit)
    BY DEF BroadcastAppendEntries
  <1>2. j \in Server /\ next[j] \in Nat /\ next[j] >= 1
    BY DEF Peers
  <1>3. PICK n \in Nat : n = next[j] /\ n >= 1
    BY <1>2
  <1>4. m = SendAppendEntries(i, j, term, lg, n, commit)
    BY <1>1, <1>3
  <1>5. LET x == SendAppendEntries(i, j, term, lg, n, commit)
        IN  /\ x \in AppendEntries
            /\ InPlace(x.entries, x.prev_log_index)
            /\ x.type = "AppendEntries" /\ x.from = i /\ x.term = term
    BY <1>2, <1>3, SendAppendEntriesType, SMT
  <1> QED
    BY <1>4, <1>5

(* A message is told by its type.                                          *)
LEMMA MessageKinds ==
    ASSUME NEW m \in Message
    PROVE  /\ m.type = "RequestVote" => m \in RequestVote
           /\ m.type = "RequestVoteResp" => m \in RequestVoteResp
           /\ m.type = "AppendEntries" => m \in AppendEntries
           /\ m.type = "AppendEntriesResp" => m \in AppendEntriesResp
           /\ m.from \in Server /\ m.to \in Server /\ m.term \in Nat
  BY DEF Message, RequestVote, RequestVoteResp, AppendEntries, AppendEntriesResp

(* So is what a candidate asks its peers.                                  *)
LEMMA RequestVotesType ==
    ASSUME NEW i \in Server, NEW t \in Nat, NEW lg \in Seq(LogEntry),
           NEW m \in RequestVotes(i, t, lg)
    PROVE  m \in Message /\ m.type = "RequestVote"
  <1>1. LastIndex(lg) \in Nat /\ LastTerm(lg) \in Nat
    BY LenProperties, TermAtType, SMT DEF LastIndex, LastTerm
  <1> QED
    BY <1>1, SMT DEF RequestVotes, Message, RequestVote, Peers

-----------------------------------------------------------------------------
(* Types.                                                                  *)

TypeInv == TypeOK /\ EntriesInPlace

(* A newly constructed cluster is well typed, its empty logs in place.     *)
LEMMA TypeInit == Init => TypeInv
  BY SMT DEF Init, TypeInv, TypeOK, EntriesInPlace, InPlace, Sent, Peers

(* A leader's tick sends from its own log, in place.                       *)
LEMMA TypeTickLeader ==
    ASSUME TypeInv, NEW i \in Server, TickLeader(i)
    PROVE  TypeInv'
  <1> USE DEF TypeInv
  <1> DEFINE b == BroadcastAppendEntries(i, current_term[i], log[i], next_index[i], commit_index[i])
  <1>1. \A m \in b : m \in AppendEntries /\ InPlace(m.entries, m.prev_log_index)
    BY BroadcastType, ZenonT(60) DEF TypeOK, EntriesInPlace, TickLeader
  <1> HIDE DEF b
  <1>2. messages' = messages \/ messages' = messages \cup b
    BY DEF TickLeader, Send, b
  <1>3. messages' \subseteq Message
    BY <1>1, <1>2 DEF TypeOK, Message
  <1>4. TypeOK'
    <2>1. heartbeat_elapsed' \in [Server -> Nat]
      <3>1. \/ heartbeat_elapsed' = [heartbeat_elapsed EXCEPT ![i] = 0]
            \/ heartbeat_elapsed' = [heartbeat_elapsed EXCEPT ![i] = heartbeat_elapsed[i] + 1]
        BY DEF TickLeader
      <3>2. heartbeat_elapsed \in [Server -> Nat]
        BY DEF TypeOK
      <3> QED
        BY <3>1, <3>2, SMT
    <2> QED
      BY <1>3, <2>1 DEF TickLeader, TypeOK, electionVars, logVars, leaderVars, applyVars
  <1>5. EntriesInPlace'
    BY <1>1, <1>2 DEF TickLeader, EntriesInPlace, Sent, TypeOK, electionVars, logVars, leaderVars
  <1> QED
    BY <1>4, <1>5

(* A tick below the election timeout moves a timer only.                   *)
LEMMA TypeTickElection ==
    ASSUME TypeInv, NEW i \in Server, TickElection(i)
    PROVE  TypeInv'
  <1>1. /\ election_elapsed' = [election_elapsed EXCEPT ![i] = election_elapsed[i] + 1]
        /\ UNCHANGED <<messages, electionVars, heartbeat_elapsed, logVars, applyVars, leaderVars>>
    BY DEF TickElection
  <1>2. election_elapsed' \in [Server -> Nat]
    <2>1. election_elapsed \in [Server -> Nat]
      BY DEF TypeInv, TypeOK
    <2> QED
      BY <1>1, <2>1, SMT
  <1>3. TypeOK'
    BY <1>1, <1>2 DEF TypeInv, TypeOK, electionVars, logVars, leaderVars, applyVars
  <1>4. EntriesInPlace'
    BY <1>1 DEF TypeInv, EntriesInPlace, Sent, electionVars, logVars, leaderVars
  <1> QED
    BY <1>3, <1>4 DEF TypeInv

(* What winning an election does to the types, in either of its two places. *)
LEMMA TypeBecomeLeader ==
    ASSUME TypeInv, NEW i \in Server, NEW t \in Nat, BecomeLeader(i, t)
    PROVE  /\ messages' \subseteq Message
           /\ role' \in [Server -> {"Follower", "Candidate", "Leader"}]
           /\ leader' \in [Server -> Server \cup {None}]
           /\ heartbeat_elapsed' \in [Server -> Nat]
           /\ DOMAIN next_index' = Server /\ DOMAIN match_index' = Server
           /\ \A k \in Server : /\ next_index'[k] \in [Peers(k) -> Nat]
                                /\ match_index'[k] \in [Peers(k) -> Nat]
           /\ \A m \in Sent("AppendEntries")' : InPlace(m.entries, m.prev_log_index)
           /\ \A k \in Server : role'[k] = "Leader" =>
                 \A j \in Peers(k) : next_index'[k][j] >= 1
  <1> DEFINE next == [j \in Peers(i) |-> LastIndex(log[i]) + 1]
             b == BroadcastAppendEntries(i, t, log[i], next, commit_index[i])
  <1>1. /\ LastIndex(log[i]) \in Nat /\ log[i] \in Seq(LogEntry)
        /\ InPlace(log[i], 0) /\ commit_index[i] \in Nat
    BY LenProperties DEF TypeInv, TypeOK, EntriesInPlace, LastIndex
  <1>2. next \in [Peers(i) -> Nat] /\ \A j \in Peers(i) : next[j] >= 1
    BY <1>1, SMT
  <1>3. next_index' = [next_index EXCEPT ![i] = next] /\ messages' = messages \cup b
    BY DEF BecomeLeader, Send
  <1> HIDE DEF next
  <1>4. \A m \in b : m \in AppendEntries /\ InPlace(m.entries, m.prev_log_index)
    BY <1>1, <1>2, BroadcastType
  <1> HIDE DEF b
  <1>5. messages' \subseteq Message
    BY <1>3, <1>4 DEF TypeInv, TypeOK, Message
  <1>6. \A m \in Sent("AppendEntries")' : InPlace(m.entries, m.prev_log_index)
    BY <1>3, <1>4 DEF TypeInv, EntriesInPlace, Sent
  <1>7. /\ role' \in [Server -> {"Follower", "Candidate", "Leader"}]
        /\ leader' \in [Server -> Server \cup {None}]
        /\ heartbeat_elapsed' \in [Server -> Nat]
    BY DEF BecomeLeader, TypeInv, TypeOK
  <1>8. /\ DOMAIN next_index' = Server
        /\ \A k \in Server : next_index'[k] = IF k = i THEN next ELSE next_index[k]
        /\ \A k \in Server : role'[k] = IF k = i THEN "Leader" ELSE role[k]
    BY <1>3 DEF BecomeLeader, TypeInv, TypeOK
  <1>9. /\ DOMAIN match_index' = Server
        /\ \A k \in Server : match_index'[k] \in [Peers(k) -> Nat]
    BY DEF BecomeLeader, TypeInv, TypeOK
  <1>10. \A k \in Server : next_index'[k] \in [Peers(k) -> Nat]
    BY <1>2, <1>8 DEF TypeInv, TypeOK
  <1>11. \A k \in Server : role'[k] = "Leader" => \A j \in Peers(k) : next_index'[k][j] >= 1
    BY <1>2, <1>8 DEF TypeInv, EntriesInPlace
  <1> QED
    BY <1>5, <1>6, <1>7, <1>8, <1>9, <1>10, <1>11

(* The tick that starts an election, or wins it at once.                   *)
LEMMA TypeBecomeCandidate ==
    ASSUME TypeInv, NEW i \in Server, BecomeCandidate(i)
    PROVE  TypeInv'
  <1>1. current_term[i] + 1 \in Nat
    BY SMT DEF TypeInv, TypeOK
  <1>2. /\ current_term' \in [Server -> Nat]
        /\ voted_for' \in [Server -> Server \cup {None}]
        /\ election_elapsed' \in [Server -> Nat]
        /\ votes_granted' \in [Server -> SUBSET Server]
    BY SMT DEF BecomeCandidate, TypeInv, TypeOK
  <1>3. UNCHANGED <<log, commit_index, last_applied, applied>>
    BY DEF BecomeCandidate, logVars, applyVars
  <1>4. CASE 1 >= QuorumSize
    <2>1. BecomeLeader(i, current_term[i] + 1)
      BY <1>4 DEF BecomeCandidate
    <2> QED
      BY <1>1, <1>2, <1>3, <2>1, TypeBecomeLeader DEF TypeInv, TypeOK, EntriesInPlace
  <1>5. CASE ~(1 >= QuorumSize)
    <2>1. /\ role' = [role EXCEPT ![i] = "Candidate"]
          /\ leader' = [leader EXCEPT ![i] = None]
          /\ messages' = messages \cup RequestVotes(i, current_term[i] + 1, log[i])
          /\ UNCHANGED <<heartbeat_elapsed, next_index, match_index>>
      BY <1>5 DEF BecomeCandidate, Send, leaderVars
    <2>2. \A m \in RequestVotes(i, current_term[i] + 1, log[i]) :
              m \in Message /\ m.type = "RequestVote"
      BY <1>1, RequestVotesType DEF TypeInv, TypeOK
    <2>3. TypeOK'
      BY <1>2, <1>3, <2>1, <2>2 DEF TypeInv, TypeOK
    <2>4. EntriesInPlace'
      BY <1>3, <2>1, <2>2 DEF TypeInv, TypeOK, EntriesInPlace, Sent
    <2> QED
      BY <2>3, <2>4 DEF TypeInv
  <1> QED
    BY <1>4, <1>5

(* Stepping down changes term, vote, role, leader and timer only.          *)
LEMMA TypeBecomeFollower ==
    ASSUME TypeInv, NEW i \in Server, NEW t \in Nat, NEW lead \in Server \cup {None},
           BecomeFollower(i, t, lead)
    PROVE  /\ current_term' \in [Server -> Nat]
           /\ voted_for' \in [Server -> Server \cup {None}]
           /\ role' \in [Server -> {"Follower", "Candidate", "Leader"}]
           /\ leader' \in [Server -> Server \cup {None}]
           /\ election_elapsed' \in [Server -> Nat]
           /\ \A k \in Server : role'[k] = "Leader" => role[k] = "Leader" /\ k # i
  BY DEF BecomeFollower, TypeInv, TypeOK

(* The calls of Step that touch no log.                                    *)
LEMMA TypeStepRequest ==
    ASSUME TypeInv, NEW i \in Server, NEW m \in messages, m.to = i,
           RejectStale(i, m) \/ StepDown(i, m) \/ HandleRequestVote(i, m)
    PROVE  TypeInv'
  <1>1. m \in Message /\ m.from \in Server /\ m.term \in Nat
    BY MessageKinds DEF TypeInv, TypeOK
  <1>2. CASE RejectStale(i, m)
    <2>1. PICK r \in Message : messages' = messages \cup {r} /\ r.type # "AppendEntries"
      <3>1. current_term[i] \in Nat
        BY DEF TypeInv, TypeOK
      <3>2. /\ VoteResp(i, m.from, current_term[i], FALSE) \in Message
            /\ VoteResp(i, m.from, current_term[i], FALSE).type # "AppendEntries"
            /\ AppendResp(i, m.from, current_term[i], FALSE, 0) \in Message
            /\ AppendResp(i, m.from, current_term[i], FALSE, 0).type # "AppendEntries"
        BY <1>1, <3>1 DEF VoteResp, AppendResp, RequestVoteResp, AppendEntriesResp, Message
      <3>3. \/ messages' = messages \cup {VoteResp(i, m.from, current_term[i], FALSE)}
            \/ messages' = messages \cup {AppendResp(i, m.from, current_term[i], FALSE, 0)}
        BY <1>2 DEF RejectStale, Send
      <3> QED
        BY <3>2, <3>3
    <2> QED
      BY <1>2, <2>1 DEF RejectStale, TypeInv, TypeOK, EntriesInPlace, Sent,
                        electionVars, timerVars, logVars, leaderVars, applyVars
  <1>3. CASE StepDown(i, m)
    <2>1. BecomeFollower(i, m.term, None)
      BY <1>3 DEF StepDown
    <2> QED
      BY <1>1, <1>3, <2>1, TypeBecomeFollower
         DEF StepDown, TypeInv, TypeOK, EntriesInPlace, Sent, logVars, leaderVars, applyVars
  <1>4. CASE HandleRequestVote(i, m)
    <2> DEFINE newer == m.term > current_term[i]
               vote == IF newer THEN None ELSE voted_for[i]
               granted == CanVote(vote, m.from) /\ UpToDate(m, log[i])
    <2>1. granted \in BOOLEAN
      BY DEF CanVote, UpToDate
    <2>2. vote \in Server \cup {None}
      BY DEF TypeInv, TypeOK
    <2> HIDE DEF granted, vote
    <2>3. /\ current_term' = [current_term EXCEPT ![i] = m.term]
          /\ role' = [role EXCEPT ![i] = IF newer THEN "Follower" ELSE role[i]]
          /\ leader' = [leader EXCEPT ![i] = IF newer THEN None ELSE leader[i]]
          /\ voted_for' = [voted_for EXCEPT ![i] = IF granted THEN m.from ELSE vote]
          /\ election_elapsed' =
                [election_elapsed EXCEPT ![i] = IF newer \/ granted THEN 0 ELSE election_elapsed[i]]
          /\ messages' = messages \cup {VoteResp(i, m.from, m.term, granted)}
          /\ UNCHANGED <<votes_granted, heartbeat_elapsed, log, commit_index, last_applied,
                         applied, next_index, match_index>>
      BY <1>4 DEF HandleRequestVote, Send, granted, vote, logVars, applyVars, leaderVars
    <2>4. /\ VoteResp(i, m.from, m.term, granted) \in Message
          /\ VoteResp(i, m.from, m.term, granted).type = "RequestVoteResp"
      BY <1>1, <2>1 DEF VoteResp, RequestVoteResp, Message
    <2>5. TypeOK'
      BY <1>1, <2>2, <2>3, <2>4 DEF TypeInv, TypeOK
    <2>6. EntriesInPlace'
      BY <2>3, <2>4 DEF TypeInv, TypeOK, EntriesInPlace, Sent
    <2> QED
      BY <2>5, <2>6 DEF TypeInv
  <1> QED
    BY <1>2, <1>3, <1>4

(* A recorded vote, with or without the win.                               *)
LEMMA TypeHandleRequestVoteResp ==
    ASSUME TypeInv, NEW i \in Server, NEW m \in messages, HandleRequestVoteResp(i, m)
    PROVE  TypeInv'
  <1>1. m.from \in Server /\ current_term[i] \in Nat
    BY MessageKinds DEF TypeInv, TypeOK
  <1>2. /\ votes_granted' = [votes_granted EXCEPT ![i] = votes_granted[i] \cup {m.from}]
        /\ UNCHANGED <<current_term, voted_for, election_elapsed, log, commit_index,
                       last_applied, applied>>
    BY DEF HandleRequestVoteResp, logVars, applyVars
  <1>3. votes_granted' \in [Server -> SUBSET Server]
    BY <1>1, <1>2 DEF TypeInv, TypeOK
  <1>4. CASE BecomeLeader(i, current_term[i])
    BY <1>1, <1>2, <1>3, <1>4, TypeBecomeLeader DEF TypeInv, TypeOK, EntriesInPlace
  <1>5. CASE UNCHANGED <<role, leader, heartbeat_elapsed, leaderVars, messages>>
    BY <1>2, <1>3, <1>5 DEF TypeInv, TypeOK, EntriesInPlace, Sent, leaderVars
  <1> QED
    BY <1>4, <1>5 DEF HandleRequestVoteResp

(* What a follower appends keeps its log in place.                         *)
LEMMA TypeHandleAppendEntries ==
    ASSUME TypeInv, NEW i \in Server, NEW m \in messages, HandleAppendEntries(i, m)
    PROVE  TypeInv'
  <1>1. m \in AppendEntries /\ m.from \in Server /\ m.term \in Nat
    BY MessageKinds DEF TypeInv, TypeOK, HandleAppendEntries
  <1>2. /\ InPlace(m.entries, m.prev_log_index) /\ InPlace(log[i], 0)
        /\ log[i] \in Seq(LogEntry) /\ commit_index[i] \in Nat
    BY DEF TypeInv, TypeOK, EntriesInPlace, Sent, HandleAppendEntries
  <1>3. m.prev_log_index + Len(m.entries) \in Nat /\ m.leader_commit \in Nat
    <2>1. m.prev_log_index \in Nat /\ m.entries \in Seq(LogEntry) /\ m.leader_commit \in Nat
      BY <1>1 DEF AppendEntries
    <2> QED
      BY <2>1, LenProperties, SMT
  <1>4. BecomeFollower(i, m.term, m.from)
    BY DEF HandleAppendEntries
  <1>5. UNCHANGED <<votes_granted, heartbeat_elapsed, last_applied, applied,
                    next_index, match_index>>
    BY DEF HandleAppendEntries, applyVars, leaderVars
  <1>6. CASE Consistent(m, log[i])
    <2> DEFINE lg == MergeEntries(m, log[i])
               r == AppendResp(i, m.from, m.term, TRUE, m.prev_log_index + Len(m.entries))
    <2>1. /\ log' = [log EXCEPT ![i] = lg]
          /\ commit_index' = [commit_index EXCEPT ![i] = FollowerCommit(m, lg, commit_index[i])]
          /\ messages' = messages \cup {r}
      BY <1>6 DEF HandleAppendEntries, Send
    <2>2. lg \in Seq(LogEntry) /\ InPlace(lg, 0)
      BY <1>1, <1>2, <1>6, MergeEntriesType
    <2> HIDE DEF lg
    <2>3. FollowerCommit(m, lg, commit_index[i]) \in Nat
      BY <1>2, <1>3, <2>2, LenProperties DEF FollowerCommit, LastIndex
    <2>4. r \in Message /\ r.type = "AppendEntriesResp"
      BY <1>1, <1>3 DEF AppendResp, AppendEntriesResp, Message
    <2> HIDE DEF r
    <2>5. TypeOK'
      BY <1>1, <1>4, <1>5, <2>1, <2>2, <2>3, <2>4, TypeBecomeFollower DEF TypeInv, TypeOK
    <2>6. EntriesInPlace'
      BY <1>1, <1>4, <1>5, <2>1, <2>2, <2>4, TypeBecomeFollower
         DEF TypeInv, TypeOK, EntriesInPlace, Sent
    <2> QED
      BY <2>5, <2>6 DEF TypeInv
  <1>7. CASE ~Consistent(m, log[i])
    <2> DEFINE r == AppendResp(i, m.from, m.term, FALSE, 0)
    <2>1. messages' = messages \cup {r} /\ UNCHANGED <<log, commit_index>>
      BY <1>7 DEF HandleAppendEntries, Send, logVars
    <2>2. r \in Message /\ r.type = "AppendEntriesResp"
      BY <1>1 DEF AppendResp, AppendEntriesResp, Message
    <2> HIDE DEF r
    <2> QED
      BY <1>1, <1>4, <1>5, <2>1, <2>2, TypeBecomeFollower
         DEF TypeInv, TypeOK, EntriesInPlace, Sent
  <1> QED
    BY <1>6, <1>7

(* An answer moves next_index_ to at least 1.                              *)
LEMMA TypeHandleAppendEntriesResp ==
    ASSUME TypeInv, NEW i \in Server, NEW m \in messages, HandleAppendEntriesResp(i, m)
    PROVE  TypeInv'
  <1>1. m.match_index \in Nat /\ m.from \in Server
    <2>1. m \in AppendEntriesResp
      BY MessageKinds DEF TypeInv, TypeOK, HandleAppendEntriesResp
    <2> QED
      BY <2>1 DEF AppendEntriesResp
  <1>2. UNCHANGED <<messages, role, current_term, voted_for, leader, votes_granted,
                    election_elapsed, heartbeat_elapsed, log, last_applied, applied>>
    BY DEF HandleAppendEntriesResp, electionVars, timerVars, applyVars
  <1>3. /\ match_index[i] \in [Peers(i) -> Nat] /\ next_index[i] \in [Peers(i) -> Nat]
        /\ \A j \in Peers(i) : next_index[i][j] >= 1
        /\ commit_index[i] \in Nat /\ log[i] \in Seq(LogEntry)
        /\ DOMAIN next_index = Server /\ DOMAIN match_index = Server
    BY DEF TypeInv, TypeOK, EntriesInPlace, HandleAppendEntriesResp
  <1>4. /\ DOMAIN next_index' = Server /\ DOMAIN match_index' = Server
        /\ next_index'[i] \in [Peers(i) -> Nat] /\ match_index'[i] \in [Peers(i) -> Nat]
        /\ \A j \in Peers(i) : next_index'[i][j] >= 1
        /\ \A k \in Server : k # i =>
              next_index'[k] = next_index[k] /\ match_index'[k] = match_index[k]
        /\ commit_index' \in [Server -> Nat]
    <2>1. CASE m.success
      <3> DEFINE nx == [next_index[i] EXCEPT ![m.from] = m.match_index + 1]
                 mt == [match_index[i] EXCEPT ![m.from] = m.match_index]
                 c == MaybeCommit(i, log[i], current_term[i], mt, commit_index[i])
      <3>1. /\ next_index' = [next_index EXCEPT ![i] = nx]
            /\ match_index' = [match_index EXCEPT ![i] = mt]
            /\ commit_index' = [commit_index EXCEPT ![i] = c]
        BY <2>1 DEF HandleAppendEntriesResp
      <3>2. mt \in [Peers(i) -> Nat]
        BY <1>1, <1>3
      <3>3. nx \in [Peers(i) -> Nat] /\ \A j \in Peers(i) : nx[j] >= 1
        <4>1. m.match_index + 1 \in Nat /\ m.match_index + 1 >= 1
          BY <1>1, SMT
        <4>2. nx \in [Peers(i) -> Nat]
          BY <1>3, <4>1
        <4>3. \A j \in Peers(i) : nx[j] = IF j = m.from THEN m.match_index + 1
                                                        ELSE next_index[i][j]
          BY <1>3
        <4> HIDE DEF nx
        <4> QED
          BY <1>3, <4>1, <4>2, <4>3
      <3>4. c \in Nat
        BY <1>3, MaybeCommitType
      <3> HIDE DEF nx, mt, c
      <3>5. commit_index' \in [Server -> Nat]
        BY <3>1, <3>4 DEF TypeInv, TypeOK
      <3> QED
        BY <1>3, <3>1, <3>2, <3>3, <3>5
    <2>2. CASE ~m.success
      <3> DEFINE v == BackOff(next_index[i][m.from])
                 nx == [next_index[i] EXCEPT ![m.from] = v]
      <3>1. next_index' = [next_index EXCEPT ![i] = nx] /\ UNCHANGED <<match_index, commit_index>>
        BY <2>2 DEF HandleAppendEntriesResp
      <3>2. m.from \in Peers(i) => v \in Nat /\ v >= 1
        BY <1>3, SMT DEF BackOff
      <3> HIDE DEF v
      <3>3. nx \in [Peers(i) -> Nat] /\ \A j \in Peers(i) : nx[j] >= 1
        <4>1. /\ DOMAIN nx = Peers(i)
              /\ \A j \in Peers(i) : nx[j] = IF j = m.from THEN v ELSE next_index[i][j]
          BY <1>3
        <4>2. nx = [j \in Peers(i) |-> nx[j]]
          BY <1>3
        <4> HIDE DEF nx
        <4>3. \A j \in Peers(i) : nx[j] \in Nat /\ nx[j] >= 1
          BY <1>3, <3>2, <4>1
        <4> QED
          BY <4>2, <4>3
      <3> HIDE DEF nx
      <3> QED
        BY <1>3, <3>1, <3>3 DEF TypeInv, TypeOK
    <2> QED
      BY <2>1, <2>2
  <1>5. TypeOK'
    BY <1>2, <1>4 DEF TypeInv, TypeOK
  <1>6. EntriesInPlace'
    BY <1>2, <1>4, ZenonT(60) DEF TypeInv, TypeOK, EntriesInPlace, Sent
  <1> QED
    BY <1>5, <1>6 DEF TypeInv

(* A proposal is appended at its own index.                                *)
LEMMA TypePropose ==
    ASSUME TypeInv, NEW i \in Server, NEW data \in Value, Propose(i, data)
    PROVE  TypeInv'
  <1> DEFINE e == [term |-> current_term[i], index |-> LastIndex(log[i]) + 1, data |-> data]
             lg == Append(log[i], e)
             c == MaybeCommit(i, lg, current_term[i], match_index[i], commit_index[i])
  <1>1. /\ log[i] \in Seq(LogEntry) /\ Len(log[i]) \in Nat /\ commit_index[i] \in Nat
        /\ current_term[i] \in Nat /\ InPlace(log[i], 0)
    BY LenProperties DEF TypeInv, TypeOK, EntriesInPlace
  <1>2. /\ log' = [log EXCEPT ![i] = lg] /\ commit_index' = [commit_index EXCEPT ![i] = c]
        /\ UNCHANGED <<messages, role, current_term, voted_for, leader, votes_granted,
                       election_elapsed, heartbeat_elapsed, last_applied, applied,
                       next_index, match_index>>
    BY ZenonT(60) DEF Propose, electionVars, timerVars, applyVars, leaderVars
  <1>3. e \in LogEntry /\ e.index = Len(log[i]) + 1
    BY <1>1, SMTT(30) DEF LogEntry, LastIndex
  <1> HIDE DEF e
  <1>4. /\ lg \in Seq(LogEntry) /\ Len(lg) = Len(log[i]) + 1
        /\ \A k \in 1..Len(log[i]) : lg[k] = log[i][k]
        /\ lg[Len(log[i]) + 1] = e
    BY <1>1, <1>3, AppendProperties, SMTT(30)
  <1> HIDE DEF lg
  <1>5. InPlace(lg, 0)
    <2> SUFFICES ASSUME NEW k \in 1..Len(lg) PROVE lg[k].index = 0 + k
      BY DEF InPlace
    <2>1. CASE k = Len(log[i]) + 1
      BY <1>1, <1>3, <1>4, <2>1, SMT
    <2>2. CASE k \in 1..Len(log[i])
      BY <1>1, <1>4, <2>2 DEF InPlace
    <2> QED
      BY <1>1, <1>4, <2>1, <2>2, SMT
  <1>6. c \in Nat
    BY <1>1, <1>4, MaybeCommitType
  <1> HIDE DEF c
  <1>7. TypeOK'
    BY <1>2, <1>4, <1>6 DEF TypeInv, TypeOK
  <1>8. EntriesInPlace'
    BY <1>2, <1>5 DEF TypeInv, TypeOK, EntriesInPlace, Sent
  <1> QED
    BY <1>7, <1>8 DEF TypeInv

(* Handing out entries changes the apply cursor only.                      *)
LEMMA TypeTakeCommitted ==
    ASSUME TypeInv, NEW i \in Server, TakeCommitted(i)
    PROVE  TypeInv'
  BY DEF TypeInv, TakeCommitted, TypeOK, EntriesInPlace, Sent,
         electionVars, timerVars, logVars, leaderVars

(* A restart keeps the log and resets the rest.                            *)
LEMMA TypeRestart ==
    ASSUME TypeInv, NEW i \in Server, Restart(i)
    PROVE  TypeInv'
  <1>1. TypeOK'
    BY DEF TypeInv, Restart, TypeOK
  <1>2. EntriesInPlace'
    BY DEF TypeInv, Restart, TypeOK, EntriesInPlace, Sent
  <1> QED
    BY <1>1, <1>2 DEF TypeInv

(* Every step of every node keeps the types and the places of the entries. *)
LEMMA TypeNext == TypeInv /\ [Next]_vars => TypeInv'
  <1> SUFFICES ASSUME TypeInv, [Next]_vars PROVE TypeInv'
    BY SMT
  <1>1. CASE UNCHANGED vars
    BY <1>1 DEF vars, electionVars, timerVars, logVars, applyVars, leaderVars,
                TypeInv, TypeOK, EntriesInPlace, Sent
  <1>2. ASSUME NEW i \in Server,
               \/ TickLeader(i) \/ TickElection(i) \/ BecomeCandidate(i)
               \/ TakeCommitted(i) \/ Restart(i)
        PROVE  TypeInv'
    BY <1>2, TypeTickLeader, TypeTickElection, TypeBecomeCandidate, TypeTakeCommitted,
       TypeRestart
  <1>3. ASSUME NEW i \in Server, NEW data \in Value, Propose(i, data)
        PROVE  TypeInv'
    BY <1>3, TypePropose
  <1>4. ASSUME NEW m \in messages, Step(m.to, m)
        PROVE  TypeInv'
    <2>1. m.to \in Server
      BY MessageKinds DEF TypeInv, TypeOK
    <2> QED
      BY <1>4, <2>1, TypeStepRequest, TypeHandleRequestVoteResp, TypeHandleAppendEntries,
         TypeHandleAppendEntriesResp DEF Step
  <1> QED
    BY <1>1, <1>2, <1>3, <1>4 DEF Next

(* Type correctness of every node and of every message.                    *)
THEOREM TypeCorrect == Spec => []TypeOK
  <1>1. TypeInv => TypeOK
    BY DEF TypeInv
  <1> QED
    BY <1>1, TypeInit, TypeNext, PTL DEF Spec

(* raft.cc may address log_ by e.index: whatever the network does, every   *)
(* entry in a log or in flight is at its own index and next_index_ stays   *)
(* at least 1.                                                             *)
THEOREM EntriesStayInPlace == Spec => []EntriesInPlace
  <1>1. TypeInv => EntriesInPlace
    BY DEF TypeInv
  <1> QED
    BY <1>1, TypeInit, TypeNext, PTL DEF Spec

-----------------------------------------------------------------------------
(* Terms and votes, step by step.                                          *)

KeepsVote(k) ==
    /\ current_term'[k] >= current_term[k]
    /\ current_term'[k] = current_term[k] /\ voted_for[k] # None
          => voted_for'[k] = voted_for[k]

(* Becoming a follower clears the vote only with the term.                 *)
LEMMA FollowerKeepsVote ==
    ASSUME TypeOK, NEW i \in Server, NEW t \in Nat, t >= current_term[i], NEW lead,
           BecomeFollower(i, t, lead)
    PROVE  \A k \in Server : KeepsVote(k)
  <1>1. \A k \in Server : /\ current_term'[k] = IF k = i THEN t ELSE current_term[k]
                          /\ voted_for'[k] = IF k = i /\ t > current_term[i]
                                             THEN None ELSE voted_for[k]
                          /\ current_term[k] \in Nat
    BY DEF BecomeFollower, TypeOK
  <1> QED
    BY <1>1, SMT DEF KeepsVote

(* No step of any node changes a vote within its term.                     *)
LEMMA VoteStep == TypeInv /\ [Next]_vars => \A k \in Server : KeepsVote(k)
  <1> SUFFICES ASSUME TypeInv, [Next]_vars PROVE \A k \in Server : KeepsVote(k)
    BY SMT
  <1>0. TypeOK /\ \A k \in Server : current_term[k] \in Nat
    BY DEF TypeInv, TypeOK
  <1>1. ASSUME UNCHANGED <<current_term, voted_for>>
        PROVE  \A k \in Server : KeepsVote(k)
    BY <1>0, <1>1, SMT DEF KeepsVote
  <1>2. ASSUME NEW i \in Server, BecomeCandidate(i)
        PROVE  \A k \in Server : KeepsVote(k)
    <2>1. \A k \in Server :
              /\ current_term'[k] = IF k = i THEN current_term[i] + 1 ELSE current_term[k]
              /\ k # i => voted_for'[k] = voted_for[k]
      BY <1>0, <1>2 DEF BecomeCandidate, TypeOK
    <2> QED
      BY <1>0, <2>1, SMT DEF KeepsVote
  <1>3. ASSUME NEW m \in messages, Step(m.to, m)
        PROVE  \A k \in Server : KeepsVote(k)
    <2> DEFINE i == m.to
    <2>1. i \in Server /\ m.term \in Nat /\ m.from \in Server
      BY <1>0, MessageKinds DEF TypeOK
    <2>2. CASE StepDown(i, m) \/ HandleAppendEntries(i, m)
      <3>1. m.term >= current_term[i] /\ \E lead : BecomeFollower(i, m.term, lead)
        BY <1>0, <2>1, <2>2, SMT DEF StepDown, HandleAppendEntries
      <3> QED
        BY <1>0, <2>1, <3>1, FollowerKeepsVote
    <2>3. CASE HandleRequestVote(i, m)
      <3> DEFINE vote == IF m.term > current_term[i] THEN None ELSE voted_for[i]
                 granted == CanVote(vote, m.from) /\ UpToDate(m, log[i])
      <3>1. /\ current_term' = [current_term EXCEPT ![i] = m.term]
            /\ voted_for' = [voted_for EXCEPT ![i] = IF granted THEN m.from ELSE vote]
            /\ m.term >= current_term[i]
        BY <2>3 DEF HandleRequestVote
      <3>2. voted_for'[i] = (IF granted THEN m.from ELSE vote) /\ current_term'[i] = m.term
        BY <1>0, <2>1, <3>1 DEF TypeOK
      <3>3. KeepsVote(i)
        BY <1>0, <2>1, <3>1, <3>2, SMT DEF KeepsVote, CanVote
      <3>4. \A k \in Server : k # i => /\ current_term'[k] = current_term[k]
                                       /\ voted_for'[k] = voted_for[k]
        BY <1>0, <2>1, <3>1 DEF TypeOK
      <3> QED
        BY <1>0, <3>3, <3>4, SMT DEF KeepsVote
    <2>4. CASE RejectStale(i, m) \/ HandleRequestVoteResp(i, m) \/ HandleAppendEntriesResp(i, m)
      BY <1>1, <2>4 DEF RejectStale, HandleRequestVoteResp, HandleAppendEntriesResp,
                        electionVars
    <2> QED
      BY <1>3, <2>2, <2>3, <2>4 DEF Step
  <1>4. CASE UNCHANGED vars
    BY <1>1, <1>4 DEF vars, electionVars
  <1>5. ASSUME NEW i \in Server,
               TickLeader(i) \/ TickElection(i) \/ TakeCommitted(i) \/ Restart(i)
        PROVE  \A k \in Server : KeepsVote(k)
    BY <1>1, <1>5 DEF TickLeader, TickElection, TakeCommitted, Restart, electionVars
  <1>6. ASSUME NEW i \in Server, NEW data \in Value, Propose(i, data)
        PROVE  \A k \in Server : KeepsVote(k)
    BY <1>1, <1>6 DEF Propose, electionVars
  <1> QED
    BY <1>2, <1>3, <1>4, <1>5, <1>6 DEF Next

(* No call takes a node back to an older term or changes its vote within a *)
(* term, for any cluster and any delivery of messages.                     *)
THEOREM VotesAreFinal == Spec => OneVotePerTerm
  <1>1. TypeInv /\ [Next]_vars => [\A k \in Server : KeepsVote(k)]_vars
    BY VoteStep
  <1>2. [\A k \in Server : KeepsVote(k)]_vars
          => [\A i \in Server :
                /\ current_term'[i] >= current_term[i]
                /\ current_term'[i] = current_term[i] /\ voted_for[i] # None
                      => voted_for'[i] = voted_for[i]]_vars
    BY DEF KeepsVote
  <1> QED
    BY <1>1, <1>2, TypeInit, TypeNext, PTL DEF Spec, OneVotePerTerm

-----------------------------------------------------------------------------
(* Elections.                                                              *)

Inv == TypeInv /\ VotesBackLeaders

(* Any two quorums share a node.                                           *)
LEMMA QuorumsIntersect ==
    ASSUME NEW Q \in SUBSET Server, NEW R \in SUBSET Server,
           Cardinality(Q) >= QuorumSize, Cardinality(R) >= QuorumSize
    PROVE  Q \cap R # {}
  <1>1. Cardinality(Server) \in Nat /\ Cardinality(Q) \in Nat /\ Cardinality(R) \in Nat
    BY FS_CardinalityType, FS_Subset, ServerAssumption
  <1>2. Cardinality(Q) + Cardinality(R) > Cardinality(Server)
    BY <1>1, SMT DEF QuorumSize
  <1> QED
    BY <1>2, FS_MajoritiesIntersect, ServerAssumption

(* The votes of two leaders of a term meet in a node that would have voted *)
(* twice.                                                                  *)
LEMMA ElectionSafetyFromVotes == Inv => ElectionSafety
  <1> SUFFICES ASSUME Inv PROVE ElectionSafety
    BY SMT
  <1> USE DEF Inv, TypeInv
  <1>0. ASSUME NEW j \in Server, NEW i \in Server, NEW t \in Nat, Granted(j, i, t)
        PROVE  \E m \in Sent("RequestVoteResp") :
                   m.vote_granted /\ m.from = j /\ m.to = i /\ m.term = t
    BY <1>0, SMT DEF Granted, VoteResp, Sent
  <1>1. ASSUME NEW i \in Server, NEW j \in Server, NEW t \in Nat,
               Elected(i, t), Elected(j, t), i # j
        PROVE  \/ Granted(i, j, t) \/ Granted(j, i, t)
               \/ \E k \in Server : Granted(k, i, t) /\ Granted(k, j, t)
    <2>1. PICK Q \in SUBSET Server :
              Cardinality(Q) >= QuorumSize /\ \A k \in Q : k = i \/ Granted(k, i, t)
      BY <1>1 DEF Elected
    <2>2. PICK R \in SUBSET Server :
              Cardinality(R) >= QuorumSize /\ \A k \in R : k = j \/ Granted(k, j, t)
      BY <1>1 DEF Elected
    <2>3. PICK k \in Q \cap R : TRUE
      BY <2>1, <2>2, QuorumsIntersect
    <2> QED
      BY <1>1, <2>1, <2>2, <2>3
  <1>2. ASSUME NEW i \in Server, NEW j \in Server, NEW k \in Server, NEW t \in Nat,
               Granted(k, i, t), Granted(k, j, t)
        PROVE  i = j
    BY <1>0, <1>2, SMT DEF VotesBackLeaders
  <1>3. ASSUME NEW m \in Sent("AppendEntries")
        PROVE  m.from \in Server /\ m.term \in Nat /\ Elected(m.from, m.term)
    BY <1>3, MessageKinds DEF VotesBackLeaders, TypeOK, Sent
  <1>4. ASSUME NEW m \in Sent("AppendEntries"), NEW j \in Server, Granted(m.from, j, m.term)
        PROVE  j = m.from
    BY <1>0, <1>3, <1>4, SMT DEF VotesBackLeaders
  <1>5. ASSUME NEW i \in Server, role[i] = "Leader"
        PROVE  current_term[i] \in Nat /\ Elected(i, current_term[i]) /\ voted_for[i] = i
    BY <1>5 DEF VotesBackLeaders, TypeOK
  <1>6. ASSUME NEW i \in Server, role[i] = "Leader", NEW j \in Server,
               Granted(i, j, current_term[i])
        PROVE  j = i
    <2>1. PICK m \in Sent("RequestVoteResp") :
              m.vote_granted /\ m.from = i /\ m.to = j /\ m.term = current_term[i]
      BY <1>0, <1>5, <1>6, SMT
    <2> QED
      BY <1>5, <1>6, <2>1 DEF VotesBackLeaders
  <1>7. \A m, n \in Sent("AppendEntries") : m.term = n.term => m.from = n.from
    BY <1>1, <1>2, <1>3, <1>4, SMT
  <1>8. \A i \in Server, m \in Sent("AppendEntries") :
            role[i] = "Leader" /\ m.term = current_term[i] => m.from = i
    BY <1>1, <1>2, <1>3, <1>4, <1>5, <1>6, SMT
  <1>9. \A i, j \in Server :
            role[i] = "Leader" /\ role[j] = "Leader" /\ current_term[i] = current_term[j]
            => i = j
    BY <1>1, <1>2, <1>5, <1>6, SMT
  <1> QED
    BY <1>7, <1>8, <1>9 DEF ElectionSafety

(* What a step must respect for votes to keep backing leaders: terms grow, *)
(* a vote is kept within its term, whoever grants or leads does so in its  *)
(* own term and by its own vote, and a new leader has a quorum of grants.  *)
LEMMA VotesStep ==
    ASSUME Inv, TypeInv', messages \subseteq messages',
           \A k \in Server :
              /\ current_term'[k] >= current_term[k]
              /\ current_term'[k] = current_term[k] => voted_for[k] \in {None, voted_for'[k]},
           \A m \in messages' \ messages :
              /\ m.type = "RequestVoteResp" /\ m.vote_granted =>
                    current_term'[m.from] = m.term /\ voted_for'[m.from] = m.to
              /\ m.type = "AppendEntries" =>
                    role'[m.from] = "Leader" /\ current_term'[m.from] = m.term,
           \A k \in Server : role'[k] # "Follower" =>
              /\ voted_for'[k] = k
              /\ \A j \in votes_granted'[k] : j = k \/ Granted(j, k, current_term[k])',
           \A k \in Server : role'[k] = "Leader" =>
              \/ role[k] = "Leader" /\ current_term'[k] = current_term[k]
              \/ Cardinality(votes_granted'[k]) >= QuorumSize
    PROVE  VotesBackLeaders'
  <1> USE DEF Inv, TypeInv
  <1>1. \A j, i, t : Granted(j, i, t) => Granted(j, i, t)'
    BY DEF Granted
  <1>2. \A i, t : Elected(i, t) => Elected(i, t)'
    BY <1>1 DEF Elected
  <1>3. ASSUME NEW k \in Server, role'[k] = "Leader"
        PROVE  Elected(k, current_term[k])'
    <2>1. CASE role[k] = "Leader" /\ current_term'[k] = current_term[k]
      BY <1>2, <2>1 DEF VotesBackLeaders
    <2>2. CASE Cardinality(votes_granted'[k]) >= QuorumSize
      <3>1. votes_granted'[k] \in SUBSET Server
        BY DEF TypeOK
      <3> QED
        BY <1>3, <2>2, <3>1 DEF Elected
    <2> QED
      BY <1>3, <2>1, <2>2
  <1>4. ASSUME NEW m \in messages'
        PROVE  m.from \in Server /\ m.to \in Server /\ m.term \in Nat
    BY <1>4, MessageKinds DEF TypeOK
  <1>5. \A k \in Server : current_term[k] \in Nat /\ current_term'[k] \in Nat
    BY DEF TypeOK
  <1>6. \A m \in Sent("RequestVoteResp")' : m.vote_granted =>
            /\ current_term'[m.from] >= m.term
            /\ current_term'[m.from] = m.term => voted_for'[m.from] = m.to
    <2> SUFFICES ASSUME NEW m \in messages', m.type = "RequestVoteResp", m.vote_granted
                 PROVE  /\ current_term'[m.from] >= m.term
                        /\ current_term'[m.from] = m.term => voted_for'[m.from] = m.to
      BY DEF Sent
    <2>1. CASE m \in messages
      <3>1. /\ current_term[m.from] >= m.term
            /\ current_term[m.from] = m.term => voted_for[m.from] = m.to
        BY <2>1 DEF VotesBackLeaders, Sent
      <3> QED
        BY <1>4, <1>5, <3>1, ServerAssumption, SMT
    <2>2. CASE m \notin messages
      BY <1>4, <1>5, <2>2, SMT
    <2> QED
      BY <2>1, <2>2
  <1>7. \A m \in Sent("AppendEntries")' :
            /\ current_term'[m.from] >= m.term
            /\ current_term'[m.from] = m.term => voted_for'[m.from] = m.from
            /\ Elected(m.from, m.term)'
    <2> SUFFICES ASSUME NEW m \in messages', m.type = "AppendEntries"
                 PROVE  /\ current_term'[m.from] >= m.term
                        /\ current_term'[m.from] = m.term => voted_for'[m.from] = m.from
                        /\ Elected(m.from, m.term)'
      BY DEF Sent
    <2>1. CASE m \in messages
      <3>1. /\ current_term[m.from] >= m.term
            /\ current_term[m.from] = m.term => voted_for[m.from] = m.from
            /\ Elected(m.from, m.term)
        BY <2>1 DEF VotesBackLeaders, Sent
      <3> QED
        BY <1>2, <1>4, <1>5, <3>1, ServerAssumption, SMT
    <2>2. CASE m \notin messages
      <3>1. role'[m.from] = "Leader" /\ current_term'[m.from] = m.term
        BY <2>2
      <3>2. Elected(m.from, m.term)'
        BY <1>3, <1>4, <3>1
      <3> QED
        BY <1>4, <1>5, <3>1, <3>2, SMT
    <2> QED
      BY <2>1, <2>2
  <1>8. \A m, n \in Sent("RequestVoteResp")' :
            m.vote_granted /\ n.vote_granted /\ m.from = n.from /\ m.term = n.term
            => m.to = n.to
    <2> SUFFICES ASSUME NEW m \in Sent("RequestVoteResp")', NEW n \in Sent("RequestVoteResp")',
                        m.vote_granted, n.vote_granted, m.from = n.from, m.term = n.term
                 PROVE  m.to = n.to
      BY SMT
    <2>1. CASE m \in messages /\ n \in messages
      BY <2>1, SMT DEF VotesBackLeaders, Sent
    <2>2. CASE m \notin messages \/ n \notin messages
      <3>1. current_term'[m.from] = m.term
        BY <2>2, SMT DEF Sent
      <3> QED
        BY <1>6, <3>1, SMT
    <2> QED
      BY <2>1, <2>2
  <1>9. \A m \in Sent("RequestVoteResp")', n \in Sent("AppendEntries")' :
            m.vote_granted /\ m.from = n.from /\ m.term = n.term => m.to = m.from
    <2> SUFFICES ASSUME NEW m \in Sent("RequestVoteResp")', NEW n \in Sent("AppendEntries")',
                        m.vote_granted, m.from = n.from, m.term = n.term
                 PROVE  m.to = m.from
      BY SMT
    <2>1. CASE m \in messages /\ n \in messages
      BY <2>1, SMT DEF VotesBackLeaders, Sent
    <2>2. CASE m \notin messages \/ n \notin messages
      <3>1. current_term'[m.from] = m.term
        BY <2>2, SMT DEF Sent
      <3> QED
        BY <1>6, <1>7, <3>1, SMT
    <2> QED
      BY <2>1, <2>2
  <1> QED
    BY <1>3, <1>6, <1>7, <1>8, <1>9 DEF VotesBackLeaders

(* Steps that neither grant a vote nor win an election.                    *)
LEMMA VotesQuietStep ==
    ASSUME Inv, TypeInv', messages \subseteq messages',
           \A k \in Server :
              /\ current_term'[k] >= current_term[k]
              /\ current_term'[k] = current_term[k] => voted_for'[k] = voted_for[k]
              /\ role'[k] # "Follower" =>
                    /\ role'[k] = role[k] /\ current_term'[k] = current_term[k]
                    /\ votes_granted'[k] = votes_granted[k],
           \A m \in messages' \ messages :
              /\ m.type = "RequestVoteResp" => ~m.vote_granted
              /\ m.type = "AppendEntries" =>
                    role'[m.from] = "Leader" /\ current_term'[m.from] = m.term
    PROVE  VotesBackLeaders'
  <1>1. \A j, i, t : Granted(j, i, t) => Granted(j, i, t)'
    BY DEF Granted
  <1>2. ASSUME NEW k \in Server, role'[k] # "Follower"
        PROVE  /\ voted_for'[k] = k
               /\ \A j \in votes_granted'[k] : j = k \/ Granted(j, k, current_term[k])'
    BY <1>1, <1>2, ZenonT(60) DEF Inv, VotesBackLeaders, Granted
  <1>3. \A k \in Server : role'[k] = "Leader" =>
            role[k] = "Leader" /\ current_term'[k] = current_term[k]
    BY SMT
  <1> QED
    BY <1>2, <1>3, VotesStep

(* A leader's heartbeats are backed by the votes that elected it.          *)
LEMMA VotesTickLeader ==
    ASSUME Inv, TypeInv', NEW i \in Server, TickLeader(i)
    PROVE  VotesBackLeaders'
  <1> DEFINE b == BroadcastAppendEntries(i, current_term[i], log[i], next_index[i], commit_index[i])
  <1>1. \A m \in b : m.type = "AppendEntries" /\ m.from = i /\ m.term = current_term[i]
    <2>1. /\ current_term[i] \in Nat /\ log[i] \in Seq(LogEntry) /\ InPlace(log[i], 0)
          /\ next_index[i] \in [Peers(i) -> Nat] /\ commit_index[i] \in Nat
          /\ \A j \in Peers(i) : next_index[i][j] >= 1
      BY DEF Inv, TypeInv, TypeOK, EntriesInPlace, TickLeader
    <2> QED
      BY <2>1, BroadcastType, SMT
  <1> HIDE DEF b
  <1>2. messages' = messages \/ messages' = messages \cup b
    BY DEF TickLeader, Send, b
  <1>3. role[i] = "Leader" /\ UNCHANGED <<role, current_term, voted_for, votes_granted>>
    BY DEF TickLeader, electionVars
  <1>4. \A k \in Server : current_term[k] \in Nat
    BY DEF Inv, TypeInv, TypeOK
  <1> QED
    BY <1>1, <1>2, <1>3, <1>4, VotesQuietStep, SMT

(* Winning an election, with a quorum of grants.                           *)
LEMMA VotesBecomeLeader ==
    ASSUME Inv, TypeInv', NEW i \in Server, BecomeLeader(i, current_term'[i]),
           current_term'[i] >= current_term[i],
           current_term'[i] = current_term[i] => voted_for[i] = i,
           voted_for'[i] = i,
           \A k \in Server : k # i => /\ current_term'[k] = current_term[k]
                                      /\ voted_for'[k] = voted_for[k]
                                      /\ votes_granted'[k] = votes_granted[k],
           Cardinality(votes_granted'[i]) >= QuorumSize,
           \A j \in votes_granted'[i] : j = i \/ Granted(j, i, current_term'[i])
    PROVE  VotesBackLeaders'
  <1> DEFINE next == [j \in Peers(i) |-> LastIndex(log[i]) + 1]
             t == current_term'[i]
             b == BroadcastAppendEntries(i, t, log[i], next, commit_index[i])
  <1>1. /\ LastIndex(log[i]) \in Nat /\ log[i] \in Seq(LogEntry)
        /\ InPlace(log[i], 0) /\ commit_index[i] \in Nat /\ t \in Nat
    BY LenProperties DEF Inv, TypeInv, TypeOK, EntriesInPlace, LastIndex
  <1>2. next \in [Peers(i) -> Nat] /\ \A j \in Peers(i) : next[j] >= 1
    BY <1>1, SMT
  <1>3. messages' = messages \cup b
    BY DEF BecomeLeader, Send
  <1>4. \A m \in b : m.type = "AppendEntries" /\ m.from = i /\ m.term = t
    <2> HIDE DEF next, t
    <2> QED
      BY <1>1, <1>2, BroadcastType, SMT
  <1> HIDE DEF b
  <1>5. \A k \in Server : role'[k] = IF k = i THEN "Leader" ELSE role[k]
    BY DEF BecomeLeader, Inv, TypeInv, TypeOK
  <1>6. \A j, k, u : Granted(j, k, u) => Granted(j, k, u)'
    BY <1>3, ZenonT(60) DEF Granted
  <1>7. \A k \in Server : /\ current_term'[k] >= current_term[k]
                          /\ current_term'[k] = current_term[k] => voted_for'[k] = voted_for[k]
    <2>1. \A k \in Server : current_term[k] \in Nat
      BY DEF Inv, TypeInv, TypeOK
    <2> QED
      BY <2>1, SMT
  <1>8. ASSUME NEW k \in Server, role'[k] # "Follower"
        PROVE  /\ voted_for'[k] = k
               /\ \A j \in votes_granted'[k] : j = k \/ Granted(j, k, current_term[k])'
    <2>1. CASE k = i
      BY <1>3, <2>1 DEF Granted
    <2>2. CASE k # i
      <3>1. role[k] # "Follower" /\ current_term'[k] = current_term[k]
        BY <1>5, <1>8, <2>2
      <3>2. /\ voted_for[k] = k
            /\ \A j \in votes_granted[k] : j = k \/ Granted(j, k, current_term[k])
        BY <3>1 DEF Inv, VotesBackLeaders
      <3> QED
        BY <1>3, <2>2, <3>1, <3>2 DEF Granted
    <2> QED
      BY <2>1, <2>2
  <1>9. \A k \in Server : role'[k] = "Leader" =>
            \/ role[k] = "Leader" /\ current_term'[k] = current_term[k]
            \/ Cardinality(votes_granted'[k]) >= QuorumSize
    BY <1>5
  <1>10. \A m \in messages' \ messages :
            m.type = "AppendEntries" /\ role'[m.from] = "Leader" /\ current_term'[m.from] = m.term
    BY <1>3, <1>4, <1>5
  <1> QED
    BY <1>3, <1>7, <1>8, <1>9, <1>10, VotesStep

(* A candidate enters a term in which it has granted nothing.              *)
LEMMA VotesBecomeCandidate ==
    ASSUME Inv, TypeInv', NEW i \in Server, BecomeCandidate(i)
    PROVE  VotesBackLeaders'
  <1>1. /\ current_term' = [current_term EXCEPT ![i] = current_term[i] + 1]
        /\ voted_for' = [voted_for EXCEPT ![i] = i]
        /\ votes_granted' = [votes_granted EXCEPT ![i] = {i}]
    BY DEF BecomeCandidate
  <1>2. /\ current_term[i] \in Nat /\ current_term'[i] = current_term[i] + 1
        /\ voted_for'[i] = i /\ votes_granted'[i] = {i}
        /\ \A k \in Server : k # i => /\ current_term'[k] = current_term[k]
                                      /\ voted_for'[k] = voted_for[k]
                                      /\ votes_granted'[k] = votes_granted[k]
    BY <1>1 DEF Inv, TypeInv, TypeOK
  <1>3. CASE 1 >= QuorumSize
    <2>1. BecomeLeader(i, current_term'[i])
      BY <1>2, <1>3 DEF BecomeCandidate
    <2>2. Cardinality(votes_granted'[i]) >= QuorumSize
      BY <1>2, <1>3, FS_Singleton
    <2>3. current_term'[i] >= current_term[i] /\ current_term'[i] # current_term[i]
      BY <1>2, SMT
    <2>4. \A j \in votes_granted'[i] : j = i
      BY <1>2
    <2> QED
      BY <1>2, <2>1, <2>2, <2>3, <2>4, VotesBecomeLeader
  <1>4. CASE ~(1 >= QuorumSize)
    <2>1. /\ role' = [role EXCEPT ![i] = "Candidate"]
          /\ messages' = messages \cup RequestVotes(i, current_term[i] + 1, log[i])
      BY <1>4 DEF BecomeCandidate, Send
    <2>2. \A m \in RequestVotes(i, current_term[i] + 1, log[i]) : m.type = "RequestVote"
      BY SMT DEF RequestVotes
    <2>3. \A k \in Server : role'[k] = IF k = i THEN "Candidate" ELSE role[k]
      BY <2>1 DEF Inv, TypeInv, TypeOK
    <2>4. \A k \in Server : /\ current_term'[k] >= current_term[k]
                            /\ current_term'[k] = current_term[k] => voted_for'[k] = voted_for[k]
      <3>1. \A k \in Server : current_term[k] \in Nat
        BY DEF Inv, TypeInv, TypeOK
      <3> QED
        BY <1>2, <3>1, SMT
    <2>5. ASSUME NEW k \in Server, role'[k] # "Follower"
          PROVE  /\ voted_for'[k] = k
                 /\ \A j \in votes_granted'[k] : j = k \/ Granted(j, k, current_term[k])'
      <3>1. CASE k = i
        BY <1>2, <3>1
      <3>2. CASE k # i
        <4>1. role[k] # "Follower" /\ current_term'[k] = current_term[k]
          BY <1>2, <2>3, <2>5, <3>2
        <4>2. /\ voted_for[k] = k
              /\ \A j \in votes_granted[k] : j = k \/ Granted(j, k, current_term[k])
          BY <4>1 DEF Inv, VotesBackLeaders
        <4> QED
          BY <1>2, <2>1, <3>2, <4>1, <4>2 DEF Granted
      <3> QED
        BY <3>1, <3>2
    <2>6. \A k \in Server : role'[k] = "Leader" =>
              role[k] = "Leader" /\ current_term'[k] = current_term[k]
      BY <1>2, <2>3
    <2> QED
      BY <2>1, <2>2, <2>4, <2>5, <2>6, VotesStep
  <1> QED
    BY <1>3, <1>4

(* A grant is the voter's only one in its term.                            *)
LEMMA VotesHandleRequestVote ==
    ASSUME Inv, TypeInv', NEW i \in Server, NEW m \in messages, HandleRequestVote(i, m)
    PROVE  VotesBackLeaders'
  <1> DEFINE newer == m.term > current_term[i]
             vote == IF newer THEN None ELSE voted_for[i]
             granted == CanVote(vote, m.from) /\ UpToDate(m, log[i])
             r == VoteResp(i, m.from, m.term, granted)
  <1>1. m.from \in Server /\ m.term \in Nat /\ \A k \in Server : current_term[k] \in Nat
    BY MessageKinds DEF Inv, TypeInv, TypeOK
  <1>2. /\ current_term' = [current_term EXCEPT ![i] = m.term]
        /\ role' = [role EXCEPT ![i] = IF newer THEN "Follower" ELSE role[i]]
        /\ voted_for' = [voted_for EXCEPT ![i] = IF granted THEN m.from ELSE vote]
        /\ messages' = messages \cup {r}
        /\ votes_granted' = votes_granted
        /\ m.term >= current_term[i]
    BY DEF HandleRequestVote, Send
  <1>3. granted => vote \in {None, m.from}
    BY DEF CanVote
  <1>4. r.type = "RequestVoteResp" /\ r.vote_granted = granted /\ r.from = i
        /\ r.to = m.from /\ r.term = m.term
    BY DEF VoteResp
  <1> HIDE DEF granted, r
  <1>5. /\ current_term'[i] = m.term
        /\ voted_for'[i] = IF granted THEN m.from ELSE vote
        /\ role'[i] = IF newer THEN "Follower" ELSE role[i]
        /\ \A k \in Server : k # i => /\ current_term'[k] = current_term[k]
                                      /\ voted_for'[k] = voted_for[k] /\ role'[k] = role[k]
    BY <1>2 DEF Inv, TypeInv, TypeOK
  <1>6. \A k \in Server :
            /\ current_term'[k] >= current_term[k]
            /\ current_term'[k] = current_term[k] => voted_for[k] \in {None, voted_for'[k]}
    BY <1>1, <1>2, <1>3, <1>5, SMT
  <1>7. ASSUME NEW k \in Server, role'[k] # "Follower"
        PROVE  /\ role'[k] = role[k] /\ current_term'[k] = current_term[k]
               /\ voted_for'[k] = k
               /\ \A j \in votes_granted'[k] : j = k \/ Granted(j, k, current_term[k])'
    <2>1. role'[k] = role[k] /\ current_term'[k] = current_term[k]
      BY <1>1, <1>2, <1>5, <1>7, SMT
    <2>2. /\ voted_for[k] = k
          /\ \A j \in votes_granted[k] : j = k \/ Granted(j, k, current_term[k])
      BY <1>7, <2>1 DEF Inv, VotesBackLeaders
    <2>3. voted_for'[k] = k
      BY <1>6, <2>1, <2>2, ServerAssumption
    <2>4. messages \subseteq messages' /\ votes_granted'[k] = votes_granted[k]
      BY <1>2
    <2>5. \A j \in votes_granted'[k] : j = k \/ Granted(j, k, current_term[k])'
      BY <2>1, <2>2, <2>4, ZenonT(60) DEF Granted
    <2> QED
      BY <2>1, <2>3, <2>5
  <1>8. \A n \in messages' \ messages :
            /\ n.type # "AppendEntries"
            /\ n.vote_granted => current_term'[n.from] = n.term /\ voted_for'[n.from] = n.to
    BY <1>2, <1>4, <1>5, SMT
  <1> QED
    BY <1>2, <1>6, <1>7, <1>8, VotesStep

(* A candidate counts only grants that were sent to it.                    *)
LEMMA VotesHandleRequestVoteResp ==
    ASSUME Inv, TypeInv', NEW i \in Server, NEW m \in messages, m.to = i,
           HandleRequestVoteResp(i, m)
    PROVE  VotesBackLeaders'
  <1>1. /\ votes_granted' = [votes_granted EXCEPT ![i] = votes_granted[i] \cup {m.from}]
        /\ UNCHANGED <<current_term, voted_for>>
        /\ m.type = "RequestVoteResp" /\ m.term = current_term[i] /\ role[i] = "Candidate"
        /\ m.vote_granted
    BY DEF HandleRequestVoteResp
  <1>2. /\ votes_granted'[i] = votes_granted[i] \cup {m.from}
        /\ \A k \in Server : k # i => votes_granted'[k] = votes_granted[k]
        /\ \A k \in Server : current_term[k] \in Nat
    BY <1>1 DEF Inv, TypeInv, TypeOK
  <1>3. Granted(m.from, i, current_term[i])
    <2>1. m \in RequestVoteResp
      BY <1>1, MessageKinds DEF Inv, TypeInv, TypeOK
    <2>2. m = VoteResp(m.from, i, current_term[i], TRUE)
      BY <1>1, <2>1 DEF RequestVoteResp, VoteResp
    <2> QED
      BY <2>2, ZenonT(60) DEF Granted
  <1>4. voted_for[i] = i /\ \A j \in votes_granted'[i] : j = i \/ Granted(j, i, current_term[i])
    BY <1>1, <1>2, <1>3 DEF Inv, VotesBackLeaders
  <1>5. CASE Cardinality(votes_granted[i] \cup {m.from}) >= QuorumSize
    <2>1. BecomeLeader(i, current_term'[i])
      BY <1>1, <1>5 DEF HandleRequestVoteResp
    <2>2. /\ current_term'[i] >= current_term[i] /\ voted_for[i] = i /\ voted_for'[i] = i
          /\ Cardinality(votes_granted'[i]) >= QuorumSize
          /\ \A j \in votes_granted'[i] : j = i \/ Granted(j, i, current_term'[i])
      <3>1. current_term'[i] = current_term[i] /\ voted_for'[i] = voted_for[i]
        BY <1>1
      <3>2. current_term'[i] >= current_term[i]
        BY <1>2, <3>1, SMT
      <3>3. \A j \in votes_granted'[i] : j = i \/ Granted(j, i, current_term'[i])
        BY <1>4, <3>1, ZenonT(60) DEF Granted
      <3> QED
        BY <1>2, <1>4, <1>5, <3>1, <3>2, <3>3
    <2>3. \A k \in Server : k # i => /\ current_term'[k] = current_term[k]
                                     /\ voted_for'[k] = voted_for[k]
                                     /\ votes_granted'[k] = votes_granted[k]
      BY <1>1, <1>2
    <2> QED
      BY <2>1, <2>2, <2>3, VotesBecomeLeader
  <1>6. CASE ~(Cardinality(votes_granted[i] \cup {m.from}) >= QuorumSize)
    <2>1. UNCHANGED <<role, messages>>
      BY <1>6 DEF HandleRequestVoteResp
    <2>2. ASSUME NEW k \in Server, role'[k] # "Follower"
          PROVE  /\ voted_for'[k] = k
                 /\ \A j \in votes_granted'[k] : j = k \/ Granted(j, k, current_term[k])'
      BY <1>1, <1>2, <1>4, <2>1, <2>2, ZenonT(60) DEF Inv, VotesBackLeaders, Granted
    <2> QED
      BY <1>1, <1>2, <2>1, <2>2, VotesStep, SMT
  <1> QED
    BY <1>5, <1>6

(* Becoming a follower forgets the vote only together with its term.       *)
LEMMA VotesBecomeFollower ==
    ASSUME Inv, TypeInv', NEW i \in Server, NEW t \in Nat, t >= current_term[i], NEW lead,
           BecomeFollower(i, t, lead), votes_granted' = votes_granted,
           messages \subseteq messages',
           \A m \in messages' \ messages : m.type = "AppendEntriesResp"
    PROVE  VotesBackLeaders'
  <1>1. /\ current_term'[i] = t /\ role'[i] = "Follower"
        /\ voted_for'[i] = IF t > current_term[i] THEN None ELSE voted_for[i]
        /\ \A k \in Server : k # i => /\ current_term'[k] = current_term[k]
                                      /\ voted_for'[k] = voted_for[k] /\ role'[k] = role[k]
    BY DEF BecomeFollower, Inv, TypeInv, TypeOK
  <1>2. \A k \in Server : current_term[k] \in Nat
    BY DEF Inv, TypeInv, TypeOK
  <1>3. \A k \in Server :
            /\ current_term'[k] >= current_term[k]
            /\ current_term'[k] = current_term[k] => voted_for'[k] = voted_for[k]
            /\ role'[k] # "Follower" =>
                  /\ role'[k] = role[k] /\ current_term'[k] = current_term[k]
                  /\ votes_granted'[k] = votes_granted[k]
    BY <1>1, <1>2, SMT
  <1> QED
    BY <1>3, VotesQuietStep

(* Following a leader or a newer term grants nothing.                      *)
LEMMA VotesFollow ==
    ASSUME Inv, TypeInv', NEW i \in Server, NEW m \in messages,
           StepDown(i, m) \/ HandleAppendEntries(i, m)
    PROVE  VotesBackLeaders'
  <1>1. m.term \in Nat /\ current_term[i] \in Nat
    BY MessageKinds DEF Inv, TypeInv, TypeOK
  <1>2. CASE StepDown(i, m)
    <2>1. /\ BecomeFollower(i, m.term, None) /\ UNCHANGED <<messages, votes_granted>>
          /\ m.term >= current_term[i]
      BY <1>1, <1>2, SMT DEF StepDown
    <2> QED
      BY <1>1, <2>1, VotesBecomeFollower
  <1>3. CASE HandleAppendEntries(i, m)
    <2>1. /\ BecomeFollower(i, m.term, m.from) /\ UNCHANGED votes_granted
          /\ m.term >= current_term[i]
      BY <1>3 DEF HandleAppendEntries
    <2>2. \E r : messages' = messages \cup {r} /\ r.type = "AppendEntriesResp"
      <3>1. CASE Consistent(m, log[i])
        <4> DEFINE r == AppendResp(i, m.from, m.term, TRUE, m.prev_log_index + Len(m.entries))
        <4>1. messages' = messages \cup {r}
          BY <1>3, <3>1 DEF HandleAppendEntries, Send
        <4>2. r.type = "AppendEntriesResp"
          BY DEF AppendResp
        <4> QED
          BY <4>1, <4>2
      <3>2. CASE ~Consistent(m, log[i])
        <4> DEFINE r == AppendResp(i, m.from, m.term, FALSE, 0)
        <4>1. messages' = messages \cup {r}
          BY <1>3, <3>2 DEF HandleAppendEntries, Send
        <4>2. r.type = "AppendEntriesResp"
          BY DEF AppendResp
        <4> QED
          BY <4>1, <4>2
      <3> QED
        BY <3>1, <3>2
    <2> QED
      BY <1>1, <2>1, <2>2, VotesBecomeFollower
  <1> QED
    BY <1>2, <1>3

(* The answer to a stale message is never a grant.                         *)
LEMMA VotesRejectStale ==
    ASSUME Inv, TypeInv', NEW i \in Server, NEW m \in messages, RejectStale(i, m)
    PROVE  VotesBackLeaders'
  <1>1. UNCHANGED <<role, current_term, voted_for, votes_granted>>
    BY DEF RejectStale, electionVars
  <1>2. \E r : /\ messages' = messages \cup {r} /\ r.type # "AppendEntries"
               /\ r.type = "RequestVoteResp" => ~r.vote_granted
    <2>1. CASE m.type = "RequestVote"
      <3> DEFINE r == VoteResp(i, m.from, current_term[i], FALSE)
      <3>1. messages' = messages \cup {r}
        BY <2>1 DEF RejectStale, Send
      <3>2. r.type = "RequestVoteResp" /\ ~r.vote_granted
        BY DEF VoteResp
      <3> QED
        BY <3>1, <3>2
    <2>2. CASE m.type = "AppendEntries"
      <3> DEFINE r == AppendResp(i, m.from, current_term[i], FALSE, 0)
      <3>1. messages' = messages \cup {r}
        BY <2>2 DEF RejectStale, Send
      <3>2. r.type = "AppendEntriesResp"
        BY DEF AppendResp
      <3> QED
        BY <3>1, <3>2
    <2> QED
      BY <2>1, <2>2 DEF RejectStale
  <1>3. \A k \in Server : current_term[k] \in Nat
    BY DEF Inv, TypeInv, TypeOK
  <1> QED
    BY <1>1, <1>2, <1>3, VotesQuietStep, SMT

(* Calls that touch neither votes nor messages.                            *)
LEMMA VotesOther ==
    ASSUME Inv, TypeInv', UNCHANGED <<messages, current_term, voted_for>>,
           \A k \in Server : role'[k] # "Follower" =>
               role'[k] = role[k] /\ votes_granted'[k] = votes_granted[k]
    PROVE  VotesBackLeaders'
  <1>1. \A k \in Server : current_term[k] \in Nat
    BY DEF Inv, TypeInv, TypeOK
  <1> QED
    BY <1>1, VotesQuietStep, SMT

(* No vote and no leader in a new cluster.                                 *)
LEMMA InvInit == Init => Inv
  <1> SUFFICES ASSUME Init PROVE Inv
    BY SMT
  <1>1. TypeInv
    BY TypeInit
  <1>2. VotesBackLeaders
    BY DEF Init, VotesBackLeaders, Sent
  <1> QED
    BY <1>1, <1>2 DEF Inv

(* Every step of every node keeps types and votes.                         *)
LEMMA InvNext == Inv /\ [Next]_vars => Inv'
  <1> SUFFICES ASSUME Inv, [Next]_vars PROVE Inv'
    BY SMT
  <1>0. TypeInv'
    BY TypeNext DEF Inv
  <1> SUFFICES VotesBackLeaders'
    BY <1>0 DEF Inv
  <1>1. CASE UNCHANGED vars
    BY <1>0, <1>1, VotesOther DEF vars, electionVars
  <1>2. ASSUME NEW i \in Server, TickLeader(i) \/ BecomeCandidate(i)
        PROVE  VotesBackLeaders'
    BY <1>0, <1>2, VotesTickLeader, VotesBecomeCandidate
  <1>3. ASSUME NEW i \in Server, TickElection(i) \/ TakeCommitted(i)
        PROVE  VotesBackLeaders'
    BY <1>0, <1>3, VotesOther DEF TickElection, TakeCommitted, electionVars
  <1>4. ASSUME NEW i \in Server, Restart(i)
        PROVE  VotesBackLeaders'
    BY <1>0, <1>4, VotesOther DEF Restart, Inv, TypeInv, TypeOK
  <1>5. ASSUME NEW i \in Server, NEW data \in Value, Propose(i, data)
        PROVE  VotesBackLeaders'
    BY <1>0, <1>5, VotesOther DEF Propose, electionVars
  <1>6. ASSUME NEW m \in messages, Step(m.to, m)
        PROVE  VotesBackLeaders'
    <2>1. m.to \in Server
      BY MessageKinds DEF Inv, TypeInv, TypeOK
    <2>2. CASE HandleAppendEntriesResp(m.to, m)
      BY <1>0, <2>2, VotesOther DEF HandleAppendEntriesResp, electionVars
    <2> QED
      BY <1>0, <1>6, <2>1, <2>2, VotesRejectStale, VotesFollow, VotesHandleRequestVote,
         VotesHandleRequestVoteResp DEF Step
  <1> QED
    BY <1>1, <1>2, <1>3, <1>4, <1>5, <1>6 DEF Next

(* Recorded votes back every leadership, whatever the network does.        *)
THEOREM VotesAlwaysBackLeaders == Spec => []VotesBackLeaders
  <1>1. Inv => VotesBackLeaders
    BY DEF Inv
  <1> QED
    BY <1>1, InvInit, InvNext, PTL DEF Spec

(* At most one node ever leads a term, for any number of nodes, any terms, *)
(* any loss, duplication and reordering of messages and any restarts.      *)
THEOREM AtMostOneLeaderPerTerm == Spec => []ElectionSafety
  BY InvInit, InvNext, ElectionSafetyFromVotes, PTL DEF Spec

-----------------------------------------------------------------------------
(* Logs.                                                                   *)
(*                                                                         *)
(* LogMatching is not inductive: it says nothing of the entries in flight. *)
(* The invariant is that there is one log for every term, that of its      *)
(* leader, of which everything else is made: an AppendEntries carries a    *)
(* piece of the log of its term, and every log agrees, up to an entry,     *)
(* with the log of the entry's term.                                       *)

AgreeTo(r, s, n) == n <= Len(r) /\ n <= Len(s) /\ \A k \in 1..n : r[k] = s[k]

OfLeaders(L, s) == \A n \in 1..Len(s) : AgreeTo(s, L[s[n].term], n)

Sorted(s, t) ==
    \A n \in 1..Len(s) : s[n].term <= t /\ \A k \in 1..n : s[k].term <= s[n].term

Piece(m, s) ==
    /\ m.prev_log_index + Len(m.entries) <= Len(s)
    /\ m.prev_log_term = TermAt(s, m.prev_log_index)
    /\ \A k \in 1..Len(m.entries) : m.entries[k] = s[m.prev_log_index + k]

(* Who has led a term, and said so.                                        *)
LedBy(i, t) == \E m \in Sent("AppendEntries") : m.from = i /\ m.term = t
Led(t) == \E m \in Sent("AppendEntries") : m.term = t

(* L[t] is the log of the leader of term t, as long as it got while it     *)
(* led; nobody campaigns in a term it has led; and what leaders know of    *)
(* the length of their peers' logs is within their own.                    *)
LeaderLogs(L) ==
    /\ L \in [Nat -> Seq(LogEntry)]
    /\ \A i \in Server :
          OfLeaders(L, log[i]) /\ \A n \in 1..Len(log[i]) : log[i][n].term <= current_term[i]
    /\ \A t \in Nat : OfLeaders(L, L[t]) /\ Sorted(L[t], t) /\ (Len(L[t]) > 0 => Led(t))
    /\ \A i \in Server : role[i] = "Leader" =>
          /\ L[current_term[i]] = log[i] /\ LedBy(i, current_term[i])
          /\ \A j \in Peers(i) : next_index[i][j] <= Len(log[i]) + 1
    /\ \A m \in Sent("AppendEntries") :
          /\ Piece(m, L[m.term])
          /\ current_term[m.from] = m.term => role[m.from] # "Candidate"
    /\ \A m \in Sent("AppendEntriesResp") :
          m.success => m.match_index <= Len(L[m.term])

(* A node without peers sends no AppendEntries, and needs none.            *)
Several == \E i, j \in Server : i # j
LogInv == Several => \E L : LeaderLogs(L)

-----------------------------------------------------------------------------
(* Logs that agree.                                                        *)

(* Places within a range.                                                  *)
LEMMA Within ==
    /\ \A n \in Nat : n # 0 => n \in 1..n
    /\ \A a, b, c \in Nat : a + b <= c => \A k \in 1..b : a + k \in 1..c
    /\ \A a, b \in Nat : a + b \in Nat
    /\ \A a, b \in Nat : a <= b => \A k \in 1..a : k \in 1..b
    /\ \A a, b, c \in Nat : a <= b /\ b <= c => a <= c
    /\ \A a, b, c \in Nat : a + b <= c => a <= c
    /\ \A a, b, c \in Nat :
          a + b <= c => \A k \in 1..b : a + k - 1 \in Nat /\ a + k - 1 <= c
  BY SMT

(* Two logs made of leaders' logs match.                                   *)
LEMMA OfLeadersMatch ==
    ASSUME NEW L, NEW r \in Seq(LogEntry), NEW s \in Seq(LogEntry),
           OfLeaders(L, r), OfLeaders(L, s),
           NEW n \in 1..Len(r), n <= Len(s), r[n].term = s[n].term
    PROVE  AgreeTo(r, s, n)
  <1>1. Len(r) \in Nat /\ Len(s) \in Nat
    BY LenProperties
  <1>2. n \in 1..Len(s)
    BY <1>1, SMT
  <1>3. AgreeTo(r, L[r[n].term], n) /\ AgreeTo(s, L[r[n].term], n)
    BY <1>2 DEF OfLeaders
  <1> QED
    BY <1>3 DEF AgreeTo

(* A log made of leaders' logs is sorted, as they are.                     *)
LEMMA OfLeadersSorted ==
    ASSUME NEW L, NEW s \in Seq(LogEntry), NEW u \in Nat, OfLeaders(L, s),
           \A t \in Nat : Sorted(L[t], t), \A n \in 1..Len(s) : s[n].term <= u
    PROVE  Sorted(s, u)
  <1> SUFFICES ASSUME NEW n \in 1..Len(s), NEW k \in 1..n PROVE s[k].term <= s[n].term
    BY DEF Sorted
  <1> DEFINE t == s[n].term
  <1>1. Len(s) \in Nat /\ s[n] \in LogEntry
    BY LenProperties, ElementOfSeq
  <1>2. t \in Nat
    BY <1>1 DEF LogEntry
  <1>3. AgreeTo(s, L[t], n)
    BY DEF OfLeaders
  <1> HIDE DEF t
  <1>4. n \in 1..Len(L[t]) /\ s[n] = L[t][n] /\ s[k] = L[t][k]
    <2>1. n <= Len(L[t]) /\ \A l \in 1..n : s[l] = L[t][l]
      BY <1>3 DEF AgreeTo
    <2> QED
      BY <1>1, <2>1, SMT
  <1> QED
    BY <1>2, <1>4 DEF Sorted

(* What the append loop makes of a log and a piece of a leader's: it       *)
(* agrees with the leader's up to the end of the piece, and wherever it    *)
(* did before.                                                             *)
LEMMA MergeAgrees ==
    ASSUME NEW L \in [Nat -> Seq(LogEntry)], NEW m \in AppendEntries, NEW lg \in Seq(LogEntry),
           NEW s \in Seq(LogEntry), OfLeaders(L, lg), OfLeaders(L, s), Piece(m, s),
           InPlace(m.entries, m.prev_log_index), Consistent(m, lg)
    PROVE  /\ MergeEntries(m, lg) \in Seq(LogEntry)
           /\ AgreeTo(MergeEntries(m, lg), s, m.prev_log_index + Len(m.entries))
           /\ \A k \in Nat : AgreeTo(lg, s, k) => AgreeTo(MergeEntries(m, lg), s, k)
           /\ \/ MergeEntries(m, lg) = lg
              \/ AgreeTo(MergeEntries(m, lg), s, Len(MergeEntries(m, lg)))
  <1> DEFINE mg == MergeEntries(m, lg)
             p == m.prev_log_index
             es == m.entries
  <1>0. p \in Nat /\ Len(es) \in Nat /\ Len(lg) \in Nat /\ Len(s) \in Nat
    <2>1. p \in Nat /\ es \in Seq(LogEntry)
      BY DEF AppendEntries
    <2> QED
      BY <2>1, LenProperties
  <1>1. /\ p + Len(es) <= Len(s) /\ m.prev_log_term = TermAt(s, p)
        /\ \A k \in 1..Len(es) : es[k] = s[p + k]
        /\ p <= Len(lg) /\ TermAt(lg, p) = m.prev_log_term
    BY DEF Piece, Consistent, LastIndex
  <1> HIDE DEF mg, p, es
  <1>2. ASSUME NEW n \in Nat, n <= Len(lg), n <= Len(s), TermAt(lg, n) = TermAt(s, n)
        PROVE  AgreeTo(lg, s, n)
    <2>1. CASE n = 0
      BY <1>0, <2>1, SMT DEF AgreeTo
    <2>2. CASE n # 0
      <3>1. n \in 1..Len(lg) /\ n \in 1..Len(s)
        BY <1>0, <1>2, <2>2, SMT
      <3>2. lg[n].term = s[n].term
        BY <1>2, <3>1 DEF TermAt, LastIndex
      <3> QED
        BY <1>2, <3>1, <3>2, OfLeadersMatch
    <2> QED
      BY <2>1, <2>2
  <1>3. ASSUME NEW k \in 1..Len(es) PROVE TermAt(s, p + k) = es[k].term
    <2>1. p + k \in 1..Len(s)
      BY <1>0, <1>1, Within
    <2> QED
      BY <1>1, <2>1 DEF TermAt, LastIndex
  <1>4. CASE /\ mg = lg
             /\ \A k \in 1..Len(es) : p + k <= Len(lg) /\ TermAt(lg, p + k) = es[k].term
    <2>1. AgreeTo(lg, s, p + Len(es))
      <3>1. CASE Len(es) = 0
        <4>1. p + Len(es) = p /\ p <= Len(s)
          BY <1>0, <1>1, <3>1, SMT
        <4> QED
          BY <1>0, <1>1, <1>2, <4>1
      <3>2. CASE Len(es) # 0
        <4>1. Len(es) \in 1..Len(es) /\ p + Len(es) \in Nat
          BY <1>0, <3>2, Within
        <4> QED
          BY <1>1, <1>2, <1>3, <1>4, <4>1
      <3> QED
        BY <3>1, <3>2
    <2> QED
      BY <1>4, <2>1 DEF mg, p, es
  <1>5. CASE \E first \in 1..Len(es) :
                /\ p + first - 1 <= Len(lg)
                /\ TermAt(lg, p + first - 1) = IF first = 1 THEN m.prev_log_term
                                               ELSE es[first - 1].term
                /\ p + first > Len(lg) \/ TermAt(lg, p + first) # es[first].term
                /\ mg \in Seq(LogEntry) /\ Len(mg) = p + Len(es)
                /\ \A n \in 1..(p + first - 1) : mg[n] = lg[n]
                /\ \A n \in (p + first - 1 + 1)..Len(mg) : mg[n] = es[n - p]
    <2>1. PICK first \in 1..Len(es) :
                /\ p + first - 1 <= Len(lg)
                /\ TermAt(lg, p + first - 1) = IF first = 1 THEN m.prev_log_term
                                               ELSE es[first - 1].term
                /\ p + first > Len(lg) \/ TermAt(lg, p + first) # es[first].term
                /\ mg \in Seq(LogEntry) /\ Len(mg) = p + Len(es)
                /\ \A n \in 1..(p + first - 1) : mg[n] = lg[n]
                /\ \A n \in (p + first - 1 + 1)..Len(mg) : mg[n] = es[n - p]
      BY <1>5
    <2>2. AgreeTo(lg, s, p + first - 1)
      <3>1. p + first - 1 \in Nat /\ p + first - 1 <= Len(s)
        BY <1>0, <1>1, Within
      <3>2. TermAt(s, p + first - 1) = IF first = 1 THEN m.prev_log_term
                                       ELSE es[first - 1].term
        <4>1. CASE first = 1
          <5>1. p + first - 1 = p
            BY <1>0, <4>1, SMT
          <5> QED
            BY <1>1, <4>1, <5>1
        <4>2. CASE first # 1
          <5>1. first - 1 \in 1..Len(es) /\ p + (first - 1) = p + first - 1
            BY <1>0, <4>2, SMT
          <5>2. TermAt(s, p + (first - 1)) = es[first - 1].term
            BY <1>3, <5>1
          <5> QED
            BY <4>2, <5>1, <5>2
        <4> QED
          BY <4>1, <4>2
      <3> QED
        BY <1>2, <2>1, <3>1, <3>2
    <2>3. ASSUME NEW n \in 1..(p + Len(es)) PROVE mg[n] = s[n]
      <3>1. CASE n <= p + first - 1
        <4>1. n \in 1..(p + first - 1)
          BY <1>0, <3>1, SMT
        <4> QED
          BY <2>1, <2>2, <4>1 DEF AgreeTo
      <3>2. CASE n > p + first - 1
        <4>1. /\ n \in (p + first - 1 + 1)..(p + Len(es))
              /\ n - p \in 1..Len(es) /\ p + (n - p) = n
          BY <1>0, <3>2, SMT
        <4>2. mg[n] = es[n - p]
          BY <2>1, <4>1
        <4>3. es[n - p] = s[p + (n - p)]
          BY <1>1, <4>1
        <4> QED
          BY <4>1, <4>2, <4>3
      <3> QED
        BY <1>0, <3>1, <3>2, SMT
    <2>4. AgreeTo(mg, s, p + Len(es))
      BY <1>0, <1>1, <2>1, <2>3, SMT DEF AgreeTo
    <2>5. ASSUME NEW k \in Nat, AgreeTo(lg, s, k) PROVE AgreeTo(mg, s, k)
      <3>1. k < p + first
        <4> SUFFICES ASSUME p + first <= k PROVE FALSE
          BY <1>0, SMT
        <4>1. /\ k <= Len(lg) /\ k <= Len(s) /\ p + first \in 1..k
          BY <1>0, <2>5, SMT DEF AgreeTo
        <4>2. /\ p + first \in 1..Len(lg) /\ p + first \in 1..Len(s)
              /\ lg[p + first] = s[p + first]
          <5>1. p + first \in 1..Len(lg) /\ p + first \in 1..Len(s)
            BY <1>0, <4>1, Within
          <5> QED
            BY <2>5, <4>1, <5>1 DEF AgreeTo
        <4>3. TermAt(lg, p + first) = TermAt(s, p + first)
          BY <4>2 DEF TermAt, LastIndex
        <4>4. TermAt(lg, p + first) = es[first].term
          BY <1>3, <4>3
        <4>5. ~(p + first > Len(lg))
          BY <1>0, <4>2, SMT
        <4> QED
          BY <2>1, <4>4, <4>5
      <3>2. k <= p + Len(es)
        BY <1>0, <3>1, SMT
      <3> QED
        <4>1. \A n \in 1..k : n \in 1..(p + Len(es))
          BY <1>0, <3>2, SMT
        <4>2. k <= Len(mg) /\ k <= Len(s)
          BY <1>0, <1>1, <2>1, <3>2, SMT
        <4> QED
          BY <2>3, <4>1, <4>2 DEF AgreeTo
    <2> QED
      BY <2>1, <2>4, <2>5 DEF mg, p, es
  <1> QED
    BY <1>4, <1>5, MergeShape DEF mg, p, es

(* An AppendEntries carries a piece of the sender's log.                   *)
LEMMA SentIsPiece ==
    ASSUME NEW i, NEW j, NEW term, NEW commit, NEW lg \in Seq(LogEntry),
           NEW next \in Nat, next >= 1, next <= Len(lg) + 1
    PROVE  Piece(SendAppendEntries(i, j, term, lg, next, commit), lg)
  <1> DEFINE es == SubSeq(lg, next, Len(lg))
             m == SendAppendEntries(i, j, term, lg, next, commit)
  <1>1. Len(lg) \in Nat
    BY LenProperties
  <1>2. \A k \in next..Len(lg) : lg[k] \in LogEntry
    BY <1>1, ElementOfSeq, SMT
  <1>3. /\ Len(es) = IF next <= Len(lg) THEN Len(lg) - next + 1 ELSE 0
        /\ \A k \in 1..(Len(lg) - next + 1) : es[k] = lg[next + k - 1]
    BY <1>1, <1>2, SubSeqProperties, SMT
  <1>4. m.entries = es /\ m.prev_log_term = TermAt(lg, next - 1) /\ m.prev_log_index = next - 1
    BY DEF SendAppendEntries, LastIndex
  <1> HIDE DEF es, m
  <1>5. next - 1 + Len(es) <= Len(lg)
    BY <1>1, <1>3, SMT
  <1>6. ASSUME NEW k \in 1..Len(es) PROVE es[k] = lg[next - 1 + k]
    <2>1. k \in 1..(Len(lg) - next + 1) /\ next + k - 1 = next - 1 + k
      BY <1>1, <1>3, SMT
    <2> QED
      BY <1>3, <2>1
  <1> QED
    BY <1>4, <1>5, <1>6 DEF Piece, m

-----------------------------------------------------------------------------
(* Leaders' logs grow.                                                     *)

Grows(L, M) == \A t \in Nat : AgreeTo(L[t], M[t], Len(L[t]))

(* What agrees with a log agrees with it when it has grown,                *)
LEMMA GrowsAgree ==
    ASSUME NEW L \in [Nat -> Seq(LogEntry)], NEW M \in [Nat -> Seq(LogEntry)], Grows(L, M),
           NEW t \in Nat, NEW s, NEW n \in Nat, AgreeTo(s, L[t], n)
    PROVE  AgreeTo(s, M[t], n)
  <1>1. Len(L[t]) \in Nat /\ Len(M[t]) \in Nat
    BY LenProperties
  <1>2. Len(L[t]) <= Len(M[t]) /\ \A k \in 1..Len(L[t]) : L[t][k] = M[t][k]
    BY DEF Grows, AgreeTo
  <1>3. n <= Len(s) /\ n <= Len(L[t]) /\ \A k \in 1..n : s[k] = L[t][k]
    BY DEF AgreeTo
  <1>4. n <= Len(M[t])
    BY <1>1, <1>2, <1>3, SMT
  <1>5. \A k \in 1..n : k \in 1..Len(L[t])
    BY <1>1, <1>3, Within
  <1> QED
    BY <1>2, <1>3, <1>4, <1>5 DEF AgreeTo

(* what is made of leaders' logs still is,                                 *)
LEMMA GrowsOfLeaders ==
    ASSUME NEW L \in [Nat -> Seq(LogEntry)], NEW M \in [Nat -> Seq(LogEntry)], Grows(L, M),
           NEW s \in Seq(LogEntry), OfLeaders(L, s)
    PROVE  OfLeaders(M, s)
  <1> SUFFICES ASSUME NEW n \in 1..Len(s) PROVE AgreeTo(s, M[s[n].term], n)
    BY DEF OfLeaders
  <1>1. s[n] \in LogEntry /\ n \in Nat
    BY ElementOfSeq, SMT
  <1>2. s[n].term \in Nat
    BY <1>1 DEF LogEntry
  <1>3. AgreeTo(s, L[s[n].term], n)
    BY DEF OfLeaders
  <1> QED
    BY <1>1, <1>2, <1>3, GrowsAgree

(* and a piece of a log still is one.                                      *)
LEMMA GrowsPiece ==
    ASSUME NEW L \in [Nat -> Seq(LogEntry)], NEW M \in [Nat -> Seq(LogEntry)], Grows(L, M),
           NEW t \in Nat, NEW m \in AppendEntries, Piece(m, L[t])
    PROVE  Piece(m, M[t])
  <1> DEFINE p == m.prev_log_index
             es == m.entries
             r == L[t]
             s == M[t]
  <1>1. p \in Nat /\ Len(es) \in Nat /\ Len(r) \in Nat /\ Len(s) \in Nat
    <2>1. p \in Nat /\ es \in Seq(LogEntry) /\ r \in Seq(LogEntry) /\ s \in Seq(LogEntry)
      BY DEF AppendEntries
    <2> QED
      BY <2>1, LenProperties
  <1>2. Len(r) <= Len(s) /\ \A k \in 1..Len(r) : r[k] = s[k]
    BY DEF Grows, AgreeTo
  <1>3. /\ p + Len(es) <= Len(r) /\ m.prev_log_term = TermAt(r, p)
        /\ \A k \in 1..Len(es) : es[k] = r[p + k]
    BY DEF Piece
  <1> HIDE DEF p, es, r, s
  <1>4. p + Len(es) <= Len(s) /\ p <= Len(r) /\ p <= Len(s)
    <2>1. p + Len(es) \in Nat
      BY <1>1, Within
    <2> QED
      BY <1>1, <1>2, <1>3, <2>1, Within
  <1>5. ASSUME NEW k \in 1..Len(es) PROVE es[k] = s[p + k]
    <2>1. p + k \in 1..Len(r)
      BY <1>1, <1>3, Within
    <2> QED
      BY <1>2, <1>3, <2>1
  <1>6. TermAt(s, p) = TermAt(r, p)
    <2>1. p \in 1..Len(r) <=> p \in 1..Len(s)
      BY <1>1, <1>4, SMT
    <2> QED
      BY <1>2, <2>1 DEF TermAt, LastIndex
  <1> QED
    BY <1>3, <1>4, <1>5, <1>6 DEF Piece, p, es, r, s

(* What a step must respect to take L to M: the logs stay what they are    *)
(* made of, what is sent fits them, who leads a term leads with its log,   *)
(* and who campaigns does so in a new term.                                *)
Follows(M) ==
    \A k \in Server :
        /\ OfLeaders(M, log'[k])
        /\ \A n \in 1..Len(log'[k]) : log'[k][n].term <= current_term'[k]

Begins(L, M) ==
    \A t \in Nat : M[t] # L[t] => OfLeaders(M, M[t]) /\ Sorted(M[t], t) /\ Led(t)'

Sends(M) ==
    /\ messages \subseteq messages'
    /\ \A m \in messages' \ messages :
          /\ m.type = "AppendEntries" => role'[m.from] = "Leader" /\ Piece(m, M[m.term])
          /\ m.type = "AppendEntriesResp" /\ m.success => m.match_index <= Len(M[m.term])

Leads(M) ==
    \A k \in Server :
        /\ role'[k] = "Leader" =>
              /\ M[current_term'[k]] = log'[k] /\ LedBy(k, current_term[k])'
              /\ \A j \in Peers(k) : next_index'[k][j] <= Len(log'[k]) + 1
        /\ role'[k] = "Candidate" =>
              \/ role[k] = "Candidate" /\ current_term'[k] = current_term[k]
              \/ current_term'[k] > current_term[k]

(* Such a step takes leaders' logs to leaders' logs.                       *)
LEMMA LeadersStep ==
    ASSUME Inv, Inv', NEW L, LeaderLogs(L), NEW M \in [Nat -> Seq(LogEntry)], Grows(L, M),
           Follows(M), Begins(L, M), Sends(M), Leads(M)
    PROVE  LeaderLogs(M)'
  <1>0. /\ Sent("AppendEntries") \subseteq Sent("AppendEntries")'
        /\ L \in [Nat -> Seq(LogEntry)]
        /\ \A m \in messages' : m.from \in Server /\ m.term \in Nat
        /\ \A m \in Sent("AppendEntries")' : m \in AppendEntries
        /\ \A m \in Sent("AppendEntriesResp")' : m \in AppendEntriesResp
        /\ \A k \in Server : current_term[k] \in Nat /\ current_term'[k] \in Nat
    BY MessageKinds DEF Sent, Sends, Inv, TypeInv, TypeOK, LeaderLogs
  <1>1. ASSUME NEW t \in Nat
        PROVE  OfLeaders(M, M[t]) /\ Sorted(M[t], t) /\ (Len(M[t]) > 0 => Led(t)')
    <2>1. CASE M[t] = L[t]
      <3>1. OfLeaders(L, L[t]) /\ Sorted(L[t], t) /\ (Len(L[t]) > 0 => Led(t))
        BY DEF LeaderLogs
      <3>2. OfLeaders(M, L[t])
        <4>1. L[t] \in Seq(LogEntry)
          BY <1>0
        <4> QED
          BY <1>0, <3>1, <4>1, GrowsOfLeaders
      <3>3. Led(t) => Led(t)'
        BY <1>0 DEF Led
      <3> QED
        BY <2>1, <3>1, <3>2, <3>3
    <2>2. CASE M[t] # L[t]
      BY <2>2 DEF Begins
    <2> QED
      BY <2>1, <2>2
  <1>2. ASSUME NEW m \in Sent("AppendEntries")'
        PROVE  /\ Piece(m, M[m.term])
               /\ current_term'[m.from] = m.term => role'[m.from] # "Candidate"
    <2>1. CASE m \in Sent("AppendEntries")
      <3>1. /\ Piece(m, L[m.term]) /\ current_term[m.from] >= m.term
            /\ current_term[m.from] = m.term => role[m.from] # "Candidate"
        BY <2>1 DEF LeaderLogs, Inv, VotesBackLeaders
      <3>2. m \in messages' /\ m \in AppendEntries
        BY <1>0 DEF Sent
      <3>3. Piece(m, M[m.term])
        BY <1>0, <3>1, <3>2, GrowsPiece
      <3>4. m.from \in Server /\ m.term \in Nat
        BY <1>0, <3>2
      <3>5. role'[m.from] = "Candidate" =>
               \/ role[m.from] = "Candidate" /\ current_term'[m.from] = current_term[m.from]
               \/ current_term'[m.from] > current_term[m.from]
        BY <3>4 DEF Leads
      <3>6. current_term[m.from] \in Nat /\ current_term'[m.from] \in Nat
        BY <1>0, <3>4
      <3> QED
        BY <3>1, <3>3, <3>4, <3>5, <3>6, SMT
    <2>2. CASE m \notin Sent("AppendEntries")
      <3>1. m \in messages' \ messages /\ m.type = "AppendEntries"
        BY <2>2 DEF Sent
      <3>2. role'[m.from] = "Leader" /\ Piece(m, M[m.term])
        BY <3>1 DEF Sends
      <3> QED
        BY <3>2
    <2> QED
      BY <2>1, <2>2
  <1>3. ASSUME NEW m \in Sent("AppendEntriesResp")', m.success
        PROVE  m.match_index <= Len(M[m.term])
    <2>1. CASE m \in Sent("AppendEntriesResp")
      <3>1. m.match_index <= Len(L[m.term])
        BY <1>3, <2>1 DEF LeaderLogs
      <3>2. m.match_index \in Nat /\ m.term \in Nat
        BY <1>0 DEF AppendEntriesResp
      <3>3. Len(L[m.term]) <= Len(M[m.term])
        BY <3>2 DEF Grows, AgreeTo
      <3>4. Len(L[m.term]) \in Nat /\ Len(M[m.term]) \in Nat
        BY <1>0, <3>2, LenProperties
      <3>5. PICK n, l, k \in Nat :
                n = m.match_index /\ l = Len(L[m.term]) /\ k = Len(M[m.term])
        BY <3>2, <3>4
      <3>6. n <= l /\ l <= k
        BY <3>1, <3>3, <3>5
      <3>7. n <= k
        BY <3>6, SMT
      <3> QED
        BY <3>5, <3>7
    <2>2. CASE m \notin Sent("AppendEntriesResp")
      <3>1. m \in messages' \ messages /\ m.type = "AppendEntriesResp"
        BY <2>2 DEF Sent
      <3> QED
        BY <1>3, <3>1 DEF Sends
    <2> QED
      BY <2>1, <2>2
  <1>4. \A k \in Server : role'[k] = "Leader" =>
            /\ M[current_term'[k]] = log'[k] /\ LedBy(k, current_term[k])'
            /\ \A j \in Peers(k) : next_index'[k][j] <= Len(log'[k]) + 1
    BY DEF Leads
  <1> QED
    BY <1>1, <1>2, <1>3, <1>4 DEF LeaderLogs, Follows

(* Most steps append nothing to a leader's log and make no leader.         *)
LEMMA LeadersSame ==
    ASSUME Inv, Inv', NEW L, LeaderLogs(L), Follows(L), Sends(L),
           \A k \in Server :
              /\ role'[k] = "Leader" =>
                    /\ role[k] = "Leader" /\ current_term'[k] = current_term[k]
                    /\ log'[k] = log[k]
                    /\ \A j \in Peers(k) : next_index'[k][j] <= Len(log'[k]) + 1
              /\ role'[k] = "Candidate" =>
                    \/ role[k] = "Candidate" /\ current_term'[k] = current_term[k]
                    \/ current_term'[k] > current_term[k]
    PROVE  LeaderLogs(L)'
  <1>1. L \in [Nat -> Seq(LogEntry)]
    BY DEF LeaderLogs
  <1>2. Grows(L, L) /\ Begins(L, L)
    <2>1. \A t \in Nat : Len(L[t]) \in Nat
      BY <1>1, LenProperties
    <2> QED
      BY <2>1, SMT DEF Grows, AgreeTo, Begins
  <1>3. Leads(L)
    <2>1. ASSUME NEW k \in Server, role[k] = "Leader", current_term'[k] = current_term[k],
                 log'[k] = log[k]
          PROVE  L[current_term'[k]] = log'[k] /\ LedBy(k, current_term[k])'
      <3>1. L[current_term[k]] = log[k] /\ LedBy(k, current_term[k])
        BY <2>1 DEF LeaderLogs
      <3>2. \A m \in Sent("AppendEntries") : m \in Sent("AppendEntries")'
        BY DEF Sent, Sends
      <3>3. LedBy(k, current_term[k])'
        BY <2>1, <3>1, <3>2 DEF LedBy
      <3> QED
        BY <2>1, <3>1, <3>3
    <2> QED
      BY <2>1 DEF Leads
  <1> QED
    BY <1>1, <1>2, <1>3, LeadersStep

(* Logs that stay are made of what they were.                              *)
LEMMA FollowsSame ==
    ASSUME Inv, Inv', NEW L, LeaderLogs(L), log' = log,
           \A k \in Server : current_term'[k] >= current_term[k]
    PROVE  Follows(L)
  <1> SUFFICES ASSUME NEW k \in Server
               PROVE  /\ OfLeaders(L, log'[k])
                      /\ \A n \in 1..Len(log'[k]) : log'[k][n].term <= current_term'[k]
    BY DEF Follows
  <1>1. OfLeaders(L, log[k]) /\ \A n \in 1..Len(log[k]) : log[k][n].term <= current_term[k]
    BY DEF LeaderLogs
  <1>2. current_term[k] \in Nat /\ current_term'[k] \in Nat /\ log[k] \in Seq(LogEntry)
    BY DEF Inv, TypeInv, TypeOK
  <1>3. ASSUME NEW n \in 1..Len(log[k]) PROVE log[k][n].term <= current_term'[k]
    <2>1. log[k][n] \in LogEntry
      BY <1>2, ElementOfSeq
    <2>2. log[k][n].term \in Nat
      BY <2>1 DEF LogEntry
    <2> QED
      BY <1>1, <1>2, <2>2, Within
  <1> QED
    BY <1>1, <1>3

(* The same where no log changes.                                          *)
LEMMA LeadersQuiet ==
    ASSUME Inv, Inv', NEW L, LeaderLogs(L), Sends(L), log' = log,
           \A k \in Server :
              /\ current_term'[k] >= current_term[k]
              /\ role'[k] = "Leader" =>
                    /\ role[k] = "Leader" /\ current_term'[k] = current_term[k]
                    /\ next_index'[k] = next_index[k]
              /\ role'[k] = "Candidate" =>
                    \/ role[k] = "Candidate" /\ current_term'[k] = current_term[k]
                    \/ current_term'[k] > current_term[k]
    PROVE  LeaderLogs(L)'
  <1>1. Follows(L)
    BY FollowsSame
  <1>2. \A k \in Server : role[k] = "Leader" =>
            \A j \in Peers(k) : next_index[k][j] <= Len(log[k]) + 1
    BY DEF LeaderLogs
  <1> QED
    BY <1>1, <1>2, LeadersSame

-----------------------------------------------------------------------------
(* Steps.                                                                  *)

(* A leader's broadcast carries pieces of its log.                         *)
LEMMA BroadcastPieces ==
    ASSUME NEW i \in Server, NEW term, NEW commit, NEW lg \in Seq(LogEntry),
           NEW next \in [Peers(i) -> Nat], \A j \in Peers(i) : next[j] >= 1,
           \A j \in Peers(i) : next[j] <= Len(lg) + 1,
           NEW m \in BroadcastAppendEntries(i, term, lg, next, commit)
    PROVE  /\ m.type = "AppendEntries" /\ m.from = i /\ m.term = term
           /\ m.leader_commit = commit
           /\ m.prev_log_index + Len(m.entries) = Len(lg) /\ Piece(m, lg)
  <1>1. PICK j \in Peers(i) : m = SendAppendEntries(i, j, term, lg, next[j], commit)
    BY DEF BroadcastAppendEntries
  <1>2. next[j] \in Nat /\ next[j] >= 1 /\ next[j] <= Len(lg) + 1
    BY SMT
  <1>3. Piece(m, lg)
    BY <1>1, <1>2, SentIsPiece
  <1>4. m.prev_log_index + Len(m.entries) = Len(lg)
    <2>1. m.prev_log_index = next[j] - 1 /\ m.entries = SubSeq(lg, next[j], Len(lg))
      BY <1>1 DEF SendAppendEntries, LastIndex
    <2>2. Len(lg) \in Nat
      BY LenProperties
    <2>3. \A k \in next[j]..Len(lg) : lg[k] \in LogEntry
      BY <1>2, <2>2, ElementOfSeq, SMT
    <2>4. Len(SubSeq(lg, next[j], Len(lg))) =
              IF next[j] <= Len(lg) THEN Len(lg) - next[j] + 1 ELSE 0
      BY <1>2, <2>2, <2>3, SubSeqProperties, SMT
    <2> QED
      BY <1>2, <2>1, <2>2, <2>4, SMT
  <1> QED
    BY <1>1, <1>3, <1>4 DEF SendAppendEntries

(* A leader's heartbeats.                                                  *)
LEMMA LeadersTickLeader ==
    ASSUME Inv, Inv', NEW L, LeaderLogs(L), NEW i \in Server, TickLeader(i)
    PROVE  LeaderLogs(L)'
  <1> DEFINE b == BroadcastAppendEntries(i, current_term[i], log[i], next_index[i], commit_index[i])
  <1>0. /\ next_index[i] \in [Peers(i) -> Nat] /\ log[i] \in Seq(LogEntry)
        /\ \A j \in Peers(i) : next_index[i][j] >= 1
        /\ \A k \in Server : current_term[k] \in Nat
    BY DEF Inv, TypeInv, TypeOK, EntriesInPlace, TickLeader
  <1>1. /\ L[current_term[i]] = log[i]
        /\ \A j \in Peers(i) : next_index[i][j] <= Len(log[i]) + 1
    BY DEF LeaderLogs, TickLeader
  <1>2. \A m \in b : /\ m.type = "AppendEntries" /\ m.from = i
                     /\ Piece(m, L[m.term])
    BY <1>0, <1>1, BroadcastPieces, SMT
  <1> HIDE DEF b
  <1>3. messages' = messages \/ messages' = messages \cup b
    BY DEF TickLeader, Send, b
  <1>4. role[i] = "Leader" /\ UNCHANGED <<role, current_term, log, next_index>>
    BY DEF TickLeader, electionVars, logVars, leaderVars
  <1>5. Sends(L)
    BY <1>2, <1>3, <1>4 DEF Sends
  <1> QED
    BY <1>0, <1>4, <1>5, LeadersQuiet, SMT

(* Node i begins to lead term t, with what it has for the term's log.      *)
Wins(L, M, i, t) ==
    /\ t = current_term'[i] /\ BecomeLeader(i, t) /\ log' = log
    /\ current_term'[i] >= current_term[i]
    /\ \A k \in Server : k # i => current_term'[k] = current_term[k]
    /\ \A m \in Sent("AppendEntries") : m.from = i => m.term # t
    /\ M = [L EXCEPT ![t] = log[i]]

(* Nobody has led that term.                                               *)
LEMMA NewLeader ==
    ASSUME Inv, Inv', NEW L, LeaderLogs(L), NEW M, NEW i \in Server, NEW t \in Nat,
           Wins(L, M, i, t)
    PROVE  /\ ~Led(t) /\ Len(L[t]) = 0 /\ M[t] = log[i] /\ Grows(L, M)
           /\ M \in [Nat -> Seq(LogEntry)] /\ \A u \in Nat : u # t => M[u] = L[u]
  <1>0. L \in [Nat -> Seq(LogEntry)] /\ log[i] \in Seq(LogEntry)
    BY DEF LeaderLogs, Inv, TypeInv, TypeOK
  <1>1. ~Led(t)
    <2> SUFFICES ASSUME NEW m \in Sent("AppendEntries"), m.term = t PROVE FALSE
      BY DEF Led
    <2>1. role'[i] = "Leader" /\ messages \subseteq messages'
      BY DEF Wins, BecomeLeader, Send, Inv, TypeInv, TypeOK
    <2>2. m \in Sent("AppendEntries")'
      BY <2>1 DEF Sent
    <2>3. ElectionSafety'
      BY ElectionSafetyFromVotes, PTL
    <2>4. m.from = i
      BY <2>1, <2>2, <2>3 DEF ElectionSafety, Wins
    <2> QED
      BY <2>4 DEF Wins
  <1>2. Len(L[t]) = 0
    <2>1. ~(Len(L[t]) > 0)
      BY <1>1 DEF LeaderLogs
    <2>2. Len(L[t]) \in Nat
      BY <1>0, LenProperties
    <2> QED
      BY <2>1, <2>2, SMT
  <1>3. /\ M[t] = log[i] /\ M \in [Nat -> Seq(LogEntry)]
        /\ \A u \in Nat : u # t => M[u] = L[u]
    <2>1. M = [L EXCEPT ![t] = log[i]]
      BY DEF Wins
    <2> QED
      BY <1>0, <2>1
  <1>4. ASSUME NEW u \in Nat PROVE AgreeTo(L[u], M[u], Len(L[u]))
    <2>1. Len(L[u]) \in Nat /\ Len(M[u]) \in Nat
      BY <1>0, <1>3, LenProperties
    <2>2. CASE u = t
      <3>1. /\ 0 <= Len(L[u]) /\ 0 <= Len(M[u]) /\ 1..0 = {}
        BY <2>1, SMT
      <3> QED
        BY <1>2, <2>2, <3>1 DEF AgreeTo
    <2>3. CASE u # t
      <3>1. M[u] = L[u]
        BY <1>3, <2>3
      <3>2. Len(L[u]) <= Len(L[u])
        BY <2>1, SMT
      <3> QED
        BY <3>1, <3>2 DEF AgreeTo
    <2> QED
      BY <2>2, <2>3
  <1> QED
    BY <1>1, <1>2, <1>3, <1>4 DEF Grows

(* A new leader says so to a peer it has.                                  *)
LEMMA LeadersBecomeLeader ==
    ASSUME Inv, Inv', Several, NEW L, LeaderLogs(L), NEW M, NEW i \in Server, NEW t \in Nat,
           Wins(L, M, i, t)
    PROVE  LeaderLogs(M)'
  <1> DEFINE next == [j \in Peers(i) |-> LastIndex(log[i]) + 1]
             b == BroadcastAppendEntries(i, t, log[i], next, commit_index[i])
  <1>0. /\ L \in [Nat -> Seq(LogEntry)] /\ log \in [Server -> Seq(LogEntry)]
    BY DEF LeaderLogs, Inv, TypeInv, TypeOK
  <1>b. \A k \in Server : current_term[k] \in Nat
    BY DEF Inv, TypeInv, TypeOK
  <1>c. Len(log[i]) \in Nat
    BY <1>0, LenProperties
  <1>a. /\ t = current_term'[i] /\ log' = log /\ current_term'[i] >= current_term[i]
        /\ \A k \in Server : k # i => current_term'[k] = current_term[k]
    BY DEF Wins
  <1>1. /\ ~Led(t) /\ M[t] = log[i] /\ Grows(L, M) /\ M \in [Nat -> Seq(LogEntry)]
        /\ \A u \in Nat : u # t => M[u] = L[u]
    <2>1. ~Led(t) /\ M[t] = log[i] /\ Grows(L, M)
      BY NewLeader, SMT
    <2>2. M \in [Nat -> Seq(LogEntry)]
      BY NewLeader
    <2>3. M = [L EXCEPT ![t] = log[i]]
      BY DEF Wins
    <2>4. \A u \in Nat : u # t => M[u] = L[u]
      BY <1>0, <2>3
    <2> QED
      BY <2>1, <2>2, <2>4
  <1>2. messages' = messages \cup b /\ next_index' = [next_index EXCEPT ![i] = next]
    BY DEF Wins, BecomeLeader, Send
  <1>3. /\ next \in [Peers(i) -> Nat] /\ \A j \in Peers(i) : next[j] >= 1
        /\ \A j \in Peers(i) : next[j] <= Len(log[i]) + 1
    <2>1. LastIndex(log[i]) + 1 \in Nat /\ LastIndex(log[i]) + 1 >= 1
          /\ LastIndex(log[i]) + 1 <= Len(log[i]) + 1
      BY <1>c, SMT DEF LastIndex
    <2> QED
      BY <2>1
  <1>4. \A m \in b : /\ m.type = "AppendEntries" /\ m.from = i /\ m.term = t
                     /\ Piece(m, M[m.term])
    <2> HIDE DEF next
    <2>1. log[i] \in Seq(LogEntry)
      BY <1>0
    <2>2. \A m \in b : /\ m.type = "AppendEntries" /\ m.from = i /\ m.term = t
                       /\ Piece(m, log[i])
      BY <1>3, <2>1, BroadcastPieces, SMT
    <2> HIDE DEF b
    <2> QED
      BY <1>1, <2>2
  <1>5. b # {}
    <2>1. PICK j \in Server : j # i
      BY DEF Several
    <2>2. j \in Peers(i)
      BY <2>1 DEF Peers
    <2> QED
      BY <2>2 DEF BroadcastAppendEntries
  <1>6. /\ \A k \in Server : role'[k] = IF k = i THEN "Leader" ELSE role[k]
        /\ \A k \in Server : next_index'[k] = IF k = i THEN next ELSE next_index[k]
    <2> HIDE DEF next
    <2> QED
      BY <1>2 DEF Wins, BecomeLeader, Inv, TypeInv, TypeOK
  <1> HIDE DEF b
  <1>7. /\ LedBy(i, current_term[i])' /\ Led(t)'
        /\ \A k \in Server : LedBy(k, current_term[k]) /\ k # i => LedBy(k, current_term[k])'
    BY <1>a, <1>2, <1>4, <1>5 DEF LedBy, Led, Sent
  <1>8. Follows(L)
    <2>1. \A k \in Server : current_term'[k] >= current_term[k]
      BY <1>a, <1>b, SMT
    <2> QED
      BY <1>a, <2>1, FollowsSame
  <1>9. Follows(M)
    <2>1. ASSUME NEW k \in Server PROVE OfLeaders(M, log'[k])
      <3>1. OfLeaders(L, log[k]) /\ log[k] \in Seq(LogEntry)
        BY <1>0 DEF LeaderLogs
      <3> QED
        BY <1>0, <1>1, <1>a, <3>1, GrowsOfLeaders
    <2> QED
      BY <1>8, <2>1 DEF Follows
  <1>10. Begins(L, M)
    <2>1. OfLeaders(M, M[t])
      BY <1>1, <1>9, <1>a DEF Follows
    <2>2. Sorted(M[t], t)
      <3>1. \A n \in 1..Len(log[i]) : log[i][n].term <= t
        BY <1>8, <1>a DEF Follows
      <3>2. OfLeaders(L, log[i]) /\ (\A u \in Nat : Sorted(L[u], u)) /\ log[i] \in Seq(LogEntry)
        BY <1>0 DEF LeaderLogs
      <3> QED
        BY <1>1, <3>1, <3>2, OfLeadersSorted
    <2> QED
      BY <1>1, <1>7, <2>1, <2>2 DEF Begins
  <1>11. Sends(M)
    <2>1. \A m \in messages' \ messages : m \in b
      BY <1>2
    <2> QED
      BY <1>2, <1>4, <1>6, <2>1 DEF Sends
  <1>12. Leads(M)
    <2> SUFFICES ASSUME NEW k \in Server
                 PROVE  /\ role'[k] = "Leader" =>
                              /\ M[current_term'[k]] = log'[k] /\ LedBy(k, current_term[k])'
                              /\ \A j \in Peers(k) : next_index'[k][j] <= Len(log'[k]) + 1
                        /\ role'[k] = "Candidate" =>
                              \/ role[k] = "Candidate" /\ current_term'[k] = current_term[k]
                              \/ current_term'[k] > current_term[k]
      BY DEF Leads
    <2>1. CASE k = i
      <3>1. next_index'[k] = next
        BY <1>6, <2>1
      <3>2. role'[k] # "Candidate"
        BY <1>6, <2>1
      <3> HIDE DEF next
      <3> QED
        BY <1>1, <1>3, <1>7, <1>a, <2>1, <3>1, <3>2
    <2>2. CASE k # i
      <3>1. role'[k] = role[k] /\ next_index'[k] = next_index[k] /\ current_term'[k] = current_term[k]
        BY <1>6, <1>a, <2>2
      <3>2. ASSUME role[k] = "Leader"
            PROVE  /\ L[current_term[k]] = log[k] /\ LedBy(k, current_term[k])
                   /\ \A j \in Peers(k) : next_index[k][j] <= Len(log[k]) + 1
        BY <3>2 DEF LeaderLogs
      <3>3. role[k] = "Leader" => current_term[k] # t
        BY <1>1, <3>2 DEF LedBy, Led
      <3>4. current_term[k] \in Nat
        BY <1>b
      <3> QED
        BY <1>1, <1>7, <1>a, <2>2, <3>1, <3>2, <3>3, <3>4
    <2> QED
      BY <2>1, <2>2
  <1> QED
    BY <1>1, <1>9, <1>10, <1>11, <1>12, LeadersStep

-----------------------------------------------------------------------------
(* Terms only grow, and most steps change no log, acknowledge nothing and  *)
(* neither make a leader nor change what one knows of its peers.           *)
Onward == \A k \in Server : current_term'[k] >= current_term[k]

Calm ==
    /\ messages \subseteq messages' /\ log' = log
    /\ \A m \in messages' \ messages :
          m.type # "AppendEntries" /\ ~(m.type = "AppendEntriesResp" /\ m.success)
    /\ \A k \in Server :
          /\ role'[k] = "Leader" =>
                /\ role[k] = "Leader" /\ current_term'[k] = current_term[k]
                /\ next_index'[k] = next_index[k] /\ match_index'[k] = match_index[k]
          /\ role'[k] = "Candidate" =>
                \/ role[k] = "Candidate" /\ current_term'[k] = current_term[k]
                \/ current_term'[k] > current_term[k]

(* Such steps leave leaders' logs alone.                                   *)
LEMMA LeadersCalm ==
    ASSUME Inv, Inv', Onward, Calm, NEW L, LeaderLogs(L)
    PROVE  LeaderLogs(L)'
  <1>1. Sends(L)
    BY DEF Calm, Sends
  <1> QED
    BY <1>1, LeadersQuiet DEF Onward, Calm

(* Where there are several nodes none is a quorum.                         *)
LEMMA NoneAlone ==
    ASSUME Several
    PROVE  ~(1 >= QuorumSize)
  <1>1. PICK i, j \in Server : i # j
    BY DEF Several
  <1>2. IsFiniteSet({i}) /\ Cardinality({i}) = 1
    BY FS_Singleton
  <1>3. IsFiniteSet({i} \cup {j}) /\ Cardinality({i} \cup {j}) = 2
    BY <1>1, <1>2, FS_AddElement, SMT
  <1>4. Cardinality({i} \cup {j}) <= Cardinality(Server)
    BY <1>1, FS_Subset, ServerAssumption
  <1>5. PICK n \in Nat : n = Cardinality(Server)
    BY FS_CardinalityType, ServerAssumption
  <1>6. 2 <= n
    BY <1>3, <1>4, <1>5
  <1>7. ~(1 >= n \div 2 + 1)
    BY <1>6, SMT
  <1> QED
    BY <1>5, <1>7 DEF QuorumSize

(* Steps of a node by itself.                                              *)
LEMMA CalmOwn ==
    ASSUME Inv, Several, NEW i \in Server,
           BecomeCandidate(i) \/ TickElection(i) \/ TakeCommitted(i) \/ Restart(i)
    PROVE  Calm
  <1>0. /\ role \in [Server -> {"Follower", "Candidate", "Leader"}]
        /\ current_term \in [Server -> Nat]
    BY DEF Inv, TypeInv, TypeOK
  <1>1. CASE BecomeCandidate(i)
    <2>1. /\ role' = [role EXCEPT ![i] = "Candidate"]
          /\ messages' = messages \cup RequestVotes(i, current_term[i] + 1, log[i])
          /\ current_term' = [current_term EXCEPT ![i] = current_term[i] + 1]
          /\ log' = log /\ UNCHANGED <<next_index, match_index>>
      BY <1>1, NoneAlone DEF BecomeCandidate, Send, logVars, leaderVars
    <2>2. \A m \in RequestVotes(i, current_term[i] + 1, log[i]) : m.type = "RequestVote"
      BY SMT DEF RequestVotes
    <2>3. \A k \in Server : /\ role'[k] = IF k = i THEN "Candidate" ELSE role[k]
                            /\ k # i => current_term'[k] = current_term[k]
      BY <1>0, <2>1
    <2>4. current_term'[i] > current_term[i]
      BY <1>0, <2>1, SMT
    <2>5. /\ messages \subseteq messages'
          /\ \A m \in messages' \ messages :
                m.type # "AppendEntries" /\ ~(m.type = "AppendEntriesResp" /\ m.success)
      BY <2>1, <2>2
    <2> QED
      BY <2>1, <2>3, <2>4, <2>5, SMT DEF Calm
  <1>2. CASE TickElection(i) \/ TakeCommitted(i)
    <2>1. UNCHANGED <<messages, role, current_term, log, next_index, match_index>>
      BY <1>2 DEF TickElection, TakeCommitted, electionVars, logVars, leaderVars
    <2> QED
      BY <2>1 DEF Calm
  <1>3. CASE Restart(i)
    <2>1. UNCHANGED <<messages, current_term, log>>
      BY <1>3 DEF Restart
    <2>2. \A k \in Server : /\ role'[k] = IF k = i THEN "Follower" ELSE role[k]
                            /\ k # i => /\ next_index'[k] = next_index[k]
                                        /\ match_index'[k] = match_index[k]
      BY <1>0, <1>3 DEF Restart, Inv, TypeInv, TypeOK
    <2> QED
      BY <2>1, <2>2 DEF Calm
  <1> QED
    BY <1>1, <1>2, <1>3

(* Steps on a message, but for an election won and what an AppendEntries   *)
(* or its response does.                                                   *)
LEMMA CalmMessage ==
    ASSUME Inv, NEW i \in Server, NEW m \in messages,
           RejectStale(i, m) \/ StepDown(i, m) \/ HandleRequestVote(i, m)
    PROVE  Calm
  <1>0. /\ role \in [Server -> {"Follower", "Candidate", "Leader"}]
        /\ current_term \in [Server -> Nat] /\ m.term \in Nat
    BY MessageKinds DEF Inv, TypeInv, TypeOK
  <1>1. CASE RejectStale(i, m)
    <2>1. \/ messages' = messages \cup {VoteResp(i, m.from, current_term[i], FALSE)}
          \/ messages' = messages \cup {AppendResp(i, m.from, current_term[i], FALSE, 0)}
      BY <1>1 DEF RejectStale, Send
    <2>2. /\ messages \subseteq messages'
          /\ \A n \in messages' \ messages :
                n.type # "AppendEntries" /\ ~(n.type = "AppendEntriesResp" /\ n.success)
      BY <2>1, SMT DEF VoteResp, AppendResp
    <2>3. UNCHANGED <<role, current_term, log, next_index, match_index>>
      BY <1>1 DEF RejectStale, electionVars, logVars, leaderVars
    <2> QED
      BY <2>2, <2>3 DEF Calm
  <1>2. CASE StepDown(i, m)
    <2>1. UNCHANGED <<messages, log, next_index, match_index>>
      BY <1>2 DEF StepDown, logVars, leaderVars
    <2>2. /\ \A k \in Server : role'[k] = IF k = i THEN "Follower" ELSE role[k]
          /\ \A k \in Server : k # i => current_term'[k] = current_term[k]
      BY <1>0, <1>2 DEF StepDown, BecomeFollower
    <2> QED
      BY <2>1, <2>2 DEF Calm
  <1>3. CASE HandleRequestVote(i, m)
    <2>1. /\ role' = [role EXCEPT ![i] = IF m.term > current_term[i] THEN "Follower" ELSE role[i]]
          /\ current_term' = [current_term EXCEPT ![i] = m.term]
          /\ m.term >= current_term[i] /\ log' = log
          /\ next_index' = next_index /\ match_index' = match_index
      BY <1>3 DEF HandleRequestVote, logVars, leaderVars
    <2>2. \E g : messages' = messages \cup {VoteResp(i, m.from, m.term, g)}
      BY <1>3 DEF HandleRequestVote, Send
    <2>3. /\ messages \subseteq messages'
          /\ \A n \in messages' \ messages :
                n.type # "AppendEntries" /\ ~(n.type = "AppendEntriesResp" /\ n.success)
      BY <2>2, SMT DEF VoteResp
    <2>4. \A k \in Server :
              /\ role'[k] = "Leader" => role[k] = "Leader" /\ current_term'[k] = current_term[k]
              /\ role'[k] = "Candidate" =>
                     role[k] = "Candidate" /\ current_term'[k] = current_term[k]
      BY <1>0, <2>1, SMT
    <2> QED
      BY <2>1, <2>3, <2>4 DEF Calm
  <1> QED
    BY <1>1, <1>2, <1>3

(* A vote that completes a quorum makes a leader, any other changes        *)
(* nothing here.                                                           *)
LEMMA VoteCounted ==
    ASSUME Inv, NEW L, LeaderLogs(L), NEW i \in Server, NEW m \in messages,
           HandleRequestVoteResp(i, m)
    PROVE  Calm \/ Wins(L, [L EXCEPT ![current_term[i]] = log[i]], i, current_term[i])
  <1>1. CASE Cardinality(votes_granted[i] \cup {m.from}) >= QuorumSize
    <2>1. BecomeLeader(i, current_term[i]) /\ UNCHANGED <<current_term, log>>
      BY <1>1 DEF HandleRequestVoteResp, logVars
    <2>2. \A n \in Sent("AppendEntries") : n.from = i => n.term # current_term[i]
      BY DEF LeaderLogs, HandleRequestVoteResp
    <2>3. current_term'[i] >= current_term[i]
      BY <2>1, SMT DEF Inv, TypeInv, TypeOK
    <2> QED
      BY <2>1, <2>2, <2>3 DEF Wins
  <1>2. CASE ~(Cardinality(votes_granted[i] \cup {m.from}) >= QuorumSize)
    <2>1. UNCHANGED <<messages, role, current_term, log, next_index, match_index>>
      BY <1>2 DEF HandleRequestVoteResp, logVars, leaderVars
    <2> QED
      BY <2>1 DEF Calm
  <1> QED
    BY <1>1, <1>2

(* A log that agrees to its end with one made of leaders' logs is too.     *)
LEMMA OfLeadersPrefix ==
    ASSUME NEW L \in [Nat -> Seq(LogEntry)], NEW r \in Seq(LogEntry), NEW s \in Seq(LogEntry),
           NEW u \in Nat, OfLeaders(L, s), Sorted(s, u), AgreeTo(r, s, Len(r))
    PROVE  OfLeaders(L, r) /\ \A n \in 1..Len(r) : r[n].term <= u
  <1> SUFFICES ASSUME NEW n \in 1..Len(r)
               PROVE  AgreeTo(r, L[r[n].term], n) /\ r[n].term <= u
    BY DEF OfLeaders
  <1>1. Len(r) \in Nat /\ Len(s) \in Nat
    BY LenProperties
  <1>2. Len(r) <= Len(s) /\ \A k \in 1..Len(r) : r[k] = s[k]
    BY DEF AgreeTo
  <1>3. n \in 1..Len(s) /\ n <= Len(r)
    BY <1>1, <1>2, SMT
  <1>4. r[n] = s[n] /\ AgreeTo(s, L[s[n].term], n) /\ s[n].term <= u
    BY <1>2, <1>3 DEF OfLeaders, Sorted
  <1>5. \A k \in 1..n : r[k] = s[k]
    BY <1>1, <1>2, <1>3, SMT
  <1> QED
    BY <1>3, <1>4, <1>5 DEF AgreeTo

(* What a follower does with an AppendEntries, seen from the log of the    *)
(* leader: it either keeps its log or holds all of the message after it,   *)
(* and it loses nothing it had of that log.                                *)
Appended(L, i, m) ==
    /\ m \in Sent("AppendEntries") /\ m.term >= current_term[i]
    /\ m.term = current_term[i] => role[i] # "Leader"
    /\ current_term'[i] = m.term /\ role'[i] = "Follower"
    /\ \A k \in Server : k # i =>
          /\ log'[k] = log[k] /\ commit_index'[k] = commit_index[k]
          /\ role'[k] = role[k] /\ current_term'[k] = current_term[k]
    /\ UNCHANGED <<next_index, match_index, last_applied, applied>>
    /\ \/ /\ log' = log /\ commit_index' = commit_index
          /\ messages' = messages \cup {AppendResp(i, m.from, m.term, FALSE, 0)}
       \/ /\ messages' = messages \cup
                {AppendResp(i, m.from, m.term, TRUE, m.prev_log_index + Len(m.entries))}
          /\ AgreeTo(log'[i], L[m.term], m.prev_log_index + Len(m.entries))
          /\ \A k \in Nat : AgreeTo(log[i], L[m.term], k) => AgreeTo(log'[i], L[m.term], k)
          /\ log'[i] = log[i] \/ AgreeTo(log'[i], L[m.term], Len(log'[i]))
          /\ commit_index'[i] = FollowerCommit(m, log'[i], commit_index[i])

(* That is what HandleAppendEntries does.                                  *)
LEMMA AppendedByHandler ==
    ASSUME Inv, NEW L, LeaderLogs(L), NEW i \in Server, NEW m \in messages,
           HandleAppendEntries(i, m)
    PROVE  Appended(L, i, m)
  <1> DEFINE mg == MergeEntries(m, log[i])
             s == L[m.term]
  <1>1. m \in Sent("AppendEntries") /\ m \in AppendEntries /\ m.term \in Nat
    BY MessageKinds DEF HandleAppendEntries, Sent, Inv, TypeInv, TypeOK
  <1>2. /\ m.term >= current_term[i] /\ (m.term = current_term[i] => role[i] # "Leader")
        /\ BecomeFollower(i, m.term, m.from)
        /\ UNCHANGED <<next_index, match_index, last_applied, applied>>
    BY DEF HandleAppendEntries, applyVars, leaderVars
  <1>3. /\ current_term'[i] = m.term /\ role'[i] = "Follower"
        /\ \A k \in Server : k # i => role'[k] = role[k] /\ current_term'[k] = current_term[k]
    BY <1>2 DEF BecomeFollower, Inv, TypeInv, TypeOK
  <1>4. CASE Consistent(m, log[i])
    <2>1. /\ log' = [log EXCEPT ![i] = mg]
          /\ commit_index' = [commit_index EXCEPT ![i] = FollowerCommit(m, mg, commit_index[i])]
          /\ messages' = messages \cup
                {AppendResp(i, m.from, m.term, TRUE, m.prev_log_index + Len(m.entries))}
      BY <1>4 DEF HandleAppendEntries, Send
    <2>2. /\ L \in [Nat -> Seq(LogEntry)] /\ s \in Seq(LogEntry) /\ log[i] \in Seq(LogEntry)
          /\ InPlace(m.entries, m.prev_log_index)
      BY <1>1 DEF LeaderLogs, Inv, TypeInv, TypeOK, EntriesInPlace
    <2>3. OfLeaders(L, log[i]) /\ OfLeaders(L, s) /\ Piece(m, s)
      BY <1>1 DEF LeaderLogs
    <2>4. /\ AgreeTo(mg, s, m.prev_log_index + Len(m.entries))
          /\ \A k \in Nat : AgreeTo(log[i], s, k) => AgreeTo(mg, s, k)
          /\ mg = log[i] \/ AgreeTo(mg, s, Len(mg))
      BY <1>1, <1>4, <2>2, <2>3, MergeAgrees
    <2> HIDE DEF mg, s
    <2>5. /\ log'[i] = mg /\ commit_index'[i] = FollowerCommit(m, log'[i], commit_index[i])
          /\ \A k \in Server : k # i => log'[k] = log[k] /\ commit_index'[k] = commit_index[k]
      BY <2>1 DEF Inv, TypeInv, TypeOK
    <2> QED
      BY <1>1, <1>2, <1>3, <2>1, <2>4, <2>5 DEF Appended, s
  <1>5. CASE ~Consistent(m, log[i])
    <2>1. /\ log' = log /\ commit_index' = commit_index
          /\ messages' = messages \cup {AppendResp(i, m.from, m.term, FALSE, 0)}
      BY <1>5 DEF HandleAppendEntries, Send, logVars
    <2> QED
      BY <1>1, <1>2, <1>3, <2>1 DEF Appended
  <1> QED
    BY <1>4, <1>5

(* A follower takes what its leader sends.                                 *)
LEMMA LeadersAppended ==
    ASSUME Inv, Inv', Onward, NEW L, LeaderLogs(L), NEW i \in Server, NEW m \in messages,
           Appended(L, i, m)
    PROVE  LeaderLogs(L)'
  <1>0. /\ L \in [Nat -> Seq(LogEntry)] /\ log[i] \in Seq(LogEntry) /\ log'[i] \in Seq(LogEntry)
        /\ m.term \in Nat
    BY MessageKinds DEF LeaderLogs, Inv, TypeInv, TypeOK
  <1>1. m \in Sent("AppendEntries") /\ Piece(m, L[m.term])
    BY DEF Appended, LeaderLogs
  <1>2. \A k \in Server : /\ role'[k] = "Leader" => role[k] = "Leader"
                          /\ role'[k] = "Candidate" => role[k] = "Candidate"
                          /\ role'[k] # "Follower" =>
                                /\ log'[k] = log[k] /\ current_term'[k] = current_term[k]
                                /\ next_index'[k] = next_index[k]
    BY DEF Appended
  <1>3. Follows(L)
    <2> SUFFICES ASSUME NEW k \in Server
                 PROVE  /\ OfLeaders(L, log'[k])
                        /\ \A n \in 1..Len(log'[k]) : log'[k][n].term <= current_term'[k]
      BY DEF Follows
    <2>1. CASE log'[k] = log[k]
      <3>1. OfLeaders(L, log[k]) /\ \A n \in 1..Len(log[k]) : log[k][n].term <= current_term[k]
        BY DEF LeaderLogs
      <3>2. /\ current_term[k] \in Nat /\ current_term'[k] \in Nat
            /\ current_term[k] <= current_term'[k]
        BY DEF Inv, TypeInv, TypeOK, Onward
      <3>3. ASSUME NEW n \in 1..Len(log[k]) PROVE log[k][n].term \in Nat
        <4>1. log[k][n] \in LogEntry
          BY ElementOfSeq DEF Inv, TypeInv, TypeOK
        <4> QED
          BY <4>1 DEF LogEntry
      <3> QED
        BY <2>1, <3>1, <3>2, <3>3, Within
    <2>2. CASE log'[k] # log[k]
      <3>1. k = i /\ AgreeTo(log'[i], L[m.term], Len(log'[i])) /\ current_term'[i] = m.term
        BY <2>2 DEF Appended
      <3>2. OfLeaders(L, L[m.term]) /\ Sorted(L[m.term], m.term) /\ L[m.term] \in Seq(LogEntry)
        BY <1>0 DEF LeaderLogs
      <3> QED
        BY <1>0, <3>1, <3>2, OfLeadersPrefix
    <2> QED
      BY <2>1, <2>2
  <1>4. Sends(L)
    <2>1. m.prev_log_index + Len(m.entries) <= Len(L[m.term])
      BY <1>1 DEF Piece
    <2>2. \/ messages' = messages \cup {AppendResp(i, m.from, m.term, FALSE, 0)}
          \/ messages' = messages \cup
                {AppendResp(i, m.from, m.term, TRUE, m.prev_log_index + Len(m.entries))}
      BY DEF Appended
    <2> QED
      BY <2>1, <2>2, SMT DEF Sends, AppendResp
  <1>5. \A k \in Server : role[k] = "Leader" =>
            \A j \in Peers(k) : next_index[k][j] <= Len(log[k]) + 1
    BY DEF LeaderLogs
  <1>6. \A k \in Server :
              /\ role'[k] = "Leader" =>
                    /\ role[k] = "Leader" /\ current_term'[k] = current_term[k]
                    /\ log'[k] = log[k]
                    /\ \A j \in Peers(k) : next_index'[k][j] <= Len(log'[k]) + 1
              /\ role'[k] = "Candidate" =>
                    \/ role[k] = "Candidate" /\ current_term'[k] = current_term[k]
                    \/ current_term'[k] > current_term[k]
    BY <1>2, <1>5
  <1> QED
    BY <1>3, <1>4, <1>6, LeadersSame

(* What a leader learns from a response changes only its bookkeeping.      *)
LEMMA LeadersAck ==
    ASSUME Inv, Inv', NEW L, LeaderLogs(L), NEW i \in Server, NEW m \in messages,
           HandleAppendEntriesResp(i, m)
    PROVE  LeaderLogs(L)'
  <1>1. /\ UNCHANGED <<messages, role, current_term, log>>
        /\ m.type = "AppendEntriesResp" /\ m.term = current_term[i] /\ role[i] = "Leader"
    BY DEF HandleAppendEntriesResp, electionVars
  <1>2. Follows(L) /\ Sends(L)
    <2>1. \A k \in Server : current_term'[k] >= current_term[k]
      BY <1>1, SMT DEF Inv, TypeInv, TypeOK
    <2>2. Sends(L)
      BY <1>1 DEF Sends
    <2> QED
      BY <1>1, <2>1, <2>2, FollowsSame
  <1>3. /\ \A k \in Server : role[k] = "Leader" =>
               \A j \in Peers(k) : next_index[k][j] <= Len(log[k]) + 1
        /\ L[current_term[i]] = log[i]
    BY <1>1 DEF LeaderLogs
  <1>4. m.success => m.match_index <= Len(log[i])
    BY <1>1, <1>3 DEF LeaderLogs, Sent
  <1>5. m.match_index \in Nat /\ Len(log[i]) \in Nat
    <2>1. m \in AppendEntriesResp /\ log[i] \in Seq(LogEntry)
      BY <1>1, MessageKinds DEF Inv, TypeInv, TypeOK
    <2> QED
      BY <2>1, LenProperties DEF AppendEntriesResp
  <1>6. DOMAIN next_index = Server /\ next_index[i] \in [Peers(i) -> Nat]
    BY DEF Inv, TypeInv, TypeOK
  <1>7. \E n \in Nat : /\ next_index' = [next_index EXCEPT ![i] = [next_index[i] EXCEPT ![m.from] = n]]
                       /\ n <= Len(log[i]) + 1 \/ m.from \notin Peers(i)
    <2>1. CASE m.success
      <3>1. next_index' = [next_index EXCEPT ![i][m.from] = m.match_index + 1]
        BY <2>1 DEF HandleAppendEntriesResp
      <3>2. m.match_index + 1 \in Nat /\ m.match_index + 1 <= Len(log[i]) + 1
        BY <1>4, <1>5, <2>1, SMT
      <3> QED
        BY <3>1, <3>2
    <2>2. CASE ~m.success /\ m.from \in Peers(i)
      <3>1. next_index' = [next_index EXCEPT ![i] =
                              [next_index[i] EXCEPT ![m.from] = BackOff(next_index[i][m.from])]]
        BY <1>6, <2>2 DEF HandleAppendEntriesResp
      <3>2. next_index[i][m.from] \in Nat /\ next_index[i][m.from] <= Len(log[i]) + 1
        BY <1>1, <1>3, <1>6, <2>2
      <3>3. BackOff(next_index[i][m.from]) \in Nat
            /\ BackOff(next_index[i][m.from]) <= Len(log[i]) + 1
        BY <1>5, <3>2, SMT DEF BackOff
      <3> QED
        BY <3>1, <3>3
    <2>3. CASE ~m.success /\ m.from \notin Peers(i)
      <3>1. next_index' = [next_index EXCEPT ![i] = next_index[i]]
        BY <1>6, <2>3 DEF HandleAppendEntriesResp
      <3>2. [next_index[i] EXCEPT ![m.from] = 0] = next_index[i]
        BY <1>6, <2>3
      <3> QED
        BY <2>3, <3>1, <3>2
    <2> QED
      BY <2>1, <2>2, <2>3
  <1>8. ASSUME NEW k \in Server, role[k] = "Leader", NEW j \in Peers(k)
        PROVE  next_index'[k][j] <= Len(log[k]) + 1
    <2>1. PICK n \in Nat : /\ next_index' = [next_index EXCEPT ![i] = [next_index[i] EXCEPT ![m.from] = n]]
                           /\ n <= Len(log[i]) + 1 \/ m.from \notin Peers(i)
      BY <1>7
    <2>2. next_index[k][j] <= Len(log[k]) + 1
      BY <1>3, <1>8
    <2>3. CASE k = i
      <3>1. next_index'[i] = [next_index[i] EXCEPT ![m.from] = n]
        BY <1>6, <2>1
      <3> QED
        BY <1>6, <2>1, <2>2, <2>3, <3>1
    <2>4. CASE k # i
      <3>1. next_index'[k] = next_index[k]
        BY <1>6, <2>1, <2>4
      <3> QED
        BY <2>2, <3>1
    <2> QED
      BY <2>3, <2>4
  <1> QED
    BY <1>1, <1>2, <1>8, LeadersSame

(* A leader appends to its own log, which is that of its term.             *)
Proposed(L, M, i) ==
    /\ role[i] = "Leader" /\ M = [L EXCEPT ![current_term[i]] = log'[i]]
    /\ log'[i] \in Seq(LogEntry) /\ Len(log'[i]) = Len(log[i]) + 1
    /\ \A n \in 1..Len(log[i]) : log'[i][n] = log[i][n]
    /\ log'[i][Len(log[i]) + 1].term = current_term[i]
    /\ \A k \in Server : k # i => log'[k] = log[k] /\ commit_index'[k] = commit_index[k]
    /\ commit_index'[i] = MaybeCommit(i, log'[i], current_term[i], match_index[i], commit_index[i])
    /\ UNCHANGED <<messages, role, current_term, next_index, match_index, last_applied, applied>>

(* That is what Propose does.                                              *)
LEMMA ProposedByCall ==
    ASSUME Inv, NEW L, NEW i \in Server, NEW data \in Value, Propose(i, data)
    PROVE  Proposed(L, [L EXCEPT ![current_term[i]] = log'[i]], i)
  <1> DEFINE e == [term |-> current_term[i], index |-> LastIndex(log[i]) + 1, data |-> data]
             lg == Append(log[i], e)
  <1>1. /\ log[i] \in Seq(LogEntry) /\ current_term[i] \in Nat
        /\ log \in [Server -> Seq(LogEntry)] /\ commit_index \in [Server -> Nat]
    BY DEF Inv, TypeInv, TypeOK
  <1>2. Len(log[i]) \in Nat
    BY <1>1, LenProperties
  <1>3. e \in LogEntry /\ e.term = current_term[i]
    BY <1>1, <1>2, SMT DEF LogEntry, LastIndex
  <1>4. /\ role[i] = "Leader" /\ log' = [log EXCEPT ![i] = lg]
        /\ commit_index' = [commit_index EXCEPT ![i] =
              MaybeCommit(i, lg, current_term[i], match_index[i], commit_index[i])]
        /\ UNCHANGED <<messages, role, current_term, next_index, match_index, last_applied, applied>>
    BY DEF Propose, electionVars, leaderVars, applyVars
  <1> HIDE DEF e
  <1>5. /\ lg \in Seq(LogEntry) /\ Len(lg) = Len(log[i]) + 1
        /\ \A n \in 1..Len(log[i]) : lg[n] = log[i][n]
        /\ lg[Len(log[i]) + 1] = e
    BY <1>1, <1>3, AppendProperties, SMT
  <1> HIDE DEF lg
  <1>6. /\ log'[i] = lg
        /\ commit_index'[i] = MaybeCommit(i, lg, current_term[i], match_index[i], commit_index[i])
        /\ \A k \in Server : k # i => log'[k] = log[k] /\ commit_index'[k] = commit_index[k]
    BY <1>1, <1>4
  <1> QED
    BY <1>3, <1>4, <1>5, <1>6 DEF Proposed

(* The log of the leader's term grows by an entry of the term.             *)
LEMMA ProposedGrows ==
    ASSUME Inv, NEW L, LeaderLogs(L), NEW M, NEW i \in Server, Proposed(L, M, i)
    PROVE  /\ M \in [Nat -> Seq(LogEntry)] /\ Grows(L, M)
           /\ M[current_term[i]] = log'[i] /\ L[current_term[i]] = log[i]
           /\ \A u \in Nat : u # current_term[i] => M[u] = L[u]
  <1>1. /\ L \in [Nat -> Seq(LogEntry)] /\ current_term[i] \in Nat
        /\ log'[i] \in Seq(LogEntry) /\ M = [L EXCEPT ![current_term[i]] = log'[i]]
    BY DEF LeaderLogs, Proposed, Inv, TypeInv, TypeOK
  <1>2. /\ M \in [Nat -> Seq(LogEntry)] /\ M[current_term[i]] = log'[i]
        /\ \A u \in Nat : u # current_term[i] => M[u] = L[u]
    BY <1>1
  <1>3. L[current_term[i]] = log[i]
    BY DEF LeaderLogs, Proposed
  <1>4. ASSUME NEW u \in Nat PROVE AgreeTo(L[u], M[u], Len(L[u]))
    <2>1. Len(L[u]) \in Nat /\ Len(M[u]) \in Nat
      BY <1>1, <1>2, LenProperties
    <2>2. CASE u = current_term[i]
      <3>1. /\ Len(M[u]) = Len(L[u]) + 1 /\ \A n \in 1..Len(L[u]) : L[u][n] = M[u][n]
        BY <1>2, <1>3, <2>2 DEF Proposed
      <3>2. Len(L[u]) <= Len(L[u]) /\ Len(L[u]) <= Len(M[u])
        BY <2>1, <3>1, SMT
      <3> QED
        BY <3>1, <3>2 DEF AgreeTo
    <2>3. CASE u # current_term[i]
      <3>1. M[u] = L[u]
        BY <1>2, <2>3
      <3>2. Len(L[u]) <= Len(L[u])
        BY <2>1, SMT
      <3> QED
        BY <3>1, <3>2 DEF AgreeTo
    <2> QED
      BY <2>2, <2>3
  <1> QED
    BY <1>2, <1>3, <1>4 DEF Grows

(* A proposal.                                                             *)
LEMMA LeadersProposed ==
    ASSUME Inv, Inv', NEW L, LeaderLogs(L), NEW M, NEW i \in Server, Proposed(L, M, i)
    PROVE  LeaderLogs(M)'
  <1> DEFINE t == current_term[i]
             lg == log'[i]
  <1>0. /\ L \in [Nat -> Seq(LogEntry)] /\ log[i] \in Seq(LogEntry) /\ lg \in Seq(LogEntry)
        /\ log \in [Server -> Seq(LogEntry)]
    BY DEF LeaderLogs, Inv, TypeInv, TypeOK
  <1>1. t \in Nat /\ Len(log[i]) \in Nat /\ Len(lg) \in Nat
    BY <1>0, LenProperties DEF Inv, TypeInv, TypeOK
  <1>2. M \in [Nat -> Seq(LogEntry)] /\ Grows(L, M)
    BY ProposedGrows
  <1>3. M[t] = lg /\ L[t] = log[i] /\ \A u \in Nat : u # t => M[u] = L[u]
    <2>1. L[t] = log[i] /\ M = [L EXCEPT ![t] = lg]
      BY DEF LeaderLogs, Proposed
    <2> QED
      BY <1>0, <1>1, <2>1
  <1>4. /\ Len(lg) = Len(log[i]) + 1 /\ \A n \in 1..Len(log[i]) : lg[n] = log[i][n]
        /\ lg[Len(log[i]) + 1].term = t /\ role[i] = "Leader"
        /\ \A k \in Server : k # i => log'[k] = log[k]
        /\ UNCHANGED <<messages, role, current_term, next_index>>
    BY DEF Proposed
  <1>5. OfLeaders(L, log[i]) /\ Sorted(log[i], t) /\ LedBy(i, t)
    BY <1>1, <1>3, <1>4 DEF LeaderLogs
  <1> HIDE DEF t, lg
  <1>6. \A n \in 1..Len(lg) : n \in 1..Len(log[i]) \/ n = Len(log[i]) + 1
    BY <1>1, <1>4, SMT
  <1>7. ASSUME NEW n \in 1..Len(lg) PROVE AgreeTo(lg, M[lg[n].term], n)
    <2>0. n <= Len(lg) /\ n \in Nat
      BY <1>1, SMT
    <2>1. CASE n \in 1..Len(log[i])
      <3>1. AgreeTo(log[i], L[log[i][n].term], n) /\ lg[n] = log[i][n]
        BY <1>4, <1>5, <2>1 DEF OfLeaders
      <3>2. log[i][n] \in LogEntry
        BY <1>0, <2>1, ElementOfSeq
      <3>3. log[i][n].term \in Nat
        BY <3>2 DEF LogEntry
      <3>4. AgreeTo(log[i], M[log[i][n].term], n)
        BY <1>0, <1>2, <2>0, <3>1, <3>3, GrowsAgree
      <3>5. \A k \in 1..n : k \in 1..Len(log[i])
        BY <1>1, <2>1, SMT
      <3> QED
        BY <1>4, <2>0, <3>1, <3>4, <3>5 DEF AgreeTo
    <2>2. CASE n = Len(log[i]) + 1
      BY <1>3, <1>4, <2>0, <2>2 DEF AgreeTo
    <2> QED
      BY <1>6, <2>1, <2>2
  <1>8. ASSUME NEW n \in 1..Len(lg) PROVE lg[n].term <= t
    <2>1. CASE n \in 1..Len(log[i])
      BY <1>4, <1>5, <2>1 DEF Sorted
    <2>2. CASE n = Len(log[i]) + 1
      BY <1>1, <1>4, <2>2, SMT
    <2> QED
      BY <1>6, <2>1, <2>2
  <1>9. Sorted(lg, t)
    <2> SUFFICES ASSUME NEW n \in 1..Len(lg), NEW k \in 1..n PROVE lg[k].term <= lg[n].term
      BY <1>8 DEF Sorted
    <2>1. k \in 1..Len(lg)
      BY <1>1, SMT
    <2>2. CASE n \in 1..Len(log[i])
      <3>1. k \in 1..Len(log[i])
        BY <1>1, <2>2, SMT
      <3> QED
        BY <1>4, <1>5, <2>2, <3>1 DEF Sorted
    <2>3. CASE n = Len(log[i]) + 1
      BY <1>4, <1>8, <2>1, <2>3
    <2> QED
      BY <1>6, <2>2, <2>3
  <1>10. Follows(M)
    <2> SUFFICES ASSUME NEW k \in Server
                 PROVE  /\ OfLeaders(M, log'[k])
                        /\ \A n \in 1..Len(log'[k]) : log'[k][n].term <= current_term'[k]
      BY DEF Follows
    <2>1. CASE k = i
      BY <1>4, <1>7, <1>8, <2>1 DEF OfLeaders, lg, t
    <2>2. CASE k # i
      <3>1. /\ OfLeaders(L, log[k]) /\ log[k] \in Seq(LogEntry)
            /\ \A n \in 1..Len(log[k]) : log[k][n].term <= current_term[k]
        BY <1>0 DEF LeaderLogs
      <3>2. OfLeaders(M, log[k])
        BY <1>0, <1>2, <3>1, GrowsOfLeaders
      <3> QED
        BY <1>4, <2>2, <3>1, <3>2
    <2> QED
      BY <2>1, <2>2
  <1>11. /\ \A k \in Server : LedBy(k, current_term[k]) => LedBy(k, current_term[k])'
         /\ \A u \in Nat : Led(u) => Led(u)'
    BY <1>4 DEF Led, LedBy, Sent
  <1>12. Begins(L, M)
    <2>1. Led(t)
      BY <1>5 DEF Led, LedBy
    <2> QED
      BY <1>1, <1>3, <1>7, <1>9, <1>11, <2>1 DEF Begins, OfLeaders
  <1>13. Sends(M)
    BY <1>4 DEF Sends
  <1>14. Leads(M)
    <2> SUFFICES ASSUME NEW k \in Server, role[k] = "Leader"
                 PROVE  /\ M[current_term[k]] = log'[k] /\ LedBy(k, current_term[k])'
                        /\ \A j \in Peers(k) : next_index[k][j] <= Len(log'[k]) + 1
      BY <1>4 DEF Leads
    <2>1. /\ L[current_term[k]] = log[k] /\ LedBy(k, current_term[k])
          /\ \A j \in Peers(k) : next_index[k][j] <= Len(log[k]) + 1
      BY DEF LeaderLogs
    <2>2. CASE k = i
      <3>1. \A j \in Peers(i) : next_index[i][j] \in Nat
        BY DEF Inv, TypeInv, TypeOK
      <3>2. ASSUME NEW j \in Peers(i) PROVE next_index[i][j] <= Len(lg) + 1
        <4>1. next_index[i][j] \in Nat /\ next_index[i][j] <= Len(log[i]) + 1
          BY <2>1, <2>2, <3>1, <3>2
        <4> QED
          BY <1>1, <1>4, <4>1, SMT
      <3> QED
        BY <1>3, <1>11, <2>1, <2>2, <3>2 DEF lg, t
    <2>3. CASE k # i
      <3>1. current_term[k] # t
        <4>1. ElectionSafety
          BY ElectionSafetyFromVotes
        <4> QED
          BY <1>4, <2>3, <4>1 DEF ElectionSafety, t
      <3>2. current_term[k] \in Nat
        BY DEF Inv, TypeInv, TypeOK
      <3> QED
        BY <1>3, <1>4, <1>11, <2>1, <2>3, <3>1, <3>2
    <2> QED
      BY <2>2, <2>3
  <1> QED
    BY <1>2, <1>10, <1>12, <1>13, <1>14, LeadersStep

-----------------------------------------------------------------------------
(* At the start all of it is empty.                                        *)
LEMMA LogInvInit == Init => LogInv
  <1> SUFFICES ASSUME Init, Several PROVE \E L : LeaderLogs(L)
    BY DEF LogInv
  <1> DEFINE L == [t \in Nat |-> << >>]
  <1>1. << >> \in Seq(LogEntry) /\ Len(<< >>) = 0 /\ 1..0 = {} /\ ~(0 > 0)
    BY SMT
  <1>2. L \in [Nat -> Seq(LogEntry)] /\ \A t \in Nat : L[t] = << >>
    BY <1>1
  <1>3. /\ \A i \in Server : log[i] = << >> /\ role[i] = "Follower"
        /\ \A type : Sent(type) = {}
    BY DEF Init, Sent
  <1> HIDE DEF L
  <1>4. LeaderLogs(L)
    BY <1>1, <1>2, <1>3 DEF LeaderLogs, OfLeaders, Sorted
  <1> QED
    BY <1>4

(* Every step but those of a leader's own log leaves leaders' logs alone.  *)
LEMMA LogInvNext == Inv /\ LogInv /\ [Next]_vars => LogInv'
  <1> SUFFICES ASSUME Inv, LogInv, [Next]_vars, Several PROVE \E L : LeaderLogs(L)'
    BY DEF LogInv, Several
  <1>0. Inv' /\ Onward
    BY InvNext, VoteStep DEF Inv, KeepsVote, Onward
  <1> PICK L : LeaderLogs(L)
    BY DEF LogInv
  <1>1. CASE UNCHANGED vars
    <2>1. UNCHANGED <<messages, role, current_term, log, next_index, match_index>>
      BY <1>1 DEF vars, electionVars, logVars, leaderVars
    <2>2. Calm
      BY <2>1 DEF Calm
    <2> QED
      BY <1>0, <2>2, LeadersCalm
  <1>2. ASSUME NEW i \in Server, TickLeader(i) PROVE LeaderLogs(L)'
    BY <1>0, <1>2, LeadersTickLeader
  <1>3. ASSUME NEW i \in Server,
               BecomeCandidate(i) \/ TickElection(i) \/ TakeCommitted(i) \/ Restart(i)
        PROVE  LeaderLogs(L)'
    BY <1>0, <1>3, CalmOwn, LeadersCalm
  <1>4. ASSUME NEW i \in Server, NEW data \in Value, Propose(i, data)
        PROVE  \E M : LeaderLogs(M)'
    BY <1>0, <1>4, ProposedByCall, LeadersProposed
  <1>5. ASSUME NEW m \in messages, Step(m.to, m) PROVE \E M : LeaderLogs(M)'
    <2> DEFINE i == m.to
    <2>1. i \in Server /\ current_term[i] \in Nat
      BY MessageKinds DEF Inv, TypeInv, TypeOK
    <2> HIDE DEF i
    <2>2. CASE RejectStale(i, m) \/ StepDown(i, m) \/ HandleRequestVote(i, m)
      BY <1>0, <2>1, <2>2, CalmMessage, LeadersCalm
    <2>3. CASE HandleRequestVoteResp(i, m)
      BY <1>0, <2>1, <2>3, VoteCounted, LeadersCalm, LeadersBecomeLeader
    <2>4. CASE HandleAppendEntries(i, m)
      BY <1>0, <2>1, <2>4, AppendedByHandler, LeadersAppended
    <2>5. CASE HandleAppendEntriesResp(i, m)
      BY <1>0, <2>1, <2>5, LeadersAck
    <2> QED
      BY <1>5, <2>2, <2>3, <2>4, <2>5 DEF Step, i
  <1> QED
    BY <1>1, <1>2, <1>3, <1>4, <1>5 DEF Next

(* Logs that agree have the same beginning.                                *)
LEMMA AgreeSubSeq ==
    ASSUME NEW r \in Seq(LogEntry), NEW s \in Seq(LogEntry), NEW n \in Nat, AgreeTo(r, s, n)
    PROVE  SubSeq(r, 1, n) = SubSeq(s, 1, n)
  <1>1. n <= Len(r) /\ n <= Len(s) /\ \A k \in 1..n : r[k] = s[k]
    BY DEF AgreeTo
  <1>2. Len(r) \in Nat /\ Len(s) \in Nat
    BY LenProperties
  <1>3. \A k \in 1..n : r[k] \in LogEntry /\ s[k] \in LogEntry
    BY <1>1, <1>2, ElementOfSeq, SMT
  <1> QED
    BY <1>1, <1>3, SubSeqProperties, SMT

(* Logs match (the consistency check and the append loop of                *)
(* HandleAppendEntries), for any number of nodes, any terms, any loss,     *)
(* duplication and reordering of messages and any restarts.                *)
THEOREM LogsAlwaysMatch == Spec => []LogMatching
  <1>1. Inv /\ LogInv => LogMatching
    <2> SUFFICES ASSUME Inv, LogInv, NEW i \in Server, NEW j \in Server,
                        NEW n \in 1..LastIndex(log[i]), n <= LastIndex(log[j]),
                        log[i][n].term = log[j][n].term
                 PROVE  SubSeq(log[i], 1, n) = SubSeq(log[j], 1, n)
      BY DEF LogMatching
    <2>1. CASE i = j
      BY <2>1
    <2>2. CASE i # j
      <3>1. PICK L : LeaderLogs(L)
        BY <2>2 DEF LogInv, Several
      <3>2. OfLeaders(L, log[i]) /\ OfLeaders(L, log[j])
        BY <3>1 DEF LeaderLogs
      <3>3. /\ log[i] \in Seq(LogEntry) /\ log[j] \in Seq(LogEntry) /\ n \in Nat
            /\ n \in 1..Len(log[i]) /\ n <= Len(log[j])
        BY SMT DEF Inv, TypeInv, TypeOK, LastIndex
      <3>4. AgreeTo(log[i], log[j], n)
        BY <3>2, <3>3, OfLeadersMatch
      <3> QED
        BY <3>3, <3>4, AgreeSubSeq
    <2> QED
      BY <2>1, <2>2
  <1> QED
    BY <1>1, InvInit, InvNext, LogInvInit, LogInvNext, PTL DEF Spec
=============================================================================
