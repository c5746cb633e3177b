---------------------- MODULE ReplicatedClusterProofs ----------------------
(***************************************************************************)
(* The tables of a cluster of ReplicatedDB nodes are what their committed  *)
(* logs say.                                                               *)
(***************************************************************************)
EXTENDS ReplicatedCluster, RaftSafetyProofs

Table == [Key -> Val \cup {None}]

-----------------------------------------------------------------------------
(* Tables.                                                                 *)

(* Every entry of a log writes a key: a value, or None to delete it.       *)
LEMMA EntryWrites ==
    ASSUME NEW e \in LogEntry
    PROVE  e.data.key \in Key /\ e.data.val \in Val \cup {None}
  <1>1. e.data \in Op
    BY ValueAssumption DEF LogEntry
  <1> QED
    BY <1>1 DEF Op

(* Applying a part of a log to a table gives a table with its writes.      *)
LEMMA TableWritten ==
    ASSUME NEW tab \in Table, NEW s \in Seq(LogEntry), NEW a \in Nat, NEW b \in Nat, b <= Len(s)
    PROVE  LET t == ApplyEntries(tab, SubSeq(s, a + 1, b))
           IN  t \in Table /\ Written(t, tab, s, a, b)
  <1>1. PICK t : t = ApplyEntries(tab, SubSeq(s, a + 1, b))
    OBVIOUS
  <1>2. tab = [k \in DOMAIN tab |-> tab[k]] /\ DOMAIN tab = Key
    BY DEF Table
  <1>3. \A e \in LogEntry : e.data.key \in DOMAIN tab
    BY <1>2, EntryWrites
  <1>4. Written(t, tab, s, a, b)
    BY <1>1, <1>2, <1>3, ApplyWritten
  <1>5. \A j \in (a + 1)..b : j \in 1..Len(s)
    BY LenProperties
  <1>6. \A j \in (a + 1)..b : s[j].data.val \in Val \cup {None}
    BY <1>5, ElementOfSeq, EntryWrites
  <1>7. t \in Table
    <2>1. \A k \in Key : tab[k] \in Val \cup {None}
      BY DEF Table
    <2>2. \A k \in Key : t[k] \in Val \cup {None}
      BY <1>2, <1>4, <1>6, <2>1, Zenon DEF Written
    <2>3. t = [k \in Key |-> t[k]]
      BY <1>2, <1>4, Zenon DEF Written
    <2> QED
      BY <2>2, <2>3, Zenon DEF Table
  <1> QED
    BY <1>1, <1>4, <1>7, Zenon

-----------------------------------------------------------------------------
(* What a call does to the logs and tables.                                *)

(* A call into node i that is not a restart.                               *)
Call(i) ==
    \/ TickLeader(i) \/ TickElection(i) \/ BecomeCandidate(i)
    \/ \E op \in Value : Propose(i, op)
    \/ \E m \in messages : <<m.from, m.to>> \in Links /\ m.to = i /\ Step(i, m)
    \/ UNCHANGED vars

(* A call is a step of Raft.                                               *)
LEMMA CallIsStep ==
    ASSUME NEW i \in Server, Call(i)
    PROVE  [Next]_vars
  <1>1. CASE \E m \in messages : <<m.from, m.to>> \in Links /\ m.to = i /\ Step(i, m)
    BY <1>1, Zenon DEF Next
  <1> QED
    BY <1>1, Zenon DEF Call, Next

(* A call changes no other node, and only raises the commit index.         *)
LEMMA CallCommits ==
    ASSUME Inv, SafeInv, NEW i \in Server, Call(i)
    PROVE  /\ commit_index'[i] >= commit_index[i]
           /\ \A j \in Server \ {i} : log'[j] = log[j] /\ commit_index'[j] = commit_index[j]
  <1>0. Inv'
    BY CallIsStep, InvNext
  <1>1. /\ log \in [Server -> Seq(LogEntry)] /\ commit_index \in [Server -> Nat]
        /\ log' \in [Server -> Seq(LogEntry)] /\ messages \subseteq Message
    BY <1>0 DEF Inv, TypeInv, TypeOK
  <1>2. commit_index[i] \in Nat /\ log[i] \in Seq(LogEntry) /\ log'[i] \in Seq(LogEntry)
    BY <1>1
  <1>3. CASE UNCHANGED logVars
    <2>1. log' = log /\ commit_index' = commit_index
      BY <1>3 DEF logVars
    <2>2. commit_index[i] >= commit_index[i]
      BY <1>2
    <2> QED
      BY <2>1, <2>2, Zenon
  <1>4. ASSUME NEW lg, NEW term, NEW match, lg \in Seq(LogEntry),
               commit_index' = [commit_index EXCEPT
                                  ![i] = MaybeCommit(i, lg, term, match, commit_index[i])]
        PROVE  /\ commit_index'[i] >= commit_index[i]
               /\ \A j \in Server \ {i} : commit_index'[j] = commit_index[j]
    <2>1. commit_index'[i] = MaybeCommit(i, lg, term, match, commit_index[i])
      BY <1>1, <1>4, Zenon
    <2>2. MaybeCommit(i, lg, term, match, commit_index[i]) >= commit_index[i]
      BY <1>2, <1>4, MaybeCommitType
    <2> QED
      BY <1>1, <1>4, <2>1, <2>2, Zenon
  <1>5. ASSUME NEW op \in Value, Propose(i, op)
        PROVE  /\ commit_index'[i] >= commit_index[i]
               /\ \A j \in Server \ {i} : log'[j] = log[j] /\ commit_index'[j] = commit_index[j]
    <2>1. PICK lg : /\ log' = [log EXCEPT ![i] = lg]
                    /\ commit_index' = [commit_index EXCEPT ![i] =
                          MaybeCommit(i, lg, current_term[i], match_index[i], commit_index[i])]
      BY <1>5, Zenon DEF Propose
    <2>2. lg \in Seq(LogEntry)
      BY <1>1, <1>2, <2>1
    <2>3. \A j \in Server \ {i} : log'[j] = log[j]
      BY <1>1, <2>1, Zenon
    <2> QED
      BY <1>4, <2>1, <2>2, <2>3, Zenon
  <1>6. ASSUME NEW m \in messages, HandleAppendEntriesResp(i, m)
        PROVE  /\ commit_index'[i] >= commit_index[i]
               /\ \A j \in Server \ {i} : log'[j] = log[j] /\ commit_index'[j] = commit_index[j]
    <2>1. log' = log
      BY <1>6 DEF HandleAppendEntriesResp
    <2>2. CASE m.success
      <3>1. PICK match : commit_index' = [commit_index EXCEPT ![i] =
                            MaybeCommit(i, log[i], current_term[i], match, commit_index[i])]
        BY <1>6, <2>2, Zenon DEF HandleAppendEntriesResp
      <3> QED
        BY <1>2, <1>4, <2>1, <3>1, Zenon
    <2>3. CASE ~m.success
      BY <1>3, <1>6, <2>1, <2>3, Zenon DEF HandleAppendEntriesResp, logVars
    <2> QED
      BY <2>2, <2>3
  <1>7. ASSUME NEW m \in messages, HandleAppendEntries(i, m)
        PROVE  /\ commit_index'[i] >= commit_index[i]
               /\ \A j \in Server \ {i} : log'[j] = log[j] /\ commit_index'[j] = commit_index[j]
    <2>1. CASE Consistent(m, log[i])
      <3>1. PICK lg : /\ log' = [log EXCEPT ![i] = lg]
                      /\ commit_index' = [commit_index EXCEPT
                                            ![i] = FollowerCommit(m, lg, commit_index[i])]
        BY <1>7, <2>1, Zenon DEF HandleAppendEntries
      <3>2. commit_index'[i] = FollowerCommit(m, log'[i], commit_index[i])
        BY <1>1, <3>1, Zenon
      <3>3. commit_index[i] <= Len(log'[i])
        <4>1. KeepsCommitted(i)
          BY CallIsStep, CommittedStep
        <4> QED
          BY <4>1 DEF KeepsCommitted, LastIndex
      <3>4. m.leader_commit \in Nat
        BY <1>1, <1>7, MessageKinds DEF HandleAppendEntries, AppendEntries
      <3>5. Len(log'[i]) \in Nat
        BY <1>2, LenProperties
      <3>6. commit_index'[i] >= commit_index[i]
        <4>1. PICK c, l, n \in Nat : c = commit_index[i] /\ l = m.leader_commit /\ n = Len(log'[i])
          BY <1>2, <3>4, <3>5, Zenon
        <4>2. commit_index'[i] = IF l <= c THEN c ELSE IF l <= n THEN l ELSE n
          BY <3>2, <4>1, Zenon DEF FollowerCommit, LastIndex
        <4>3. c <= n
          BY <3>3, <4>1, Zenon
        <4>4. (IF l <= c THEN c ELSE IF l <= n THEN l ELSE n) >= c
          BY <4>3
        <4> QED
          BY <4>1, <4>2, <4>4, Zenon
      <3> QED
        BY <1>1, <3>1, <3>6, Zenon
    <2>2. CASE ~Consistent(m, log[i])
      BY <1>3, <1>7, <2>2, Zenon DEF HandleAppendEntries
    <2> QED
      BY <2>1, <2>2
  <1>8. CASE TickLeader(i) \/ TickElection(i) \/ BecomeCandidate(i) \/ UNCHANGED vars
    <2>1. UNCHANGED logVars
      BY <1>8, Zenon DEF TickLeader, TickElection, BecomeCandidate, vars
    <2> QED
      BY <1>3, <2>1
  <1>9. ASSUME NEW m \in messages, Step(i, m)
        PROVE  /\ commit_index'[i] >= commit_index[i]
               /\ \A j \in Server \ {i} : log'[j] = log[j] /\ commit_index'[j] = commit_index[j]
    <2>1. CASE \/ RejectStale(i, m) \/ StepDown(i, m)
               \/ HandleRequestVote(i, m) \/ HandleRequestVoteResp(i, m)
      <3>1. UNCHANGED logVars
        BY <2>1, Zenon DEF RejectStale, StepDown, HandleRequestVote, HandleRequestVoteResp
      <3> QED
        BY <1>3, <3>1
    <2> QED
      BY <1>6, <1>7, <1>9, <2>1, Zenon DEF Step
  <1> QED
    BY <1>5, <1>8, <1>9, Zenon DEF Call

(* ApplyCommitted at a node whose table holds `base` and the writes of     *)
(* log[a+1..c], with the apply cursor ap at the commit index c, or past    *)
(* the r recovered entries when nothing is known to be committed yet.      *)
LEMMA ApplyCommittedWrites ==
    ASSUME NEW base \in Table, NEW t \in Table, NEW lg, NEW lg2 \in Seq(LogEntry),
           NEW r \in Nat, NEW a \in 0..r, NEW c \in Nat, NEW c2 \in Nat, NEW ap \in Nat,
           c <= c2, c2 <= Len(lg2), \A j \in 1..c : lg[j] = lg2[j],
           Written(t, base, lg, a, c),
           (ap = c /\ a <= c) \/ (ap = r /\ c = 0)
    PROVE  LET t2 == ApplyEntries(t, SubSeq(lg2, ap + 1, c2))
           IN  t2 \in Table /\ \E a2 \in 0..r : a2 <= c2 /\ Written(t2, base, lg2, a2, c2)
  <1>1. PICK t2 : t2 = ApplyEntries(t, SubSeq(lg2, ap + 1, c2))
    OBVIOUS
  <1>2. t2 \in Table /\ Written(t2, t, lg2, ap, c2)
    BY <1>1, TableWritten, Zenon
  <1>0. DOMAIN base = Key
    BY DEF Table
  <1>3. CASE ap = c /\ a <= c
    <2>1. Written(t, base, lg2, a, c)
      <3>1. a \in Nat
        OBVIOUS
      <3> QED
        BY <3>1, WrittenAgree, Zenon
    <2>2. Written(t2, base, lg2, a, c2)
      <3>1. a \in Nat /\ c <= c /\ Written(t2, t, lg2, c, c2)
        BY <1>2, <1>3
      <3> QED
        BY <1>3, <2>1, <3>1, WrittenTwice
    <2>3. a <= c2
      BY <1>3
    <2> QED
      BY <1>1, <1>2, <2>2, <2>3, Zenon
  <1>4. CASE ap = r /\ c = 0
    <2>1. t = base
      <3>1. \A j \in (a + 1)..0 : FALSE
        OBVIOUS
      <3>2. \A k \in Key : t[k] = base[k]
        BY <1>4, <1>0, <3>1, Zenon DEF Written
      <3>3. t = [k \in Key |-> t[k]] /\ base = [k \in Key |-> base[k]]
        BY DEF Table
      <3> QED
        BY <3>2, <3>3, Zenon
    <2>2. Written(t2, base, lg2, r, c2)
      BY <1>2, <1>4, <2>1, Zenon
    <2>3. CASE r <= c2
      <3>1. r \in 0..r
        OBVIOUS
      <3> QED
        BY <1>1, <1>2, <2>2, <2>3, <3>1, Zenon
    <2>4. CASE c2 < r
      <3>1. /\ c2 \in 0..r /\ c2 <= c2
            /\ \A j \in (r + 1)..c2 : FALSE
            /\ \A j \in (c2 + 1)..c2 : FALSE
        BY <2>4
      <3>2. \A k \in Key : t2[k] = base[k]
        BY <1>0, <2>2, <3>1, Zenon DEF Written
      <3>3. Written(t2, base, lg2, c2, c2)
        BY <1>0, <2>2, <3>1, <3>2, Zenon DEF Written
      <3> QED
        BY <1>1, <1>2, <3>1, <3>3, Zenon
    <2> QED
      BY <2>3, <2>4
  <1> QED
    BY <1>3, <1>4

-----------------------------------------------------------------------------
(* The invariant.  `base` is what Open left of node i's table, and a is    *)
(* the place in the log from which the writes have been applied since.     *)

Fresh(i) ==
    /\ log[i] = recovered[i] /\ commit_index[i] = 0
    /\ applied_index[i] = Len(recovered[i])
Tabled(i) ==
    \E base \in Table, a \in 0..Len(recovered[i]) :
        /\ Written(base, Nothing, recovered[i], 0, Len(recovered[i]))
        /\ Written(table[i], base, log[i], a, commit_index[i])
        /\ (applied_index[i] = commit_index[i] /\ a <= commit_index[i]) \/ Fresh(i)
TableInv ==
    /\ table \in [Server -> Table]
    /\ applied_index \in [Server -> Nat]
    /\ recovered \in [Server -> Seq(LogEntry)]
    /\ \A i \in Server : Tabled(i)

(* The empty table.                                                        *)
LEMMA NothingType == Nothing \in Table
  BY DEF Nothing, Table

(* A table without writes.                                                 *)
LEMMA WrittenNothing ==
    ASSUME NEW t \in Table, NEW s, NEW b \in Nat, NEW a \in Nat, b <= a
    PROVE  Written(t, t, s, a, b)
  <1>1. \A j \in (a + 1)..b : FALSE
    OBVIOUS
  <1>2. t = [k \in DOMAIN t |-> t[k]]
    BY DEF Table
  <1> QED
    BY <1>1, <1>2, Zenon DEF Written

(* New nodes have empty tables, and nothing recovered.                     *)
LEMMA TableInit == DBInit => TableInv
  <1> SUFFICES ASSUME DBInit PROVE TableInv
    OBVIOUS
  <1>1. << >> \in Seq(LogEntry) /\ Len(<< >>) = 0 /\ 0 \in 0..0 /\ 0 <= 0
    OBVIOUS
  <1>2. /\ table = [i \in Server |-> Nothing] /\ applied_index = [i \in Server |-> 0]
        /\ recovered = [i \in Server |-> << >>]
        /\ commit_index = [i \in Server |-> 0]
    BY DEF DBInit, Init
  <1>3. /\ table \in [Server -> Table] /\ applied_index \in [Server -> Nat]
        /\ recovered \in [Server -> Seq(LogEntry)]
    BY <1>1, <1>2, NothingType
  <1>4. ASSUME NEW i \in Server PROVE Tabled(i)
    <2>1. /\ table[i] = Nothing /\ applied_index[i] = 0 /\ recovered[i] = << >>
          /\ commit_index[i] = 0
      BY <1>2
    <2>2. \A s : Written(Nothing, Nothing, s, 0, 0)
      BY WrittenNothing, NothingType
    <2>3. applied_index[i] = commit_index[i] /\ 0 <= commit_index[i]
      BY <2>1
    <2>4. /\ Written(Nothing, Nothing, recovered[i], 0, Len(recovered[i]))
          /\ Written(table[i], Nothing, log[i], 0, commit_index[i])
          /\ 0 \in 0..Len(recovered[i])
      BY <1>1, <2>1, <2>2, Zenon
    <2> QED
      BY <2>3, <2>4, NothingType, Zenon DEF Tabled
  <1> QED
    BY <1>3, <1>4, Zenon DEF TableInv

(* A node that no step touches keeps its table in order.                   *)
LEMMA TabledSame ==
    ASSUME TableInv, NEW i \in Server,
           log'[i] = log[i], commit_index'[i] = commit_index[i], table'[i] = table[i],
           applied_index'[i] = applied_index[i], recovered'[i] = recovered[i]
    PROVE  Tabled(i)'
  <1>1. PICK base \in Table, a \in 0..Len(recovered[i]) :
            /\ Written(base, Nothing, recovered[i], 0, Len(recovered[i]))
            /\ Written(table[i], base, log[i], a, commit_index[i])
            /\ (applied_index[i] = commit_index[i] /\ a <= commit_index[i]) \/ Fresh(i)
    BY Zenon DEF TableInv, Tabled
  <1>2. a \in 0..Len(recovered'[i])
    BY <1>1, Zenon
  <1>3. Written(base, Nothing, recovered'[i], 0, Len(recovered'[i]))
    BY <1>1, Zenon
  <1>4. Written(table'[i], base, log'[i], a, commit_index'[i])
    BY <1>1, Zenon
  <1>5. (applied_index'[i] = commit_index'[i] /\ a <= commit_index'[i]) \/ Fresh(i)'
    BY <1>1, Zenon DEF Fresh
  <1> QED
    <2> SUFFICES (\E b \in Table, c \in 0..Len(recovered[i]) :
                     /\ Written(b, Nothing, recovered[i], 0, Len(recovered[i]))
                     /\ Written(table[i], b, log[i], c, commit_index[i])
                     /\ (applied_index[i] = commit_index[i] /\ c <= commit_index[i]) \/ Fresh(i))'
      BY Zenon DEF Tabled
    <2> WITNESS base \in Table, a \in 0..Len(recovered'[i])
    <2> QED
      BY <1>3, <1>4, <1>5, Zenon DEF Written, LastWrite, Nothing

(* A call and the Sync after it.                                           *)
LEMMA SyncStep ==
    ASSUME Inv, SafeInv, TableInv, NEW i \in Server, Call(i), Sync(i)
    PROVE  TableInv'
  <1>0. Inv' /\ SafeInv' /\ KeepsCommitted(i)
    BY CallIsStep, InvNext, SafeInvNext, CommittedStep
  <1>1. /\ commit_index'[i] >= commit_index[i]
        /\ \A j \in Server \ {i} : log'[j] = log[j] /\ commit_index'[j] = commit_index[j]
    BY CallCommits
  <1>2. /\ log[i] \in Seq(LogEntry) /\ log'[i] \in Seq(LogEntry)
        /\ commit_index[i] \in Nat /\ commit_index'[i] \in Nat
    BY <1>0 DEF Inv, TypeInv, TypeOK
  <1>3. commit_index[i] <= Len(log[i]) /\ commit_index'[i] <= Len(log'[i])
    <2>1. CommitWithinLog /\ CommitWithinLog'
      BY <1>0, CommitWithin, PTL
    <2> QED
      BY <2>1, Zenon DEF CommitWithinLog, LastIndex
  <1>4. \A j \in 1..commit_index[i] : log[i][j] = log'[i][j]
    <2>1. PICK c \in Nat : c = commit_index[i]
      BY <1>2
    <2>2. SubSeq(log'[i], 1, c) = SubSeq(log[i], 1, c) /\ c <= Len(log'[i]) /\ c <= Len(log[i])
      BY <1>0, <1>3, <2>1, Zenon DEF KeepsCommitted, LastIndex
    <2>3. \A j \in 1..c : log[i][j] \in LogEntry /\ log'[i][j] \in LogEntry
      <3>1. Len(log[i]) \in Nat /\ Len(log'[i]) \in Nat
        BY <1>2, LenProperties
      <3>2. \A j \in 1..c : j \in 1..Len(log[i]) /\ j \in 1..Len(log'[i])
        BY <2>1, <2>2, <3>1, Within, Zenon
      <3> QED
        BY <1>2, <3>2, ElementOfSeq
    <2>4. \A j \in 1..c : SubSeq(log'[i], 1, c)[j] = log'[i][j] /\ SubSeq(log[i], 1, c)[j] = log[i][j]
      BY <2>3, SubSeqProperties
    <2> QED
      BY <2>1, <2>2, <2>4, Zenon
  <1>5. /\ table' = [table EXCEPT ![i] = ApplyEntries(table[i],
                        SubSeq(log'[i], applied_index[i] + 1, commit_index'[i]))]
        /\ applied_index' = [applied_index EXCEPT ![i] = commit_index'[i]]
        /\ recovered' = recovered
    BY Zenon DEF Sync, ApplyCommitted
  <1>6. /\ table \in [Server -> Table] /\ applied_index \in [Server -> Nat]
        /\ recovered \in [Server -> Seq(LogEntry)]
    BY DEF TableInv
  <1>7. /\ table'[i] = ApplyEntries(table[i],
                          SubSeq(log'[i], applied_index[i] + 1, commit_index'[i]))
        /\ applied_index'[i] = commit_index'[i] /\ recovered'[i] = recovered[i]
    BY <1>5, <1>6, Zenon
  <1>8. PICK base \in Table, a \in 0..Len(recovered[i]) :
            /\ Written(base, Nothing, recovered[i], 0, Len(recovered[i]))
            /\ Written(table[i], base, log[i], a, commit_index[i])
            /\ (applied_index[i] = commit_index[i] /\ a <= commit_index[i]) \/ Fresh(i)
    BY Zenon DEF TableInv, Tabled
  <1>9. /\ Len(recovered[i]) \in Nat /\ table[i] \in Table /\ applied_index[i] \in Nat
        /\ commit_index[i] <= commit_index'[i]
    BY <1>1, <1>2, <1>6, LenProperties
  <1>10. \/ applied_index[i] = commit_index[i] /\ a <= commit_index[i]
         \/ applied_index[i] = Len(recovered[i]) /\ commit_index[i] = 0
    BY <1>8, Zenon DEF Fresh
  <1>11. /\ table'[i] \in Table
         /\ \E b \in 0..Len(recovered[i]) :
               b <= commit_index'[i] /\ Written(table'[i], base, log'[i], b, commit_index'[i])
    <2>1. PICK t, lg, lg2, r, c, c2, ap :
              /\ t = table[i] /\ lg = log[i] /\ lg2 = log'[i] /\ r = Len(recovered[i])
              /\ c = commit_index[i] /\ c2 = commit_index'[i] /\ ap = applied_index[i]
      BY Zenon
    <2>2. /\ t \in Table /\ lg2 \in Seq(LogEntry) /\ r \in Nat /\ a \in 0..r /\ c \in Nat
          /\ c2 \in Nat /\ ap \in Nat /\ c <= c2 /\ c2 <= Len(lg2)
          /\ \A j \in 1..c : lg[j] = lg2[j]
      BY <1>2, <1>3, <1>4, <1>8, <1>9, <2>1, Zenon
    <2>3. Written(t, base, lg, a, c) /\ ((ap = c /\ a <= c) \/ (ap = r /\ c = 0))
      BY <1>8, <1>10, <2>1, Zenon
    <2>4. PICK t2 : t2 = ApplyEntries(t, SubSeq(lg2, ap + 1, c2))
      OBVIOUS
    <2>5. t2 \in Table /\ \E b \in 0..r : b <= c2 /\ Written(t2, base, lg2, b, c2)
      BY <1>8, <2>2, <2>3, <2>4, ApplyCommittedWrites, Zenon
    <2>6. t2 = table'[i]
      BY <1>7, <2>1, <2>4, Zenon
    <2> QED
      BY <2>1, <2>5, <2>6, Zenon
  <1>12. Tabled(i)'
    <2>1. PICK b \in 0..Len(recovered[i]) :
              b <= commit_index'[i] /\ Written(table'[i], base, log'[i], b, commit_index'[i])
      BY <1>11
    <2>2. b \in 0..Len(recovered'[i])
      BY <1>7, Zenon
    <2>3. Written(base, Nothing, recovered'[i], 0, Len(recovered'[i]))
      BY <1>7, <1>8, Zenon
    <2> QED
      BY <1>7, <2>1, <2>2, <2>3, Zenon DEF Tabled, Written, LastWrite, Nothing, Table
  <1>13. ASSUME NEW j \in Server \ {i} PROVE Tabled(j)'
    <2>1. Tabled(j)
      BY DEF TableInv
    <2>2. table'[j] = table[j] /\ applied_index'[j] = applied_index[j]
          /\ recovered'[j] = recovered[j]
      BY <1>5, <1>6, Zenon
    <2>3. log'[j] = log[j] /\ commit_index'[j] = commit_index[j] /\ j \in Server
      BY <1>1, Zenon
    <2> QED
      BY <2>1, <2>2, <2>3, TabledSame
  <1>14. /\ table' \in [Server -> Table] /\ applied_index' \in [Server -> Nat]
         /\ recovered' \in [Server -> Seq(LogEntry)]
    BY <1>2, <1>5, <1>6, <1>7, <1>11
  <1>15. \A j \in Server : Tabled(j)'
    BY <1>12, <1>13, Zenon
  <1> QED
    BY <1>14, <1>15, Zenon DEF TableInv

(* Open applies the whole recovered log to an empty table.                 *)
LEMMA OpenStep ==
    ASSUME Inv, TableInv, NEW i \in Server, Open(i)
    PROVE  TableInv'
  <1>1. /\ log \in [Server -> Seq(LogEntry)] /\ commit_index \in [Server -> Nat]
        /\ log[i] \in Seq(LogEntry)
    BY DEF Inv, TypeInv, TypeOK
  <1>2. /\ log' = log /\ commit_index' = [commit_index EXCEPT ![i] = 0]
        /\ table' = [table EXCEPT ![i] = ApplyEntries(Nothing, log[i])]
        /\ applied_index' = [applied_index EXCEPT ![i] = Len(log[i])]
        /\ recovered' = [recovered EXCEPT ![i] = log[i]]
    BY Zenon DEF Open, Restart, LastIndex
  <1>3. /\ table \in [Server -> Table] /\ applied_index \in [Server -> Nat]
        /\ recovered \in [Server -> Seq(LogEntry)]
    BY DEF TableInv
  <1>4. /\ table'[i] = ApplyEntries(Nothing, log[i]) /\ applied_index'[i] = Len(log[i])
        /\ recovered'[i] = log[i] /\ commit_index'[i] = 0 /\ log'[i] = log[i]
    BY <1>1, <1>2, <1>3, Zenon
  <1>5. PICK n \in Nat : n = Len(log[i])
    BY <1>1, LenProperties
  <1>6. table'[i] \in Table /\ Written(table'[i], Nothing, log[i], 0, n)
    <2>1. SubSeq(log[i], 1, n) = log[i]
      BY <1>1, <1>5
    <2>2. n <= Len(log[i]) /\ 0 + 1 = 1 /\ 0 \in Nat
      BY <1>5
    <2>3. PICK t : t = ApplyEntries(Nothing, SubSeq(log[i], 0 + 1, n))
      OBVIOUS
    <2>4. t \in Table /\ Written(t, Nothing, log[i], 0, n)
      BY <1>1, <2>2, <2>3, TableWritten, NothingType
    <2>5. t = table'[i]
      BY <1>4, <2>1, <2>2, <2>3, Zenon
    <2> QED
      BY <2>4, <2>5, Zenon
  <1>7. Tabled(i)'
    <2>1. n \in 0..n /\ 0 <= n
      OBVIOUS
    <2>2. Written(table'[i], table'[i], log'[i], n, commit_index'[i])
      BY <1>4, <1>6, <2>1, WrittenNothing
    <2>3. Fresh(i)'
      BY <1>4, Zenon DEF Fresh
    <2>4. n \in 0..Len(recovered'[i]) /\ Written(table'[i], Nothing, recovered'[i], 0, Len(recovered'[i]))
      BY <1>4, <1>5, <1>6, <2>1, Zenon
    <2> QED
      BY <1>6, <2>2, <2>3, <2>4, Zenon DEF Tabled, Written, LastWrite, Nothing, Table
  <1>8. ASSUME NEW j \in Server \ {i} PROVE Tabled(j)'
    <2>1. Tabled(j)
      BY DEF TableInv
    <2>2. /\ table'[j] = table[j] /\ applied_index'[j] = applied_index[j]
          /\ recovered'[j] = recovered[j] /\ log'[j] = log[j]
          /\ commit_index'[j] = commit_index[j] /\ j \in Server
      BY <1>1, <1>2, <1>3, Zenon
    <2> QED
      BY <2>1, <2>2, TabledSame
  <1>9. /\ table' \in [Server -> Table] /\ applied_index' \in [Server -> Nat]
        /\ recovered' \in [Server -> Seq(LogEntry)]
    <2>1. Len(log[i]) \in Nat
      BY <1>5
    <2> QED
      BY <1>1, <1>2, <1>3, <1>4, <1>6, <2>1
  <1>10. \A j \in Server : Tabled(j)'
    BY <1>7, <1>8, Zenon
  <1> QED
    BY <1>9, <1>10, Zenon DEF TableInv

(* Every step of the cluster is a call with the Sync after it, a restart,  *)
(* or nothing.                                                             *)
LEMMA DBSteps ==
    ASSUME Inv, [DBNext]_<<vars, dbVars>>
    PROVE  \/ \E i \in Server : Call(i) /\ Sync(i)
           \/ \E i \in Server : Open(i)
           \/ UNCHANGED <<vars, dbVars>>
  <1>1. ASSUME NEW m \in messages, Receive(m) PROVE \E i \in Server : Call(i) /\ Sync(i)
    <2>1. m.to \in Server
      BY MessageKinds DEF Inv, TypeInv, TypeOK
    <2>2. Call(m.to) /\ Sync(m.to)
      BY <1>1, Zenon DEF Receive, Call
    <2> QED
      BY <2>1, <2>2, Zenon
  <1>2. ASSUME NEW i \in Server, Tick(i) \/ SyncOnly(i) PROVE Call(i) /\ Sync(i)
    BY <1>2, Zenon DEF Tick, SyncOnly, Call
  <1>3. ASSUME NEW i \in Server, NEW op \in Value, Write(i, op) PROVE Call(i) /\ Sync(i)
    BY <1>3, Zenon DEF Write, Call
  <1> QED
    BY <1>1, <1>2, <1>3, Zenon DEF DBNext

(* Each of them is a step of Raft.                                         *)
LEMMA DBStepIsRaftStep == Inv /\ [DBNext]_<<vars, dbVars>> => [Next]_vars
  <1> SUFFICES ASSUME Inv, [DBNext]_<<vars, dbVars>> PROVE [Next]_vars
    OBVIOUS
  <1>1. CASE \E i \in Server : Open(i)
    BY <1>1, Zenon DEF Open, Next
  <1>2. CASE \E i \in Server : Call(i) /\ Sync(i)
    BY <1>2, CallIsStep
  <1> QED
    BY <1>1, <1>2, DBSteps

(* Every step of the cluster keeps the tables in order.                    *)
LEMMA TableNext == Inv /\ SafeInv /\ TableInv /\ [DBNext]_<<vars, dbVars>> => TableInv'
  <1> SUFFICES ASSUME Inv, SafeInv, TableInv, [DBNext]_<<vars, dbVars>> PROVE TableInv'
    OBVIOUS
  <1>1. CASE UNCHANGED <<vars, dbVars>>
    <2>1. /\ log' = log /\ commit_index' = commit_index /\ table' = table
          /\ applied_index' = applied_index /\ recovered' = recovered
      BY <1>1 DEF vars, dbVars, logVars
    <2>2. \A i \in Server : Tabled(i)'
      BY <2>1, TabledSame DEF TableInv
    <2> QED
      BY <2>1, <2>2, Zenon DEF TableInv, Table
  <1> QED
    BY <1>1, DBSteps, SyncStep, OpenStep

-----------------------------------------------------------------------------
(* What follows from it.                                                   *)

(* A table in order, all of whose recovered entries have been committed    *)
(* since, shows the committed entries.                                     *)
LEMMA ConfirmedTable ==
    ASSUME Inv, SafeInv, TableInv, NEW i \in Server, Confirmed(i)
    PROVE  /\ Written(table[i], Nothing, log[i], 0, commit_index[i])
           /\ table[i] = ApplyEntries(Nothing, Committed(i))
  <1>1. /\ log[i] \in Seq(LogEntry) /\ recovered[i] \in Seq(LogEntry) /\ table[i] \in Table
    BY DEF Inv, TypeInv, TypeOK, TableInv
  <1>2. PICK c \in Nat, r \in Nat : c = commit_index[i] /\ r = Len(recovered[i])
    BY <1>1, LenProperties DEF Inv, TypeInv, TypeOK
  <1>3. c <= Len(log[i])
    BY <1>2, CommitWithin, Zenon DEF CommitWithinLog, LastIndex
  <1>4. Len(log[i]) \in Nat
    BY <1>1, LenProperties
  <1>5. PICK C : C = Committed(i)
    OBVIOUS
  <1>6. Len(C) = c /\ \A n \in 1..c : C[n] = log[i][n]
    <2>1. C = SubSeq(log[i], 1, c)
      BY <1>2, <1>5, Zenon DEF Committed
    <2>2. \A n \in 1..c : n \in 1..Len(log[i])
      BY <1>3, <1>4, Within, Zenon
    <2>3. \A n \in 1..c : log[i][n] \in LogEntry
      BY <1>1, <2>2, ElementOfSeq
    <2> QED
      BY <2>1, <2>3, SubSeqProperties
  <1>7. r <= c /\ \A n \in 1..r : recovered[i][n] = C[n]
    BY <1>2, <1>5, <1>6, Zenon DEF Confirmed, IsPrefixOf
  <1>8. \A n \in 1..r : recovered[i][n] = log[i][n]
    <2>1. \A n \in 1..r : n \in 1..c
      BY <1>7
    <2> QED
      BY <1>6, <1>7, <2>1, Zenon
  <1>9. PICK base \in Table, a \in 0..r :
            Written(base, Nothing, recovered[i], 0, r) /\ Written(table[i], base, log[i], a, c)
    BY <1>2, Zenon DEF TableInv, Tabled
  <1>10. 0 \in Nat /\ 0 <= a /\ a <= r /\ a \in Nat
    OBVIOUS
  <1>11. Written(base, Nothing, log[i], 0, r)
    BY <1>8, <1>9, <1>10, WrittenAgree, Zenon
  <1>12. Written(table[i], Nothing, log[i], 0, c)
    BY <1>7, <1>9, <1>10, <1>11, WrittenTwice
  <1>13. PICK t : t = ApplyEntries(Nothing, SubSeq(log[i], 0 + 1, c))
    OBVIOUS
  <1>14. t \in Table /\ Written(t, Nothing, log[i], 0, c)
    BY <1>1, <1>3, <1>10, <1>13, TableWritten, NothingType, Zenon
  <1>15. t = table[i]
    BY <1>1, <1>10, <1>12, <1>14, WrittenSame
  <1>16. t = ApplyEntries(Nothing, Committed(i))
    <2>1. 0 + 1 = 1
      OBVIOUS
    <2> QED
      BY <1>2, <1>13, <2>1 DEF Committed
  <1> QED
    BY <1>2, <1>12, <1>15, <1>16, Zenon

(* Two nodes that have committed as many entries have committed the same.  *)
LEMMA SameCommitted ==
    ASSUME Inv, SafeInv, NEW i \in Server, NEW j \in Server, i # j,
           commit_index[i] = commit_index[j]
    PROVE  \A n \in 1..commit_index[i] : log[i][n] = log[j][n]
  <1>1. PICK L : Replicated(L) /\ Safe(L)
    BY Zenon DEF SafeInv, Several
  <1>2. PICK c \in Nat : c = commit_index[i] /\ c = commit_index[j]
    BY DEF Inv, TypeInv, TypeOK
  <1>3. SafeUpTo(L, log[i], c, current_term[i]) /\ SafeUpTo(L, log[j], c, current_term[j])
    BY <1>1, <1>2, Zenon DEF Safe
  <1>4. CASE c = 0
    BY <1>2, <1>4
  <1>5. CASE c # 0
    <2>1. PICK t, k \in Nat : c <= k /\ Decided(L, t, k) /\ AgreeTo(log[i], L[t], c)
      BY <1>3, <1>5, Zenon DEF SafeUpTo
    <2>2. PICK u, l \in Nat : c <= l /\ Decided(L, u, l) /\ AgreeTo(log[j], L[u], c)
      BY <1>3, <1>5, Zenon DEF SafeUpTo
    <2>3. \A n \in 1..k : t <= u => L[t][n] = L[u][n]
      BY <1>1, <2>1, <2>2, DecidedAgree
    <2>4. \A n \in 1..l : u <= t => L[u][n] = L[t][n]
      BY <1>1, <2>1, <2>2, DecidedAgree
    <2>5. \A n \in 1..c : n \in 1..k /\ n \in 1..l
      BY <2>1, <2>2, Within, Zenon
    <2>6. t <= u \/ u <= t
      OBVIOUS
    <2>7. \A n \in 1..c : L[t][n] = L[u][n]
      BY <2>3, <2>4, <2>5, <2>6, Zenon
    <2> QED
      BY <1>2, <2>1, <2>2, <2>7, Zenon DEF AgreeTo
  <1> QED
    BY <1>4, <1>5

(* A cluster of ReplicatedDB nodes takes only steps of the Raft core: all  *)
(* that is proved of Raft holds of it (replicated_db.cc calls nothing of   *)
(* Raft but Tick, Step, Propose, Restore and its accessors).               *)
THEOREM ClusterImplementsRaft == DBSpec => Spec
  <1>1. DBInit => Init
    BY DEF DBInit
  <1> QED
    BY <1>1, InvInit, InvNext, DBStepIsRaftStep, PTL DEF DBSpec, Spec

(* The invariant holds throughout.                                         *)
LEMMA DBInvariant == DBSpec => [](Inv /\ SafeInv /\ TableInv)
  <1>1. DBInit => Init
    BY DEF DBInit
  <1> QED
    BY <1>1, InvInit, InvNext, SafeInvInit, SafeInvNext, DBStepIsRaftStep, TableInit, TableNext,
       PTL DEF DBSpec

(* A node that was never reopened shows exactly its committed writes, and  *)
(* one that was shows them as soon as the entries Open applied are         *)
(* committed, although ApplyCommitted has meanwhile set the apply cursor   *)
(* back and applied part of the log again.                                 *)
THEOREM TablesAreCommitted == DBSpec => []TableIsCommitted
  <1>1. Inv /\ SafeInv /\ TableInv => TableIsCommitted
    BY ConfirmedTable DEF TableIsCommitted
  <1> QED
    BY <1>1, DBInvariant, PTL

(* Two such nodes that have applied as many entries give the same answers  *)
(* to Get, whatever the two have been through (ApplyCommitted, Open).      *)
THEOREM ReplicasAlwaysAgree == DBSpec => []ReplicasAgree
  <1>1. Inv /\ SafeInv /\ TableInv => ReplicasAgree
    <2> SUFFICES ASSUME Inv, SafeInv, TableInv, NEW i \in Server, NEW j \in Server,
                        Confirmed(i), Confirmed(j), commit_index[i] = commit_index[j]
                 PROVE  table[i] = table[j]
      BY DEF ReplicasAgree
    <2>1. CASE i # j
      <3>1. PICK c \in Nat : c = commit_index[i] /\ c = commit_index[j]
        BY DEF Inv, TypeInv, TypeOK
      <3>2. table[i] \in Table /\ table[j] \in Table
        BY DEF TableInv
      <3>3. Written(table[i], Nothing, log[i], 0, c) /\ Written(table[j], Nothing, log[j], 0, c)
        BY <3>1, ConfirmedTable
      <3>4. \A n \in 1..c : log[i][n] = log[j][n]
        BY <2>1, <3>1, SameCommitted
      <3>5. Written(table[i], Nothing, log[j], 0, c)
        BY <3>3, <3>4, WrittenAgree
      <3> QED
        BY <3>2, <3>3, <3>5, WrittenSame
    <2> QED
      BY <2>1
  <1> QED
    BY <1>1, DBInvariant, PTL
=============================================================================
