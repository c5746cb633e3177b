------------------------------ MODULE RaftLog ------------------------------
(***************************************************************************)
(* Operators on the replicated log of src/src/raft/raft.cc: a sequence of  *)
(* entries, the entry with index n at place n.  The index-0 sentinel of    *)
(* log_ is the 0 that TermAt and LastTerm return for an empty log.         *)
(***************************************************************************)
EXTENDS Integers, Sequences, FiniteSetsExt

LastIndex(lg) == Len(lg)
TermAt(lg, n) == IF n \in 1..LastIndex(lg) THEN lg[n].term ELSE 0
LastTerm(lg) == TermAt(lg, LastIndex(lg))

-----------------------------------------------------------------------------
(* Mutant: the term of the previous entry is not compared.                 *)
ConsistentInLength(m, lg) == m.prev_log_index <= LastIndex(lg)

(* The consistency check that makes a follower reject an AppendEntries.    *)
Consistent(m, lg) ==
    /\ m.prev_log_index <= LastIndex(lg)
    /\ TermAt(lg, m.prev_log_index) = m.prev_log_term

(* Mutants: whatever follows the previous entry is dropped first; entries  *)
(* are appended without a look at the log.                                 *)
MergeTruncating(m, lg) == SubSeq(lg, 1, m.prev_log_index) \o m.entries
MergeBlindly(m, lg) == lg \o m.entries

(* The append loop: entries that agree in term are left alone; at the first *)
(* one that is missing or disagrees, the rest of the log is replaced.       *)
MergeEntries(m, lg) ==
    LET new == {k \in 1..Len(m.entries) :
                    LET n == m.entries[k].index
                    IN  n > LastIndex(lg) \/ TermAt(lg, n) # m.entries[k].term}
    IN  IF new = {} THEN lg
        ELSE SubSeq(lg, 1, m.entries[Min(new)].index - 1)
                 \o SubSeq(m.entries, Min(new), Len(m.entries))

FollowerCommit(m, lg, commit) ==
    IF m.leader_commit <= commit THEN commit
    ELSE IF m.leader_commit <= LastIndex(lg) THEN m.leader_commit
    ELSE LastIndex(lg)

(* The append loop lowers stable_index_ below the first entry it drops.    *)
StableIndex(m, lg, stable) ==
    LET dropped == {k \in 1..Len(m.entries) :
                       LET n == m.entries[k].index
                       IN  n <= LastIndex(lg) /\ TermAt(lg, n) # m.entries[k].term}
    IN  IF dropped = {} THEN stable
        ELSE Min({stable, m.entries[Min(dropped)].index - 1})

(* Every entry of es sits at its own index, base being the one before.     *)
InPlace(es, base) == \A k \in 1..Len(es) : es[k].index = base + k

(* Log lg begins with the entries of es.                                   *)
IsPrefixOf(es, lg) == Len(es) <= Len(lg) /\ \A k \in 1..Len(es) : es[k] = lg[k]

-----------------------------------------------------------------------------
(* Decoding an entry and applying it to a table (replicated_db.cc), and a  *)
(* run of entries, in order.  A value of None deletes the key.             *)
Apply(tab, e) == [tab EXCEPT ![e.data.key] = e.data.val]
ApplyEntries(tab, es) ==
    LET after[n \in 0..Len(es)] == IF n = 0 THEN tab ELSE Apply(after[n - 1], es[n])
    IN  after[Len(es)]
=============================================================================
