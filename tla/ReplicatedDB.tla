---------------------------- MODULE ReplicatedDB ----------------------------
(***************************************************************************)
(* The replicated key-value store as a single node                         *)
(* (src/src/raft/replicated_db.cc with peers = {id}): Put and Delete go    *)
(* through the Raft log, RaftStorage saves it, ApplyCommitted carries the  *)
(* committed entries over to the table, and Open rebuilds the table from   *)
(* the recovered log and makes the node its own leader again.              *)
(*                                                                         *)
(* Raft's part is what raft.cc does when one node is a quorum: a tick wins *)
(* an election, a proposal is committed at once.  The storage's steps are  *)
(* those of module RaftStorage.                                            *)
(***************************************************************************)
EXTENDS RaftLog

CONSTANTS
    Self, None,
    Key, Val,
    SyncErrors,        \* whether fsync may fail
    RetriesAfterError, \* bound: whether a save that failed with entries written is retried
    WritesAfterTear,   \* bound: whether a file with a torn record is appended to
    MaxWrites,         \* bound: Put and Delete calls
    MaxOpens,          \* bound: Open calls
    MaxFile            \* bound: the user calls Sync only on a file shorter than this

VARIABLES
    current_term, voted_for, log, stable_index, hard_state_dirty,
    file, synced, persisted_index, pc, i, promised, held,
    commit_index,
    table, applied_index,
    open, opens,       \* whether Open has returned a database, and how often it was called
    pending,           \* the write in progress
    history            \* the writes issued and whether each was acknowledged

Store == INSTANCE RaftStorage
    WITH Other <- {}, AppendErrors <- FALSE, MaxTerm <- MaxOpens, MaxLog <- MaxWrites

coreVars == <<current_term, voted_for, log, stable_index, hard_state_dirty, commit_index>>
storeVars == <<file, synced, persisted_index, pc, i, promised, held>>
dbVars == <<table, applied_index, open, opens, pending, history>>
vars == <<coreVars, storeVars, dbVars>>

Op == [key : Key, val : Val \cup {None}]   \* val None: Delete
Nothing == [k \in Key |-> None]

ASSUME NoneAssumption == None \notin Op

-----------------------------------------------------------------------------
Init ==
    /\ current_term = 0 /\ voted_for = None /\ log = << >> /\ commit_index = 0
    /\ stable_index = 0 /\ hard_state_dirty = FALSE
    /\ file = << >> /\ synced = 0 /\ persisted_index = 0
    /\ pc = "idle" /\ i = 0 /\ held = {}
    /\ promised = [term |-> 0, vote |-> None, entries |-> << >>]
    /\ table = Nothing /\ applied_index = 0
    /\ open = FALSE /\ opens = 0 /\ pending = None /\ history = << >>

(* Open, up to the call of Sync: recover, apply every recovered entry, and *)
(* tick until leader, which takes one election.                            *)
Open ==
    /\ ~open /\ pc \in {"idle", "failed"}
    /\ opens < MaxOpens
    /\ opens' = opens + 1
    /\ LET s == Store!ReplayFile(file)
       IN  /\ current_term' = s.term + 1 /\ voted_for' = Self
           /\ log' = s.entries
           /\ stable_index' = LastIndex(s.entries)
           /\ persisted_index' = Store!LastPersisted(s.entries)
           /\ table' = ApplyEntries(Nothing, s.entries)
           /\ applied_index' = Store!LastPersisted(s.entries)
    /\ hard_state_dirty' = TRUE
    /\ commit_index' = 0
    /\ pc' = "hard_state"
    /\ UNCHANGED <<file, synced, i, promised, held, open, pending, history>>

(* Put or Delete, up to the call of Sync: proposed, and committed at once. *)
Write(op) ==
    /\ open /\ Store!Ready
    /\ Len(history) < MaxWrites
    /\ ~WritesAfterTear => Store!Torn \notin Range(file)
    /\ pending' = op
    /\ log' = Append(log, [term |-> current_term, index |-> LastIndex(log) + 1, data |-> op])
    /\ commit_index' = LastIndex(log')
    /\ pc' = "hard_state"
    /\ UNCHANGED <<current_term, voted_for, stable_index, hard_state_dirty, file, synced,
                   persisted_index, i, promised, held, table, applied_index, open, opens,
                   history>>

(* Sync called by the user.                                                *)
Sync ==
    /\ open /\ Store!Ready
    /\ Len(file) < MaxFile
    /\ pc' = "hard_state"
    /\ UNCHANGED <<coreVars, file, synced, persisted_index, i, promised, held, dbVars>>

Saving ==
    /\ Store!SaveHardState \/ Store!SaveTruncate \/ Store!SaveEntry
    /\ UNCHANGED <<commit_index, dbVars>>

(* The write in progress, if any, ends with this answer.                   *)
Answer(acked) ==
    /\ pending' = None
    /\ history' = IF pending = None THEN history
                  ELSE Append(history, [op |-> pending, acked |-> acked])

(* Mutant: applying starts one entry too late.                             *)
ApplyTooLate ==
    /\ table' = ApplyEntries(table, SubSeq(log, applied_index + 2, commit_index))
    /\ applied_index' = commit_index

ApplyCommitted ==
    /\ table' = ApplyEntries(table, SubSeq(log, applied_index + 1, commit_index))
    /\ applied_index' = commit_index

(* Save succeeds: Sync applies, and the call it serves returns OK.         *)
SyncDone ==
    /\ Store!SaveSync
    /\ ApplyCommitted
    /\ Answer(TRUE)
    /\ open' = TRUE
    /\ UNCHANGED <<commit_index, opens>>

(* Save fails: the call it serves returns the error; Open gives up.        *)
SyncFailed ==
    /\ Store!SyncFails
    /\ Answer(FALSE)
    /\ UNCHANGED <<commit_index, table, applied_index, open, opens>>

Crash ==
    /\ file' \in Store!CrashFiles
    /\ Answer(FALSE)
    /\ open' = FALSE
    /\ pc' = "idle" /\ i' = 0
    /\ UNCHANGED <<coreVars, synced, persisted_index, promised, held, table, applied_index,
                   opens>>

Next ==
    \/ Open
    \/ \E op \in Op : Write(op)
    \/ Sync
    \/ Saving \/ SyncDone \/ SyncFailed
    \/ Crash

Spec == Init /\ [][Next]_vars

-----------------------------------------------------------------------------
(* Properties.                                                             *)

(* "Single-node recovery is exact" (replicated_db.h:25-26), as a durable   *)
(* key-value store: no acknowledged write is lost in any crash, recovery   *)
(* adds nothing but writes that were in progress or failed, and applying   *)
(* the log again from its start, as the first write after Open does,       *)
(* never lets a read go back in time.                                      *)
Kv == INSTANCE KvStore WITH table <- IF open THEN table ELSE Nothing,
                            open <- open \/ opens = 0
DurableStore == Kv!Spec

(* The same of every crash at once: the value a key would be recovered     *)
(* with is that of its last acknowledged write, or of a later one that     *)
(* failed or is in progress.                                               *)
Recovered == {ApplyEntries(Nothing, s.entries) : s \in Store!Crashes}
Writes(k) == {n \in DOMAIN history : history[n].op.key = k}
RecoveryIsExact ==
    \A tab \in Recovered, k \in Key :
        \E n \in Writes(k) \cup {0} :
            /\ \A m \in Writes(k) : history[m].acked => m <= n
            /\ \/ n > 0 /\ tab[k] = history[n].op.val
               \/ n = 0 /\ tab[k] = None
               \/ pending # None /\ pending = [key |-> k, val |-> tab[k]]
=============================================================================
