---------------------------- MODULE RaftStorage ----------------------------
(***************************************************************************)
(* Durable storage of one Raft node (src/src/raft/storage.cc): Save writes *)
(* what the core changed as records of an append-only file, Open replays   *)
(* the file, Recover and Restore hand the result to a new core.            *)
(*                                                                         *)
(* The core is every change the calls of raft.cc can make to its term, its *)
(* vote, its log and the two marks Save reads, stable_index_ and           *)
(* hard_state_dirty_.  Save is a step per record, since a crash or an I/O  *)
(* error can stop it between any two.                                      *)
(*                                                                         *)
(* A file is the sequence of its records, all in one block.  A crash keeps *)
(* a prefix of at least the synced records and may leave part of the next  *)
(* one, which, as module Wal shows, hides what is appended after it.       *)
(***************************************************************************)
EXTENDS RaftLog

CONSTANTS
    Self, Other,       \* this node and its peers
    None,              \* NodeId 0
    SyncErrors,        \* whether fsync may fail
    AppendErrors,      \* whether a write to the file may fail
    RetriesAfterError, \* bound: whether a save that failed with entries written is retried
    WritesAfterTear,   \* bound: whether a file with a torn record is appended to
    MaxTerm,           \* bound: terms
    MaxLog,            \* bound: length of the log
    MaxFile            \* bound: a save starts only on a file shorter than this

ASSUME BoundAssumption == MaxTerm \in Nat /\ MaxLog \in Nat

VARIABLES
    current_term, voted_for, log, stable_index, hard_state_dirty,   \* the core
    file, synced,      \* records written, and how many of them are durable
    persisted_index,   \* highest entry index the storage believes it has written
    pc, i,             \* the step Save is at, and its loop variable
    promised,          \* the state saved last: what other nodes may rely on
    held               \* the logs the node has had since then

coreVars == <<current_term, voted_for, log, stable_index, hard_state_dirty>>
saveVars == <<file, synced, persisted_index, pc, i, promised>>
vars == <<coreVars, saveVars, held>>

-----------------------------------------------------------------------------
(* Records and replay.                                                     *)

HardState(t, v) == [tag |-> "HardState", term |-> t, vote |-> v]
Entry(e) == [tag |-> "Entry", entry |-> e]
Truncate(from) == [tag |-> "Truncate", from |-> from]
Torn == [tag |-> "Torn"]

(* Mutant: the entry at from itself is kept.                               *)
DropAfter(es, from) ==
    SubSeq(es, 1, Max({0} \cup {p \in DOMAIN es : es[p].index <= from}))

(* Entries are popped off the end as long as their index is not below from. *)
DropFrom(es, from) ==
    SubSeq(es, 1, Max({0} \cup {p \in DOMAIN es : es[p].index < from}))

ReplayRecord(s, r) ==
    IF s.lost THEN s
    ELSE CASE r.tag = "HardState" -> [s EXCEPT !.term = r.term, !.vote = r.vote]
           [] r.tag = "Entry"     -> [s EXCEPT !.entries = Append(@, r.entry)]
           [] r.tag = "Truncate"  -> [s EXCEPT !.entries = DropFrom(@, r.from)]
           [] r.tag = "Torn"      -> [s EXCEPT !.lost = TRUE]

ReplayFile(f) ==
    LET state[n \in 0..Len(f)] ==
            IF n = 0 THEN [term |-> 0, vote |-> None, entries |-> << >>, lost |-> FALSE]
            ELSE ReplayRecord(state[n - 1], f[n])
    IN  state[Len(f)]

(* Mutant: replay does not count what it recovered as written.             *)
NonePersisted(es) == 0
LastPersisted(es) == IF es = << >> THEN 0 ELSE es[Len(es)].index

-----------------------------------------------------------------------------
Init ==
    /\ current_term = 0 /\ voted_for = None /\ log = << >>
    /\ stable_index = 0 /\ hard_state_dirty = FALSE
    /\ file = << >> /\ synced = 0 /\ persisted_index = 0
    /\ pc = "idle" /\ i = 0
    /\ promised = [term |-> 0, vote |-> None, entries |-> << >>] /\ held = {<< >>}

(* The storage is not inside a Save, and the caller still uses it.         *)
Ready == pc = "idle" \/ (RetriesAfterError /\ pc = "failed")

(* Save begins; the caller owes one after each call into the core, and may *)
(* retry one that failed.                                                  *)
Save ==
    /\ Ready /\ pc' = "hard_state"
    /\ Len(file) < MaxFile
    /\ ~WritesAfterTear => Torn \notin Range(file)
    /\ UNCHANGED <<file, synced, persisted_index, i, promised>>

RetrySave == Save /\ UNCHANGED <<coreVars, held>>

(* Tick: an election.                                                      *)
Campaign ==
    /\ Save
    /\ current_term < MaxTerm
    /\ current_term' = current_term + 1
    /\ voted_for' = Self /\ hard_state_dirty' = TRUE
    /\ UNCHANGED <<log, stable_index, held>>

(* Step: a newer term, without a vote (BecomeFollower) or with one.        *)
NewTerm ==
    /\ Save
    /\ current_term' \in (current_term + 1)..MaxTerm
    /\ voted_for' \in Other \cup {None} /\ hard_state_dirty' = TRUE
    /\ UNCHANGED <<log, stable_index, held>>

(* Step: a vote granted in the current term.                               *)
Grant ==
    /\ Save
    /\ current_term > 0
    /\ \E c \in Other : voted_for \in {None, c} /\ voted_for' = c
    /\ hard_state_dirty' = TRUE
    /\ UNCHANGED <<current_term, log, stable_index, held>>

(* Only a leader, which voted for itself, takes proposals.                 *)
Propose ==
    /\ Save
    /\ voted_for = Self /\ LastIndex(log) < MaxLog
    /\ log' = Append(log, [term |-> current_term, index |-> LastIndex(log) + 1])
    /\ held' = held \cup {log'}
    /\ UNCHANGED <<current_term, voted_for, stable_index, hard_state_dirty>>

(* Step: an AppendEntries of term t that passes the consistency check.     *)
Replicate ==
    /\ Save
    /\ \E t \in current_term..MaxTerm, prev \in 0..LastIndex(log), n \in 0..MaxLog :
         /\ t > 0 /\ prev + n <= MaxLog
         /\ \E terms \in [1..n -> Max({1, TermAt(log, prev)})..t] :
              /\ \A a, b \in 1..n : a < b => terms[a] <= terms[b]
              /\ LET m == [prev_log_index |-> prev,
                           entries |-> [k \in 1..n |-> [term |-> terms[k], index |-> prev + k]]]
                 IN  /\ log' = MergeEntries(m, log)
                     /\ held' = held \cup {log'}
                     /\ stable_index' = StableIndex(m, log, stable_index)
         /\ current_term' = t
         /\ voted_for' = IF t > current_term THEN None ELSE voted_for
         /\ hard_state_dirty' = (hard_state_dirty \/ t > current_term)

-----------------------------------------------------------------------------
(* Save.                                                                   *)

Goto(l) == pc' = l
AddRecord(r) == file' = Append(file, r)

SaveHardState ==
    /\ pc = "hard_state"
    /\ IF hard_state_dirty THEN AddRecord(HardState(current_term, voted_for))
       ELSE UNCHANGED file
    /\ hard_state_dirty' = FALSE
    /\ Goto("truncate")
    /\ UNCHANGED <<current_term, voted_for, log, stable_index, synced, persisted_index,
                   i, promised, held>>

(* Mutant: no record of a truncation.                                      *)
SaveNoTruncate ==
    /\ pc = "truncate"
    /\ persisted_index' = Min({stable_index, persisted_index})
    /\ i' = persisted_index' + 1
    /\ Goto("entries")
    /\ UNCHANGED <<coreVars, file, synced, promised, held>>

SaveTruncate ==
    /\ pc = "truncate"
    /\ IF stable_index < persisted_index
       THEN AddRecord(Truncate(stable_index + 1)) /\ persisted_index' = stable_index
       ELSE UNCHANGED <<file, persisted_index>>
    /\ i' = persisted_index' + 1
    /\ Goto("entries")
    /\ UNCHANGED <<coreVars, synced, promised, held>>

SaveEntry ==
    /\ pc = "entries"
    /\ IF i <= LastIndex(log)
       THEN AddRecord(Entry(log[i])) /\ i' = i + 1 /\ UNCHANGED pc
       ELSE Goto("sync") /\ UNCHANGED <<file, i>>
    /\ UNCHANGED <<coreVars, synced, persisted_index, promised, held>>

(* Mutant: Save returns without an fsync.                                  *)
SaveUnsynced ==
    /\ pc = "sync"
    /\ persisted_index' = LastIndex(log)
    /\ stable_index' = LastIndex(log)
    /\ promised' = [term |-> current_term, vote |-> voted_for, entries |-> log]
    /\ held' = {log}
    /\ i' = 0 /\ Goto("idle")
    /\ UNCHANGED <<current_term, voted_for, log, hard_state_dirty, file, synced>>

SaveSync ==
    /\ pc = "sync"
    /\ synced' = Len(file)
    /\ persisted_index' = LastIndex(log)
    /\ stable_index' = LastIndex(log)
    /\ promised' = [term |-> current_term, vote |-> voted_for, entries |-> log]
    /\ held' = {log}
    /\ i' = 0 /\ Goto("idle")
    /\ UNCHANGED <<current_term, voted_for, log, hard_state_dirty, file>>

(* Save returns an error; pc keeps whether it had written entries by then. *)
Fail == i' = 0 /\ Goto(IF i > persisted_index + 1 THEN "failed" ELSE "idle")

SyncFails ==
    /\ SyncErrors
    /\ pc = "sync"
    /\ Fail
    /\ UNCHANGED <<coreVars, file, synced, persisted_index, promised, held>>

(* The step Save is at calls AddRecord.                                    *)
Writing ==
    \/ pc = "hard_state" /\ hard_state_dirty
    \/ pc = "truncate" /\ stable_index < persisted_index
    \/ pc = "entries" /\ i <= LastIndex(log)

(* Mutant: the hard state is marked as saved before it is written.         *)
AppendFailsMarked ==
    /\ AppendErrors
    /\ Writing
    /\ file' \in {file, Append(file, Torn)}
    /\ hard_state_dirty' = FALSE
    /\ Fail
    /\ UNCHANGED <<current_term, voted_for, log, stable_index, synced, persisted_index,
                   promised, held>>

(* AddRecord fails in the middle of a record or before its first byte.     *)
AppendFails ==
    /\ AppendErrors
    /\ Writing
    /\ file' \in {file, Append(file, Torn)}
    /\ Fail
    /\ UNCHANGED <<coreVars, synced, persisted_index, promised, held>>

(* The files a crash may leave: at least the synced records, and part of   *)
(* the first one lost.                                                     *)
CrashFiles ==
    {SubSeq(file, 1, n) : n \in synced..Len(file)}
      \cup {Append(SubSeq(file, 1, n), Torn) :
               n \in {m \in synced..Len(file) : m < Len(file) \/ Writing}}

(* A crash, then Open, Recover and Restore.                                *)
Restart ==
    /\ file' \in CrashFiles
    /\ LET s == ReplayFile(file')
       IN  /\ current_term' = s.term /\ voted_for' = s.vote
           /\ log' = s.entries /\ held' = held \cup {s.entries}
           /\ stable_index' = LastIndex(s.entries)
           /\ persisted_index' = LastPersisted(s.entries)
    /\ hard_state_dirty' = FALSE
    /\ i' = 0
    /\ Goto("idle")
    /\ UNCHANGED <<synced, promised>>

Next ==
    \/ Campaign \/ NewTerm \/ Grant \/ Propose \/ Replicate
    \/ RetrySave \/ SaveHardState \/ SaveTruncate \/ SaveEntry \/ SaveSync
    \/ SyncFails \/ AppendFails
    \/ Restart

Spec == Init /\ [][Next]_vars

-----------------------------------------------------------------------------
(* Properties.  Crashes: what a crash in the current state may leave.      *)

Crashes == {ReplayFile(SubSeq(file, 1, n)) : n \in synced..Len(file)}

(* The state saved last is what the durable part of the file replays to:   *)
(* term, vote and log, entry for entry (Save, ReplayFile).                 *)
SavedIsRecoverable ==
    LET s == ReplayFile(SubSeq(file, 1, synced))
    IN  [term |-> s.term, vote |-> s.vote, entries |-> s.entries] = promised

(* A crash inside Save, between any two of its records, leaves a prefix of *)
(* one of the logs the node has had since its last save, never a mixture   *)
(* of what it dropped and what it put in its place (the Truncate record).  *)
CrashLeavesPrefix ==
    \A s \in Crashes : \E lg \in held : IsPrefixOf(s.entries, lg)

(* "The vote is remembered across the restart, preserving the one-vote-    *)
(* per-term safety property" (storage_test.cc:226-227): no crash takes a   *)
(* node back to an older term than it saved, or to another vote in it.     *)
VoteIsRemembered ==
    \A s \in Crashes : /\ s.term >= promised.term
                       /\ s.term = promised.term /\ promised.vote # None
                            => s.vote = promised.vote

(* "Entries are in index order starting at 1" (storage.h:53-54).           *)
EntriesInOrder == \A s \in Crashes : InPlace(s.entries, 0)
=============================================================================
