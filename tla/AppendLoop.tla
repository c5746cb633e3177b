----------------------------- MODULE AppendLoop -----------------------------
(***************************************************************************)
(* The append loop of HandleAppendEntries (src/src/raft/raft.cc), one turn *)
(* per step, from any log and any AppendEntries that starts inside it, the *)
(* terms being whatever they are.  It is what justifies the closed forms   *)
(* MergeEntries and StableIndex, which modules Raft and RaftStorage use    *)
(* for the whole loop.                                                     *)
(***************************************************************************)
EXTENDS RaftLog

CONSTANTS
    Entries,     \* log entries
    MaxLog       \* bound: length of the log and of a message's entries

ASSUME EntryAssumption == \A e \in Entries : e.term \in Nat /\ e.index \in Nat
ASSUME MaxLogAssumption == MaxLog \in Nat

VARIABLES
    log0, stable0, msg,     \* the call: log_, stable_index_ and the message
    log, stable_index, k    \* the loop: the same state and the next entry's place

vars == <<log0, stable0, msg, log, stable_index, k>>

Logs == UNION {[1..n -> Entries] : n \in 0..MaxLog}

Init ==
    /\ log0 \in {lg \in Logs : InPlace(lg, 0)}
    /\ stable0 \in 0..LastIndex(log0)
    /\ msg \in [prev_log_index : 0..LastIndex(log0), entries : Logs]
    /\ InPlace(msg.entries, msg.prev_log_index)
    /\ log = log0 /\ stable_index = stable0 /\ k = 1

e == msg.entries[k]

Continue ==
    /\ e.index <= LastIndex(log)
    /\ TermAt(log, e.index) = e.term
    /\ UNCHANGED <<log, stable_index>>

(* Mutants: the entries after a conflict are kept; the conflicting entry   *)
(* itself counts as stored; the leader's entry is not appended.            *)
OverwriteInPlace ==
    /\ e.index <= LastIndex(log)
    /\ TermAt(log, e.index) # e.term
    /\ log' = [log EXCEPT ![e.index] = e]
    /\ stable_index' = IF stable_index >= e.index THEN e.index - 1 ELSE stable_index
OverwriteOffByOne ==
    /\ e.index <= LastIndex(log)
    /\ TermAt(log, e.index) # e.term
    /\ log' = Append(SubSeq(log, 1, e.index - 1), e)
    /\ stable_index' = IF stable_index > e.index THEN e.index - 1 ELSE stable_index
DropOnly ==
    /\ e.index <= LastIndex(log)
    /\ TermAt(log, e.index) # e.term
    /\ log' = SubSeq(log, 1, e.index - 1)
    /\ stable_index' = IF stable_index >= e.index THEN e.index - 1 ELSE stable_index

Overwrite ==
    /\ e.index <= LastIndex(log)
    /\ TermAt(log, e.index) # e.term
    /\ log' = Append(SubSeq(log, 1, e.index - 1), e)
    /\ stable_index' = IF stable_index >= e.index THEN e.index - 1 ELSE stable_index

PushBack ==
    /\ e.index > LastIndex(log)
    /\ log' = Append(log, e)
    /\ UNCHANGED stable_index

Next ==
    /\ k <= Len(msg.entries)
    /\ k' = k + 1
    /\ Continue \/ Overwrite \/ PushBack
    /\ UNCHANGED <<log0, stable0, msg>>

Spec == Init /\ [][Next]_vars

-----------------------------------------------------------------------------
Done == k > Len(msg.entries)

(* The loop computes what the closed forms say, for the log and for the    *)
(* watermark of what the caller has stored.                                *)
LoopIsMerge ==
    Done => /\ log = MergeEntries(msg, log0)
            /\ stable_index = StableIndex(msg, log0, stable0)

(* At no point of the loop does the watermark cover an entry that is not   *)
(* the one that was stored, and an entry below it is never rewritten: what *)
(* the caller stored up to stable_index_ stays a prefix of the log.        *)
StableIsPrefix ==
    /\ stable_index <= stable0 /\ stable_index <= LastIndex(log)
    /\ SubSeq(log, 1, stable_index) = SubSeq(log0, 1, stable_index)
    /\ stable_index < stable0 /\ Done => log[stable_index + 1] # log0[stable_index + 1]

(* After the loop the log holds the message's entries at their indices, in *)
(* place and term, whatever it held before.                                *)
HoldsEntries ==
    Done => /\ InPlace(log, 0)
            /\ \A j \in 1..Len(msg.entries) : TermAt(log, msg.entries[j].index) = msg.entries[j].term
=============================================================================
