--------------------------------- MODULE DB ---------------------------------
(***************************************************************************)
(* The single-node database of mini-lsm (DBImpl, src/src/db.cc): every     *)
(* write is appended to the write-ahead log and synced before it reaches   *)
(* the in-memory table; Open replays the log and resumes appending to it.  *)
(*                                                                         *)
(* The file is the bytes the process has written.  A crash keeps a prefix  *)
(* of them that holds at least the bytes of the last successful Sync.  A   *)
(* write or a Sync may also fail without a crash, and the caller may go on *)
(* using the database.  Operations are told apart by their number in       *)
(* `history`, which stands for the encoded key and value in the log.       *)
(***************************************************************************)
EXTENDS Wal

CONSTANTS
    Key, Val, None,
    Sizes,             \* lengths of encoded operations
    AppendErrors,      \* whether a write to the file may fail
    WritesAfterTear,   \* bound: whether a log with a torn tail is written to
    MaxWrites,         \* bound: operations issued
    MaxOpens           \* bound: calls of DB::Open

VARIABLES
    history,           \* operations issued: op, encoded size, acknowledged or not
    file, synced,      \* bytes of wal.log, and how many of them are durable
    block_offset,      \* of wal_writer_
    table, open, opens

fileVars == <<file, synced, block_offset>>
vars == <<history, fileVars, table, open, opens>>

Op == [key : Key, val : Val \cup {None}]   \* val None: Delete

Apply(tab, op) == [tab EXCEPT ![op.key] = op.val]

(* ReplayWal: the operations of the records the log yields, in its order.  *)
RecoveredIds(f) == [k \in DOMAIN ReadRecords(f) |-> ReadRecords(f)[k][1].rec]
ReplayWal(f) ==
    FoldLeft(LAMBDA tab, n : Apply(tab, history[n].op), [k \in Key |-> None], RecoveredIds(f))

(* Nothing was torn off the end of the last fragment in the file.          *)
Clean(f) == f # << >> => Last(f).at \in {0, HeaderSize + Last(f).frag.len}

-----------------------------------------------------------------------------
Init ==
    /\ history = << >>
    /\ file = << >> /\ synced = 0 /\ block_offset = 0
    /\ table = [k \in Key |-> None]
    /\ open = TRUE /\ opens = 1

(* The call is issued; `chunks` is what AddRecord will try to append.      *)
Issue(op, size, acked) ==
    /\ open
    /\ Len(history) < MaxWrites
    /\ ~WritesAfterTear => Clean(file)
    /\ history' = Append(history, [op |-> op, size |-> size, acked |-> acked])

Chunks(size) == AddRecord(Len(history) + 1, size, block_offset)

(* Mutant: the record is not synced.                                       *)
WriteUnsynced(op, size) ==
    /\ Issue(op, size, TRUE)
    /\ file' = Appended(file, RecordBytes(Chunks(size)))
    /\ block_offset' = Last(Chunks(size)).block_offset
    /\ table' = Apply(table, op)
    /\ UNCHANGED <<synced, open, opens>>

Write(op, size) ==
    /\ Issue(op, size, TRUE)
    /\ file' = Appended(file, RecordBytes(Chunks(size)))
    /\ synced' = Len(file')
    /\ block_offset' = Last(Chunks(size)).block_offset
    /\ table' = Apply(table, op)
    /\ UNCHANGED <<open, opens>>

(* AddRecord returns an error part of the way: neither synced nor applied. *)
WriteAppendFails(op, size) ==
    /\ AppendErrors
    /\ Issue(op, size, FALSE)
    /\ file' \in AppendedPartly(file, RecordBytes(Chunks(size)))
    /\ block_offset' = OffsetAfterFailure(Chunks(size), Len(file') - Len(file), block_offset)
    /\ UNCHANGED <<synced, table, open, opens>>

(* Mutant: the error of Sync is returned after the table was changed.      *)
WriteAppliedFirst(op, size) ==
    /\ Issue(op, size, FALSE)
    /\ file' = Appended(file, RecordBytes(Chunks(size)))
    /\ block_offset' = Last(Chunks(size)).block_offset
    /\ table' = Apply(table, op)
    /\ UNCHANGED <<synced, open, opens>>

(* Mutant: the record is appended again before the error is returned.      *)
WriteRetried(op, size) ==
    /\ Issue(op, size, FALSE)
    /\ LET again == AddRecord(Len(history) + 1, size, Last(Chunks(size)).block_offset)
       IN  /\ file' = Appended(file, RecordBytes(Chunks(size) \o again))
           /\ block_offset' = Last(again).block_offset
    /\ UNCHANGED <<synced, table, open, opens>>

WriteSyncFails(op, size) ==
    /\ Issue(op, size, FALSE)
    /\ file' = Appended(file, RecordBytes(Chunks(size)))
    /\ block_offset' = Last(Chunks(size)).block_offset
    /\ UNCHANGED <<synced, table, open, opens>>

(* A crash inside Write.                                                   *)
CrashInWrite(op, size) ==
    /\ Issue(op, size, FALSE)
    /\ file' \in Survivors(Appended(file, RecordBytes(Chunks(size))), synced)
    /\ open' = FALSE
    /\ UNCHANGED <<synced, block_offset, table, opens>>

(* A crash between calls; with nothing lost, also ~DBImpl.                 *)
Crash ==
    /\ open
    /\ file' \in Survivors(file, synced)
    /\ open' = FALSE
    /\ UNCHANGED <<history, synced, block_offset, table, opens>>

(* Mutants: the writer resumes at the start of a block, wherever the file  *)
(* ends; or with the size of the file as its place in the block.           *)
ResumeAt(offset) ==
    /\ ~open
    /\ opens < MaxOpens
    /\ table' = ReplayWal(file)
    /\ block_offset' = offset
    /\ open' = TRUE /\ opens' = opens + 1
    /\ UNCHANGED <<history, file, synced>>
RecoverAtBlock == ResumeAt(0)
RecoverAtSize == ResumeAt(Len(file))

(* DB::Open on the files of an earlier process.                            *)
Recover ==
    /\ ~open
    /\ opens < MaxOpens
    /\ table' = ReplayWal(file)
    /\ block_offset' = Writer(GetFileSize(file))
    /\ open' = TRUE /\ opens' = opens + 1
    /\ UNCHANGED <<history, file, synced>>

Next ==
    \/ \E op \in Op, size \in Sizes :
          \/ Write(op, size)
          \/ WriteAppendFails(op, size)
          \/ WriteSyncFails(op, size)
          \/ CrashInWrite(op, size)
    \/ Crash
    \/ Recover

Spec == Init /\ [][Next]_vars

-----------------------------------------------------------------------------
(* Properties.                                                             *)

TypeOK ==
    /\ history \in Seq([op : Op, size : Sizes, acked : BOOLEAN])
    /\ synced \in 0..Len(file)
    /\ block_offset \in 0..BlockSize
    /\ table \in [Key -> Val \cup {None}]
    /\ open \in BOOLEAN /\ opens \in 1..MaxOpens

(* Every record the reader returns is one write from its first byte to its *)
(* last: no damage makes ReadRecord join fragments of different writes or  *)
(* return a write cut short.                                               *)
NoPhantomRecords ==
    \A k \in DOMAIN ReadRecords(file) :
        LET r == ReadRecords(file)[k] IN Whole(r, history[r[1].rec].size)

(* Replay never returns writes twice or out of the order they were made in, *)
(* whatever was torn, cut off or left behind by failed writes.              *)
RecoveredInOrder ==
    LET ids == RecoveredIds(file) IN \A j, k \in DOMAIN ids : j < k => ids[j] < ids[k]

(* Damage never reaches back: a write acknowledged before the first one    *)
(* that failed or was interrupted is always recovered.                     *)
SurvivesUpToDamage ==
    \A n \in DOMAIN history :
        (\A m \in 1..n : history[m].acked) => Contains(RecoveredIds(file), n)

(* "A crash after a successful Put/Delete does not lose the write: Open    *)
(* replays the WAL to rebuild the table" (db.h:15-17).                     *)
AckedSurvives ==
    \A n \in DOMAIN history : history[n].acked => Contains(RecoveredIds(file), n)

(* DBImpl is a durable key-value store.                                    *)
Kv == INSTANCE KvStore
        WITH history <- [n \in DOMAIN history |->
                            [op |-> history[n].op, acked |-> history[n].acked]],
             table <- IF open THEN table ELSE [k \in Key |-> None]
DurableStore == Kv!Spec
=============================================================================
