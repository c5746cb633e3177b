-------------------------------- MODULE Wal --------------------------------
(***************************************************************************)
(* The write-ahead log format of mini-lsm: what log::Writer appends to a   *)
(* file (src/src/wal_writer.cc) and what log::Reader returns from it       *)
(* (src/src/wal_reader.cc), as operators on the bytes of the file.         *)
(*                                                                         *)
(* A byte is a place in a physical record: byte `at` of the header and     *)
(* payload of fragment `frag`.  The checksum is what it is for: a stretch  *)
(* of the file passes it exactly if it is one whole fragment as written.   *)
(* A header pieced together from the ends of two writes therefore never    *)
(* passes, whatever length and type it seems to hold, and the reader drops *)
(* the rest of the block.  Left out are two accidents of checksum bytes: a *)
(* collision, and a pieced header whose length and type are all zeros,     *)
(* which the reader takes for padding and steps over.                      *)
(***************************************************************************)
EXTENDS Env, SequencesExt

CONSTANTS
    BlockSize,     \* kBlockSize, 32768 in the code
    HeaderSize     \* kHeaderSize, 7 in the code

ASSUME FormatAssumption == HeaderSize \in Nat \ {0} /\ BlockSize \in Nat
                              /\ BlockSize > HeaderSize

Fragment(type, rec, from, len) == [type |-> type, rec |-> rec, from |-> from, len |-> len]
BadRecord == Fragment("Bad", 0, 0, 0)

Zero == [frag |-> Fragment("Zero", 0, 0, 0), at |-> 0]
FragmentBytes(f) == [k \in 1..HeaderSize + f.len |-> [frag |-> f, at |-> k]]

-----------------------------------------------------------------------------
(* Writer.                                                                 *)

(* block_offset_ of a Writer on a file that has this length already.       *)
Writer(dest_length) == dest_length % BlockSize

(* AddRecord: the fragments of record `rec` of `length` bytes, each with   *)
(* the padding in front of it and the block_offset_ after it.              *)
AddRecord(rec, length, block_offset) ==
    LET emit[left \in 0..length, offset \in 0..BlockSize, begin \in BOOLEAN] ==
            LET leftover == BlockSize - offset
                start == IF leftover < HeaderSize THEN 0 ELSE offset
                avail == BlockSize - start - HeaderSize
                size == IF left < avail THEN left ELSE avail
                end == left = size
                type == IF begin THEN IF end THEN "Full" ELSE "First"
                        ELSE IF end THEN "Last" ELSE "Middle"
                after == start + HeaderSize + size
            IN  <<[pad |-> IF start = offset THEN 0 ELSE leftover,
                   frag |-> Fragment(type, rec, length - left, size),
                   block_offset |-> after]>>
                  \o IF end THEN << >> ELSE emit[left - size, after, FALSE]
    IN  emit[length, block_offset, TRUE]

ChunkBytes(c) == [k \in 1..c.pad |-> Zero] \o FragmentBytes(c.frag)
RecordBytes(chunks) == FlattenSeq([c \in DOMAIN chunks |-> ChunkBytes(chunks[c])])

(* block_offset_ when the write of byte k + 1 fails.  EmitPhysicalRecord   *)
(* moves the cursor by the whole fragment even if none of it was written.  *)
OffsetAfterFailure(chunks, k, block_offset) ==
    LET start(c) == Len(RecordBytes(SubSeq(chunks, 1, c - 1)))
        failed == Max({c \in DOMAIN chunks : start(c) <= k})
    IN  IF k >= start(failed) + chunks[failed].pad THEN chunks[failed].block_offset
        ELSE IF failed = 1 THEN block_offset
        ELSE chunks[failed - 1].block_offset

-----------------------------------------------------------------------------
(* Reader.                                                                 *)

(* The header at p and the payload it announces are one whole fragment     *)
(* that ends within the block.                                             *)
Intact(file, p, end) ==
    LET f == file[p + 1].frag
    IN  /\ p + HeaderSize + f.len <= end
        /\ \A k \in 1..HeaderSize + f.len : file[p + k] = [frag |-> f, at |-> k]

(* What successive calls of ReadPhysicalRecord return until the end of the *)
(* file: a remainder too short for a header is skipped, a damaged record   *)
(* costs the rest of its block.                                            *)
ReadPhysicalRecords(file) ==
    LET read[p \in 0..Len(file)] ==
            LET block == p - (p % BlockSize)
                end == block + Len(Read(file, block, BlockSize))
                f == file[p + 1].frag
            IN  IF p = Len(file) THEN << >>
                ELSE IF end - p < HeaderSize THEN read[end]
                ELSE IF Intact(file, p, end) THEN <<f>> \o read[p + HeaderSize + f.len]
                ELSE <<BadRecord>> \o read[end]
    IN  read[0]

(* Mutant: fragments gathered before a damaged record are kept.            *)
KeepScratch(s) == s

DropScratch(s) == [s EXCEPT !.in = FALSE, !.scratch = << >>]
Finish(s, f) == [records |-> Append(s.records, Append(s.scratch, f)),
                 in |-> FALSE, scratch |-> << >>]

(* One turn of ReadRecord's loop: `scratch` holds the fragments of the     *)
(* record being assembled, `records` those already returned.               *)
ReadFragment(s, f) ==
    CASE f.type = "Full"   -> Finish(DropScratch(s), f)
      [] f.type = "First"  -> [s EXCEPT !.in = TRUE, !.scratch = <<f>>]
      [] f.type = "Middle" -> IF s.in THEN [s EXCEPT !.scratch = Append(@, f)] ELSE s
      [] f.type = "Last"   -> IF s.in THEN Finish(s, f) ELSE s
      [] f.type = "Bad"    -> DropScratch(s)

ReadRecords(file) ==
    FoldLeft(ReadFragment, [records |-> << >>, in |-> FALSE, scratch |-> << >>],
             ReadPhysicalRecords(file)).records

(* The fragments of a returned record are one record, from its first byte  *)
(* to its last.                                                            *)
Whole(r, length) ==
    /\ \A k \in DOMAIN r : r[k].rec = r[1].rec
    /\ r[1].from = 0
    /\ \A k \in 2..Len(r) : r[k].from = r[k - 1].from + r[k - 1].len
    /\ r[Len(r)].from + r[Len(r)].len = length
=============================================================================
