-------------------------------- MODULE Env --------------------------------
(***************************************************************************)
(* Files as the callers of src/src/env_posix.cc see them: the bytes that   *)
(* reached the kernel, in the order they were appended.                    *)
(***************************************************************************)
EXTENDS Integers, Sequences, FiniteSetsExt

(* Append returns OK: its loop has gone on through short and interrupted   *)
(* writes until nothing was left.                                          *)
Appended(file, data) == file \o data

(* Append returns an error: what the writes before the failing one took    *)
(* stays in the file.                                                      *)
AppendedPartly(file, data) == {file \o SubSeq(data, 1, k) : k \in 0..Len(data) - 1}

(* Read of n bytes at the current offset: fewer only at the end of file.   *)
Read(file, offset, n) == SubSeq(file, offset + 1, Min({offset + n, Len(file)}))

GetFileSize(file) == Len(file)

(* What a crash may leave of a file of which `synced` bytes were covered   *)
(* by a Sync that returned OK.                                             *)
Survivors(file, synced) == {SubSeq(file, 1, n) : n \in synced..Len(file)}
=============================================================================
