-------------------------- MODULE AppendLoopProofs --------------------------
(***************************************************************************)
(* For every log and every AppendEntries, of any length and any terms, the *)
(* append loop of HandleAppendEntries computes the closed forms of module  *)
(* RaftLog and keeps the stable watermark on an unchanged prefix.          *)
(***************************************************************************)
EXTENDS AppendLoop, RaftLogFacts

-----------------------------------------------------------------------------
(* The inductive invariant.  Before turn k the loop has either met nothing *)
(* but entries the log already agrees with, or it has met its first other  *)
(* one, c, and from there on the log is the message's.                     *)

Base == msg.prev_log_index

Agrees(j) == Base + j <= Len(log0) /\ log0[Base + j].term = msg.entries[j].term

Watermark(c) ==
    IF Base + c <= Len(log0) /\ stable0 >= Base + c THEN Base + c - 1 ELSE stable0

Untouched ==
    /\ \A j \in 1..(k - 1) : Agrees(j)
    /\ log = log0 /\ stable_index = stable0

Replaced(c) ==
    /\ ~Agrees(c)
    /\ \A j \in 1..(c - 1) : Agrees(j)
    /\ Len(log) = Base + k - 1
    /\ \A n \in 1..(Base + c - 1) : log[n] = log0[n]
    /\ \A n \in (Base + c)..(Base + k - 1) : log[n] = msg.entries[n - Base]
    /\ stable_index = Watermark(c)

CallInv ==
    /\ log0 \in Seq(Entries) /\ InPlace(log0, 0)
    /\ Base \in 0..Len(log0)
    /\ msg.entries \in Seq(Entries) /\ InPlace(msg.entries, Base)
    /\ stable0 \in 0..Len(log0)

LoopInv ==
    /\ CallInv
    /\ k \in 1..(Len(msg.entries) + 1)
    /\ log \in Seq(Entries)
    /\ Untouched \/ \E c \in 1..(k - 1) : Replaced(c)

-----------------------------------------------------------------------------
(* Whatever the call, the loop starts with nothing touched.                *)
LEMMA LoopInit == Init => LoopInv
  <1> SUFFICES ASSUME Init PROVE LoopInv
    OBVIOUS
  <1>1. ASSUME NEW s \in Logs PROVE s \in Seq(Entries) /\ Len(s) \in Nat
    <2>1. PICK n \in Nat : s \in [1..n -> Entries]
      BY <1>1, MaxLogAssumption DEF Logs
    <2>2. s \in Seq(Entries)
      BY <2>1, SeqDef
    <2> QED
      BY <2>2, LenProperties
  <1>2. log0 \in Logs /\ InPlace(log0, 0) /\ msg.entries \in Logs
    BY DEF Init
  <1>3. CallInv
    BY <1>1, <1>2 DEF Init, CallInv, Base, LastIndex
  <1>4. k = 1 /\ log = log0 /\ stable_index = stable0
    BY DEF Init
  <1>5. 1 \in 1..(Len(msg.entries) + 1)
    BY <1>1, <1>2
  <1>6. Untouched
    BY <1>4 DEF Untouched
  <1> QED
    BY <1>3, <1>4, <1>5, <1>6 DEF LoopInv, CallInv

(* An entry the loop has only met agreement before starts inside the log   *)
(* or right behind it: there is never a gap.                               *)
LEMMA NoGap ==
    ASSUME CallInv, NEW c \in 1..Len(msg.entries), \A j \in 1..(c - 1) : Agrees(j)
    PROVE  Base + c - 1 <= Len(log0)
  <1>1. Base \in Nat /\ Len(log0) \in Nat /\ Base <= Len(log0) /\ Len(msg.entries) \in Nat
    BY LenProperties DEF CallInv
  <1>2. CASE c = 1
    BY <1>1, <1>2
  <1>3. CASE c # 1
    <2>1. c - 1 \in 1..(c - 1)
      BY <1>1, <1>3
    <2>2. Base + (c - 1) <= Len(log0)
      BY <2>1 DEF Agrees
    <2> QED
      BY <1>1, <2>2
  <1> QED
    BY <1>2, <1>3

(* What Agrees says in the words of the code.                              *)
LEMMA AgreesIsTermAt ==
    ASSUME CallInv, NEW j \in 1..Len(msg.entries)
    PROVE  /\ msg.entries[j].index = Base + j
           /\ Agrees(j) <=> /\ Base + j <= LastIndex(log0)
                            /\ TermAt(log0, Base + j) = msg.entries[j].term
  <1>1. Base \in Nat /\ Len(log0) \in Nat /\ Len(msg.entries) \in Nat
    BY LenProperties DEF CallInv
  <1>2. msg.entries[j].index = Base + j
    BY DEF CallInv, InPlace
  <1>3. Base + j <= Len(log0) => Base + j \in 1..Len(log0)
    BY <1>1
  <1> QED
    BY <1>2, <1>3 DEF Agrees, TermAt, LastIndex
-----------------------------------------------------------------------------
(* The step that meets the first entry the log does not agree with.        *)
LEMMA FirstReplaced ==
    ASSUME LoopInv, Untouched, Next, NEW c \in Nat, c = k, ~Agrees(c)
    PROVE  log' \in Seq(Entries) /\ Replaced(c)'
  <1>1. /\ CallInv /\ c \in 1..Len(msg.entries) /\ k' = c + 1
        /\ log0' = log0 /\ stable0' = stable0 /\ msg' = msg
        /\ log = log0 /\ stable_index = stable0
        /\ \A j \in 1..(c - 1) : Agrees(j)
    BY LenProperties DEF LoopInv, CallInv, Next, Untouched
  <1>2. /\ Base \in Nat /\ Len(log0) \in Nat /\ Len(msg.entries) \in Nat /\ stable0 \in Nat
        /\ Base <= Len(log0) /\ stable0 <= Len(log0) /\ log0 \in Seq(Entries)
        /\ Base' = Base
    BY <1>1, LenProperties DEF CallInv, Base
  <1>3. e.index = Base + c /\ e \in Entries
    BY <1>1, <1>2, AgreesIsTermAt, ElementOfSeq DEF e, CallInv
  <1>4. Base + c - 1 <= Len(log0)
    BY <1>1, NoGap
  <1>5. ~Continue
    BY <1>1, <1>3, AgreesIsTermAt DEF Continue, e
  <1> DEFINE kept == SubSeq(log0, 1, Base + c - 1)
  <1>6. /\ kept \in Seq(Entries) /\ Len(kept) = Base + c - 1
        /\ \A n \in 1..(Base + c - 1) : kept[n] = log0[n]
    <2>1. \A n \in 1..(Base + c - 1) : log0[n] \in Entries
      BY <1>1, <1>2, <1>4, ElementOfSeq
    <2>2. 1 \in Int /\ Base + c - 1 \in Int
      BY <1>1, <1>2
    <2>3. /\ kept \in Seq(Entries)
          /\ Len(kept) = IF 1 <= Base + c - 1 THEN (Base + c - 1) - 1 + 1 ELSE 0
          /\ \A n \in 1..((Base + c - 1) - 1 + 1) : kept[n] = log0[1 + n - 1]
      BY <2>1, <2>2, SubSeqProperties
    <2> HIDE DEF kept
    <2> QED
      BY <1>1, <1>2, <2>3
  <1>7. log' = Append(kept, e) /\ stable_index' = Watermark(c)
    <2>1. CASE Overwrite
      <3>1. e.index - 1 = Base + c - 1 /\ Base + c <= Len(log0)
        BY <1>1, <1>2, <1>3, <2>1 DEF Overwrite, LastIndex
      <3> QED
        BY <1>1, <1>2, <1>3, <2>1, <3>1 DEF Overwrite, Watermark
    <2>2. CASE PushBack
      <3>1. Base + c > Len(log0)
        BY <1>1, <1>3, <2>2 DEF PushBack, LastIndex
      <3>2. Base + c - 1 = Len(log0)
        BY <1>1, <1>2, <1>4, <3>1
      <3>3. kept = log0
        <4> HIDE DEF kept
        <4> QED
          BY <1>2, <1>6, <3>2, SeqEqual
      <3>4. Watermark(c) = stable0
        BY <1>1, <1>2, <3>1 DEF Watermark
      <3> QED
        BY <1>1, <2>2, <3>3, <3>4, Zenon DEF PushBack
    <2> QED
      BY <1>5, <2>1, <2>2, Zenon DEF Next
  <1> HIDE DEF kept
  <1>8. /\ log' \in Seq(Entries) /\ Len(log') = Base + c
        /\ \A n \in 1..(Base + c - 1) : log'[n] = log0[n]
        /\ log'[Base + c] = e
    <2>1. /\ log' \in Seq(Entries) /\ Len(log') = Len(kept) + 1
          /\ \A n \in 1..Len(kept) : log'[n] = kept[n]
          /\ log'[Len(kept) + 1] = e
      BY <1>3, <1>6, <1>7, AppendProperties
    <2>2. Len(kept) + 1 = Base + c
      BY <1>1, <1>2, <1>6
    <2> QED
      BY <1>6, <2>1, <2>2
  <1>9. /\ (~Agrees(c))' /\ (\A j \in 1..(c - 1) : Agrees(j))'
        /\ Watermark(c)' = Watermark(c)
    BY <1>1, <1>2 DEF Agrees, Watermark
  <1>10. \A n \in (Base + c)..(Base + k' - 1) : log'[n] = msg.entries[n - Base]
    <2> SUFFICES ASSUME NEW n \in (Base + c)..(Base + k' - 1)
                 PROVE  log'[n] = msg.entries[n - Base]
      OBVIOUS
    <2>1. n = Base + c /\ n - Base = c
      BY <1>1, <1>2
    <2> QED
      BY <1>8, <2>1 DEF e
  <1>11. Len(log') = Base + k' - 1
    BY <1>1, <1>2, <1>8
  <1> QED
    BY <1>1, <1>2, <1>7, <1>8, <1>9, <1>10, <1>11 DEF Replaced

(* A step that meets an entry the log agrees with changes nothing.         *)
LEMMA StillUntouched ==
    ASSUME LoopInv, Untouched, Next, NEW c \in Nat, c = k, Agrees(c)
    PROVE  log' \in Seq(Entries) /\ Untouched'
  <1>1. /\ CallInv /\ c \in 1..Len(msg.entries) /\ k' = c + 1 /\ log \in Seq(Entries)
        /\ log0' = log0 /\ stable0' = stable0 /\ msg' = msg
        /\ log = log0 /\ stable_index = stable0
        /\ \A j \in 1..(c - 1) : Agrees(j)
    BY LenProperties DEF LoopInv, CallInv, Next, Untouched
  <1>2. e.index = Base + c /\ Base + c <= LastIndex(log) /\ TermAt(log, e.index) = e.term
    BY <1>1, AgreesIsTermAt DEF e
  <1>3. Base + c \in Nat /\ LastIndex(log) \in Nat
    BY <1>1, LenProperties DEF CallInv, LastIndex
  <1>4. ~Overwrite /\ ~PushBack
    BY <1>2, <1>3 DEF Overwrite, PushBack
  <1>5. log' = log /\ stable_index' = stable_index
    BY <1>4 DEF Next, Continue
  <1>6. \A j \in 1..(k' - 1) : Agrees(j)
    BY <1>1
  <1>7. (\A j \in 1..(k - 1) : Agrees(j))'
    BY <1>1, <1>6 DEF Agrees, Base
  <1> QED
    BY <1>1, <1>5, <1>7 DEF Untouched

(* Behind the first entry that was replaced every other one is appended.   *)
LEMMA MoreReplaced ==
    ASSUME LoopInv, Next, NEW c \in 1..(k - 1), Replaced(c)
    PROVE  log' \in Seq(Entries) /\ Replaced(c)'
  <1>1. /\ CallInv /\ k \in 1..Len(msg.entries) /\ k' = k + 1 /\ log \in Seq(Entries)
        /\ log0' = log0 /\ stable0' = stable0 /\ msg' = msg
    BY LenProperties DEF LoopInv, CallInv, Next
  <1>2. /\ Base \in Nat /\ Len(log) \in Nat /\ Len(log0) \in Nat /\ stable0 \in Nat
        /\ Base' = Base /\ k \in Nat /\ c \in Nat /\ c < k
    BY <1>1, LenProperties DEF CallInv, Base
  <1>3. e.index = Base + k /\ e \in Entries /\ e = msg.entries[k]
    BY <1>1, AgreesIsTermAt, ElementOfSeq DEF e, CallInv
  <1>4. Len(log) = Base + k - 1
    BY DEF Replaced
  <1>5. log' = Append(log, e) /\ stable_index' = stable_index
    <2>1. e.index > LastIndex(log)
      BY <1>2, <1>3, <1>4 DEF LastIndex
    <2>2. ~(e.index <= LastIndex(log))
      BY <1>2, <1>3, <2>1 DEF LastIndex
    <2>3. PushBack
      BY <2>2 DEF Next, Continue, Overwrite
    <2> QED
      BY <2>3 DEF PushBack
  <1>6. /\ log' \in Seq(Entries) /\ Len(log') = Len(log) + 1
        /\ \A n \in 1..Len(log) : log'[n] = log[n]
        /\ log'[Len(log) + 1] = e
    BY <1>1, <1>3, <1>5, AppendProperties
  <1>7. Len(log') = Base + k' - 1
    BY <1>1, <1>2, <1>4, <1>6
  <1>8. \A n \in 1..(Base + c - 1) : log'[n] = log0[n]
    <2> SUFFICES ASSUME NEW n \in 1..(Base + c - 1) PROVE log'[n] = log0[n]
      OBVIOUS
    <2>1. n \in 1..Len(log)
      BY <1>2, <1>4
    <2> QED
      BY <1>6, <2>1 DEF Replaced
  <1>9. \A n \in (Base + c)..(Base + k' - 1) : log'[n] = msg.entries[n - Base]
    <2> SUFFICES ASSUME NEW n \in (Base + c)..(Base + k' - 1)
                 PROVE  log'[n] = msg.entries[n - Base]
      OBVIOUS
    <2>1. CASE n = Base + k
      <3>1. n = Len(log) + 1 /\ n - Base = k
        BY <1>2, <1>4, <2>1
      <3> QED
        BY <1>3, <1>6, <3>1
    <2>2. CASE n # Base + k
      <3>1. n \in 1..Len(log) /\ n \in (Base + c)..(Base + k - 1)
        BY <1>1, <1>2, <1>4, <2>2
      <3> QED
        BY <1>6, <3>1 DEF Replaced
    <2> QED
      BY <2>1, <2>2
  <1>10. /\ (~Agrees(c))' /\ (\A j \in 1..(c - 1) : Agrees(j))'
         /\ stable_index' = Watermark(c)'
    BY <1>1, <1>2, <1>5, Zenon DEF Agrees, Watermark, Replaced
  <1> QED
    BY <1>1, <1>2, <1>6, <1>7, <1>8, <1>9, <1>10 DEF Replaced

(* Every turn of the loop keeps the invariant.                             *)
LEMMA LoopStep == LoopInv /\ [Next]_vars => LoopInv'
  <1> SUFFICES ASSUME LoopInv, [Next]_vars PROVE LoopInv'
    OBVIOUS
  <1>1. CASE Next
    <2>1. k \in 1..Len(msg.entries) /\ k' = k + 1 /\ Len(msg.entries) \in Nat
      BY <1>1, LenProperties DEF LoopInv, CallInv, Next
    <2>2. CallInv' /\ (k \in 1..(Len(msg.entries) + 1))'
      BY <1>1, <2>1 DEF LoopInv, CallInv, Next, Base
    <2>3. CASE Untouched
      <3>1. PICK c \in Nat : c = k
        BY <2>1
      <3>2. c \in 1..(k' - 1)
        BY <2>1, <3>1
      <3>3. CASE Agrees(c)
        BY <1>1, <2>2, <2>3, <3>1, <3>3, StillUntouched, Zenon DEF LoopInv
      <3>4. CASE ~Agrees(c)
        <4>1. log' \in Seq(Entries) /\ Replaced(c)'
          BY <1>1, <2>3, <3>1, <3>4, FirstReplaced
        <4> QED
          BY <2>2, <3>2, <4>1, Zenon DEF LoopInv
      <3> QED
        BY <3>3, <3>4
    <2>4. ASSUME NEW c \in 1..(k - 1), Replaced(c) PROVE LoopInv'
      <3>1. log' \in Seq(Entries) /\ Replaced(c)'
        BY <1>1, <2>4, MoreReplaced
      <3>2. c \in 1..(k' - 1)
        BY <2>1
      <3> QED
        BY <2>2, <3>1, <3>2, Zenon DEF LoopInv
    <2> QED
      BY <2>3, <2>4 DEF LoopInv
  <1>2. CASE UNCHANGED vars
    BY <1>2 DEF vars, LoopInv, CallInv, Untouched, Replaced, Agrees, Watermark, Base
  <1> QED
    BY <1>1, <1>2

-----------------------------------------------------------------------------
(* The sets that the closed forms take the least element of.               *)

New == {j \in 1..Len(msg.entries) : ~Agrees(j)}
Dropped == {j \in 1..Len(msg.entries) : Base + j <= Len(log0) /\ ~Agrees(j)}

(* MergeEntries and StableIndex in terms of Agrees.                        *)
LEMMA ClosedForms ==
    ASSUME CallInv
    PROVE  /\ MergeEntries(msg, log0) =
                IF New = {} THEN log0
                ELSE SubSeq(log0, 1, msg.entries[Min(New)].index - 1)
                         \o SubSeq(msg.entries, Min(New), Len(msg.entries))
           /\ StableIndex(msg, log0, stable0) =
                IF Dropped = {} THEN stable0
                ELSE Min({stable0, msg.entries[Min(Dropped)].index - 1})
  <1> DEFINE N == {j \in 1..Len(msg.entries) :
                      LET n == msg.entries[j].index
                      IN  n > LastIndex(log0) \/ TermAt(log0, n) # msg.entries[j].term}
             D == {j \in 1..Len(msg.entries) :
                      LET n == msg.entries[j].index
                      IN  n <= LastIndex(log0) /\ TermAt(log0, n) # msg.entries[j].term}
  <1>1. ASSUME NEW j \in 1..Len(msg.entries)
        PROVE  (j \in N <=> j \in New) /\ (j \in D <=> j \in Dropped)
    <2>1. /\ msg.entries[j].index = Base + j
          /\ Agrees(j) <=> /\ Base + j <= LastIndex(log0)
                           /\ TermAt(log0, Base + j) = msg.entries[j].term
      BY AgreesIsTermAt
    <2>2. Base + j \in Nat /\ Len(log0) \in Nat
      BY LenProperties DEF CallInv
    <2>3. Base + j > LastIndex(log0) <=> ~(Base + j <= LastIndex(log0))
      BY <2>2 DEF LastIndex
    <2>4. LastIndex(log0) = Len(log0)
      BY DEF LastIndex
    <2> HIDE DEF LastIndex, TermAt, Agrees
    <2> QED
      BY <2>1, <2>3, <2>4 DEF New, Dropped
  <1>2. N = New /\ D = Dropped
    <2>1. /\ N \subseteq 1..Len(msg.entries) /\ D \subseteq 1..Len(msg.entries)
          /\ New \subseteq 1..Len(msg.entries) /\ Dropped \subseteq 1..Len(msg.entries)
      BY DEF New, Dropped
    <2> HIDE DEF N, D
    <2> QED
      BY <1>1, <2>1, Zenon
  <1>3. MergeEntries(msg, log0) =
           IF N = {} THEN log0
           ELSE SubSeq(log0, 1, msg.entries[Min(N)].index - 1)
                    \o SubSeq(msg.entries, Min(N), Len(msg.entries))
    BY DEF MergeEntries
  <1>4. StableIndex(msg, log0, stable0) =
           IF D = {} THEN stable0 ELSE Min({stable0, msg.entries[Min(D)].index - 1})
    BY DEF StableIndex
  <1> HIDE DEF N, D
  <1> QED
    BY <1>2, <1>3, <1>4

(* The watermark never passes the first replaced entry.                    *)
LEMMA WatermarkBelow ==
    ASSUME LoopInv, NEW c \in 1..(k - 1), Replaced(c)
    PROVE  /\ Watermark(c) \in Nat /\ Watermark(c) <= stable0
           /\ Watermark(c) <= Base + c - 1
           /\ c \in 1..Len(msg.entries) /\ Base + c - 1 <= Len(log0)
           /\ Base \in Nat /\ Len(log0) \in Nat /\ Len(msg.entries) \in Nat /\ k \in Nat
           /\ stable0 \in 0..Len(log0)
  <1>1. /\ Base \in Nat /\ Len(log0) \in Nat /\ Len(msg.entries) \in Nat /\ k \in Nat
        /\ stable0 \in 0..Len(log0) /\ c \in 1..Len(msg.entries) /\ CallInv
    BY LenProperties DEF LoopInv, CallInv
  <1>2. Base + c - 1 <= Len(log0)
    BY <1>1, NoGap DEF Replaced
  <1> QED
    BY <1>1, <1>2 DEF Watermark

-----------------------------------------------------------------------------
(* A loop that has replaced a suffix ends with the closed forms.           *)
LEMMA ReplacedIsMerge ==
    ASSUME LoopInv, Done, NEW c \in 1..(k - 1), Replaced(c)
    PROVE  /\ log = MergeEntries(msg, log0)
           /\ stable_index = StableIndex(msg, log0, stable0)
  <1>1. /\ CallInv /\ c \in 1..Len(msg.entries) /\ Base + c - 1 <= Len(log0)
        /\ Base \in Nat /\ Len(log0) \in Nat /\ Len(msg.entries) \in Nat
        /\ stable0 \in 0..Len(log0) /\ k = Len(msg.entries) + 1
    BY WatermarkBelow DEF LoopInv, Done
  <1>2. \A j \in 1..Len(msg.entries) : msg.entries[j].index = Base + j
    BY <1>1, AgreesIsTermAt
  <1>3. New # {} /\ Min(New) = c
    <2>1. New \subseteq Nat /\ c \in New
      BY <1>1 DEF New, Replaced
    <2>2. Min(New) \in New /\ Min(New) <= c
      BY <2>1, MinProperties, Zenon
    <2>3. ~(Min(New) \in 1..(c - 1))
      BY <2>2 DEF New, Replaced
    <2>4. Min(New) \in Nat /\ Min(New) >= 1
      BY <1>1, <2>2 DEF New
    <2> QED
      BY <1>1, <2>1, <2>2, <2>3, <2>4
  <1>4. msg.entries[c].index - 1 = Base + c - 1
    BY <1>1, <1>2
  <1>5. log = MergeEntries(msg, log0)
    <2> DEFINE kept == SubSeq(log0, 1, Base + c - 1)
               rest == SubSeq(msg.entries, c, Len(msg.entries))
    <2>1. MergeEntries(msg, log0) = kept \o rest
      <3>1. MergeEntries(msg, log0) = SubSeq(log0, 1, msg.entries[c].index - 1)
                                         \o SubSeq(msg.entries, c, Len(msg.entries))
        BY <1>1, <1>3, ClosedForms, Zenon
      <3> QED
        BY <1>4, <3>1, Zenon
    <2>2. /\ kept \in Seq(Entries) /\ Len(kept) = Base + c - 1
          /\ \A n \in 1..(Base + c - 1) : kept[n] = log0[n]
      <3>1. \A n \in 1..(Base + c - 1) : log0[n] \in Entries
        BY <1>1, ElementOfSeq DEF CallInv
      <3>2. /\ kept \in Seq(Entries)
            /\ Len(kept) = IF 1 <= Base + c - 1 THEN (Base + c - 1) - 1 + 1 ELSE 0
            /\ \A n \in 1..((Base + c - 1) - 1 + 1) : kept[n] = log0[1 + n - 1]
        BY <1>1, <3>1, SubSeqProperties
      <3> HIDE DEF kept
      <3> QED
        BY <1>1, <3>2
    <2>3. /\ rest \in Seq(Entries) /\ Len(rest) = Len(msg.entries) - c + 1
          /\ \A n \in 1..(Len(msg.entries) - c + 1) : rest[n] = msg.entries[c + n - 1]
      <3>1. \A n \in c..Len(msg.entries) : msg.entries[n] \in Entries
        BY <1>1, ElementOfSeq DEF CallInv
      <3>2. /\ rest \in Seq(Entries)
            /\ Len(rest) = IF c <= Len(msg.entries) THEN Len(msg.entries) - c + 1 ELSE 0
            /\ \A n \in 1..(Len(msg.entries) - c + 1) : rest[n] = msg.entries[c + n - 1]
        BY <1>1, <3>1, SubSeqProperties
      <3> HIDE DEF rest
      <3> QED
        BY <1>1, <3>2
    <2> HIDE DEF kept, rest
    <2>4. /\ kept \o rest \in Seq(Entries)
          /\ Len(kept \o rest) = Len(kept) + Len(rest)
          /\ \A n \in 1..(Len(kept) + Len(rest)) :
                (kept \o rest)[n] = IF n <= Len(kept) THEN kept[n] ELSE rest[n - Len(kept)]
      BY <2>2, <2>3, ConcatProperties, Zenon
    <2>5. log \in Seq(Entries) /\ Len(log) = Base + Len(msg.entries)
      BY <1>1 DEF LoopInv, Replaced
    <2>6. Len(kept \o rest) = Len(log)
      BY <1>1, <2>2, <2>3, <2>4, <2>5
    <2>7. \A n \in 1..Len(log) : log[n] = (kept \o rest)[n]
      <3> SUFFICES ASSUME NEW n \in 1..Len(log) PROVE log[n] = (kept \o rest)[n]
        BY Zenon
      <3>0. n \in 1..(Len(kept) + Len(rest)) /\ n \in Nat
        BY <1>1, <2>4, <2>5, <2>6
      <3>1. CASE n <= Base + c - 1
        <4>1. n \in 1..(Base + c - 1)
          BY <1>1, <3>0, <3>1
        <4> QED
          BY <2>2, <2>4, <3>0, <3>1, <4>1 DEF Replaced
      <3>2. CASE ~(n <= Base + c - 1)
        <4>1. n \in (Base + c)..(Base + k - 1)
          BY <1>1, <2>5, <3>0, <3>2
        <4>2. log[n] = msg.entries[n - Base]
          BY <4>1 DEF Replaced
        <4>3. /\ n - (Base + c - 1) \in 1..(Len(msg.entries) - c + 1)
              /\ c + (n - (Base + c - 1)) - 1 = n - Base
          BY <1>1, <4>1
        <4>4. rest[n - (Base + c - 1)] = msg.entries[n - Base]
          BY <2>3, <4>3, Zenon
        <4> QED
          BY <2>2, <2>4, <3>0, <3>2, <4>2, <4>4
      <3> QED
        BY <3>1, <3>2, Zenon
    <2> QED
      BY <2>1, <2>4, <2>5, <2>6, <2>7, SeqEqual, ZenonT(60)
  <1>6. stable_index = StableIndex(msg, log0, stable0)
    <2>1. stable_index = Watermark(c)
      BY DEF Replaced
    <2>2. CASE Base + c <= Len(log0)
      <3>1. Dropped \subseteq Nat /\ c \in Dropped
        BY <1>1, <2>2 DEF Dropped, Replaced
      <3>2. Min(Dropped) \in Dropped /\ Min(Dropped) <= c
        BY <3>1, MinProperties, Zenon
      <3>3. ~(Min(Dropped) \in 1..(c - 1))
        BY <3>2 DEF Dropped, Replaced
      <3>4. Min(Dropped) \in Nat /\ Min(Dropped) >= 1
        BY <1>1, <3>2 DEF Dropped
      <3>5. Min(Dropped) = c
        BY <1>1, <3>2, <3>3, <3>4
      <3>6. StableIndex(msg, log0, stable0) = Min({stable0, Base + c - 1})
        <4>1. StableIndex(msg, log0, stable0) = Min({stable0, msg.entries[c].index - 1})
          BY <1>1, <3>1, <3>5, ClosedForms
        <4> QED
          BY <1>4, <4>1
      <3>7. /\ Min({stable0, Base + c - 1}) \in {stable0, Base + c - 1}
            /\ \A n \in {stable0, Base + c - 1} : Min({stable0, Base + c - 1}) <= n
        <4>1. {stable0, Base + c - 1} \subseteq Nat /\ {stable0, Base + c - 1} # {}
          BY <1>1
        <4> QED
          BY <4>1, MinProperties
      <3> DEFINE low == Min({stable0, Base + c - 1})
      <3>8. /\ low = stable0 \/ low = Base + c - 1
            /\ low <= stable0 /\ low <= Base + c - 1
        BY <3>7
      <3> HIDE DEF low
      <3>9. low = Watermark(c)
        BY <1>1, <2>2, <3>8 DEF Watermark
      <3> QED
        BY <2>1, <3>6, <3>9 DEF low
    <2>3. CASE ~(Base + c <= Len(log0))
      <3>1. \A j \in 1..Len(msg.entries) : j \in 1..(c - 1) \/ ~(Base + j <= Len(log0))
        BY <1>1, <2>3
      <3>2. Dropped = {}
        BY <3>1 DEF Dropped, Replaced
      <3>3. Watermark(c) = stable0
        BY <2>3 DEF Watermark
      <3> QED
        BY <1>1, <2>1, <3>2, <3>3, ClosedForms
    <2> QED
      BY <2>2, <2>3
  <1> QED
    BY <1>5, <1>6

(* The invariant gives the closed forms at the end of the loop.            *)
LEMMA LoopInvIsMerge == LoopInv => LoopIsMerge
  <1> SUFFICES ASSUME LoopInv, Done
               PROVE  /\ log = MergeEntries(msg, log0)
                      /\ stable_index = StableIndex(msg, log0, stable0)
    BY DEF LoopIsMerge
  <1>1. CASE Untouched
    <2>1. CallInv /\ k = Len(msg.entries) + 1 /\ Len(msg.entries) \in Nat
      <3>1. CallInv /\ Len(msg.entries) \in Nat
        BY LenProperties DEF LoopInv, CallInv
      <3> QED
        BY <3>1 DEF LoopInv, Done
    <2>2. \A j \in 1..Len(msg.entries) : Agrees(j)
      BY <1>1, <2>1 DEF Untouched
    <2>3. New = {} /\ Dropped = {}
      BY <2>2 DEF New, Dropped
    <2> QED
      BY <1>1, <2>1, <2>3, ClosedForms DEF Untouched
  <1>2. ASSUME NEW c \in 1..(k - 1), Replaced(c)
        PROVE  /\ log = MergeEntries(msg, log0)
               /\ stable_index = StableIndex(msg, log0, stable0)
    BY <1>2, ReplacedIsMerge
  <1> QED
    BY <1>1, <1>2 DEF LoopInv

(* The invariant keeps the watermark on an unchanged prefix.               *)
LEMMA LoopInvIsPrefix == LoopInv => StableIsPrefix
  <1> SUFFICES ASSUME LoopInv PROVE StableIsPrefix
    OBVIOUS
  <1>1. CASE Untouched
    BY <1>1, LenProperties DEF LoopInv, CallInv, Untouched, StableIsPrefix, LastIndex
  <1>2. ASSUME NEW c \in 1..(k - 1), Replaced(c)
        PROVE  StableIsPrefix
    <2>1. /\ stable_index = Watermark(c) /\ Len(log) = Base + k - 1
          /\ stable_index \in Nat /\ stable_index <= stable0 /\ stable_index <= Base + c - 1
          /\ c \in 1..Len(msg.entries) /\ Base + c - 1 <= Len(log0)
          /\ Base \in Nat /\ Len(log0) \in Nat /\ Len(msg.entries) \in Nat /\ k \in Nat
          /\ stable0 \in 0..Len(log0)
      BY <1>2, WatermarkBelow DEF Replaced
    <2>2. stable_index <= Len(log)
      BY <2>1
    <2>3. \A n \in 1..stable_index : log[n] = log0[n]
      BY <1>2, <2>1 DEF Replaced
    <2>4. SubSeq(log, 1, stable_index) = SubSeq(log0, 1, stable_index)
      BY <2>1, <2>3
    <2>5. ASSUME stable_index < stable0
          PROVE  log[stable_index + 1] # log0[stable_index + 1]
      <3>1. Base + c <= Len(log0) /\ stable_index + 1 = Base + c
        BY <2>1, <2>5 DEF Watermark
      <3>2. log[Base + c] = msg.entries[c]
        <4>1. Base + c \in (Base + c)..(Base + k - 1) /\ (Base + c) - Base = c
          BY <2>1
        <4> QED
          BY <1>2, <4>1 DEF Replaced
      <3>3. log0[Base + c].term # msg.entries[c].term
        BY <1>2, <3>1 DEF Replaced, Agrees
      <3> QED
        BY <3>1, <3>2, <3>3
    <2> QED
      BY <2>1, <2>2, <2>4, <2>5, Zenon DEF StableIsPrefix, LastIndex
  <1> QED
    BY <1>1, <1>2 DEF LoopInv

(* For every log, every AppendEntries that starts inside it and every      *)
(* choice of terms, the append loop of HandleAppendEntries ends with the   *)
(* log MergeEntries and the watermark StableIndex.                         *)
THEOREM LoopComputesMerge == Spec => []LoopIsMerge
  BY LoopInit, LoopStep, LoopInvIsMerge, PTL DEF Spec

(* At every turn of that loop the entries up to stable_index_ are the ones *)
(* that were stored when the call began, and after it the watermark has    *)
(* been lowered no further than to the first entry that changed.           *)
THEOREM StoredPrefixIsKept == Spec => []StableIsPrefix
  BY LoopInit, LoopStep, LoopInvIsPrefix, PTL DEF Spec

(* The invariant puts the message's entries in the log.                    *)
LEMMA LoopInvHolds == LoopInv => HoldsEntries
  <1> SUFFICES ASSUME LoopInv, Done
               PROVE  /\ InPlace(log, 0)
                      /\ \A j \in 1..Len(msg.entries) :
                            TermAt(log, msg.entries[j].index) = msg.entries[j].term
    BY DEF HoldsEntries
  <1>1. /\ CallInv /\ k = Len(msg.entries) + 1 /\ Len(msg.entries) \in Nat
        /\ Base \in Nat /\ Len(log0) \in Nat
        /\ \A j \in 1..Len(msg.entries) : msg.entries[j].index = Base + j
        /\ \A n \in 1..Len(log0) : log0[n].index = n
    BY LenProperties, AgreesIsTermAt DEF LoopInv, CallInv, Done, InPlace
  <1>2. CASE Untouched
    <2>1. log = log0 /\ InPlace(log, 0)
      BY <1>1, <1>2 DEF Untouched, CallInv
    <2>2. \A j \in 1..Len(msg.entries) : Agrees(j)
      BY <1>1, <1>2 DEF Untouched
    <2> QED
      BY <1>1, <2>1, <2>2, AgreesIsTermAt
  <1>3. ASSUME NEW c \in 1..(k - 1), Replaced(c)
        PROVE  /\ InPlace(log, 0)
               /\ \A j \in 1..Len(msg.entries) :
                     TermAt(log, msg.entries[j].index) = msg.entries[j].term
    <2>1. /\ c \in 1..Len(msg.entries) /\ Base + c - 1 <= Len(log0)
          /\ Len(log) = Base + Len(msg.entries)
          /\ \A n \in 1..(Base + c - 1) : log[n] = log0[n]
          /\ \A n \in (Base + c)..(Base + Len(msg.entries)) : log[n] = msg.entries[n - Base]
      <3>1. /\ Len(log) = Base + k - 1
            /\ \A n \in 1..(Base + c - 1) : log[n] = log0[n]
            /\ \A n \in (Base + c)..(Base + k - 1) : log[n] = msg.entries[n - Base]
        BY <1>3, Zenon DEF Replaced
      <3>2. Base + k - 1 = Base + Len(msg.entries)
        BY <1>1
      <3>3. c \in 1..Len(msg.entries) /\ Base + c - 1 <= Len(log0)
        BY <1>3, WatermarkBelow, Zenon
      <3> QED
        BY <3>1, <3>2, <3>3, Zenon
    <2>2. ASSUME NEW n \in 1..Len(log) PROVE log[n].index = n
      <3>1. CASE n \in 1..(Base + c - 1)
        <4>1. n \in 1..Len(log0)
          BY <1>1, <2>1, <3>1
        <4> QED
          BY <1>1, <2>1, <3>1, <4>1
      <3>2. CASE n \in (Base + c)..(Base + Len(msg.entries))
        <4>1. n - Base \in 1..Len(msg.entries) /\ Base + (n - Base) = n
          BY <1>1, <2>1, <3>2
        <4>2. log[n] = msg.entries[n - Base]
          BY <2>1, <3>2
        <4> QED
          BY <1>1, <4>1, <4>2, Zenon
      <3> QED
        <4>1. n \in 1..(Base + c - 1) \/ n \in (Base + c)..(Base + Len(msg.entries))
          BY <1>1, <2>1
        <4> QED
          BY <3>1, <3>2, <4>1
    <2>3. InPlace(log, 0)
      BY <1>1, <2>1, <2>2 DEF InPlace
    <2>4. ASSUME NEW j \in 1..Len(msg.entries)
          PROVE  TermAt(log, msg.entries[j].index) = msg.entries[j].term
      <3>1. msg.entries[j].index = Base + j /\ Base + j \in 1..Len(log)
        <4>1. msg.entries[j].index = Base + j
          BY <1>1, Zenon
        <4>2. /\ Base \in Nat /\ Len(msg.entries) \in Nat
              /\ Len(log) = Base + Len(msg.entries)
          BY <1>1, <2>1, Zenon
        <4> QED
          BY <4>1, <4>2
      <3>2. TermAt(log, Base + j) = log[Base + j].term
        BY <3>1 DEF TermAt, LastIndex
      <3>3. CASE j \in 1..(c - 1)
        <4>1. log[Base + j] = log0[Base + j] /\ log0[Base + j].term = msg.entries[j].term
          BY <1>1, <1>3, <2>1, <3>3 DEF Replaced, Agrees
        <4> QED
          BY <3>1, <3>2, <4>1
      <3>4. CASE j \in c..Len(msg.entries)
        <4>1. /\ Base + j \in (Base + c)..(Base + Len(msg.entries))
              /\ (Base + j) - Base = j
          BY <1>1, <2>1, <3>4
        <4>2. log[Base + j] = msg.entries[j]
          BY <2>1, <4>1
        <4> QED
          BY <3>1, <3>2, <4>2
      <3> QED
        BY <2>1, <3>3, <3>4
    <2> QED
      BY <2>3, <2>4
  <1> QED
    BY <1>2, <1>3 DEF LoopInv

(* After that loop every entry of the log sits at its own index and the    *)
(* message's entries are in it, term by term, whatever the log held.       *)
THEOREM LoopHoldsEntries == Spec => []HoldsEntries
  BY LoopInit, LoopStep, LoopInvHolds, PTL DEF Spec
=============================================================================
