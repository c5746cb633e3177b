------------------------- MODULE RaftStorageProofs -------------------------
(***************************************************************************)
(* What Save writes is what a restart finds, for every bound: the proofs   *)
(* about module RaftStorage.                                               *)
(***************************************************************************)
EXTENDS RaftStorage, RaftLogFacts

-----------------------------------------------------------------------------
(* Replay, record by record.                                               *)

Blank == [term |-> 0, vote |-> None, entries |-> << >>, lost |-> FALSE]

(* st lists the states of the replay of the first n records of f.          *)
Replays(f, n, st) ==
    st = [k \in 0..n |-> IF k = 0 THEN Blank ELSE ReplayRecord(st[k - 1], f[k])]

(* The states of a replay are determined by the records up to each.        *)
LEMMA ReplaysAgree ==
    ASSUME NEW f, NEW g, NEW n \in Nat, NEW m \in Nat, NEW st, NEW tt, n <= m,
           \A k \in 1..n : f[k] = g[k],
           Replays(f, n, st), Replays(g, m, tt)
    PROVE  st[n] = tt[n]
  <1> DEFINE differ == {k \in 0..n : st[k] # tt[k]}
  <1>1. ASSUME NEW k \in 0..n
        PROVE  /\ st[k] = IF k = 0 THEN Blank ELSE ReplayRecord(st[k - 1], f[k])
               /\ tt[k] = IF k = 0 THEN Blank ELSE ReplayRecord(tt[k - 1], g[k])
    <2>1. k \in 0..m
      OBVIOUS
    <2>2. st[k] = IF k = 0 THEN Blank ELSE ReplayRecord(st[k - 1], f[k])
      BY Zenon DEF Replays
    <2>3. tt[k] = IF k = 0 THEN Blank ELSE ReplayRecord(tt[k - 1], g[k])
      BY <2>1, Zenon DEF Replays
    <2> QED
      BY <2>2, <2>3
  <1>2. differ = {}
    <2> SUFFICES ASSUME differ # {} PROVE FALSE
      OBVIOUS
    <2>1. PICK k \in differ : \A l \in differ : k <= l
      <3>1. differ \subseteq Nat
        OBVIOUS
      <3> QED
        BY <3>1, MinProperties, Zenon
    <2>2. k \in 0..n /\ st[k] # tt[k]
      OBVIOUS
    <2>3. CASE k = 0
      BY <1>1, <2>2, <2>3
    <2>4. CASE k # 0
      <3>1. k - 1 \in 0..n /\ ~(k <= k - 1) /\ k \in 1..n
        BY <2>2, <2>4
      <3>2. st[k - 1] = tt[k - 1]
        BY <2>1, <3>1
      <3>3. f[k] = g[k]
        BY <3>1
      <3>4. /\ st[k] = ReplayRecord(st[k - 1], f[k])
            /\ tt[k] = ReplayRecord(tt[k - 1], g[k])
        BY <1>1, <2>2, <2>4, Zenon
      <3> QED
        BY <2>2, <3>2, <3>3, <3>4, Zenon
    <2> QED
      BY <2>3, <2>4
  <1>3. n \in 0..n
    OBVIOUS
  <1> QED
    BY <1>2, <1>3

(* Every number of records has a replay.                                   *)
LEMMA ReplaysExist ==
    ASSUME NEW f, NEW n \in Nat
    PROVE  \E st : Replays(f, n, st)
  <1> DEFINE none == {k \in Nat : ~\E st : Replays(f, k, st)}
  <1>1. none = {}
    <2> SUFFICES ASSUME none # {} PROVE FALSE
      OBVIOUS
    <2>1. PICK k \in none : \A l \in none : k <= l
      BY MinProperties, Zenon
    <2>2. k \in Nat /\ ~\E st : Replays(f, k, st)
      BY Zenon
    <2> HIDE DEF none
    <2>3. CASE k = 0
      <3> DEFINE st == [l \in 0..0 |-> Blank]
      <3>1. st = [l \in 0..0 |-> IF l = 0 THEN Blank ELSE ReplayRecord(st[l - 1], f[l])]
        OBVIOUS
      <3> QED
        BY <2>2, <2>3, <3>1, Zenon DEF Replays
    <2>4. CASE k # 0
      <3>1. k - 1 \in Nat /\ ~(k <= k - 1)
        BY <2>2, <2>4
      <3>2. PICK st : Replays(f, k - 1, st)
        BY <2>1, <3>1, Zenon DEF none
      <3> DEFINE tt == [l \in 0..k |-> IF l = k THEN ReplayRecord(st[k - 1], f[k]) ELSE st[l]]
      <3>3. ASSUME NEW l \in 0..k
            PROVE  tt[l] = IF l = 0 THEN Blank ELSE ReplayRecord(tt[l - 1], f[l])
        <4>1. CASE l = k
          <5>1. k - 1 \in 0..k /\ k - 1 # k
            BY <2>2, <2>4
          <5>2. tt[k - 1] = st[k - 1]
            BY <5>1
          <5>3. tt[l] = ReplayRecord(st[k - 1], f[k])
            BY <4>1
          <5> QED
            BY <2>4, <4>1, <5>2, <5>3, Zenon
        <4>2. CASE l # k
          <5>1. l \in 0..(k - 1)
            BY <2>2, <4>2
          <5>2. tt[l] = st[l]
            BY <4>2
          <5>3. st[l] = IF l = 0 THEN Blank ELSE ReplayRecord(st[l - 1], f[l])
            BY <3>2, <5>1, Zenon DEF Replays
          <5>4. l # 0 => l - 1 \in 0..k /\ l - 1 # k
            BY <2>2, <4>2
          <5>5. l # 0 => tt[l - 1] = st[l - 1]
            BY <5>4
          <5> QED
            BY <5>2, <5>3, <5>5, Zenon
        <4> QED
          BY <4>1, <4>2
      <3>4. tt = [l \in 0..k |-> IF l = 0 THEN Blank ELSE ReplayRecord(tt[l - 1], f[l])]
        <4>1. \A l \in 0..k : tt[l] = IF l = 0 THEN Blank ELSE ReplayRecord(tt[l - 1], f[l])
          BY <3>3
        <4>2. tt = [l \in 0..k |-> tt[l]]
          OBVIOUS
        <4> HIDE DEF tt
        <4> QED
          BY <4>1, <4>2, Zenon
      <3> QED
        BY <2>2, <3>4, Zenon DEF Replays
    <2> QED
      BY <2>3, <2>4
  <1> QED
    BY <1>1

(* ReplayFile is the last state of the replay of the whole file.           *)
LEMMA ReplayFileIs ==
    ASSUME NEW f, Len(f) \in Nat
    PROVE  \E st : Replays(f, Len(f), st) /\ ReplayFile(f) = st[Len(f)]
  <1> DEFINE P(st) == st = [n \in 0..Len(f) |->
                               IF n = 0 THEN [term |-> 0, vote |-> None, entries |-> << >>, lost |-> FALSE]
                               ELSE ReplayRecord(st[n - 1], f[n])]
  <1>1. \E st : P(st)
    BY ReplaysExist, Zenon DEF Replays, Blank
  <1>2. P(CHOOSE st : P(st))
    BY <1>1, Zenon
  <1>3. ReplayFile(f) = (CHOOSE st : P(st))[Len(f)]
    BY Zenon DEF ReplayFile
  <1> QED
    BY <1>2, <1>3, Zenon DEF Replays, Blank

(* Replay handles one record after the other.                              *)
LEMMA ReplayAppend ==
    ASSUME NEW S, NEW f \in Seq(S), NEW r
    PROVE  ReplayFile(Append(f, r)) = ReplayRecord(ReplayFile(f), r)
  <1> DEFINE g == Append(f, r)
             n == Len(f)
  <1>1. n \in Nat /\ Len(g) = n + 1 /\ g[n + 1] = r /\ \A k \in 1..n : g[k] = f[k]
    OBVIOUS
  <1> HIDE DEF g, n
  <1>2. PICK st : Replays(f, n, st) /\ ReplayFile(f) = st[n]
    BY <1>1, ReplayFileIs, Zenon DEF n
  <1>3. PICK tt : Replays(g, n + 1, tt) /\ ReplayFile(g) = tt[n + 1]
    BY <1>1, ReplayFileIs
  <1>4. st[n] = tt[n]
    <2>1. n + 1 \in Nat /\ n <= n + 1 /\ \A k \in 1..n : f[k] = g[k]
      BY <1>1
    <2> QED
      BY <1>1, <1>2, <1>3, <2>1, ReplaysAgree
  <1>5. tt[n + 1] = ReplayRecord(tt[n], g[n + 1])
    <2>1. n + 1 \in 0..(n + 1) /\ n + 1 # 0 /\ (n + 1) - 1 = n
      BY <1>1
    <2>2. tt[n + 1] = IF n + 1 = 0 THEN Blank ELSE ReplayRecord(tt[(n + 1) - 1], g[n + 1])
      BY <1>3, <2>1, Zenon DEF Replays
    <2> QED
      BY <2>1, <2>2, Zenon
  <1> QED
    BY <1>1, <1>2, <1>3, <1>4, <1>5, Zenon DEF g

(* An empty file replays to a new node.                                    *)
LEMMA ReplayEmpty == ReplayFile(<< >>) = Blank
  <1>1. Len(<< >>) = 0
    OBVIOUS
  <1>2. PICK st : Replays(<< >>, 0, st) /\ ReplayFile(<< >>) = st[0]
    BY <1>1, ReplayFileIs
  <1>3. 0 \in 0..0
    OBVIOUS
  <1> QED
    BY <1>2, <1>3, Zenon DEF Replays

-----------------------------------------------------------------------------
(* The inductive invariant.                                                *)

Item == [term : Nat, index : Nat]
Voter == Other \cup {Self, None}
Replayed == [term : Nat, vote : Voter, entries : Seq(Item), lost : BOOLEAN]
Record == [tag : {"HardState"}, term : Nat, vote : Voter] \cup [tag : {"Entry"}, entry : Item]
             \cup [tag : {"Truncate"}, from : Nat] \cup {Torn}

(* s may follow p at a node: no older term, and no other vote in the same. *)
Later(s, p) == s.term >= p.term /\ (s.term = p.term /\ p.vote # None => s.vote = p.vote)

Core == [term |-> current_term, vote |-> voted_for]
Saving == {"hard_state", "truncate", "entries", "sync"}

TypeOK ==
    /\ current_term \in Nat /\ voted_for \in Voter /\ log \in Seq(Item)
    /\ stable_index \in Nat /\ hard_state_dirty \in BOOLEAN
    /\ file \in Seq(Record) /\ synced \in 0..Len(file) /\ persisted_index \in Nat
    /\ pc \in Saving \cup {"idle", "failed"} /\ i \in Nat
    /\ promised \in [term : Nat, vote : Voter, entries : Seq(Item)]
    /\ held \subseteq Seq(Item)

CoreInv ==
    /\ InPlace(log, 0) /\ log \in held
    /\ stable_index <= Len(log)
    /\ Later(Core, promised)

(* What a file is good for if the node is restarted with it, H being the   *)
(* logs the node has had since it saved p.                                 *)
Sound(f, H, p) ==
    LET s == ReplayFile(f)
    IN  /\ s \in Replayed
        /\ InPlace(s.entries, 0)
        /\ \E lg \in H : IsPrefixOf(s.entries, lg)
        /\ Later(s, p)
        /\ s.lost => Torn \in Range(f)

(* Whatever a crash keeps of f beyond its first n records is sound.        *)
AllSound(f, n, H, p) == \A k \in n..Len(f) : Sound(SubSeq(f, 1, k), H, p)

(* What the records written so far lack of the core's state, at each step. *)
Pending(s) ==
    /\ hard_state_dirty \/ (s.term = current_term /\ s.vote = voted_for)
    /\ pc \in {"truncate", "entries", "sync"} => ~hard_state_dirty
    /\ pc \in {"idle", "hard_state", "truncate"} =>
          /\ i = 0 /\ Len(s.entries) = persisted_index
          /\ \A k \in 1..persisted_index : k <= stable_index => s.entries[k] = log[k]
    /\ pc \in {"entries", "sync"} =>
          /\ persisted_index <= stable_index /\ persisted_index + 1 <= i /\ i <= Len(log) + 1
          /\ Len(s.entries) = i - 1 /\ \A k \in 1..(i - 1) : s.entries[k] = log[k]
    /\ pc = "sync" => i = Len(log) + 1

Recovers == LET s == ReplayFile(SubSeq(file, 1, synced))
            IN  s.term = promised.term /\ s.vote = promised.vote /\ s.entries = promised.entries

StorageInv ==
    /\ TypeOK /\ CoreInv /\ Recovers
    /\ AllSound(file, synced, held, promised)
    /\ pc \in Saving => Torn \notin Range(file)
    /\ pc # "failed" /\ Torn \notin Range(file) => Pending(ReplayFile(file))

-----------------------------------------------------------------------------
(* Files.                                                                  *)

(* More logs to choose from keep a file sound.                             *)
LEMMA AllSoundMore ==
    ASSUME NEW f, NEW n, NEW H, NEW G, NEW p, H \subseteq G, AllSound(f, n, H, p)
    PROVE  AllSound(f, n, G, p)
  BY Zenon DEF AllSound, Sound

(* Appending a record adds one way a crash can end.                        *)
LEMMA AllSoundAppend ==
    ASSUME NEW f \in Seq(Record), NEW r \in Record, NEW n \in 0..Len(f), NEW H, NEW p,
           AllSound(f, n, H, p), Sound(Append(f, r), H, p)
    PROVE  AllSound(Append(f, r), n, H, p) /\ n \in 0..Len(Append(f, r))
  <1> DEFINE g == Append(f, r)
  <1>1. /\ Len(f) \in Nat /\ n \in Nat /\ n <= Len(f) /\ Len(g) = Len(f) + 1 /\ g \in Seq(Record)
        /\ \A k \in 1..Len(f) : f[k] = g[k]
    OBVIOUS
  <1> HIDE DEF g
  <1>2. ASSUME NEW k \in n..Len(g) PROVE Sound(SubSeq(g, 1, k), H, p)
    <2>1. CASE k <= Len(f)
      <3>1. k \in Nat /\ k \in n..Len(f) /\ k <= Len(g) /\ \A l \in 1..k : l \in 1..Len(f)
        BY <1>1, <2>1
      <3>2. SubSeq(f, 1, k) = SubSeq(g, 1, k)
        BY <1>1, <2>1, <3>1, SamePrefix, Zenon
      <3> QED
        BY <3>1, <3>2, Zenon DEF AllSound
    <2>2. CASE k > Len(f)
      <3>1. k = Len(g)
        BY <1>1, <2>2
      <3>2. SubSeq(g, 1, k) = g
        BY <1>1, <3>1, SubSeqFull, Zenon
      <3> QED
        BY <3>2, Zenon DEF g
    <2> QED
      BY <1>1, <2>1, <2>2
  <1>3. n \in 0..Len(g)
    BY <1>1
  <1> QED
    BY <1>2, <1>3, Zenon DEF AllSound, g

(* So does keeping only part of a file.                                    *)
LEMMA AllSoundPrefix ==
    ASSUME NEW f \in Seq(Record), NEW n \in 0..Len(f), NEW k \in n..Len(f), NEW H, NEW p,
           AllSound(f, n, H, p)
    PROVE  /\ AllSound(SubSeq(f, 1, k), n, H, p)
           /\ SubSeq(f, 1, k) \in Seq(Record) /\ n \in 0..Len(SubSeq(f, 1, k))
           /\ SubSeq(SubSeq(f, 1, k), 1, n) = SubSeq(f, 1, n)
  <1> DEFINE g == SubSeq(f, 1, k)
  <1>0. Len(f) \in Nat
    BY LenProperties
  <1>1. n \in Nat /\ k \in Nat /\ n <= k /\ k <= Len(f) /\ k \in 0..Len(f)
    BY <1>0
  <1>2. g \in Seq(Record) /\ Len(g) = k /\ \A l \in 1..k : g[l] = f[l]
    BY <1>1, PrefixProperties
  <1> HIDE DEF g
  <1>3. ASSUME NEW l \in n..k PROVE SubSeq(g, 1, l) = SubSeq(f, 1, l)
    <2>1. l \in Nat /\ l <= Len(g) /\ l <= Len(f) /\ \A j \in 1..l : j \in 1..k
      BY <1>0, <1>1, <1>2
    <2> QED
      BY <1>2, <2>1, SamePrefix, Zenon
  <1>4. ASSUME NEW l \in n..Len(g) PROVE Sound(SubSeq(g, 1, l), H, p)
    <2>1. l \in n..Len(f) /\ l \in n..k
      BY <1>0, <1>1, <1>2
    <2>2. SubSeq(g, 1, l) = SubSeq(f, 1, l)
      BY <1>3, <2>1
    <2> QED
      BY <2>1, <2>2, Zenon DEF AllSound
  <1>5. n \in n..k /\ n \in 0..Len(g)
    BY <1>1, <1>2
  <1>6. SubSeq(g, 1, n) = SubSeq(f, 1, n)
    BY <1>3, <1>5
  <1> QED
    BY <1>2, <1>4, <1>5, <1>6, Zenon DEF AllSound, g

-----------------------------------------------------------------------------
(* What one more record makes of the replay.                               *)

(* A hard state replaces term and vote, a torn record ends the replay.     *)
LEMMA ReplayHardState ==
    ASSUME NEW s \in Replayed, ~s.lost, NEW t \in Nat, NEW v \in Voter
    PROVE  ReplayRecord(s, HardState(t, v)) =
              [term |-> t, vote |-> v, entries |-> s.entries, lost |-> FALSE]
  BY Zenon DEF ReplayRecord, HardState, Replayed

(* A torn record ends the replay and keeps what came before it.            *)
LEMMA ReplayTorn ==
    ASSUME NEW s \in Replayed
    PROVE  ReplayRecord(s, Torn) =
              [term |-> s.term, vote |-> s.vote, entries |-> s.entries, lost |-> TRUE]
  BY Zenon DEF ReplayRecord, Torn, Replayed

(* An entry is appended, a truncation drops from its index on.             *)
LEMMA ReplayEntry ==
    ASSUME NEW s \in Replayed, ~s.lost, NEW e \in Item
    PROVE  ReplayRecord(s, Entry(e)) =
              [term |-> s.term, vote |-> s.vote, entries |-> Append(s.entries, e), lost |-> FALSE]
  BY Zenon DEF ReplayRecord, Entry, Replayed

(* A truncation drops the entries from its index on.                       *)
LEMMA ReplayTruncate ==
    ASSUME NEW s \in Replayed, ~s.lost, NEW from \in Nat
    PROVE  ReplayRecord(s, Truncate(from)) =
              [term |-> s.term, vote |-> s.vote, entries |-> DropFrom(s.entries, from),
               lost |-> FALSE]
  BY Zenon DEF ReplayRecord, Truncate, Replayed

(* With every entry in its place, ReplayTruncate's loop keeps all entries  *)
(* below from.                                                             *)
LEMMA DropFromInPlace ==
    ASSUME NEW es \in Seq(Item), InPlace(es, 0), NEW n \in Nat, n <= Len(es)
    PROVE  DropFrom(es, n + 1) = SubSeq(es, 1, n)
  <1> DEFINE below == {0} \cup {p \in DOMAIN es : es[p].index < n + 1}
  <1>1. Len(es) \in Nat /\ DOMAIN es = 1..Len(es)
    BY LenProperties
  <1>2. \A p \in 1..Len(es) : es[p].index = p
    <2>1. \A p \in 1..Len(es) : es[p].index = 0 + p
      BY Zenon DEF InPlace
    <2> QED
      BY <1>1, <2>1
  <1>3. below \subseteq 0..Len(es) /\ below # {} /\ n \in below /\ \A p \in below : p <= n
    BY <1>1, <1>2
  <1>4. Max(below) \in below /\ \A p \in below : p <= Max(below)
    BY <1>1, <1>3, MaxProperties, Zenon
  <1>5. Max(below) = n
    <2>1. Max(below) <= n /\ n <= Max(below) /\ Max(below) \in 0..Len(es)
      BY <1>3, <1>4, Zenon
    <2> QED
      BY <1>1, <2>1
  <1> QED
    BY <1>5, Zenon DEF DropFrom

-----------------------------------------------------------------------------
(* The append loop and the watermark.                                      *)

(* The watermark StableIndex leaves covers only entries the append loop    *)
(* has kept: the entries of the merged log up to it are the old ones.      *)
LEMMA MergeKeepsStable ==
    ASSUME NEW m, m.entries \in Seq(Item), m.prev_log_index \in Nat,
           InPlace(m.entries, m.prev_log_index),
           NEW lg \in Seq(Item), InPlace(lg, 0), m.prev_log_index <= Len(lg),
           NEW stable \in Nat, stable <= Len(lg)
    PROVE  /\ MergeEntries(m, lg) \in Seq(Item) /\ InPlace(MergeEntries(m, lg), 0)
           /\ StableIndex(m, lg, stable) \in Nat
           /\ StableIndex(m, lg, stable) <= stable
           /\ StableIndex(m, lg, stable) <= Len(MergeEntries(m, lg))
           /\ \A k \in 1..StableIndex(m, lg, stable) : MergeEntries(m, lg)[k] = lg[k]
  <1> DEFINE E == m.entries
             p == m.prev_log_index
             new == {k \in 1..Len(E) :
                        LET n == E[k].index IN n > LastIndex(lg) \/ TermAt(lg, n) # E[k].term}
             dropped == {k \in 1..Len(E) :
                        LET n == E[k].index IN n <= LastIndex(lg) /\ TermAt(lg, n) # E[k].term}
  <1>0. Len(lg) \in Nat /\ Len(E) \in Nat
    BY LenProperties
  <1>1. \A k \in 1..Len(E) : E[k].index = p + k
    BY Zenon DEF InPlace
  <1>2. ASSUME NEW k \in 1..Len(E), k \notin new PROVE p + k <= Len(lg)
    <2>1. ~(p + k > Len(lg))
      BY <1>1, <1>2 DEF LastIndex
    <2> QED
      BY <1>0, <2>1
  <1>3. \A k \in dropped : k \in 1..Len(E) /\ p + k <= Len(lg) /\ k \in new
    BY <1>1 DEF LastIndex
  <1>4. ASSUME NEW k \in new, k \notin dropped PROVE k \in 1..Len(E) /\ p + k > Len(lg)
    BY <1>0, <1>1, <1>4 DEF LastIndex
  <1>5. new \subseteq 1..Len(E) /\ dropped \subseteq 1..Len(E)
    BY Zenon
  <1>6. StableIndex(m, lg, stable) =
           IF dropped = {} THEN stable ELSE Min({stable, E[Min(dropped)].index - 1})
    BY Zenon DEF StableIndex
  <1>7. MergeEntries(m, lg) =
           IF new = {} THEN lg
           ELSE SubSeq(lg, 1, E[Min(new)].index - 1) \o SubSeq(E, Min(new), Len(E))
    BY Zenon DEF MergeEntries
  <1> HIDE DEF new, dropped, E, p
  <1>8. CASE new = {}
    <2>1. dropped = {}
      BY <1>3, <1>8, Zenon
    <2>2. MergeEntries(m, lg) = lg /\ StableIndex(m, lg, stable) = stable
      BY <1>6, <1>7, <1>8, <2>1, Zenon
    <2>3. stable <= stable
      OBVIOUS
    <2> QED
      BY <2>2, <2>3, Zenon
  <1>9. CASE new # {}
    <2>1. PICK c : c = Min(new) /\ c \in new /\ \A k \in new : c <= k
      <3>1. new \subseteq Nat
        BY <1>5
      <3> QED
        BY <1>9, <3>1, MinProperties, Zenon
    <2>2. c \in 1..Len(E) /\ E[c].index = p + c /\ p \in Nat /\ E \in Seq(Item)
      BY <1>1, <1>5, <2>1 DEF E, p
    <2>3. p + c - 1 \in Nat /\ p + c - 1 <= Len(lg) /\ c \in Nat /\ c >= 1 /\ c <= Len(E)
      <3>1. CASE c = 1
        BY <1>0, <2>2, <3>1 DEF p
      <3>2. CASE c # 1
        <4>1. c - 1 \in 1..Len(E) /\ ~(c <= c - 1)
          BY <1>0, <2>2, <3>2
        <4>2. p + (c - 1) <= Len(lg)
          BY <1>2, <2>1, <4>1
        <4> QED
          BY <1>0, <2>2, <4>2
      <3> QED
        BY <3>1, <3>2
    <2> DEFINE kept == SubSeq(lg, 1, p + c - 1)
               added == SubSeq(E, c, Len(E))
               mg == kept \o added
    <2>4. kept \in Seq(Item) /\ Len(kept) = p + c - 1 /\ \A k \in 1..(p + c - 1) : kept[k] = lg[k]
      <3>1. p + c - 1 \in 0..Len(lg)
        BY <1>0, <2>3
      <3> QED
        BY <3>1, PrefixProperties
    <2>5. /\ added \in Seq(Item) /\ Len(added) = Len(E) - c + 1
          /\ \A k \in 1..(Len(E) - c + 1) : added[k] = E[c + k - 1]
      <3>1. \A k \in c..Len(E) : E[k] \in Item
        BY <1>0, <2>2, <2>3, ElementOfSeq
      <3>2. c \in Int /\ Len(E) \in Int
        BY <1>0, <2>3
      <3>3. /\ added \in Seq(Item) /\ Len(added) = IF c <= Len(E) THEN Len(E) - c + 1 ELSE 0
            /\ \A k \in 1..(Len(E) - c + 1) : added[k] = E[c + k - 1]
        BY <3>1, <3>2, SubSeqProperties
      <3> HIDE DEF added
      <3> QED
        BY <2>3, <3>3, Zenon
    <2> HIDE DEF kept, added
    <2>6. /\ mg \in Seq(Item) /\ Len(mg) = Len(kept) + Len(added)
          /\ \A k \in 1..(Len(kept) + Len(added)) : mg[k] =
                IF k <= Len(kept) THEN kept[k] ELSE added[k - Len(kept)]
      BY <2>4, <2>5, ConcatProperties, Zenon
    <2>7. MergeEntries(m, lg) = mg
      <3>1. MergeEntries(m, lg) = SubSeq(lg, 1, E[c].index - 1) \o SubSeq(E, c, Len(E))
        BY <1>7, <1>9, <2>1, Zenon
      <3>2. E[c].index - 1 = p + c - 1
        BY <2>2
      <3> QED
        BY <3>1, <3>2, Zenon DEF kept, added
    <2> HIDE DEF mg
    <2>8. Len(kept) = p + c - 1 /\ Len(added) = Len(E) - c + 1
      BY <2>4, <2>5, Zenon
    <2>9. Len(mg) = p + Len(E)
      <3>1. Len(mg) = Len(kept) + Len(added)
        BY <2>6, Zenon
      <3> QED
        BY <1>0, <2>2, <2>3, <2>8, <3>1
    <2>10. ASSUME NEW k \in 1..Len(mg)
           PROVE  IF k <= p + c - 1 THEN mg[k] = lg[k] ELSE mg[k] = E[k - p]
      <3>1. k \in 1..(Len(kept) + Len(added))
        BY <2>6, Zenon
      <3>2. mg[k] = IF k <= p + c - 1 THEN kept[k] ELSE added[k - (p + c - 1)]
        BY <2>6, <2>8, <3>1, Zenon
      <3>3. CASE k <= p + c - 1
        <4>1. k \in 1..(p + c - 1)
          BY <1>0, <2>2, <2>3, <2>9, <3>3
        <4> QED
          BY <2>4, <3>2, <3>3, <4>1, Zenon
      <3>4. CASE ~(k <= p + c - 1)
        <4>1. k - (p + c - 1) \in 1..(Len(E) - c + 1) /\ c + (k - (p + c - 1)) - 1 = k - p
          BY <1>0, <2>2, <2>3, <2>9, <3>4
        <4>2. added[k - (p + c - 1)] = E[c + (k - (p + c - 1)) - 1]
          BY <2>5, <4>1
        <4> QED
          BY <3>2, <3>4, <4>1, <4>2, Zenon
      <3> QED
        BY <3>3, <3>4, Zenon
    <2>11. InPlace(mg, 0)
      <3> SUFFICES ASSUME NEW k \in 1..Len(mg) PROVE mg[k].index = 0 + k
        BY Zenon DEF InPlace
      <3>1. CASE k <= p + c - 1
        <4>1. k \in 1..Len(lg)
          BY <1>0, <2>2, <2>3, <2>9, <3>1
        <4> QED
          BY <2>10, <3>1, <4>1, Zenon DEF InPlace
      <3>2. CASE ~(k <= p + c - 1)
        <4>1. k - p \in 1..Len(E) /\ p + (k - p) = 0 + k
          <5>1. k \in Nat /\ k >= 1 /\ k <= p + Len(E)
            BY <1>0, <2>2, <2>9
          <5> QED
            BY <1>0, <2>2, <2>3, <3>2, <5>1
        <4> QED
          BY <1>1, <2>10, <3>2, <4>1, Zenon
      <3> QED
        BY <3>1, <3>2
    <2> DEFINE st == StableIndex(m, lg, stable)
    <2>12. st \in Nat /\ st <= stable /\ st <= p + c - 1
      <3>1. CASE dropped = {}
        <4>1. st = stable
          BY <1>6, <3>1, Zenon
        <4>2. p + c > Len(lg)
          BY <1>4, <2>1, <3>1
        <4> QED
          BY <1>0, <2>2, <2>3, <4>1, <4>2
      <3>2. CASE dropped # {}
        <4>1. PICK d : d = Min(dropped) /\ d \in dropped /\ \A k \in dropped : d <= k
          <5>1. dropped \subseteq Nat
            BY <1>5
          <5> QED
            BY <3>2, <5>1, MinProperties, Zenon
        <4>2. c <= d /\ p + d <= Len(lg) /\ d \in 1..Len(E)
          BY <1>3, <2>1, <4>1, Zenon
        <4>3. c \in dropped
          <5> SUFFICES ASSUME c \notin dropped PROVE FALSE
            OBVIOUS
          <5>1. p + c > Len(lg)
            BY <1>4, <2>1
          <5> QED
            BY <1>0, <2>2, <2>3, <4>2, <5>1
        <4>4. d = c
          BY <1>0, <2>3, <4>1, <4>2, <4>3
        <4>5. st = Min({stable, p + c - 1})
          <5>1. st = Min({stable, E[c].index - 1})
            BY <1>6, <3>2, <4>1, <4>4
          <5>2. E[c].index - 1 = p + c - 1
            BY <2>2
          <5> QED
            BY <5>1, <5>2, Zenon
        <4> DEFINE T == {stable, p + c - 1}
        <4>6. T \subseteq Nat /\ T # {} /\ stable \in T /\ p + c - 1 \in T
          BY <2>3
        <4>7. Min(T) \in T /\ \A n \in T : Min(T) <= n
          BY <4>6, MinProperties, Zenon
        <4> QED
          BY <4>5, <4>6, <4>7, Zenon
      <3> QED
        BY <3>1, <3>2
    <2> HIDE DEF st
    <2>13. st <= Len(mg) /\ \A k \in 1..st : k \in 1..Len(mg) /\ k <= p + c - 1
      BY <1>0, <2>2, <2>3, <2>9, <2>12
    <2>14. \A k \in 1..st : mg[k] = lg[k]
      BY <2>10, <2>13, Zenon
    <2> QED
      BY <2>6, <2>7, <2>11, <2>12, <2>13, <2>14, Zenon DEF st
  <1> QED
    BY <1>8, <1>9

-----------------------------------------------------------------------------
(* The calls into the core, each of which begins a Save.                   *)

(* Later is a partial order on terms and votes.                            *)
LEMMA LaterTrans ==
    ASSUME NEW a \in [term : Nat, vote : Voter], NEW b \in [term : Nat, vote : Voter],
           NEW c, c.term \in Nat, Later(a, b), Later(b, c)
    PROVE  Later(a, c)
  BY DEF Later

(* The file as a whole is sound.                                           *)
LEMMA SoundWhole ==
    ASSUME StorageInv
    PROVE  Sound(file, held, promised)
  <1>1. file \in Seq(Record) /\ synced \in 0..Len(file)
    BY DEF StorageInv, TypeOK
  <1>2. Len(file) \in Nat
    BY <1>1, LenProperties
  <1>3. Len(file) \in synced..Len(file)
    BY <1>1, <1>2
  <1>4. SubSeq(file, 1, Len(file)) = file
    BY <1>1, SubSeqFull
  <1> QED
    BY <1>3, <1>4, Zenon DEF StorageInv, AllSound

(* What the core may do to its state before it is saved: entries below the *)
(* watermark stay, and a change of term or vote is marked.                 *)
CoreStep ==
    /\ current_term' \in Nat /\ voted_for' \in Voter /\ log' \in Seq(Item)
    /\ stable_index' \in Nat /\ hard_state_dirty' \in BOOLEAN
    /\ held' \subseteq Seq(Item) /\ held \subseteq held' /\ log' \in held'
    /\ InPlace(log', 0)
    /\ stable_index' <= stable_index /\ stable_index' <= Len(log')
    /\ \A k \in 1..stable_index' : log'[k] = log[k]
    /\ Later([term |-> current_term', vote |-> voted_for'], Core)
    /\ \/ hard_state_dirty'
       \/ ~hard_state_dirty /\ current_term' = current_term /\ voted_for' = voted_for

(* Such a change keeps the invariant.                                      *)
LEMMA BeginStep ==
    ASSUME StorageInv, ~WritesAfterTear, ~RetriesAfterError, Save, CoreStep
    PROVE  StorageInv'
  <1>1. /\ pc = "idle" /\ pc' = "hard_state" /\ Torn \notin Range(file)
        /\ file' = file /\ synced' = synced /\ persisted_index' = persisted_index
        /\ i' = i /\ promised' = promised
    BY DEF Save, Ready
  <1>2. TypeOK'
    BY <1>1 DEF StorageInv, TypeOK, CoreStep, Saving
  <1>3. CoreInv'
    <2> DEFINE c == [term |-> current_term', vote |-> voted_for']
    <2>1. c \in [term : Nat, vote : Voter] /\ Core \in [term : Nat, vote : Voter]
          /\ promised.term \in Nat
      BY DEF StorageInv, TypeOK, CoreStep, Core
    <2>2. Later(c, Core) /\ Later(Core, promised)
      BY DEF StorageInv, CoreInv, CoreStep
    <2>3. Later(c, promised)
      BY <2>1, <2>2, LaterTrans
    <2>4. Later(Core, promised)'
      BY <1>1, <2>3 DEF Core
    <2> QED
      BY <2>4 DEF CoreInv, CoreStep
  <1>4. Recovers' /\ AllSound(file, synced, held, promised)'
    <2>1. AllSound(file, synced, held', promised)
      BY AllSoundMore, Zenon DEF StorageInv, CoreStep
    <2>2. Recovers
      BY DEF StorageInv
    <2> QED
      BY <1>1, <2>1, <2>2, Zenon DEF Recovers
  <1>5. Pending(ReplayFile(file))'
    <2>1. PICK s : s = ReplayFile(file)
      OBVIOUS
    <2>2. Pending(s)
      BY <1>1, <2>1 DEF StorageInv
    <2>3. /\ hard_state_dirty \/ (s.term = current_term /\ s.vote = voted_for)
          /\ i = 0 /\ Len(s.entries) = persisted_index
          /\ \A k \in 1..persisted_index : k <= stable_index => s.entries[k] = log[k]
      BY <1>1, <2>2 DEF Pending
    <2>4. hard_state_dirty' \/ (s.term = current_term' /\ s.vote = voted_for')
      BY <2>3 DEF CoreStep
    <2>5. ASSUME NEW k \in 1..persisted_index, k <= stable_index' PROVE s.entries[k] = log'[k]
      <3>1. /\ persisted_index \in Nat /\ stable_index \in Nat /\ stable_index' \in Nat
            /\ stable_index' <= stable_index
        BY DEF StorageInv, TypeOK, CoreStep
      <3>2. k \in 1..stable_index' /\ k <= stable_index
        BY <2>5, <3>1
      <3> QED
        BY <2>3, <3>2 DEF CoreStep
    <2>6. Pending(s)'
      BY <1>1, <2>3, <2>4, <2>5 DEF Pending
    <2>7. s = ReplayFile(file')
      BY <1>1, <2>1
    <2> QED
      BY <2>6, <2>7
  <1> QED
    BY <1>1, <1>2, <1>3, <1>4, <1>5 DEF StorageInv

(* Each call is such a change.                                             *)
LEMMA CallsAreCoreSteps ==
    ASSUME StorageInv, Campaign \/ NewTerm \/ Grant \/ Propose \/ Replicate \/ RetrySave
    PROVE  Save /\ CoreStep
  <1>0. /\ current_term \in Nat /\ voted_for \in Voter /\ log \in Seq(Item)
        /\ stable_index \in Nat /\ hard_state_dirty \in BOOLEAN
        /\ InPlace(log, 0) /\ log \in held /\ held \subseteq Seq(Item) /\ stable_index <= Len(log)
    BY DEF StorageInv, TypeOK, CoreInv
  <1>1. Len(log) \in Nat
    BY <1>0, LenProperties
  <1>2. ASSUME log' = log, stable_index' = stable_index, held' = held,
               current_term' \in Nat, voted_for' \in Voter, hard_state_dirty' \in BOOLEAN,
               Later([term |-> current_term', vote |-> voted_for'], Core),
               \/ hard_state_dirty'
               \/ ~hard_state_dirty /\ current_term' = current_term /\ voted_for' = voted_for
        PROVE  CoreStep
    BY <1>0, <1>2 DEF CoreStep
  <1>3. CASE Campaign
    BY <1>0, <1>2, <1>3 DEF Campaign, Later, Core, Voter
  <1>4. CASE NewTerm
    BY <1>0, <1>2, <1>4, BoundAssumption DEF NewTerm, Later, Core, Voter
  <1>5. CASE Grant
    BY <1>0, <1>2, <1>5 DEF Grant, Later, Core, Voter
  <1>6. CASE RetrySave
    BY <1>0, <1>2, <1>6 DEF RetrySave, coreVars, Later, Core
  <1>7. CASE Propose
    <2> DEFINE e == [term |-> current_term, index |-> Len(log) + 1]
    <2>1. /\ Save /\ log' = Append(log, e) /\ held' = held \cup {log'}
          /\ current_term' = current_term /\ voted_for' = voted_for
          /\ stable_index' = stable_index /\ hard_state_dirty' = hard_state_dirty
      BY <1>7 DEF Propose, LastIndex
    <2>2. e \in Item
      BY <1>0, <1>1 DEF Item
    <2>3. /\ log' \in Seq(Item) /\ Len(log') = Len(log) + 1 /\ log'[Len(log) + 1] = e
          /\ \A k \in 1..Len(log) : log'[k] = log[k]
      <3> HIDE DEF e
      <3> QED
        BY <1>0, <2>1, <2>2, AppendProperties
    <2>4. InPlace(log', 0)
      <3>1. \A k \in 1..Len(log) : log[k].index = 0 + k
        BY <1>0 DEF InPlace
      <3>2. ASSUME NEW k \in 1..Len(log') PROVE log'[k].index = 0 + k
        <4>1. CASE k \in 1..Len(log)
          BY <2>3, <3>1, <4>1
        <4>2. CASE k \notin 1..Len(log)
          <5>1. k = Len(log) + 1 /\ k = 0 + k
            BY <1>1, <2>3, <4>2
          <5> QED
            BY <2>3, <5>1
        <4> QED
          BY <4>1, <4>2
      <3> QED
        BY <3>2 DEF InPlace
    <2>5. /\ stable_index <= stable_index /\ stable_index <= Len(log')
          /\ \A k \in 1..stable_index : k \in 1..Len(log)
      BY <1>0, <1>1, <2>3
    <2>6. Later([term |-> current_term', vote |-> voted_for'], Core)
      BY <1>0, <2>1 DEF Later, Core
    <2>7. held' \subseteq Seq(Item) /\ held \subseteq held' /\ log' \in held'
      BY <1>0, <2>1, <2>3
    <2> QED
      BY <1>0, <2>1, <2>3, <2>4, <2>5, <2>6, <2>7, Zenon DEF CoreStep
  <1>8. CASE Replicate
    <2>1. PICK t \in current_term..MaxTerm, prev \in 0..LastIndex(log), n \in 0..MaxLog :
             /\ \E terms \in [1..n -> Max({1, TermAt(log, prev)})..t] :
                  LET m == [prev_log_index |-> prev,
                            entries |-> [k \in 1..n |-> [term |-> terms[k], index |-> prev + k]]]
                  IN  /\ log' = MergeEntries(m, log) /\ held' = held \cup {log'}
                      /\ stable_index' = StableIndex(m, log, stable_index)
             /\ current_term' = t
             /\ voted_for' = IF t > current_term THEN None ELSE voted_for
             /\ hard_state_dirty' = (hard_state_dirty \/ t > current_term)
      BY <1>8, Zenon DEF Replicate
    <2>2. PICK terms \in [1..n -> Max({1, TermAt(log, prev)})..t] :
             LET m == [prev_log_index |-> prev,
                       entries |-> [k \in 1..n |-> [term |-> terms[k], index |-> prev + k]]]
             IN  /\ log' = MergeEntries(m, log) /\ held' = held \cup {log'}
                 /\ stable_index' = StableIndex(m, log, stable_index)
      BY <2>1, Zenon
    <2>3. t \in Nat /\ t >= current_term /\ prev \in Nat /\ prev <= Len(log) /\ n \in Nat
      BY <1>0, <1>1, BoundAssumption DEF LastIndex
    <2> DEFINE m == [prev_log_index |-> prev,
                     entries |-> [k \in 1..n |-> [term |-> terms[k], index |-> prev + k]]]
    <2>4. Max({1, TermAt(log, prev)}) \in Nat
      <3>1. TermAt(log, prev) \in Nat
        <4>1. \A k \in 1..Len(log) : log[k] \in Item
          BY <1>0, ElementOfSeq
        <4> QED
          BY <4>1 DEF TermAt, LastIndex, Item
      <3> DEFINE S == {1, TermAt(log, prev)}
      <3>2. S \subseteq 0..(1 + TermAt(log, prev)) /\ S # {} /\ 1 + TermAt(log, prev) \in Nat
        BY <3>1
      <3>3. Max(S) \in S
        BY <3>2, MaxProperties, Zenon
      <3> QED
        BY <3>1, <3>3
    <2>5. \A k \in 1..n : terms[k] \in Nat
      BY <2>3, <2>4
    <2>6. m.entries \in Seq(Item) /\ Len(m.entries) = n /\ InPlace(m.entries, prev)
      <3>1. \A k \in 1..n : [term |-> terms[k], index |-> prev + k] \in Item
        BY <2>3, <2>5 DEF Item
      <3>2. m.entries \in [1..n -> Item]
        BY <3>1
      <3>3. m.entries \in Seq(Item) /\ Len(m.entries) = n
        BY <2>3, <3>2, IsASeq
      <3>4. \A k \in 1..n : m.entries[k].index = prev + k
        OBVIOUS
      <3> QED
        BY <3>3, <3>4 DEF InPlace
    <2>7. m.prev_log_index = prev
      OBVIOUS
    <2>8. /\ log' = MergeEntries(m, log) /\ held' = held \cup {log'}
          /\ stable_index' = StableIndex(m, log, stable_index)
      BY <2>2
    <2> HIDE DEF m
    <2>9. /\ log' \in Seq(Item) /\ InPlace(log', 0) /\ stable_index' \in Nat
          /\ stable_index' <= stable_index /\ stable_index' <= Len(log')
          /\ \A k \in 1..stable_index' : log'[k] = log[k]
      BY <1>0, <2>3, <2>6, <2>7, <2>8, MergeKeepsStable
    <2>10. held' \subseteq Seq(Item) /\ held \subseteq held' /\ log' \in held'
      BY <1>0, <2>8, <2>9, Zenon
    <2>11. /\ current_term' \in Nat /\ voted_for' \in Voter /\ hard_state_dirty' \in BOOLEAN
           /\ Later([term |-> current_term', vote |-> voted_for'], Core)
           /\ \/ hard_state_dirty'
              \/ ~hard_state_dirty /\ current_term' = current_term /\ voted_for' = voted_for
      <3>1. CASE t > current_term
        <4>1. current_term' = t /\ voted_for' = None /\ hard_state_dirty' = TRUE
          BY <2>1, <3>1, Zenon
        <4> QED
          BY <1>0, <2>3, <3>1, <4>1 DEF Later, Core, Voter
      <3>2. CASE ~(t > current_term)
        <4>1. t = current_term
          BY <1>0, <2>3, <3>2
        <4>2. voted_for' = voted_for /\ (hard_state_dirty' = (hard_state_dirty \/ FALSE))
          BY <2>1, <3>2, Zenon
        <4>3. hard_state_dirty' \in BOOLEAN /\ (hard_state_dirty' \/ ~hard_state_dirty)
          BY <1>0, <4>2, Zenon
        <4> QED
          BY <1>0, <2>1, <4>1, <4>2, <4>3 DEF Later, Core, Voter
      <3> QED
        BY <3>1, <3>2
    <2>12. Save
      BY <1>8 DEF Replicate
    <2> QED
      BY <2>9, <2>10, <2>11, <2>12, Zenon DEF CoreStep
  <1> QED
    BY <1>3, <1>4, <1>5, <1>6, <1>7, <1>8

-----------------------------------------------------------------------------
(* The steps of Save.                                                      *)

(* A record that is not torn leaves the file sound if its replay is.       *)
LEMMA WriteStep ==
    ASSUME StorageInv, pc \in Saving, NEW r \in Record, r # Torn,
           file' = Append(file, r), synced' = synced, promised' = promised, held' = held,
           Sound(Append(file, r), held, promised)
    PROVE  /\ file' \in Seq(Record) /\ synced' \in 0..Len(file')
           /\ Recovers' /\ AllSound(file, synced, held, promised)'
           /\ Torn \notin Range(file')
  <1>1. /\ file \in Seq(Record) /\ synced \in 0..Len(file) /\ Torn \notin Range(file)
        /\ AllSound(file, synced, held, promised) /\ Recovers
    BY DEF StorageInv, TypeOK
  <1>2. AllSound(Append(file, r), synced, held, promised) /\ synced \in 0..Len(Append(file, r))
    BY <1>1, AllSoundAppend
  <1>3. /\ Append(file, r) \in Seq(Record) /\ Len(Append(file, r)) = Len(file) + 1
        /\ Append(file, r)[Len(file) + 1] = r
        /\ \A k \in 1..Len(file) : Append(file, r)[k] = file[k]
    BY <1>1, AppendProperties
  <1>4. Len(file) \in Nat
    BY <1>1, LenProperties
  <1>5. Torn \notin Range(Append(file, r))
    <2>0. \A k \in 1..Len(file) : file[k] # Torn
      BY <1>1, RangeElements
    <2> SUFFICES ASSUME NEW k \in 1..Len(Append(file, r)), Append(file, r)[k] = Torn PROVE FALSE
      BY <1>3, RangeElements, Zenon
    <2>1. CASE k \in 1..Len(file)
      BY <1>3, <2>0, <2>1, Zenon
    <2>2. CASE k \notin 1..Len(file)
      <3>1. k = Len(file) + 1
        BY <1>3, <1>4, <2>2
      <3> QED
        BY <1>3, <3>1, Zenon
    <2> QED
      BY <2>1, <2>2
  <1>6. SubSeq(Append(file, r), 1, synced) = SubSeq(file, 1, synced)
    <2>1. /\ synced \in Nat /\ synced <= Len(file) /\ synced <= Len(Append(file, r))
          /\ \A k \in 1..synced : k \in 1..Len(file)
      BY <1>1, <1>3, <1>4
    <2> QED
      BY <1>1, <1>3, <2>1, SamePrefix, Zenon
  <1>7. Recovers'
    BY <1>1, <1>6, Zenon DEF Recovers
  <1> QED
    BY <1>2, <1>3, <1>5, <1>7, Zenon

(* Whatever Save is at, the replay of what it has written so far is usable.*)
LEMMA WholeReplay ==
    ASSUME StorageInv, pc \in Saving
    PROVE  /\ ReplayFile(file) \in Replayed /\ ~ReplayFile(file).lost
           /\ InPlace(ReplayFile(file).entries, 0)
           /\ \E lg \in held : IsPrefixOf(ReplayFile(file).entries, lg)
           /\ Later(ReplayFile(file), promised)
           /\ Pending(ReplayFile(file))
  <1>1. Sound(file, held, promised)
    BY SoundWhole
  <1>2. Torn \notin Range(file) /\ pc # "failed"
    BY DEF StorageInv, Saving
  <1>3. Pending(ReplayFile(file))
    BY <1>2 DEF StorageInv
  <1> QED
    BY <1>1, <1>2, <1>3, Zenon DEF Sound

(* SaveLocked's hard state record puts the node's term and vote in the     *)
(* file: what was promised of them only grows.                             *)
LEMMA HardStateStep ==
    ASSUME StorageInv, SaveHardState
    PROVE  StorageInv'
  <1>0. pc = "hard_state" /\ pc \in Saving /\ pc' = "truncate" /\ hard_state_dirty' = FALSE
        /\ UNCHANGED <<current_term, voted_for, log, stable_index, synced, persisted_index,
                       i, promised, held>>
    BY DEF SaveHardState, Goto, Saving
  <1>1. PICK s : s = ReplayFile(file)
    OBVIOUS
  <1>2. /\ s \in Replayed /\ ~s.lost /\ InPlace(s.entries, 0) /\ Later(s, promised) /\ Pending(s)
        /\ \E lg \in held : IsPrefixOf(s.entries, lg)
    BY <1>0, <1>1, WholeReplay
  <1>3. /\ i = 0 /\ Len(s.entries) = persisted_index
        /\ \A k \in 1..persisted_index : k <= stable_index => s.entries[k] = log[k]
        /\ hard_state_dirty \/ (s.term = current_term /\ s.vote = voted_for)
    BY <1>0, <1>2 DEF Pending
  <1>4. CoreInv'
    BY <1>0 DEF StorageInv, CoreInv, Core
  <1>5. CASE ~hard_state_dirty
    <2>1. file' = file
      BY <1>5 DEF SaveHardState
    <2>2. TypeOK'
      BY <1>0, <2>1, Zenon DEF StorageInv, TypeOK, Saving
    <2>3. Recovers' /\ AllSound(file, synced, held, promised)' /\ Torn \notin Range(file')
      BY <1>0, <2>1 DEF StorageInv, Recovers
    <2>4. Pending(s)'
      BY <1>0, <1>3, <1>5 DEF Pending
    <2>5. Pending(ReplayFile(file))'
      BY <1>1, <2>1, <2>4
    <2> QED
      BY <1>4, <2>2, <2>3, <2>5 DEF StorageInv
  <1>6. CASE hard_state_dirty
    <2> DEFINE r == HardState(current_term, voted_for)
    <2>z. PICK z : z = [term |-> current_term, vote |-> voted_for, entries |-> s.entries,
                        lost |-> FALSE]
      BY Zenon
    <2>0. current_term \in Nat /\ voted_for \in Voter /\ file \in Seq(Record)
      BY DEF StorageInv, TypeOK
    <2>1. file' = Append(file, r)
      BY <1>6 DEF SaveHardState, AddRecord
    <2>2. r \in Record /\ r # Torn
      BY <2>0 DEF Record, HardState, Torn
    <2>3. ReplayFile(Append(file, r)) = z
      BY <1>1, <1>2, <2>0, <2>z, ReplayAppend, ReplayHardState
    <2>4. Later(z, promised)
      BY <2>z DEF StorageInv, CoreInv, Later, Core
    <2>5. z \in Replayed /\ z.entries = s.entries /\ ~z.lost
          /\ z.term = current_term /\ z.vote = voted_for
      BY <1>2, <2>0, <2>z DEF Replayed
    <2> HIDE DEF r
    <2>6. Sound(Append(file, r), held, promised)
      BY <1>2, <2>3, <2>4, <2>5, Zenon DEF Sound
    <2>7. /\ file' \in Seq(Record) /\ synced' \in 0..Len(file')
          /\ Recovers' /\ AllSound(file, synced, held, promised)' /\ Torn \notin Range(file')
      BY <1>0, <2>1, <2>2, <2>6, WriteStep
    <2>8. TypeOK'
      BY <1>0, <2>7, Zenon DEF StorageInv, TypeOK, Saving
    <2>9. Pending(z)'
      BY <1>0, <1>3, <2>5 DEF Pending
    <2>10. Pending(ReplayFile(file))'
      BY <2>1, <2>3, <2>9
    <2> QED
      BY <1>4, <2>7, <2>8, <2>10 DEF StorageInv
  <1> QED
    BY <1>5, <1>6

(* SaveLocked's truncation drops only what is not stable, so no promised   *)
(* entry is lost.                                                          *)
LEMMA TruncateStep ==
    ASSUME StorageInv, SaveTruncate
    PROVE  StorageInv'
  <1>0. /\ pc = "truncate" /\ pc \in Saving /\ pc' = "entries" /\ i' = persisted_index' + 1
        /\ UNCHANGED <<current_term, voted_for, log, stable_index, hard_state_dirty, synced,
                       promised, held>>
    BY DEF SaveTruncate, Goto, Saving, coreVars
  <1>1. PICK s : s = ReplayFile(file)
    OBVIOUS
  <1>2. /\ s \in Replayed /\ ~s.lost /\ InPlace(s.entries, 0) /\ Later(s, promised) /\ Pending(s)
        /\ \E lg \in held : IsPrefixOf(s.entries, lg)
    BY <1>0, <1>1, WholeReplay
  <1>3. /\ i = 0 /\ Len(s.entries) = persisted_index
        /\ \A k \in 1..persisted_index : k <= stable_index => s.entries[k] = log[k]
        /\ ~hard_state_dirty /\ s.term = current_term /\ s.vote = voted_for
    BY <1>0, <1>2 DEF Pending
  <1>4. CoreInv'
    BY <1>0 DEF StorageInv, CoreInv, Core
  <1>5. /\ persisted_index \in Nat /\ stable_index \in Nat /\ log \in Seq(Item)
        /\ stable_index <= Len(log) /\ file \in Seq(Record) /\ log \in held /\ InPlace(log, 0)
    BY DEF StorageInv, TypeOK, CoreInv
  <1>6. Len(log) \in Nat
    BY <1>5, LenProperties
  <1>7. CASE ~(stable_index < persisted_index)
    <2>1. file' = file /\ persisted_index' = persisted_index
      BY <1>7 DEF SaveTruncate
    <2>2. TypeOK'
      BY <1>0, <2>1 DEF StorageInv, TypeOK, Saving
    <2>3. Recovers' /\ AllSound(file, synced, held, promised)' /\ Torn \notin Range(file')
      BY <1>0, <2>1, Zenon DEF StorageInv, Recovers
    <2>4. /\ persisted_index <= stable_index /\ i' = persisted_index + 1 /\ i' - 1 = persisted_index
          /\ persisted_index + 1 <= i' /\ i' <= Len(log) + 1
          /\ \A k \in 1..persisted_index : k <= stable_index
      BY <1>0, <1>5, <1>6, <1>7, <2>1
    <2>5. Len(s.entries) = i' - 1 /\ \A k \in 1..(i' - 1) : s.entries[k] = log[k]
      BY <1>3, <2>4, Zenon
    <2>6. Pending(s)'
      BY <1>0, <1>3, <2>1, <2>4, <2>5 DEF Pending
    <2>7. Pending(ReplayFile(file))'
      BY <1>1, <2>1, <2>6
    <2> QED
      BY <1>4, <2>2, <2>3, <2>7 DEF StorageInv
  <1>8. CASE stable_index < persisted_index
    <2> DEFINE r == Truncate(stable_index + 1)
    <2>e. PICK es : es = SubSeq(s.entries, 1, stable_index)
      BY Zenon
    <2>z. PICK z : z = [term |-> s.term, vote |-> s.vote, entries |-> es, lost |-> FALSE]
      BY Zenon
    <2>1. file' = Append(file, r) /\ persisted_index' = stable_index
      BY <1>8 DEF SaveTruncate, AddRecord
    <2>2. r \in Record /\ r # Torn
      BY <1>5 DEF Record, Truncate, Torn
    <2>3. s.entries \in Seq(Item) /\ stable_index \in 0..Len(s.entries) /\ stable_index <= Len(s.entries)
      BY <1>2, <1>3, <1>5, <1>8 DEF Replayed
    <2>4. /\ es \in Seq(Item) /\ Len(es) = stable_index
          /\ \A k \in 1..stable_index : es[k] = s.entries[k]
      BY <2>3, <2>e, PrefixProperties
    <2>5. ReplayFile(Append(file, r)) = z
      <3>1. DropFrom(s.entries, stable_index + 1) = es
        BY <1>2, <1>5, <2>3, <2>e, DropFromInPlace
      <3>2. stable_index + 1 \in Nat
        BY <1>5
      <3>3. ReplayFile(Append(file, r)) = ReplayRecord(s, r)
        BY <1>1, <1>5, ReplayAppend
      <3>4. ReplayRecord(s, r) =
               [term |-> s.term, vote |-> s.vote,
                entries |-> DropFrom(s.entries, stable_index + 1), lost |-> FALSE]
        BY <1>2, <3>2, ReplayTruncate, Zenon
      <3> QED
        BY <2>z, <3>1, <3>3, <3>4, Zenon
    <2>6. z \in Replayed /\ z.entries = es /\ ~z.lost /\ z.term = s.term /\ z.vote = s.vote
      BY <1>2, <2>4, <2>z DEF Replayed
    <2>7. Later(z, promised)
      BY <1>2, <2>6 DEF Later
    <2> HIDE DEF r
    <2>8. ASSUME NEW k \in 1..stable_index
          PROVE  es[k] = log[k] /\ k \in 1..Len(log)
      <3>1. k \in 1..persisted_index /\ k <= stable_index /\ k \in 1..Len(log)
        BY <1>5, <1>6, <1>8
      <3> QED
        BY <1>3, <2>4, <3>1, Zenon
    <2>9. InPlace(es, 0) /\ IsPrefixOf(es, log)
      BY <1>5, <2>4, <2>8, Zenon DEF InPlace, IsPrefixOf
    <2>10. Sound(Append(file, r), held, promised)
      BY <1>5, <2>5, <2>6, <2>7, <2>9, Zenon DEF Sound
    <2>11. /\ file' \in Seq(Record) /\ synced' \in 0..Len(file')
           /\ Recovers' /\ AllSound(file, synced, held, promised)' /\ Torn \notin Range(file')
      BY <1>0, <2>1, <2>2, <2>10, WriteStep
    <2>12. TypeOK'
      BY <1>0, <2>1, <2>11 DEF StorageInv, TypeOK, Saving
    <2>13. /\ stable_index <= stable_index /\ i' = stable_index + 1 /\ i' - 1 = stable_index
           /\ stable_index + 1 <= i' /\ i' <= Len(log) + 1
      BY <1>0, <1>5, <1>6, <2>1
    <2>14. Len(es) = i' - 1 /\ \A k \in 1..(i' - 1) : es[k] = log[k]
      BY <2>4, <2>8, <2>13, Zenon
    <2>15. Pending(z)'
      BY <1>0, <1>3, <2>1, <2>6, <2>13, <2>14 DEF Pending
    <2>16. Pending(ReplayFile(file))'
      BY <2>1, <2>5, <2>15
    <2> QED
      BY <1>4, <2>11, <2>12, <2>16 DEF StorageInv
  <1> QED
    BY <1>7, <1>8

(* SaveLocked's entry records extend what the file holds towards the log.  *)
LEMMA EntryStep ==
    ASSUME StorageInv, SaveEntry
    PROVE  StorageInv'
  <1>0. /\ pc = "entries" /\ pc \in Saving
        /\ UNCHANGED <<current_term, voted_for, log, stable_index, hard_state_dirty, synced,
                       persisted_index, promised, held>>
    BY DEF SaveEntry, Saving, coreVars
  <1>1. PICK s : s = ReplayFile(file)
    OBVIOUS
  <1>2. s \in Replayed /\ ~s.lost /\ InPlace(s.entries, 0) /\ Later(s, promised) /\ Pending(s)
    BY <1>0, <1>1, WholeReplay
  <1>3. /\ persisted_index <= stable_index /\ persisted_index + 1 <= i /\ i <= Len(log) + 1
        /\ Len(s.entries) = i - 1 /\ \A k \in 1..(i - 1) : s.entries[k] = log[k]
        /\ ~hard_state_dirty /\ s.term = current_term /\ s.vote = voted_for
    BY <1>0, <1>2 DEF Pending
  <1>4. CoreInv'
    BY <1>0 DEF StorageInv, CoreInv, Core
  <1>5. /\ persisted_index \in Nat /\ stable_index \in Nat /\ log \in Seq(Item) /\ i \in Nat
        /\ file \in Seq(Record) /\ log \in held /\ InPlace(log, 0)
    BY DEF StorageInv, TypeOK, CoreInv
  <1>6. Len(log) \in Nat
    BY <1>5, LenProperties
  <1>7. CASE ~(i <= Len(log))
    <2>1. file' = file /\ i' = i /\ pc' = "sync" /\ pc' \in Saving
      BY <1>7 DEF SaveEntry, Goto, LastIndex, Saving
    <2>2. TypeOK'
      BY <1>0, <2>1 DEF StorageInv, TypeOK, Saving
    <2>3. Recovers' /\ AllSound(file, synced, held, promised)' /\ Torn \notin Range(file')
      BY <1>0, <2>1, Zenon DEF StorageInv, Recovers
    <2>4. i = Len(log) + 1
      BY <1>3, <1>5, <1>6, <1>7
    <2>5. Pending(s)'
      BY <1>0, <1>3, <2>1, <2>4 DEF Pending
    <2>6. Pending(ReplayFile(file))'
      BY <1>1, <2>1, <2>5
    <2> QED
      BY <1>4, <2>2, <2>3, <2>6 DEF StorageInv
  <1>8. CASE i <= Len(log)
    <2> DEFINE r == Entry(log[i])
    <2>e. PICK es : es = Append(s.entries, log[i])
      BY Zenon
    <2>z. PICK z : z = [term |-> s.term, vote |-> s.vote, entries |-> es, lost |-> FALSE]
      BY Zenon
    <2>1. file' = Append(file, r) /\ i' = i + 1 /\ pc' = pc
      BY <1>8 DEF SaveEntry, AddRecord, LastIndex
    <2>2. i \in 1..Len(log) /\ log[i] \in Item
      <3>1. i \in 1..Len(log)
        BY <1>3, <1>5, <1>6, <1>8
      <3> QED
        BY <1>5, <3>1, ElementOfSeq
    <2>3. r \in Record /\ r # Torn
      BY <2>2 DEF Record, Entry, Torn
    <2>4. ReplayFile(Append(file, r)) = z
      <3>1. ReplayFile(Append(file, r)) = ReplayRecord(s, r)
        BY <1>1, <1>5, ReplayAppend
      <3>2. ReplayRecord(s, r) = [term |-> s.term, vote |-> s.vote,
                                  entries |-> Append(s.entries, log[i]), lost |-> FALSE]
        BY <1>2, <2>2, ReplayEntry, Zenon
      <3> QED
        BY <2>e, <2>z, <3>1, <3>2, Zenon
    <2>5. s.entries \in Seq(Item)
      BY <1>2 DEF Replayed
    <2>6. /\ es \in Seq(Item) /\ Len(es) = Len(s.entries) + 1 /\ es[Len(s.entries) + 1] = log[i]
          /\ \A k \in 1..Len(s.entries) : es[k] = s.entries[k]
      BY <2>2, <2>5, <2>e, AppendProperties
    <2>7. z \in Replayed /\ z.entries = es /\ ~z.lost /\ z.term = s.term /\ z.vote = s.vote
      BY <1>2, <2>6, <2>z DEF Replayed
    <2>8. Later(z, promised)
      BY <1>2, <2>7 DEF Later
    <2> HIDE DEF r
    <2>9. Len(es) = i /\ Len(s.entries) + 1 = i
      <3>1. Len(es) = Len(s.entries) + 1 /\ Len(s.entries) = i - 1
        BY <1>3, <2>6, Zenon
      <3> QED
        BY <1>5, <3>1
    <2>10. ASSUME NEW k \in 1..i
           PROVE  es[k] = log[k] /\ k \in 1..Len(log)
      <3>1. k \in 1..Len(log) /\ (k # i => k \in 1..(i - 1))
        BY <1>5, <1>6, <1>8
      <3>2. CASE k = i
        BY <2>6, <2>9, <3>1, <3>2, Zenon
      <3>3. CASE k # i
        BY <1>3, <2>6, <3>1, <3>3, Zenon
      <3> QED
        BY <3>2, <3>3
    <2>11. InPlace(es, 0) /\ IsPrefixOf(es, log)
      <3>1. InPlace(es, 0)
        BY <1>5, <2>9, <2>10, Zenon DEF InPlace
      <3>2. IsPrefixOf(es, log)
        BY <1>8, <2>9, <2>10, Zenon DEF IsPrefixOf
      <3> QED
        BY <3>1, <3>2
    <2>12. Sound(Append(file, r), held, promised)
      BY <1>5, <2>4, <2>7, <2>8, <2>11, Zenon DEF Sound
    <2>13. /\ file' \in Seq(Record) /\ synced' \in 0..Len(file')
           /\ Recovers' /\ AllSound(file, synced, held, promised)' /\ Torn \notin Range(file')
      BY <1>0, <2>1, <2>3, <2>12, WriteStep
    <2>14. TypeOK'
      BY <1>0, <2>1, <2>13 DEF StorageInv, TypeOK, Saving
    <2>15. /\ i' - 1 = i /\ persisted_index + 1 <= i' /\ i' <= Len(log) + 1
      BY <1>3, <1>5, <1>6, <1>8, <2>1
    <2>16. Len(es) = i' - 1 /\ \A k \in 1..(i' - 1) : es[k] = log[k]
      BY <2>9, <2>10, <2>15, Zenon
    <2>17. Pending(z)'
      BY <1>0, <1>3, <2>1, <2>7, <2>15, <2>16 DEF Pending
    <2>18. Pending(ReplayFile(file))'
      BY <2>1, <2>4, <2>17
    <2> QED
      BY <1>4, <2>13, <2>14, <2>18 DEF StorageInv
  <1> QED
    BY <1>7, <1>8

(* Once the sync returns the file replays to the node's state, which is    *)
(* what the node may now promise.                                          *)
LEMMA SyncStep ==
    ASSUME StorageInv, SaveSync
    PROVE  StorageInv'
  <1>0. /\ pc = "sync" /\ pc \in Saving /\ pc' = "idle" /\ i' = 0 /\ synced' = Len(file)
        /\ persisted_index' = Len(log) /\ stable_index' = Len(log) /\ held' = {log}
        /\ promised' = [term |-> current_term, vote |-> voted_for, entries |-> log]
        /\ UNCHANGED <<current_term, voted_for, log, hard_state_dirty, file>>
    BY DEF SaveSync, Goto, LastIndex, Saving
  <1>1. PICK s : s = ReplayFile(file)
    OBVIOUS
  <1>2. s \in Replayed /\ ~s.lost /\ InPlace(s.entries, 0) /\ Pending(s)
    BY <1>0, <1>1, WholeReplay
  <1>3. /\ i = Len(log) + 1
        /\ Len(s.entries) = i - 1 /\ \A k \in 1..(i - 1) : s.entries[k] = log[k]
        /\ ~hard_state_dirty /\ s.term = current_term /\ s.vote = voted_for
    BY <1>0, <1>2 DEF Pending
  <1>4. /\ log \in Seq(Item) /\ file \in Seq(Record) /\ InPlace(log, 0)
        /\ current_term \in Nat /\ voted_for \in Voter /\ hard_state_dirty \in BOOLEAN
    BY DEF StorageInv, TypeOK, CoreInv
  <1>5. Len(log) \in Nat /\ Len(file) \in Nat
    BY <1>4, LenProperties
  <1>6. s.entries = log
    <2>1. s.entries \in Seq(Item)
      BY <1>2 DEF Replayed
    <2>2. i - 1 = Len(log)
      BY <1>3, <1>5
    <2> QED
      BY <1>3, <1>4, <2>1, <2>2, SeqEqual
  <1>7. TypeOK'
    <2>1. Len(file) \in 0..Len(file)
      BY <1>5
    <2>2. promised' \in [term : Nat, vote : Voter, entries : Seq(Item)]
      BY <1>0, <1>4
    <2> QED
      BY <1>0, <1>4, <1>5, <2>1, <2>2 DEF TypeOK, Saving
  <1>8. Later(Core, promised)' /\ Later(s, promised')
    BY <1>0, <1>3, <1>4 DEF Later, Core
  <1>9. CoreInv'
    BY <1>0, <1>4, <1>5, <1>8 DEF CoreInv
  <1>10. SubSeq(file, 1, Len(file)) = file
    BY <1>4, SubSeqFull
  <1>11. Recovers'
    BY <1>0, <1>1, <1>3, <1>6, <1>10, Zenon DEF Recovers
  <1>12. AllSound(file, synced, held, promised)'
    <2>1. IsPrefixOf(log, log) /\ log \in {log}
      BY <1>5 DEF IsPrefixOf
    <2>2. Sound(file, {log}, promised')
      BY <1>1, <1>2, <1>6, <1>8, <2>1, Zenon DEF Sound
    <2>3. ASSUME NEW k \in Len(file)..Len(file) PROVE Sound(SubSeq(file, 1, k), {log}, promised')
      <3>1. k = Len(file)
        BY <1>5
      <3> QED
        BY <1>10, <2>2, <3>1, Zenon
    <2>4. AllSound(file, Len(file), {log}, promised')
      BY <2>3, Zenon DEF AllSound
    <2> QED
      BY <1>0, <2>4
  <1>13. Pending(s)'
    BY <1>0, <1>3, <1>6 DEF Pending
  <1>14. Pending(ReplayFile(file))'
    BY <1>0, <1>1, <1>13
  <1>15. pc' \notin Saving
    BY <1>0 DEF Saving
  <1> QED
    BY <1>7, <1>9, <1>11, <1>12, <1>14, <1>15 DEF StorageInv

-----------------------------------------------------------------------------
(* Errors and crashes.                                                     *)

(* A Save that fails without leaving a part of a record behind.            *)
LEMMA FailStep ==
    ASSUME StorageInv, pc \in Saving, Fail, file' = file,
           UNCHANGED <<coreVars, synced, persisted_index, promised, held>>
    PROVE  StorageInv'
  <1>0. /\ i' = 0 /\ pc' = (IF i > persisted_index + 1 THEN "failed" ELSE "idle")
        /\ UNCHANGED <<current_term, voted_for, log, stable_index, hard_state_dirty, synced,
                       persisted_index, promised, held>>
    BY DEF Fail, Goto, coreVars
  <1>1. TypeOK'
    BY <1>0 DEF StorageInv, TypeOK
  <1>2. CoreInv'
    BY <1>0 DEF StorageInv, CoreInv, Core
  <1>3. Recovers' /\ AllSound(file, synced, held, promised)'
    BY <1>0, Zenon DEF StorageInv, Recovers
  <1>4. pc' \notin Saving
    BY <1>0 DEF Saving
  <1>5. ASSUME pc' # "failed" PROVE Pending(ReplayFile(file))'
    <2>1. PICK s : s = ReplayFile(file)
      OBVIOUS
    <2>2. Pending(s)
      BY <2>1, WholeReplay
    <2>3. pc' = "idle" /\ ~(i > persisted_index + 1)
      BY <1>0, <1>5
    <2>4. persisted_index \in Nat /\ i \in Nat /\ stable_index \in Nat
      BY DEF StorageInv, TypeOK
    <2>5. hard_state_dirty \/ (s.term = current_term /\ s.vote = voted_for)
      BY <2>2 DEF Pending
    <2>6. /\ Len(s.entries) = persisted_index
          /\ \A k \in 1..persisted_index : k <= stable_index => s.entries[k] = log[k]
      <3>1. CASE pc \in {"hard_state", "truncate"}
        BY <2>2, <3>1 DEF Pending
      <3>2. CASE pc \in {"entries", "sync"}
        <4>1. /\ persisted_index + 1 <= i /\ Len(s.entries) = i - 1
              /\ \A k \in 1..(i - 1) : s.entries[k] = log[k]
          BY <2>2, <3>2 DEF Pending
        <4>2. i - 1 = persisted_index
          BY <2>3, <2>4, <4>1
        <4> QED
          BY <4>1, <4>2
      <3> QED
        BY <3>1, <3>2 DEF Saving
    <2>7. Pending(s)'
      BY <1>0, <2>3, <2>5, <2>6 DEF Pending
    <2> QED
      BY <2>1, <2>7
  <1> QED
    BY <1>1, <1>2, <1>3, <1>4, <1>5 DEF StorageInv

(* A torn record at the end keeps a file sound.                            *)
LEMMA SoundTorn ==
    ASSUME NEW f \in Seq(Record), NEW H, NEW p, Sound(f, H, p)
    PROVE  Sound(Append(f, Torn), H, p) /\ Torn \in Range(Append(f, Torn))
  <1>1. PICK s : s = ReplayFile(f)
    OBVIOUS
  <1>2. s \in Replayed
    BY <1>1 DEF Sound
  <1>3. PICK z : z = [term |-> s.term, vote |-> s.vote, entries |-> s.entries, lost |-> TRUE]
    BY Zenon
  <1>4. ReplayFile(Append(f, Torn)) = z
    BY <1>1, <1>2, <1>3, ReplayAppend, ReplayTorn
  <1>5. z \in Replayed /\ z.entries = s.entries /\ z.term = s.term /\ z.vote = s.vote
    BY <1>2, <1>3 DEF Replayed
  <1>6. Later(z, p)
    BY <1>1, <1>5, Zenon DEF Sound, Later
  <1>7. Torn \in Range(Append(f, Torn))
    <2>1. Len(Append(f, Torn)) = Len(f) + 1 /\ Append(f, Torn)[Len(f) + 1] = Torn /\ Len(f) \in Nat
      BY LenProperties
    <2>2. Len(f) + 1 \in 1..Len(Append(f, Torn))
      BY <2>1
    <2>3. Torn \in Record /\ Append(f, Torn) \in Seq(Record)
      BY DEF Record
    <2> QED
      BY <2>1, <2>2, <2>3, RangeElements, Zenon
  <1> QED
    BY <1>1, <1>4, <1>5, <1>6, <1>7, Zenon DEF Sound

(* A Save that fails in the middle of a record.                            *)
LEMMA TornStep ==
    ASSUME StorageInv, pc \in Saving, Fail, file' = Append(file, Torn),
           UNCHANGED <<coreVars, synced, persisted_index, promised, held>>
    PROVE  StorageInv'
  <1>0. /\ i' = 0 /\ pc' \in {"failed", "idle"}
        /\ UNCHANGED <<current_term, voted_for, log, stable_index, hard_state_dirty, synced,
                       persisted_index, promised, held>>
    BY DEF Fail, Goto, coreVars
  <1>1. /\ file \in Seq(Record) /\ synced \in 0..Len(file) /\ Torn \in Record
        /\ AllSound(file, synced, held, promised) /\ Recovers
    BY DEF StorageInv, TypeOK, Record
  <1>2. Sound(Append(file, Torn), held, promised) /\ Torn \in Range(Append(file, Torn))
    BY <1>1, SoundWhole, SoundTorn
  <1>3. AllSound(Append(file, Torn), synced, held, promised) /\ synced \in 0..Len(Append(file, Torn))
    BY <1>1, <1>2, AllSoundAppend
  <1>4. /\ Append(file, Torn) \in Seq(Record) /\ Len(Append(file, Torn)) = Len(file) + 1
        /\ \A k \in 1..Len(file) : Append(file, Torn)[k] = file[k]
    BY <1>1, AppendProperties
  <1>5. SubSeq(Append(file, Torn), 1, synced) = SubSeq(file, 1, synced)
    <2>1. Len(file) \in Nat
      BY <1>1, LenProperties
    <2>2. /\ synced \in Nat /\ synced <= Len(file) /\ synced <= Len(Append(file, Torn))
          /\ \A k \in 1..synced : k \in 1..Len(file)
      BY <1>1, <1>4, <2>1
    <2> QED
      BY <1>1, <1>4, <2>2, SamePrefix, Zenon
  <1>6. Recovers'
    BY <1>0, <1>1, <1>5, Zenon DEF Recovers
  <1>7. TypeOK'
    BY <1>0, <1>3, <1>4 DEF StorageInv, TypeOK
  <1>8. CoreInv'
    BY <1>0 DEF StorageInv, CoreInv, Core
  <1>9. pc' \notin Saving
    BY <1>0 DEF Saving
  <1> QED
    BY <1>0, <1>2, <1>3, <1>6, <1>7, <1>8, <1>9 DEF StorageInv

(* A crash anywhere, and the restart from what it left.                    *)
LEMMA RestartStep ==
    ASSUME StorageInv, Restart
    PROVE  StorageInv'
  <1>1. /\ file \in Seq(Record) /\ synced \in 0..Len(file)
        /\ AllSound(file, synced, held, promised) /\ Recovers
        /\ promised \in [term : Nat, vote : Voter, entries : Seq(Item)] /\ held \subseteq Seq(Item)
    BY DEF StorageInv, TypeOK
  <1>2. Len(file) \in Nat
    BY <1>1, LenProperties
  <1>3. PICK n \in synced..Len(file) :
           file' = SubSeq(file, 1, n) \/ file' = Append(SubSeq(file, 1, n), Torn)
    BY Zenon DEF Restart, CrashFiles
  <1> DEFINE g == SubSeq(file, 1, n)
  <1>4. /\ AllSound(g, synced, held, promised) /\ g \in Seq(Record) /\ synced \in 0..Len(g)
        /\ SubSeq(g, 1, synced) = SubSeq(file, 1, synced) /\ Sound(g, held, promised)
    <2>1. Sound(g, held, promised)
      BY <1>1, Zenon DEF AllSound
    <2> QED
      BY <1>1, <2>1, AllSoundPrefix
  <1> HIDE DEF g
  <1>5. /\ AllSound(file', synced, held, promised) /\ file' \in Seq(Record)
        /\ synced \in 0..Len(file') /\ Sound(file', held, promised)
        /\ SubSeq(file', 1, synced) = SubSeq(file, 1, synced)
    <2>1. CASE file' = g
      BY <1>4, <2>1
    <2>2. CASE file' = Append(g, Torn)
      <3>1. Sound(Append(g, Torn), held, promised) /\ Torn \in Record
        BY <1>4, SoundTorn DEF Record
      <3>2. AllSound(Append(g, Torn), synced, held, promised) /\ synced \in 0..Len(Append(g, Torn))
        BY <1>4, <3>1, AllSoundAppend
      <3>3. /\ Append(g, Torn) \in Seq(Record) /\ Len(Append(g, Torn)) = Len(g) + 1
            /\ \A k \in 1..Len(g) : Append(g, Torn)[k] = g[k]
        BY <1>4, <3>1, AppendProperties
      <3>4. SubSeq(Append(g, Torn), 1, synced) = SubSeq(g, 1, synced)
        <4>1. Len(g) \in Nat
          BY <1>4, LenProperties
        <4>2. /\ synced \in Nat /\ synced <= Len(g) /\ synced <= Len(Append(g, Torn))
              /\ \A k \in 1..synced : k \in 1..Len(g)
          BY <1>4, <3>3, <4>1
        <4> QED
          BY <1>4, <3>3, <4>2, SamePrefix, Zenon
      <3> QED
        BY <1>4, <2>2, <3>1, <3>2, <3>3, <3>4, Zenon
    <2> QED
      BY <1>3, <2>1, <2>2 DEF g
  <1>6. PICK s : s = ReplayFile(file')
    OBVIOUS
  <1>7. /\ current_term' = s.term /\ voted_for' = s.vote /\ log' = s.entries
        /\ held' = held \cup {s.entries} /\ stable_index' = Len(s.entries)
        /\ persisted_index' = LastPersisted(s.entries)
        /\ hard_state_dirty' = FALSE /\ i' = 0 /\ pc' = "idle"
        /\ synced' = synced /\ promised' = promised
    BY <1>6 DEF Restart, Goto, LastIndex
  <1>8. s \in Replayed /\ InPlace(s.entries, 0) /\ Later(s, promised)
    BY <1>5, <1>6, Zenon DEF Sound
  <1>9. s.entries \in Seq(Item) /\ s.term \in Nat /\ s.vote \in Voter
    BY <1>8 DEF Replayed
  <1>10. Len(s.entries) \in Nat
    BY <1>9, LenProperties
  <1>11. LastPersisted(s.entries) = Len(s.entries)
    <2>1. CASE s.entries = << >>
      BY <2>1 DEF LastPersisted
    <2>2. CASE s.entries # << >>
      <3>1. Len(s.entries) \in 1..Len(s.entries)
        BY <1>9, <1>10, <2>2, EmptySeq
      <3>2. s.entries[Len(s.entries)].index = 0 + Len(s.entries)
        BY <1>8, <3>1, Zenon DEF InPlace
      <3>3. LastPersisted(s.entries) = s.entries[Len(s.entries)].index
        BY <2>2, Zenon DEF LastPersisted
      <3> QED
        BY <1>10, <3>2, <3>3
    <2> QED
      BY <2>1, <2>2
  <1>12. TypeOK'
    BY <1>1, <1>5, <1>7, <1>9, <1>10, <1>11, Zenon DEF TypeOK
  <1>13. CoreInv'
    <2>1. Later(Core, promised)'
      BY <1>7, <1>8, Zenon DEF Later, Core
    <2>2. Len(s.entries) <= Len(s.entries)
      BY <1>10
    <2> QED
      BY <1>7, <1>8, <2>1, <2>2 DEF CoreInv
  <1>14. Recovers'
    BY <1>1, <1>5, <1>7, Zenon DEF Recovers
  <1>15. AllSound(file, synced, held, promised)'
    <2>1. held \subseteq held'
      BY <1>7
    <2>2. AllSound(file', synced, held', promised)
      BY <1>5, <2>1, AllSoundMore
    <2> QED
      BY <1>7, <2>2
  <1>16. Pending(s)'
    BY <1>7, <1>11 DEF Pending
  <1>17. Pending(ReplayFile(file))'
    BY <1>6, <1>16
  <1>18. pc' \notin Saving
    BY <1>7 DEF Saving
  <1> QED
    BY <1>12, <1>13, <1>14, <1>15, <1>17, <1>18 DEF StorageInv

-----------------------------------------------------------------------------
(* The invariant, and what follows from it.                                *)

(* A node on an empty file recovers the empty state it starts from.        *)
LEMMA StorageInit == Init => StorageInv
  <1> SUFFICES ASSUME Init PROVE StorageInv
    OBVIOUS
  <1>1. /\ current_term = 0 /\ voted_for = None /\ log = << >> /\ stable_index = 0
        /\ hard_state_dirty = FALSE /\ file = << >> /\ synced = 0 /\ persisted_index = 0
        /\ pc = "idle" /\ i = 0 /\ held = {<< >>}
        /\ promised = [term |-> 0, vote |-> None, entries |-> << >>]
    BY DEF Init
  <1>2. << >> \in Seq(Item) /\ << >> \in Seq(Record) /\ Len(<< >>) = 0
    OBVIOUS
  <1>3. TypeOK
    <2>1. None \in Voter /\ 0 \in 0..0 /\ {<< >>} \subseteq Seq(Item)
      BY <1>2 DEF Voter
    <2>2. promised \in [term : Nat, vote : Voter, entries : Seq(Item)]
      BY <1>1, <1>2, <2>1
    <2>3. synced \in 0..Len(file) /\ pc \in Saving \cup {"idle", "failed"} /\ i \in Nat
      BY <1>1, <1>2, <2>1
    <2> QED
      BY <1>1, <1>2, <2>1, <2>2, <2>3, Zenon DEF TypeOK
  <1>4. InPlace(<< >>, 0) /\ IsPrefixOf(<< >>, << >>)
    BY <1>2 DEF InPlace, IsPrefixOf
  <1>5. CoreInv
    BY <1>1, <1>2, <1>4 DEF CoreInv, Later, Core
  <1>6. SubSeq(<< >>, 1, 0) = << >>
    OBVIOUS
  <1>7. Blank \in Replayed /\ Blank.term = 0 /\ Blank.vote = None /\ Blank.entries = << >> /\ ~Blank.lost
    BY <1>2 DEF Blank, Replayed, Voter
  <1>8. Recovers
    BY <1>1, <1>6, <1>7, ReplayEmpty, Zenon DEF Recovers
  <1>9. Sound(<< >>, {<< >>}, promised)
    <2>1. Later(Blank, promised)
      BY <1>1, <1>7 DEF Later
    <2>2. << >> \in {<< >>}
      OBVIOUS
    <2> QED
      BY <1>4, <1>7, <2>1, <2>2, ReplayEmpty, Zenon DEF Sound
  <1>10. AllSound(file, synced, held, promised)
    <2>1. ASSUME NEW k \in 0..0 PROVE SubSeq(<< >>, 1, k) = << >>
      BY <1>6
    <2> QED
      BY <1>1, <1>2, <1>9, <2>1, Zenon DEF AllSound
  <1>11. Pending(Blank)
    <2>1. Len(Blank.entries) = 0
      BY <1>2, <1>7
    <2> QED
      BY <1>1, <1>7, <2>1 DEF Pending
  <1>12. Pending(ReplayFile(file))
    BY <1>1, <1>11, ReplayEmpty
  <1>13. pc \notin Saving
    BY <1>1 DEF Saving
  <1> QED
    BY <1>3, <1>5, <1>8, <1>10, <1>12, <1>13 DEF StorageInv

(* Every step keeps the invariant, provided that nothing is written after  *)
(* a torn record and no failed save is tried again.                        *)
LEMMA StorageNext ==
    ASSUME ~WritesAfterTear, ~RetriesAfterError
    PROVE  StorageInv /\ [Next]_vars => StorageInv'
  <1> SUFFICES ASSUME StorageInv, [Next]_vars PROVE StorageInv'
    OBVIOUS
  <1>1. CASE Campaign \/ NewTerm \/ Grant \/ Propose \/ Replicate \/ RetrySave
    BY <1>1, CallsAreCoreSteps, BeginStep
  <1>2. CASE SaveHardState
    BY <1>2, HardStateStep
  <1>3. CASE SaveTruncate
    BY <1>3, TruncateStep
  <1>4. CASE SaveEntry
    BY <1>4, EntryStep
  <1>5. CASE SaveSync
    BY <1>5, SyncStep
  <1>6. CASE SyncFails
    BY <1>6, FailStep DEF SyncFails, Saving
  <1>7. CASE AppendFails
    <2>1. pc \in Saving
      BY <1>7 DEF AppendFails, Writing, Saving
    <2>2. CASE file' = file
      BY <1>7, <2>1, <2>2, FailStep DEF AppendFails
    <2>3. CASE file' = Append(file, Torn)
      BY <1>7, <2>1, <2>3, TornStep DEF AppendFails
    <2> QED
      BY <1>7, <2>2, <2>3 DEF AppendFails
  <1>8. CASE Restart
    BY <1>8, RestartStep
  <1>9. CASE UNCHANGED vars
    <2>1. UNCHANGED <<current_term, voted_for, log, stable_index, hard_state_dirty, file, synced,
                      persisted_index, pc, i, promised, held>>
      BY <1>9 DEF vars, coreVars, saveVars
    <2> QED
      BY <2>1, Zenon DEF StorageInv, TypeOK, CoreInv, Core, Recovers, Pending
  <1> QED
    BY <1>1, <1>2, <1>3, <1>4, <1>5, <1>6, <1>7, <1>8, <1>9 DEF Next

(* What a crash may leave is sound.                                        *)
LEMMA CrashesAreSound ==
    ASSUME StorageInv, NEW s \in Crashes
    PROVE  /\ s \in Replayed /\ InPlace(s.entries, 0) /\ Later(s, promised)
           /\ \E lg \in held : IsPrefixOf(s.entries, lg)
  <1>1. PICK n \in synced..Len(file) : s = ReplayFile(SubSeq(file, 1, n))
    BY Zenon DEF Crashes
  <1>2. Sound(SubSeq(file, 1, n), held, promised)
    BY Zenon DEF StorageInv, AllSound
  <1> QED
    BY <1>1, <1>2, Zenon DEF Sound

(* Replay returns exactly the state saved last, as long as no torn record  *)
(* is written behind and no half-written save is retried (Save, Open).     *)
THEOREM SavedStaysRecoverable ==
    ASSUME ~WritesAfterTear, ~RetriesAfterError
    PROVE  Spec => []SavedIsRecoverable
  <1>1. StorageInv => SavedIsRecoverable
    <2> SUFFICES ASSUME StorageInv PROVE SavedIsRecoverable
      OBVIOUS
    <2>1. PICK s : s = ReplayFile(SubSeq(file, 1, synced))
      OBVIOUS
    <2>2. s.term = promised.term /\ s.vote = promised.vote /\ s.entries = promised.entries
      BY <2>1 DEF StorageInv, Recovers
    <2>3. promised \in [term : Nat, vote : Voter, entries : Seq(Item)]
      BY DEF StorageInv, TypeOK
    <2>4. [term |-> s.term, vote |-> s.vote, entries |-> s.entries] = promised
      BY <2>2, <2>3
    <2> QED
      BY <2>1, <2>4 DEF SavedIsRecoverable
  <1> QED
    BY <1>1, StorageInit, StorageNext, PTL DEF Spec

(* A crash inside Save leaves a prefix of one of the logs the node has had *)
(* since it saved last, never a mixture of two (the Truncate record).      *)
THEOREM CrashesLeavePrefixes ==
    ASSUME ~WritesAfterTear, ~RetriesAfterError
    PROVE  Spec => []CrashLeavesPrefix
  <1>1. StorageInv => CrashLeavesPrefix
    BY CrashesAreSound, Zenon DEF CrashLeavesPrefix
  <1> QED
    BY <1>1, StorageInit, StorageNext, PTL DEF Spec

(* No crash takes a node back to an older term than it saved, or to        *)
(* another vote in that term (the hard state is written before all else).  *)
THEOREM VotesAreRemembered ==
    ASSUME ~WritesAfterTear, ~RetriesAfterError
    PROVE  Spec => []VoteIsRemembered
  <1>1. StorageInv => VoteIsRemembered
    BY CrashesAreSound DEF VoteIsRemembered, Later
  <1> QED
    BY <1>1, StorageInit, StorageNext, PTL DEF Spec

(* "Entries are in index order starting at 1" (storage.h:53-54), whatever  *)
(* a crash has kept of the file.                                           *)
THEOREM EntriesStayInOrder ==
    ASSUME ~WritesAfterTear, ~RetriesAfterError
    PROVE  Spec => []EntriesInOrder
  <1>1. StorageInv => EntriesInOrder
    BY CrashesAreSound DEF EntriesInOrder
  <1> QED
    BY <1>1, StorageInit, StorageNext, PTL DEF Spec
=============================================================================
