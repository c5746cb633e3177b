------------------------ MODULE ReplicatedDBProofs ------------------------
(***************************************************************************)
(* A single-node ReplicatedDB is a durable key-value store, for every      *)
(* number of keys, values, writes, restarts and crashes.                   *)
(***************************************************************************)
EXTENDS ReplicatedDB, RaftLogFacts

(* Leaves are left to Zenon unless they name another prover.               *)
USE Zenon

-----------------------------------------------------------------------------
(* Replay, record by record.                                               *)

Blank == [term |-> 0, vote |-> None, entries |-> << >>, lost |-> FALSE]

(* st lists the states of the replay of the first n records of f.          *)
Replays(f, n, st) ==
    st = [k \in 0..n |-> IF k = 0 THEN Blank ELSE Store!ReplayRecord(st[k - 1], f[k])]

(* The states of a replay are determined by the records up to each.        *)
LEMMA ReplaysAgree ==
    ASSUME NEW f, NEW g, NEW n \in Nat, NEW m \in Nat, NEW st, NEW tt, n <= m,
           \A k \in 1..n : f[k] = g[k],
           Replays(f, n, st), Replays(g, m, tt)
    PROVE  st[n] = tt[n]
  <1> DEFINE differ == {k \in 0..n : st[k] # tt[k]}
  <1>1. ASSUME NEW k \in 0..n
        PROVE  /\ st[k] = IF k = 0 THEN Blank ELSE Store!ReplayRecord(st[k - 1], f[k])
               /\ tt[k] = IF k = 0 THEN Blank ELSE Store!ReplayRecord(tt[k - 1], g[k])
    <2>1. k \in 0..m
      BY SMT
    <2>2. st[k] = IF k = 0 THEN Blank ELSE Store!ReplayRecord(st[k - 1], f[k])
      BY DEF Replays
    <2>3. tt[k] = IF k = 0 THEN Blank ELSE Store!ReplayRecord(tt[k - 1], g[k])
      BY <2>1 DEF Replays
    <2> QED
      BY <2>2, <2>3, SMT
  <1>2. differ = {}
    <2> SUFFICES ASSUME differ # {} PROVE FALSE
      BY SMT
    <2>1. PICK k \in differ : \A l \in differ : k <= l
      <3>1. differ \subseteq Nat
        BY SMT
      <3> QED
        BY <3>1, MinProperties
    <2>2. k \in 0..n /\ st[k] # tt[k]
      BY SMT
    <2>3. CASE k = 0
      BY <1>1, <2>2, <2>3, SMT
    <2>4. CASE k # 0
      <3>1. k - 1 \in 0..n /\ ~(k <= k - 1) /\ k \in 1..n
        BY <2>2, <2>4, SMT
      <3>2. st[k - 1] = tt[k - 1]
        BY <2>1, <3>1, SMT
      <3>3. f[k] = g[k]
        BY <3>1, SMT
      <3>4. /\ st[k] = Store!ReplayRecord(st[k - 1], f[k])
            /\ tt[k] = Store!ReplayRecord(tt[k - 1], g[k])
        BY <1>1, <2>2, <2>4
      <3> QED
        BY <2>2, <3>2, <3>3, <3>4
    <2> QED
      BY <2>3, <2>4, SMT
  <1>3. n \in 0..n
    BY SMT
  <1> QED
    BY <1>2, <1>3, SMT

(* Every number of records has a replay.                                   *)
LEMMA ReplaysExist ==
    ASSUME NEW f, NEW n \in Nat
    PROVE  \E st : Replays(f, n, st)
  <1> DEFINE none == {k \in Nat : ~\E st : Replays(f, k, st)}
  <1>1. none = {}
    <2> SUFFICES ASSUME none # {} PROVE FALSE
      BY SMT
    <2>1. PICK k \in none : \A l \in none : k <= l
      BY MinProperties
    <2>2. k \in Nat /\ ~\E st : Replays(f, k, st)
      OBVIOUS
    <2> HIDE DEF none
    <2>3. CASE k = 0
      <3> DEFINE st == [l \in 0..0 |-> Blank]
      <3>1. st = [l \in 0..0 |-> IF l = 0 THEN Blank ELSE Store!ReplayRecord(st[l - 1], f[l])]
        BY SMT
      <3> QED
        BY <2>2, <2>3, <3>1 DEF Replays
    <2>4. CASE k # 0
      <3>1. k - 1 \in Nat /\ ~(k <= k - 1)
        BY <2>2, <2>4, SMT
      <3>2. PICK st : Replays(f, k - 1, st)
        BY <2>1, <3>1 DEF none
      <3> DEFINE tt == [l \in 0..k |-> IF l = k THEN Store!ReplayRecord(st[k - 1], f[k]) ELSE st[l]]
      <3>3. ASSUME NEW l \in 0..k
            PROVE  tt[l] = IF l = 0 THEN Blank ELSE Store!ReplayRecord(tt[l - 1], f[l])
        <4>1. CASE l = k
          <5>1. k - 1 \in 0..k /\ k - 1 # k
            BY <2>2, <2>4, SMT
          <5>2. tt[k - 1] = st[k - 1]
            BY <5>1, SMT
          <5>3. tt[l] = Store!ReplayRecord(st[k - 1], f[k])
            BY <4>1, SMT
          <5> QED
            BY <2>4, <4>1, <5>2, <5>3
        <4>2. CASE l # k
          <5>1. l \in 0..(k - 1)
            BY <2>2, <4>2, SMT
          <5>2. tt[l] = st[l]
            BY <4>2, SMT
          <5>3. st[l] = IF l = 0 THEN Blank ELSE Store!ReplayRecord(st[l - 1], f[l])
            BY <3>2, <5>1 DEF Replays
          <5>4. l # 0 => l - 1 \in 0..k /\ l - 1 # k
            BY <2>2, <4>2, SMT
          <5>5. l # 0 => tt[l - 1] = st[l - 1]
            BY <5>4, SMT
          <5> QED
            BY <5>2, <5>3, <5>5
        <4> QED
          BY <4>1, <4>2, SMT
      <3>4. tt = [l \in 0..k |-> IF l = 0 THEN Blank ELSE Store!ReplayRecord(tt[l - 1], f[l])]
        <4>1. \A l \in 0..k : tt[l] = IF l = 0 THEN Blank ELSE Store!ReplayRecord(tt[l - 1], f[l])
          BY <3>3, SMT
        <4>2. tt = [l \in 0..k |-> tt[l]]
          BY SMT
        <4> HIDE DEF tt
        <4> QED
          BY <4>1, <4>2
      <3> QED
        BY <2>2, <3>4 DEF Replays
    <2> QED
      BY <2>3, <2>4, SMT
  <1> QED
    BY <1>1, SMT

(* ReplayFile yields the last state of the replay of the whole file.       *)
LEMMA ReplayFileIs ==
    ASSUME NEW f, Len(f) \in Nat
    PROVE  \E st : Replays(f, Len(f), st) /\ Store!ReplayFile(f) = st[Len(f)]
  <1> DEFINE P(st) == st = [n \in 0..Len(f) |->
                               IF n = 0 THEN [term |-> 0, vote |-> None, entries |-> << >>, lost |-> FALSE]
                               ELSE Store!ReplayRecord(st[n - 1], f[n])]
  <1>1. \E st : P(st)
    BY ReplaysExist DEF Replays, Blank
  <1>2. P(CHOOSE st : P(st))
    BY <1>1
  <1>3. Store!ReplayFile(f) = (CHOOSE st : P(st))[Len(f)]
    BY DEF Store!ReplayFile
  <1> QED
    BY <1>2, <1>3 DEF Replays, Blank

(* Replay handles one record after the other.                              *)
LEMMA ReplayAppend ==
    ASSUME NEW S, NEW f \in Seq(S), NEW r
    PROVE  Store!ReplayFile(Append(f, r)) = Store!ReplayRecord(Store!ReplayFile(f), r)
  <1> DEFINE g == Append(f, r)
             n == Len(f)
  <1>1. n \in Nat /\ Len(g) = n + 1 /\ g[n + 1] = r /\ \A k \in 1..n : g[k] = f[k]
    BY SMT
  <1> HIDE DEF g, n
  <1>2. PICK st : Replays(f, n, st) /\ Store!ReplayFile(f) = st[n]
    BY <1>1, ReplayFileIs DEF n
  <1>3. PICK tt : Replays(g, n + 1, tt) /\ Store!ReplayFile(g) = tt[n + 1]
    BY <1>1, ReplayFileIs, SMT
  <1>4. st[n] = tt[n]
    <2>1. n + 1 \in Nat /\ n <= n + 1 /\ \A k \in 1..n : f[k] = g[k]
      BY <1>1, SMT
    <2> QED
      BY <1>1, <1>2, <1>3, <2>1, ReplaysAgree, SMT
  <1>5. tt[n + 1] = Store!ReplayRecord(tt[n], g[n + 1])
    <2>1. n + 1 \in 0..(n + 1) /\ n + 1 # 0 /\ (n + 1) - 1 = n
      BY <1>1, SMT
    <2>2. tt[n + 1] = IF n + 1 = 0 THEN Blank ELSE Store!ReplayRecord(tt[(n + 1) - 1], g[n + 1])
      BY <1>3, <2>1 DEF Replays
    <2> QED
      BY <2>1, <2>2
  <1> QED
    BY <1>1, <1>2, <1>3, <1>4, <1>5 DEF g

(* An empty file replays to a new node.                                    *)
LEMMA ReplayEmpty == Store!ReplayFile(<< >>) = Blank
  <1>1. Len(<< >>) = 0
    BY SMT
  <1>2. PICK st : Replays(<< >>, 0, st) /\ Store!ReplayFile(<< >>) = st[0]
    BY <1>1, ReplayFileIs, SMT
  <1>3. 0 \in 0..0
    BY SMT
  <1> QED
    BY <1>2, <1>3 DEF Replays

-----------------------------------------------------------------------------
(* Files of a single node: no entry is ever replaced, so there is no       *)
(* Truncate record.                                                        *)

Item == [term : Nat, index : Nat, data : Op]
Record == [tag : {"HardState"}, term : Nat, vote : {Self, None}]
            \cup [tag : {"Entry"}, entry : Item] \cup {Store!Torn}
State == [term : Nat, vote : {Self, None}, entries : Seq(Item), lost : BOOLEAN]

(* What one record does to the replay.                                     *)
LEMMA ReplayStep ==
    ASSUME NEW s \in State, NEW r \in Record, NEW t, t = Store!ReplayRecord(s, r)
    PROVE  /\ t \in State
           /\ s.lost => t = s
           /\ ~s.lost => \/ t.entries = s.entries /\ ~t.lost /\ r.tag = "HardState"
                         \/ t.entries = Append(s.entries, r.entry) /\ ~t.lost /\ r.tag = "Entry"
                         \/ t.entries = s.entries /\ t.lost /\ r = Store!Torn
  <1>1. CASE s.lost
    BY <1>1 DEF Store!ReplayRecord
  <1>2. CASE ~s.lost /\ r \in [tag : {"HardState"}, term : Nat, vote : {Self, None}]
    <2>1. r.tag = "HardState" /\ r.term \in Nat /\ r.vote \in {Self, None}
      BY <1>2, SMT
    <2>2. t = [s EXCEPT !.term = r.term, !.vote = r.vote]
      BY <1>2, <2>1, SMT DEF Store!ReplayRecord
    <2> QED
      BY <1>2, <2>1, <2>2 DEF State
  <1>3. CASE ~s.lost /\ r \in [tag : {"Entry"}, entry : Item]
    <2>1. r.tag = "Entry" /\ r.entry \in Item
      BY <1>3, SMT
    <2>2. t = [s EXCEPT !.entries = Append(s.entries, r.entry)]
      BY <1>3, <2>1, SMT DEF Store!ReplayRecord
    <2>3. s.entries \in Seq(Item) /\ Append(s.entries, r.entry) \in Seq(Item)
      BY <2>1, SMT DEF State
    <2> QED
      BY <1>3, <2>1, <2>2, <2>3 DEF State
  <1>4. CASE ~s.lost /\ r = Store!Torn
    <2>1. t = [s EXCEPT !.lost = TRUE]
      BY <1>4, SMT DEF Store!ReplayRecord, Store!Torn
    <2> QED
      BY <1>4, <2>1 DEF State
  <1> QED
    BY <1>1, <1>2, <1>3, <1>4 DEF Record

(* The state after the first n records of f.                               *)
At(f, n) == Store!ReplayFile(SubSeq(f, 1, n))

(* It follows from the one before.                                         *)
LEMMA AtNext ==
    ASSUME NEW f \in Seq(Record), NEW n \in 1..Len(f)
    PROVE  At(f, n) = Store!ReplayRecord(At(f, n - 1), f[n])
  <1>1. Len(f) \in Nat /\ n - 1 \in 0..Len(f) /\ n \in 0..Len(f) /\ (n - 1) + 1 = n
    BY LenProperties, SMT
  <1>2. PICK g : g = SubSeq(f, 1, n - 1)
    OBVIOUS
  <1>3. g \in Seq(Record) /\ Len(g) = n - 1 /\ \A k \in 1..(n - 1) : g[k] = f[k]
    BY <1>1, <1>2, PrefixProperties, SMT
  <1>4. f[n] \in Record
    BY <1>1, ElementOfSeq, SMT
  <1>5. PICK h : h = Append(g, f[n])
    OBVIOUS
  <1>6. /\ h \in Seq(Record) /\ Len(h) = n
        /\ \A k \in 1..n : h[k] = IF k = n THEN f[n] ELSE g[k]
    <2>1. h \in Seq(Record) /\ Len(h) = Len(g) + 1
      BY <1>3, <1>4, <1>5, AppendProperties, SMT
    <2>2. /\ \A k \in 1..Len(g) : h[k] = g[k]
          /\ h[Len(g) + 1] = f[n]
      BY <1>3, <1>4, <1>5, AppendProperties, SMT
    <2>3. \A k \in 1..n : k \in 1..(n - 1) \/ k = n
      BY SMT
    <2> QED
      BY <1>1, <1>3, <2>1, <2>2, <2>3, SMT
  <1>7. SubSeq(f, 1, n) = h
    <2>1. SubSeq(f, 1, n) \in Seq(Record) /\ Len(SubSeq(f, 1, n)) = n
          /\ \A k \in 1..n : SubSeq(f, 1, n)[k] = f[k]
      BY <1>1, PrefixProperties, SMT
    <2>2. \A k \in 1..n : h[k] = f[k]
      BY <1>1, <1>3, <1>6, SMT
    <2>3. PICK q : q = SubSeq(f, 1, n)
      OBVIOUS
    <2> QED
      BY <1>6, <2>1, <2>2, <2>3, SeqEqual, SMT
  <1> QED
    BY <1>2, <1>3, <1>5, <1>7, ReplayAppend DEF At

(* Nothing is replayed of no records, and the file of all of them.         *)
LEMMA AtEnds ==
    ASSUME NEW f \in Seq(Record)
    PROVE  At(f, 0) = Blank /\ At(f, Len(f)) = Store!ReplayFile(f)
  <1>1. SubSeq(f, 1, 0) = << >> /\ SubSeq(f, 1, Len(f)) = f
    BY SMT
  <1> QED
    BY <1>1, ReplayEmpty DEF At

(* Replaying more records only adds entries, and loses none unless one of  *)
(* the records is torn.                                                    *)
LEMMA AtGrows ==
    ASSUME NEW f \in Seq(Record), NEW n \in 0..Len(f), NEW m \in n..Len(f)
    PROVE  /\ At(f, m) \in State
           /\ IsPrefixOf(At(f, n).entries, At(f, m).entries)
           /\ At(f, m).lost => \E k \in 1..m : f[k] = Store!Torn
  <1>1. Len(f) \in Nat
    BY LenProperties, SMT
  <1>2. Blank \in State /\ ~Blank.lost
    BY SMT DEF Blank, State
  <1> DEFINE Good(k) == At(f, k) \in State /\ (At(f, k).lost => \E l \in 1..k : f[l] = Store!Torn)
             bad == {k \in 0..Len(f) : ~Good(k)}
             less == {k \in n..Len(f) : ~IsPrefixOf(At(f, n).entries, At(f, k).entries)}
  <1>3. ASSUME NEW k \in 1..Len(f)
        PROVE  /\ k - 1 \in 0..Len(f) /\ f[k] \in Record
               /\ At(f, k) = Store!ReplayRecord(At(f, k - 1), f[k])
    BY <1>1, AtNext, ElementOfSeq, SMT
  <1>4. bad = {}
    <2> SUFFICES ASSUME bad # {} PROVE FALSE
      BY SMT
    <2>1. PICK k \in bad : \A l \in bad : k <= l
      <3>1. bad \subseteq Nat
        BY <1>1, SMT
      <3> QED
        BY <3>1, MinProperties
    <2>2. k \in 0..Len(f) /\ ~Good(k)
      OBVIOUS
    <2>3. k # 0
      BY <1>2, <2>2, AtEnds
    <2>4. k \in 1..Len(f) /\ ~(k <= k - 1) /\ k - 1 \in 0..Len(f)
      BY <1>1, <2>2, <2>3, SMT
    <2>5. /\ At(f, k - 1) \in State
          /\ At(f, k - 1).lost => \E l \in 1..(k - 1) : f[l] = Store!Torn
      BY <2>1, <2>4
    <2>6. /\ At(f, k) \in State
          /\ At(f, k).lost => At(f, k - 1).lost \/ f[k] = Store!Torn
      <3>1. PICK x, r : x = At(f, k - 1) /\ r = f[k]
        OBVIOUS
      <3>2. x \in State /\ r \in Record /\ At(f, k) = Store!ReplayRecord(x, r)
        BY <1>3, <2>4, <2>5, <3>1
      <3>3. PICK y : y = At(f, k)
        OBVIOUS
      <3>4. y \in State /\ (y.lost => x.lost \/ r = Store!Torn)
        BY <3>2, <3>3, ReplayStep
      <3> QED
        BY <3>1, <3>3, <3>4
    <2>7. \A l \in 1..(k - 1) : l \in 1..k
      BY <2>4, SMT
    <2>8. k \in 1..k
      BY <2>4, SMT
    <2> QED
      BY <2>2, <2>5, <2>6, <2>7, <2>8
  <1>5. \A k \in 0..Len(f) : Good(k)
    BY <1>4
  <1>6. less = {}
    <2> SUFFICES ASSUME less # {} PROVE FALSE
      BY SMT
    <2>1. PICK k \in less : \A l \in less : k <= l
      <3>1. less \subseteq Nat
        BY <1>1, SMT
      <3> QED
        BY <3>1, MinProperties
    <2>2. k \in n..Len(f) /\ ~IsPrefixOf(At(f, n).entries, At(f, k).entries)
      OBVIOUS
    <2>3. ASSUME NEW l \in 0..Len(f) PROVE At(f, l).entries \in Seq(Item)
      BY <1>5, SMT DEF State
    <2>4. k # n
      <3>1. Len(At(f, n).entries) \in Nat
        BY <2>3, LenProperties, SMT
      <3>2. IsPrefixOf(At(f, n).entries, At(f, n).entries)
        BY <3>1, SMT DEF IsPrefixOf
      <3> QED
        BY <2>2, <3>2
    <2>5. k - 1 \in n..Len(f) /\ ~(k <= k - 1) /\ k \in 1..Len(f) /\ k - 1 \in 0..Len(f)
      BY <1>1, <2>2, <2>4, SMT
    <2>6. IsPrefixOf(At(f, n).entries, At(f, k - 1).entries)
      BY <2>1, <2>5
    <2>7. \/ At(f, k).entries = At(f, k - 1).entries
          \/ At(f, k).entries = Append(At(f, k - 1).entries, f[k].entry)
      <3>1. PICK x, r : x = At(f, k - 1) /\ r = f[k]
        OBVIOUS
      <3>2. x \in State /\ r \in Record /\ At(f, k) = Store!ReplayRecord(x, r)
        BY <1>3, <1>5, <2>5, <3>1
      <3> QED
        BY <3>1, <3>2, ReplayStep
    <2>8. PICK a, b : a = At(f, n).entries /\ b = At(f, k - 1).entries
      OBVIOUS
    <2>9. a \in Seq(Item) /\ b \in Seq(Item)
      BY <2>3, <2>5, <2>8
    <2>10. IsPrefixOf(a, Append(b, f[k].entry))
      BY <2>6, <2>8, <2>9, SMT DEF IsPrefixOf
    <2> QED
      BY <2>2, <2>6, <2>7, <2>8, <2>10
  <1>7. m \in 0..Len(f)
    BY <1>1, SMT
  <1> QED
    BY <1>5, <1>6, <1>7

-----------------------------------------------------------------------------
(* The entries of a log and the writes they stand for.  Entry a is write   *)
(* w[a]; the writes in `h` have ended, and one more, p, is in progress     *)
(* unless p is None: it is entry n, if that is there yet.                  *)

Call == [op : Op, acked : BOOLEAN]

Numbered(w, es, h, p, n) ==
    /\ \A a, b \in 1..Len(es) : a < b => w[a] < w[b]
    /\ \A a \in 1..Len(es) :
          \/ p # None /\ a = n /\ w[a] = Len(h) + 1
          \/ (p = None \/ a # n) /\ w[a] \in 1..Len(h) /\ es[a].data = h[w[a]].op

(* The acknowledged ones are among the first n entries.                    *)
Kept(w, h, n) == \A m \in 1..Len(h) : h[m].acked => \E a \in 1..n : w[a] = m

(* A shorter log has the same numbers.                                     *)
LEMMA NumberedPrefix ==
    ASSUME NEW w, NEW es \in Seq(Item), NEW fs \in Seq(Item), NEW h, NEW p, NEW n,
           IsPrefixOf(fs, es), Numbered(w, es, h, p, n)
    PROVE  Numbered(w, fs, h, p, n)
  <1>1. Len(es) \in Nat /\ Len(fs) \in Nat
    BY LenProperties, SMT
  <1>2. \A a \in 1..Len(fs) : a \in 1..Len(es) /\ fs[a] = es[a]
    BY <1>1, SMT DEF IsPrefixOf
  <1>3. \A a, b \in 1..Len(fs) : a < b => w[a] < w[b]
    BY <1>2 DEF Numbered
  <1>4. ASSUME NEW a \in 1..Len(fs)
        PROVE  \/ p # None /\ a = n /\ w[a] = Len(h) + 1
               \/ (p = None \/ a # n) /\ w[a] \in 1..Len(h) /\ fs[a].data = h[w[a]].op
    BY <1>2 DEF Numbered
  <1> QED
    BY <1>3, <1>4 DEF Numbered

(* The write in progress ends.                                             *)
LEMMA NumberedAnswer ==
    ASSUME NEW w, NEW es, Len(es) \in Nat, NEW h \in Seq(Call), NEW p \in Op, NEW n \in Nat, NEW d \in Nat,
           NEW acked \in BOOLEAN, p # None,
           n \in 1..Len(es) => es[n].data = p,
           acked => n \in 1..d /\ n \in 1..Len(es),
           Numbered(w, es, h, p, n), Kept(w, h, d)
    PROVE  LET h2 == Append(h, [op |-> p, acked |-> acked])
           IN  Numbered(w, es, h2, None, n) /\ Kept(w, h2, d)
  <1>1. PICK h2 : h2 = Append(h, [op |-> p, acked |-> acked])
    OBVIOUS
  <1>2. PICK l \in Nat : l = Len(h)
    BY LenProperties, SMT
  <1>3. /\ Len(h2) = l + 1 /\ h2[l + 1].op = p /\ h2[l + 1].acked = acked
        /\ \A m \in 1..l : h2[m] = h[m]
    <2>1. [op |-> p, acked |-> acked] \in Call
      BY SMT DEF Call
    <2>2. /\ Len(h2) = l + 1 /\ h2[l + 1] = [op |-> p, acked |-> acked]
          /\ \A m \in 1..l : h2[m] = h[m]
      BY <1>1, <1>2, <2>1, AppendProperties, SMT
    <2> QED
      BY <2>2, SMT
  <1>4. ASSUME NEW a \in 1..Len(es)
        PROVE  w[a] \in 1..Len(h2) /\ es[a].data = h2[w[a]].op
    <2>1. CASE a = n /\ w[a] = l + 1
      <3>1. l + 1 \in 1..(l + 1)
        BY SMT
      <3> QED
        BY <1>3, <2>1, <3>1
    <2>2. CASE w[a] \in 1..l /\ es[a].data = h[w[a]].op
      <3>1. w[a] \in 1..(l + 1)
        BY <2>2, SMT
      <3> QED
        BY <1>3, <2>2, <3>1
    <2> QED
      BY <1>2, <2>1, <2>2 DEF Numbered
  <1>5. Numbered(w, es, h2, None, n)
    BY <1>4 DEF Numbered
  <1>6. ASSUME NEW m \in 1..Len(h2), h2[m].acked
        PROVE  \E a \in 1..d : w[a] = m
    <2>1. m \in 1..l \/ m = l + 1
      BY <1>3, SMT
    <2>2. CASE m \in 1..l
      BY <1>2, <1>3, <1>6, <2>2 DEF Kept
    <2>3. CASE m = l + 1
      <3>1. n \in 1..d /\ n \in 1..Len(es)
        BY <1>3, <1>6, <2>3, SMT
      <3>2. w[n] = l + 1
        BY <1>2, <3>1, NoneAssumption DEF Numbered
      <3> QED
        BY <2>3, <3>1, <3>2
    <2> QED
      BY <2>1, <2>2, <2>3, SMT
  <1>7. Kept(w, h2, d)
    BY <1>6 DEF Kept
  <1> QED
    BY <1>1, <1>5, <1>7

(* The entry of the write in progress is appended.                         *)
LEMMA NumberedEntry ==
    ASSUME NEW w, NEW es \in Seq(Item), NEW e \in Item, NEW h \in Seq(Call), NEW p,
           NEW d \in 0..Len(es), p # None,
           Numbered(w, es, h, p, Len(es) + 1), Kept(w, h, d)
    PROVE  \E w2 : Numbered(w2, Append(es, e), h, p, Len(es) + 1) /\ Kept(w2, h, d)
  <1>1. PICK n \in Nat, l \in Nat : n = Len(es) /\ l = Len(h)
    BY LenProperties, SMT
  <1>2. PICK fs : fs = Append(es, e)
    OBVIOUS
  <1>3. Len(fs) = n + 1 /\ \A a \in 1..n : fs[a] = es[a]
    BY <1>1, <1>2, AppendProperties, SMT
  <1> DEFINE w2 == [a \in 1..(n + 1) |-> IF a = n + 1 THEN l + 1 ELSE w[a]]
  <1>4. \A a \in 1..n : a \in 1..(n + 1) /\ a # n + 1 /\ w2[a] = w[a]
    BY SMT
  <1>5. n + 1 \in 1..(n + 1) /\ w2[n + 1] = l + 1
    BY SMT
  <1>6. \A a \in 1..(n + 1) : a \in 1..n \/ a = n + 1
    BY SMT
  <1> HIDE DEF w2
  <1>7. \A a \in 1..n : w[a] \in 1..l /\ es[a].data = h[w[a]].op
    BY <1>1, <1>4 DEF Numbered
  <1>8. ASSUME NEW a \in 1..(n + 1), NEW b \in 1..(n + 1), a < b PROVE w2[a] < w2[b]
    <2>1. a \in 1..n
      BY <1>8, SMT
    <2>2. CASE b \in 1..n
      <3>1. w[a] < w[b]
        BY <1>1, <1>8, <2>1, <2>2 DEF Numbered
      <3> QED
        BY <1>4, <2>1, <2>2, <3>1
    <2>3. CASE b = n + 1
      <3>1. w[a] \in 1..l /\ w2[a] = w[a] /\ w2[b] = l + 1
        BY <1>4, <1>5, <1>7, <2>1, <2>3
      <3> QED
        BY <3>1, SMT
    <2> QED
      BY <1>6, <2>2, <2>3
  <1>9. ASSUME NEW a \in 1..(n + 1)
        PROVE  \/ p # None /\ a = n + 1 /\ w2[a] = l + 1
               \/ (p = None \/ a # n + 1) /\ w2[a] \in 1..l /\ fs[a].data = h[w2[a]].op
    <2>1. CASE a = n + 1
      BY <1>5, <2>1
    <2>2. CASE a \in 1..n
      BY <1>3, <1>4, <1>7, <2>2
    <2> QED
      BY <1>6, <2>1, <2>2
  <1>10. Numbered(w2, fs, h, p, n + 1)
    BY <1>1, <1>3, <1>8, <1>9 DEF Numbered
  <1>11. Kept(w2, h, d)
    <2>1. \A a \in 1..d : a \in 1..n
      BY <1>1, SMT
    <2> QED
      BY <1>4, <2>1 DEF Kept
  <1> QED
    BY <1>1, <1>2, <1>10, <1>11

(* What is kept in a short log is kept in a longer one.                    *)
LEMMA KeptMore ==
    ASSUME NEW w, NEW h, NEW n \in Nat, NEW m \in Nat, n <= m, Kept(w, h, n)
    PROVE  Kept(w, h, m)
  <1>1. \A a \in 1..n : a \in 1..m
    BY SMT
  <1> QED
    BY <1>1 DEF Kept

-----------------------------------------------------------------------------
(* The invariant.                                                          *)

Saved == Store!ReplayFile(file).entries       \* what is in the file
Durable == At(file, synced).entries           \* what of it no crash takes away
InSave == {"hard_state", "truncate", "entries", "sync"}

(* The object at work still knows what is in the file.  Otherwise there is *)
(* none, or its last save failed after it had written an entry.            *)
Live == pc \in InSave \/ (open /\ pc = "idle")

(* The entries that were in the log before the write in progress.          *)
Base == IF pending = None THEN Len(log) ELSE Len(log) - 1

TypeInv ==
    /\ log \in Seq(Item) /\ current_term \in Nat /\ voted_for \in {Self, None}
    /\ file \in Seq(Record) /\ synced \in 0..Len(file)
    /\ pc \in InSave \cup {"idle", "failed"} /\ i \in Nat
    /\ pending \in Op \cup {None} /\ history \in Seq(Call)
    /\ opens \in Nat /\ open \in BOOLEAN

(* How log, file and marks fit together, at every step of a save.          *)
Tracked ==
    /\ InPlace(log, 0)
    /\ stable_index = Base /\ persisted_index = Base
    /\ IsPrefixOf(Saved, log)
    /\ Len(Saved) = IF pc \in {"entries", "sync"} THEN i - 1 ELSE Base
    /\ pc \in {"entries", "sync"} => i \in (Base + 1)..(Len(log) + 1)
    /\ pc = "sync" => i = Len(log) + 1
    /\ pending # None => /\ Len(log) >= 1 /\ log[Len(log)].data = pending
                         /\ ~Store!ReplayFile(file).lost

(* The table has everything up to Base.  commit_index is 0 from Open to    *)
(* the first write, so that applied_index goes back to 0 meanwhile.        *)
Shown ==
    /\ Written(table, Nothing, log, 0, Base)
    /\ applied_index \in 0..Base
    /\ commit_index \in {0, Len(log)}
    /\ pending # None => commit_index = Len(log)
    /\ ~open => commit_index = 0

DBInv ==
    /\ TypeInv
    /\ pending # None => open /\ pc \in InSave
    /\ open => opens > 0
    /\ pc \in InSave => opens > 0
    /\ InPlace(Saved, 0)
    /\ \E w : Numbered(w, Saved, history, pending, Len(log)) /\ Kept(w, history, Len(Durable))
    /\ Live => Tracked /\ Shown

(* What the types say of the file.                                         *)
LEMMA FileFacts ==
    ASSUME file \in Seq(Record), synced \in 0..Len(file)
    PROVE  /\ Store!ReplayFile(file) \in State /\ Saved \in Seq(Item) /\ Durable \in Seq(Item)
           /\ Len(Saved) \in Nat /\ Len(Durable) \in Nat /\ Len(Durable) <= Len(Saved)
           /\ Store!ReplayFile(file).lost => Store!Torn \in Range(file)
  <1>1. Len(file) \in Nat /\ Len(file) \in synced..Len(file) /\ synced \in synced..Len(file)
    BY LenProperties, SMT
  <1>2. /\ At(file, Len(file)) \in State /\ At(file, synced) \in State
        /\ IsPrefixOf(At(file, synced).entries, At(file, Len(file)).entries)
        /\ At(file, Len(file)).lost => \E k \in 1..Len(file) : file[k] = Store!Torn
    BY <1>1, AtGrows
  <1>3. At(file, Len(file)) = Store!ReplayFile(file)
    BY AtEnds, SMT
  <1>4. Store!ReplayFile(file) \in State /\ Saved \in Seq(Item) /\ Durable \in Seq(Item)
    BY <1>2, <1>3, SMT DEF State, Saved, Durable
  <1>5. Len(Durable) <= Len(Saved)
    BY <1>2, <1>3 DEF IsPrefixOf, Saved, Durable
  <1>6. Store!ReplayFile(file).lost => Store!Torn \in Range(file)
    BY <1>2, <1>3, RangeElements
  <1> QED
    BY <1>4, <1>5, <1>6, LenProperties, SMT

(* A record is added to the file.                                          *)
LEMMA FileAppend ==
    ASSUME file \in Seq(Record), synced \in 0..Len(file), NEW r \in Record,
           file' = Append(file, r), synced' = synced
    PROVE  /\ file' \in Seq(Record) /\ synced' \in 0..Len(file')
           /\ Durable' = Durable
           /\ Store!ReplayFile(file') = Store!ReplayRecord(Store!ReplayFile(file), r)
  <1>1. PICK n \in Nat : n = Len(file)
    BY LenProperties, SMT
  <1>2. PICK g : g = Append(file, r)
    BY SMT
  <1>3. g \in Seq(Record) /\ Len(g) = n + 1 /\ \A k \in 1..n : g[k] = file[k]
    BY <1>1, <1>2, AppendProperties, SMT
  <1>4. PICK m \in Nat : m = synced /\ m <= n /\ m <= n + 1
    BY <1>1, SMT
  <1>5. SubSeq(g, 1, m) = SubSeq(file, 1, m)
    <2>1. m <= Len(g) /\ m <= Len(file) /\ \A k \in 1..m : g[k] = file[k]
      BY <1>1, <1>3, <1>4, SMT
    <2> QED
      BY <1>3, <2>1, SamePrefix, SMT
  <1>6. Durable' = Durable
    BY <1>2, <1>4, <1>5 DEF Durable, At
  <1>7. Store!ReplayFile(file') = Store!ReplayRecord(Store!ReplayFile(file), r)
    BY ReplayAppend
  <1>8. synced' \in 0..Len(file')
    BY <1>2, <1>3, <1>4, SMT
  <1> QED
    BY <1>2, <1>3, <1>6, <1>7, <1>8

-----------------------------------------------------------------------------
(* The steps.                                                              *)

(* A step of a save that leaves the entries in the file as they are.       *)
LEMMA QuietStep ==
    ASSUME DBInv, Live,
           UNCHANGED <<log, history, pending, table, applied_index, commit_index, open, opens,
                       current_term, voted_for, stable_index, persisted_index>>,
           file' \in Seq(Record), synced' \in 0..Len(file'), Saved' = Saved, Durable' = Durable,
           Store!ReplayFile(file').lost => Store!ReplayFile(file).lost,
           pc' \in InSave, i' \in Nat, opens > 0,
           Len(Saved) = IF pc' \in {"entries", "sync"} THEN i' - 1 ELSE Base,
           pc' \in {"entries", "sync"} => i' \in (Base + 1)..(Len(log) + 1),
           pc' = "sync" => i' = Len(log) + 1
    PROVE  DBInv'
  <1>1. TypeInv'
    BY DEF DBInv, TypeInv
  <1>2. /\ pending' # None => open' /\ pc' \in InSave
        /\ open' => opens' > 0
        /\ pc' \in InSave => opens' > 0
    BY DEF DBInv
  <1>3. InPlace(Saved', 0)
    BY DEF DBInv
  <1>4. \E w : Numbered(w, Saved', history', pending', Len(log')) /\ Kept(w, history', Len(Durable'))
    BY DEF DBInv
  <1>5. Base' = Base
    BY DEF Base
  <1>6. Tracked /\ Shown
    BY DEF DBInv
  <1>7. Tracked'
    BY <1>5, <1>6 DEF Tracked
  <1>8. Shown'
    BY <1>5, <1>6 DEF Shown
  <1> QED
    BY <1>1, <1>2, <1>3, <1>4, <1>7, <1>8 DEF DBInv

(* Sync is called.                                                         *)
LEMMA SyncCallStep ==
    ASSUME DBInv, ~RetriesAfterError, Sync
    PROVE  DBInv'
  <1>1. /\ open /\ pc = "idle" /\ pc' = "hard_state"
        /\ UNCHANGED <<coreVars, file, synced, persisted_index, i, dbVars>>
    BY DEF Sync, Store!Ready
  <1>2. Live
    BY <1>1 DEF Live
  <1>3. Saved' = Saved /\ Durable' = Durable
    BY <1>1 DEF Saved, Durable, At
  <1>4. opens > 0 /\ pc' \in InSave /\ i' \in Nat
    BY <1>1 DEF DBInv, TypeInv, InSave
  <1>5. Len(Saved) = Base
    BY <1>1, <1>2, SMT DEF DBInv, Tracked
  <1>6. file' \in Seq(Record) /\ synced' \in 0..Len(file')
    BY <1>1 DEF DBInv, TypeInv
  <1>7. pc' # "entries" /\ pc' # "sync"
    BY <1>1, SMT
  <1> QED
    BY <1>1, <1>2, <1>3, <1>4, <1>5, <1>6, <1>7, QuietStep DEF coreVars, dbVars

(* SaveHardState adds no entry.                                            *)
LEMMA HardStateStep ==
    ASSUME DBInv, Store!SaveHardState, UNCHANGED <<commit_index, dbVars>>
    PROVE  DBInv'
  <1>1. /\ pc = "hard_state" /\ pc' = "truncate"
        /\ file' = file \/ file' = Append(file, Store!HardState(current_term, voted_for))
        /\ UNCHANGED <<current_term, voted_for, log, stable_index, synced, persisted_index, i>>
    BY DEF Store!SaveHardState, Store!AddRecord, Store!Goto
  <1>2. Live /\ pc \in InSave /\ pc' \in InSave
    BY <1>1 DEF Live, InSave
  <1>3. file \in Seq(Record) /\ synced \in 0..Len(file)
    BY DEF DBInv, TypeInv
  <1>4. /\ file' \in Seq(Record) /\ synced' \in 0..Len(file')
        /\ Saved' = Saved /\ Durable' = Durable
        /\ Store!ReplayFile(file').lost => Store!ReplayFile(file).lost
    <2>1. CASE file' = file
      BY <1>1, <1>3, <2>1 DEF Saved, Durable, At
    <2>2. CASE file' = Append(file, Store!HardState(current_term, voted_for))
      <3>1. PICK r : r = Store!HardState(current_term, voted_for)
        BY SMT
      <3>2. r \in Record /\ r.tag = "HardState" /\ r # Store!Torn
        <4>1. current_term \in Nat /\ voted_for \in {Self, None}
          BY DEF DBInv, TypeInv
        <4>2. r = [tag |-> "HardState", term |-> current_term, vote |-> voted_for]
          BY <3>1 DEF Store!HardState
        <4>3. r \in Record /\ r.tag = "HardState"
          BY <4>1, <4>2, SMT DEF Record
        <4>4. Store!Torn.tag = "Torn"
          BY SMT DEF Store!Torn
        <4> QED
          BY <4>3, <4>4, SMT
      <3>3. /\ file' \in Seq(Record) /\ synced' \in 0..Len(file') /\ Durable' = Durable
            /\ Store!ReplayFile(file') = Store!ReplayRecord(Store!ReplayFile(file), r)
        BY <1>1, <1>3, <2>2, <3>1, <3>2, FileAppend
      <3>4. PICK x, y : x = Store!ReplayFile(file) /\ y = Store!ReplayFile(file')
        OBVIOUS
      <3>5. x \in State /\ y = Store!ReplayRecord(x, r)
        BY <1>3, <3>3, <3>4, FileFacts
      <3>6. y.entries = x.entries /\ (y.lost => x.lost)
        <4>1. CASE x.lost
          <5>1. y = x
            BY <3>2, <3>5, <4>1, ReplayStep
          <5> QED
            BY <4>1, <5>1
        <4>2. CASE ~x.lost
          BY <3>2, <3>5, <4>2, ReplayStep, SMT
        <4> QED
          BY <4>1, <4>2, SMT
      <3> QED
        BY <3>3, <3>4, <3>6 DEF Saved
    <2> QED
      BY <1>1, <2>1, <2>2, SMT
  <1>5. opens > 0 /\ i' \in Nat
    BY <1>1, <1>2 DEF DBInv, TypeInv
  <1>6. pc' # "entries" /\ pc' # "sync" /\ pc # "entries" /\ pc # "sync"
    BY <1>1, SMT
  <1>7. Len(Saved) = Base
    BY <1>2, <1>6 DEF DBInv, Tracked
  <1> QED
    BY <1>1, <1>2, <1>4, <1>5, <1>6, <1>7, QuietStep DEF dbVars

(* SaveTruncate finds nothing to drop.                                     *)
LEMMA TruncateStep ==
    ASSUME DBInv, Store!SaveTruncate, UNCHANGED <<commit_index, dbVars>>
    PROVE  DBInv'
  <1>1. pc = "truncate" /\ pc' = "entries"
    BY DEF Store!SaveTruncate, Store!Goto
  <1>2. Live /\ pc \in InSave /\ pc' \in InSave /\ pc # "entries" /\ pc # "sync"
    BY <1>1, SMT DEF Live, InSave
  <1>3. Tracked /\ TypeInv /\ opens > 0
    BY <1>2 DEF DBInv
  <1>4. PICK n \in Nat : n = Len(log)
    BY <1>3, LenProperties, SMT DEF TypeInv
  <1>5. Base \in Nat /\ Base <= n
    BY <1>3, <1>4, SMT DEF Tracked, Base
  <1>6. ~(stable_index < persisted_index)
    BY <1>3, <1>5, SMT DEF Tracked
  <1>7. /\ i' = persisted_index + 1
        /\ UNCHANGED <<file, persisted_index, synced>>
        /\ UNCHANGED <<current_term, voted_for, log, stable_index>>
    BY <1>6 DEF Store!SaveTruncate, Store!coreVars
  <1>8. i' = Base + 1 /\ i' \in Nat /\ i' \in (Base + 1)..(n + 1) /\ i' - 1 = Base
    BY <1>3, <1>5, <1>7, SMT DEF Tracked
  <1>9. Len(Saved) = Base
    BY <1>2, <1>3 DEF Tracked
  <1>10. Saved' = Saved /\ Durable' = Durable
    BY <1>7 DEF Saved, Durable, At
  <1>11. file' \in Seq(Record) /\ synced' \in 0..Len(file') /\ pc' # "sync"
    BY <1>1, <1>3, <1>7, SMT DEF TypeInv
  <1> QED
    BY <1>1, <1>2, <1>3, <1>4, <1>7, <1>8, <1>9, <1>10, <1>11, QuietStep DEF dbVars

(* SaveEntry writes the entry of the write in progress, the only one that  *)
(* can be missing, or is done.                                             *)
LEMMA EntryStep ==
    ASSUME DBInv, Store!SaveEntry, UNCHANGED <<commit_index, dbVars>>
    PROVE  DBInv'
  <1>1. pc = "entries" /\ UNCHANGED <<current_term, voted_for, log, stable_index, synced, persisted_index>>
    BY DEF Store!SaveEntry, Store!coreVars
  <1>2. Live /\ pc \in InSave
    BY <1>1 DEF Live, InSave
  <1>3. Tracked /\ Shown /\ TypeInv /\ opens > 0
    BY <1>2 DEF DBInv
  <1>4. PICK n \in Nat : n = Len(log)
    BY <1>3, LenProperties, SMT DEF TypeInv
  <1>5. Base \in Nat /\ Base <= n /\ (pending = None => Base = n) /\ (pending # None => Base = n - 1)
    BY <1>3, <1>4, SMT DEF Tracked, Base
  <1>6. i \in (Base + 1)..(n + 1) /\ Len(Saved) = i - 1
    BY <1>1, <1>3, <1>4, SMT DEF Tracked
  <1>7. file \in Seq(Record) /\ synced \in 0..Len(file)
    BY <1>3 DEF TypeInv
  <1>8. CASE i > n
    <2>1. pc' = "sync" /\ file' = file /\ i' = i
      <3>1. ~(i <= Store!LastIndex(log))
        BY <1>4, <1>6, <1>8, SMT DEF Store!LastIndex
      <3> QED
        BY <3>1 DEF Store!SaveEntry, Store!Goto
    <2>2. i = n + 1 /\ i \in Nat
      BY <1>5, <1>6, <1>8, SMT
    <2>3. Saved' = Saved /\ Durable' = Durable
      BY <1>1, <2>1 DEF Saved, Durable, At
    <2>4. pc' \in InSave
      BY <2>1, SMT DEF InSave
    <2> QED
      BY <1>1, <1>2, <1>3, <1>4, <1>6, <1>7, <2>1, <2>2, <2>3, <2>4, QuietStep DEF dbVars
  <1>9. CASE i <= n
    <2>1. pending # None /\ i = n /\ Base = n - 1 /\ n >= 1
      BY <1>5, <1>6, <1>9, SMT
    <2>2. pc' = "entries" /\ file' = Append(file, Store!Entry(log[n])) /\ i' = n + 1
      <3>1. i <= Store!LastIndex(log)
        BY <1>4, <1>9, SMT DEF Store!LastIndex
      <3> QED
        BY <1>1, <2>1, <3>1 DEF Store!SaveEntry, Store!AddRecord
    <2>3. log[n] \in Item /\ log[n].index = n
      <3>1. n \in 1..Len(log) /\ log \in Seq(Item)
        BY <1>3, <1>4, <2>1, SMT DEF TypeInv
      <3>2. log[n] \in Item
        BY <3>1, ElementOfSeq, SMT
      <3>3. log[n].index = 0 + n
        BY <1>3, <3>1 DEF Tracked, InPlace
      <3> QED
        BY <3>2, <3>3, SMT
    <2>4. PICK r : r = Store!Entry(log[n])
      BY SMT
    <2>5. r \in Record /\ r.tag = "Entry" /\ r.entry = log[n] /\ r # Store!Torn
      <3>1. r = [tag |-> "Entry", entry |-> log[n]]
        BY <2>4 DEF Store!Entry
      <3>2. Store!Torn.tag = "Torn"
        BY SMT DEF Store!Torn
      <3> QED
        BY <2>3, <3>1, <3>2, SMT DEF Record
    <2>6. /\ file' \in Seq(Record) /\ synced' \in 0..Len(file') /\ Durable' = Durable
          /\ Store!ReplayFile(file') = Store!ReplayRecord(Store!ReplayFile(file), r)
      BY <1>1, <1>7, <2>2, <2>4, <2>5, FileAppend
    <2>7. /\ Saved' = Append(Saved, log[n])
          /\ ~Store!ReplayFile(file').lost
      <3>1. PICK x, y : x = Store!ReplayFile(file) /\ y = Store!ReplayFile(file')
        OBVIOUS
      <3>2. x \in State /\ y = Store!ReplayRecord(x, r) /\ ~x.lost
        BY <1>3, <1>7, <2>1, <2>6, <3>1, FileFacts DEF Tracked
      <3>3. y.entries = Append(x.entries, r.entry) /\ ~y.lost
        BY <2>5, <3>2, ReplayStep, SMT
      <3> QED
        BY <2>5, <3>1, <3>3 DEF Saved
    <2>8. Saved \in Seq(Item) /\ Len(Saved) = n - 1 /\ Len(Durable) \in 0..Len(Saved)
      BY <1>6, <1>7, <2>1, FileFacts, SMT
    <2>9. /\ Len(Saved') = n /\ Saved'[n] = log[n] /\ \A k \in 1..(n - 1) : Saved'[k] = Saved[k]
      BY <2>1, <2>3, <2>7, <2>8, SMT
    <2>10. \A k \in 1..n : k \in 1..(n - 1) \/ k = n
      BY <2>1, SMT
    <2>11. IsPrefixOf(Saved', log)
      <3>1. \A k \in 1..(n - 1) : Saved[k] = log[k]
        BY <1>3, <2>8, SMT DEF Tracked, IsPrefixOf
      <3>2. Len(Saved') <= Len(log)
        BY <1>4, <2>9, SMT
      <3>3. \A k \in 1..n : Saved'[k] = log[k]
        BY <2>9, <2>10, <3>1
      <3> QED
        BY <2>9, <3>2, <3>3 DEF IsPrefixOf
    <2>12. InPlace(Saved', 0)
      <3>1. \A k \in 1..n : Saved'[k] = log[k]
        BY <2>9, <2>11 DEF IsPrefixOf
      <3> QED
        BY <1>3, <1>4, <2>9, <3>1 DEF Tracked, InPlace
    <2>13. \E w : Numbered(w, Saved', history, pending, n) /\ Kept(w, history, Len(Durable))
      <3>1. PICK w : Numbered(w, Saved, history, pending, n) /\ Kept(w, history, Len(Durable))
        BY <1>4 DEF DBInv
      <3>2. n = Len(Saved) + 1
        BY <2>1, <2>8, SMT
      <3>3. history \in Seq(Call)
        BY <1>3 DEF TypeInv
      <3> QED
        BY <2>1, <2>3, <2>7, <2>8, <3>1, <3>2, <3>3, NumberedEntry
    <2>14. pc' \in InSave /\ i' \in Nat
      BY <2>2, SMT DEF InSave
    <2>15. TypeInv'
      BY <1>1, <1>3, <2>6, <2>14 DEF TypeInv, dbVars
    <2>16. Base' = Base
      BY <1>1 DEF Base, dbVars
    <2>17. Tracked'
      <3>1. i' - 1 = n /\ i' \in (Base + 1)..(n + 1) /\ pc' # "sync"
        BY <2>1, <2>2, SMT
      <3>2. UNCHANGED <<log, stable_index, persisted_index, pending>>
        BY <1>1 DEF dbVars
      <3> QED
        BY <1>3, <1>4, <2>2, <2>7, <2>9, <2>11, <2>16, <3>1, <3>2 DEF Tracked
    <2>18. Shown'
      BY <1>1, <1>3, <2>16 DEF Shown, dbVars
    <2> QED
      BY <1>1, <1>2, <1>4, <2>6, <2>12, <2>13, <2>14, <2>15, <2>17, <2>18 DEF DBInv, dbVars
  <1> QED
    BY <1>5, <1>6, <1>8, <1>9, SMT

(* Put or Delete starts.                                                   *)
LEMMA WriteStep ==
    ASSUME DBInv, ~RetriesAfterError, ~WritesAfterTear, NEW op \in Op, Write(op)
    PROVE  DBInv'
  <1>1. /\ open /\ pc = "idle" /\ pc' = "hard_state" /\ pending' = op
        /\ log' = Append(log, [term |-> current_term, index |-> LastIndex(log) + 1, data |-> op])
        /\ commit_index' = LastIndex(log')
        /\ UNCHANGED <<current_term, voted_for, stable_index, file, synced, persisted_index, i,
                       table, applied_index, open, opens, history>>
        /\ Store!Torn \notin Range(file)
    BY DEF Write, Store!Ready
  <1>2. Live /\ pc \notin InSave /\ pc' \in InSave /\ pc' # "entries" /\ pc' # "sync"
        /\ pc # "entries" /\ pc # "sync"
    BY <1>1, SMT DEF Live, InSave
  <1>3. Tracked /\ Shown /\ TypeInv /\ opens > 0 /\ pending = None /\ InPlace(Saved, 0)
    BY <1>1, <1>2 DEF DBInv
  <1>4. PICK n \in Nat : n = Len(log)
    BY <1>3, LenProperties, SMT DEF TypeInv
  <1>5. PICK e : e = [term |-> current_term, index |-> LastIndex(log) + 1, data |-> op]
    OBVIOUS
  <1>6. e \in Item /\ e.index = n + 1 /\ e.data = op
    <2>1. current_term \in Nat /\ LastIndex(log) + 1 \in Nat /\ LastIndex(log) + 1 = n + 1
      BY <1>3, <1>4, SMT DEF TypeInv, LastIndex
    <2> QED
      BY <1>5, <2>1, SMT DEF Item
  <1>7. /\ log' \in Seq(Item) /\ Len(log') = n + 1 /\ log'[n + 1] = e
        /\ \A k \in 1..n : log'[k] = log[k]
    <2>1. log \in Seq(Item)
      BY <1>3 DEF TypeInv
    <2> QED
      BY <1>1, <1>4, <1>5, <1>6, <2>1, AppendProperties, SMT
  <1>8. Base = n /\ Base' = n /\ pending' # None
    BY <1>1, <1>3, <1>4, <1>7, NoneAssumption, SMT DEF Base
  <1>9. Saved' = Saved /\ Durable' = Durable
    BY <1>1 DEF Saved, Durable, At
  <1>10. file \in Seq(Record) /\ synced \in 0..Len(file)
    BY <1>3 DEF TypeInv
  <1>11. Len(Saved) = n /\ Saved \in Seq(Item) /\ ~Store!ReplayFile(file).lost
    BY <1>1, <1>2, <1>3, <1>8, <1>10, FileFacts DEF Tracked
  <1>12. TypeInv'
    <2>1. pc' \in InSave \cup {"idle", "failed"} /\ pending' \in Op \cup {None}
      BY <1>1, <1>2, SMT
    <2> QED
      BY <1>1, <1>3, <1>7, <2>1 DEF TypeInv
  <1>13. Tracked'
    <2>1. InPlace(log', 0)
      <3>1. \A k \in 1..(n + 1) : k \in 1..n \/ k = n + 1
        BY SMT
      <3>2. \A k \in 1..n : log[k].index = 0 + k
        BY <1>3, <1>4 DEF Tracked, InPlace
      <3>3. n + 1 = 0 + (n + 1)
        BY SMT
      <3> QED
        BY <1>6, <1>7, <3>1, <3>2, <3>3 DEF InPlace
    <2>2. IsPrefixOf(Saved', log')
      <3>1. \A k \in 1..n : Saved[k] = log[k]
        BY <1>3, <1>11 DEF Tracked, IsPrefixOf
      <3>2. n <= n + 1
        BY SMT
      <3> QED
        BY <1>7, <1>9, <1>11, <3>1, <3>2 DEF IsPrefixOf
    <2>3. stable_index' = Base' /\ persisted_index' = Base' /\ Len(Saved') = Base'
      BY <1>1, <1>3, <1>8, <1>9, <1>11 DEF Tracked
    <2>4. Len(log') >= 1 /\ log'[Len(log')].data = pending'
      BY <1>1, <1>6, <1>7, SMT
    <2>5. ~Store!ReplayFile(file').lost
      BY <1>1, <1>11
    <2> QED
      BY <1>2, <2>1, <2>2, <2>3, <2>4, <2>5 DEF Tracked
  <1>14. Shown'
    <2>1. Written(table, Nothing, log, 0, n) /\ applied_index \in 0..n
      BY <1>3, <1>8 DEF Shown
    <2>2. Written(table, Nothing, log', 0, n)
      BY <1>7, <2>1, WrittenAgree, SMT
    <2>3. commit_index' = Len(log')
      BY <1>1 DEF LastIndex
    <2> QED
      BY <1>1, <1>8, <2>1, <2>2, <2>3, SMT DEF Shown
  <1>15. \E w : Numbered(w, Saved', history', pending', Len(log')) /\ Kept(w, history', Len(Durable'))
    <2>1. PICK w : Numbered(w, Saved, history, pending, n) /\ Kept(w, history, Len(Durable))
      BY <1>4 DEF DBInv
    <2>2. \A a \in 1..Len(Saved) : a # n + 1
      BY <1>11, SMT
    <2>3. Numbered(w, Saved, history, pending', n + 1)
      BY <1>3, <2>1, <2>2 DEF Numbered
    <2> QED
      BY <1>1, <1>7, <1>9, <2>1, <2>3
  <1> QED
    BY <1>1, <1>2, <1>3, <1>9, <1>12, <1>13, <1>14, <1>15 DEF DBInv

(* Open: the log is what the file holds, and the table what it says.       *)
LEMMA OpenStep ==
    ASSUME DBInv, Open
    PROVE  DBInv'
  <1>1. PICK s : s = Store!ReplayFile(file)
    OBVIOUS
  <1>2. /\ ~open /\ pc \in {"idle", "failed"} /\ pc' = "hard_state" /\ opens' = opens + 1
        /\ current_term' = s.term + 1 /\ voted_for' = Self /\ log' = s.entries
        /\ stable_index' = LastIndex(s.entries)
        /\ persisted_index' = Store!LastPersisted(s.entries)
        /\ table' = ApplyEntries(Nothing, s.entries)
        /\ applied_index' = Store!LastPersisted(s.entries)
        /\ commit_index' = 0
        /\ UNCHANGED <<file, synced, i, open, pending, history>>
    BY <1>1 DEF Open
  <1>3. TypeInv /\ pending = None /\ InPlace(Saved, 0)
    BY <1>2 DEF DBInv
  <1>4. file \in Seq(Record) /\ synced \in 0..Len(file)
    BY <1>3 DEF TypeInv
  <1>5. s \in State /\ s.entries = Saved /\ Saved \in Seq(Item)
    BY <1>1, <1>4, FileFacts DEF Saved
  <1>6. PICK n \in Nat : n = Len(Saved)
    BY <1>5, LenProperties, SMT
  <1>7. Saved' = Saved /\ Durable' = Durable
    BY <1>2 DEF Saved, Durable, At
  <1>8. Store!LastPersisted(Saved) = n
    <2>1. CASE n = 0
      <3>1. Saved = << >>
        BY <1>5, <1>6, <2>1, EmptySeq
      <3> QED
        BY <2>1, <3>1 DEF Store!LastPersisted
    <2>2. CASE n # 0
      <3>1. n \in 1..n /\ Saved # << >>
        BY <1>5, <1>6, <2>2, SMT
      <3>2. Saved[n].index = 0 + n
        BY <1>3, <1>6, <3>1 DEF InPlace
      <3>3. Saved[n].index = n
        BY <3>2, SMT
      <3> QED
        BY <1>6, <3>1, <3>3 DEF Store!LastPersisted
    <2> QED
      BY <2>1, <2>2, SMT
  <1>9. Base' = n /\ Len(log') = n /\ log' = Saved
    BY <1>2, <1>3, <1>5, <1>6 DEF Base
  <1>10. pc' \in InSave /\ pc' # "entries" /\ pc' # "sync"
    BY <1>2, SMT DEF InSave
  <1>11. TypeInv'
    <2>1. current_term' \in Nat
      BY <1>2, <1>5, SMT DEF State
    <2>2. opens' \in Nat
      BY <1>2, <1>3, SMT DEF TypeInv
    <2>3. voted_for' \in {Self, None}
      BY <1>2
    <2>4. pc' \in InSave \cup {"idle", "failed"}
      BY <1>10
    <2> QED
      BY <1>2, <1>3, <1>5, <1>9, <2>1, <2>2, <2>3, <2>4 DEF TypeInv
  <1>12. Tracked'
    <2>1. IsPrefixOf(Saved, Saved)
      <3>1. Len(Saved) <= Len(Saved)
        BY <1>6, SMT
      <3> QED
        BY <3>1 DEF IsPrefixOf
    <2>2. stable_index' = n /\ persisted_index' = n
      BY <1>2, <1>5, <1>6, <1>8 DEF LastIndex
    <2> QED
      BY <1>2, <1>3, <1>6, <1>7, <1>9, <1>10, <2>1, <2>2 DEF Tracked
  <1>13. Shown'
    <2>1. Written(table', Nothing, Saved, 0, n)
      <3>1. SubSeq(Saved, 0 + 1, n) = Saved
        BY <1>5, <1>6, SMT
      <3>2. /\ DOMAIN Nothing = Key /\ Nothing = [k \in DOMAIN Nothing |-> Nothing[k]]
            /\ \A e \in Item : e.data.key \in DOMAIN Nothing
        BY SMT DEF Nothing, Item, Op
      <3>3. n <= Len(Saved) /\ 0 \in Nat
        BY <1>6, SMT
      <3>4. Written(ApplyEntries(Nothing, SubSeq(Saved, 0 + 1, n)), Nothing, Saved, 0, n)
        BY <1>5, <3>2, <3>3, ApplyWritten
      <3> QED
        BY <1>2, <1>5, <3>1, <3>4
    <2>2. applied_index' = n /\ n \in 0..n
      BY <1>2, <1>5, <1>8, SMT
    <2> QED
      BY <1>2, <1>3, <1>9, <2>1, <2>2 DEF Shown
  <1>14. \E w : Numbered(w, Saved', history', pending', Len(log')) /\ Kept(w, history', Len(Durable'))
    <2>1. PICK w : Numbered(w, Saved, history, None, Len(log)) /\ Kept(w, history, Len(Durable))
      BY <1>3 DEF DBInv
    <2>2. Numbered(w, Saved, history, None, Len(log'))
      BY <2>1 DEF Numbered
    <2> QED
      BY <1>2, <1>3, <1>7, <2>1, <2>2
  <1>15. opens' > 0
    BY <1>2, <1>3, SMT DEF TypeInv
  <1> QED
    BY <1>2, <1>3, <1>7, <1>10, <1>11, <1>12, <1>13, <1>14, <1>15 DEF DBInv

(* Sync applies again what the table has, and the write in progress.       *)
LEMMA AppliedTable ==
    ASSUME DBInv, SyncDone
    PROVE  /\ Written(table', Nothing, log, 0, Len(log))
           /\ pending = None => table' = table
  <1>1. /\ pc = "sync"
        /\ table' = ApplyEntries(table, SubSeq(log, applied_index + 1, commit_index))
    BY DEF SyncDone, Store!SaveSync, ApplyCommitted
  <1>2. Live
    BY <1>1, SMT DEF Live, InSave
  <1>3. Tracked /\ Shown /\ TypeInv
    BY <1>2 DEF DBInv
  <1>4. log \in Seq(Item)
    BY <1>3 DEF TypeInv
  <1>5. PICK n \in Nat : n = Len(log)
    BY <1>4, LenProperties, SMT
  <1>6. PICK b \in Nat : b = Base /\ b <= n /\ (pending = None => b = n)
    BY <1>3, <1>5, SMT DEF Tracked, Base
  <1>7. PICK ap \in Nat, c \in Nat : /\ ap = applied_index /\ c = commit_index
                                     /\ ap <= b /\ c \in {0, n} /\ (pending # None => c = n)
    BY <1>3, <1>5, <1>6, SMT DEF Shown
  <1>8. Written(table, Nothing, log, 0, b)
    BY <1>3, <1>6 DEF Shown
  <1>9. DOMAIN Nothing = Key /\ DOMAIN table = Key /\ table = [k \in DOMAIN table |-> table[k]]
    <2>1. DOMAIN Nothing = Key
      BY SMT DEF Nothing
    <2>2. table = [k \in Key |-> table[k]]
      BY <1>8, <2>1 DEF Written
    <2>3. DOMAIN table = Key
      BY <2>2
    <2> QED
      BY <2>1, <2>2, <2>3
  <1>10. Written(table', table, log, ap, c)
    <2>1. \A e \in Item : e.data.key \in DOMAIN table
      BY <1>9, SMT DEF Item, Op
    <2>2. c <= Len(log)
      BY <1>5, <1>7, SMT
    <2> QED
      BY <1>1, <1>4, <1>7, <1>9, <2>1, <2>2, ApplyWritten
  <1>11. CASE c = n
    <2>1. Written(table', Nothing, log, 0, n)
      <3>1. 0 \in Nat /\ 0 <= ap /\ b <= c
        BY <1>6, <1>11, SMT
      <3>2. Written(table', Nothing, log, 0, c)
        BY <1>6, <1>7, <1>8, <1>10, <3>1, WrittenTwice
      <3> QED
        BY <1>11, <3>2
    <2>2. ASSUME pending = None PROVE table' = table
      <3>1. Written(table, Nothing, log, 0, n) /\ 0 \in Nat
        BY <1>6, <1>8, <2>2, SMT
      <3> QED
        BY <2>1, <3>1, WrittenSame
    <2> QED
      BY <1>5, <2>1, <2>2
  <1>12. CASE c # n
    <2>1. c = 0 /\ pending = None /\ b = n
      BY <1>6, <1>7, <1>12, SMT
    <2>2. Written(table, table, log, ap, c)
      <3>1. \A j \in (ap + 1)..c : FALSE
        BY <2>1, SMT
      <3> QED
        BY <1>9, <3>1 DEF Written
    <2>3. table' = table
      BY <1>10, <2>2, WrittenSame
    <2> QED
      BY <1>5, <1>8, <2>1, <2>3
  <1> QED
    BY <1>11, <1>12, SMT

(* A save succeeds.                                                        *)
LEMMA SyncDoneStep ==
    ASSUME DBInv, SyncDone
    PROVE  DBInv'
  <1>1. /\ pc = "sync" /\ pc' = "idle" /\ i' = 0 /\ synced' = Len(file)
        /\ persisted_index' = Store!LastIndex(log) /\ stable_index' = Store!LastIndex(log)
        /\ applied_index' = commit_index
        /\ UNCHANGED <<current_term, voted_for, log, file, commit_index, opens>>
        /\ open' = TRUE /\ pending' = None
        /\ history' = IF pending = None THEN history
                      ELSE Append(history, [op |-> pending, acked |-> TRUE])
    BY DEF SyncDone, Store!SaveSync, Store!Goto, ApplyCommitted, Answer
  <1>2. Live /\ pc \in InSave /\ pc' \notin InSave /\ pc' # "entries" /\ pc' # "sync"
    BY <1>1, SMT DEF Live, InSave
  <1>3. Tracked /\ Shown /\ TypeInv /\ opens > 0 /\ InPlace(Saved, 0)
    BY <1>2 DEF DBInv
  <1>4. log \in Seq(Item) /\ file \in Seq(Record) /\ synced \in 0..Len(file) /\ history \in Seq(Call)
    BY <1>3 DEF TypeInv
  <1>5. PICK n \in Nat : n = Len(log)
    BY <1>4, LenProperties, SMT
  <1>6. Len(Saved) = n
    BY <1>1, <1>3, <1>5, SMT DEF Tracked
  <1>7. Saved' = Saved /\ Durable' = Saved
    BY <1>1, <1>4, AtEnds DEF Saved, Durable
  <1>8. Base' = n
    BY <1>1, <1>5 DEF Base
  <1>9. PICK w : Numbered(w, Saved, history, pending, n) /\ Kept(w, history, n)
    <2>1. PICK w : Numbered(w, Saved, history, pending, n) /\ Kept(w, history, Len(Durable))
      BY <1>5 DEF DBInv
    <2>2. Len(Durable) \in Nat /\ Len(Durable) <= n
      BY <1>4, <1>6, FileFacts, SMT
    <2> QED
      BY <2>1, <2>2, KeptMore
  <1>10. history' \in Seq(Call) /\ Numbered(w, Saved, history', None, n) /\ Kept(w, history', n)
    <2>1. CASE pending = None
      BY <1>1, <1>4, <1>9, <2>1
    <2>2. CASE pending # None
      <3>1. pending \in Op /\ TRUE \in BOOLEAN
        BY <1>3, <2>2, SMT DEF TypeInv
      <3>2. n \in 1..n /\ Saved[n].data = pending
        <4>1. n >= 1 /\ log[n].data = pending
          BY <1>3, <1>5, <2>2 DEF Tracked
        <4>2. n \in 1..n
          BY <4>1, SMT
        <4>3. Saved[n] = log[n]
          BY <1>3, <1>6, <4>2 DEF Tracked, IsPrefixOf
        <4> QED
          BY <4>1, <4>2, <4>3
      <3>3. history' = Append(history, [op |-> pending, acked |-> TRUE])
        BY <1>1, <2>2
      <3>4. history' \in Seq(Call)
        <4>1. [op |-> pending, acked |-> TRUE] \in Call
          BY <3>1, SMT DEF Call
        <4> QED
          BY <1>4, <3>3, <4>1, AppendProperties
      <3>5. Len(Saved) \in Nat
        BY <1>6, SMT
      <3> QED
        BY <1>4, <1>6, <1>9, <2>2, <3>1, <3>2, <3>3, <3>4, <3>5, NumberedAnswer
    <2> QED
      BY <2>1, <2>2, SMT
  <1>11. TypeInv'
    <2>1. synced' \in 0..Len(file') /\ 0 \in Nat
      BY <1>1, <1>4, LenProperties, SMT
    <2> QED
      BY <1>1, <1>3, <1>10, <2>1 DEF TypeInv
  <1>12. Tracked'
    <2>1. persisted_index' = n /\ stable_index' = n
      BY <1>1, <1>5 DEF Store!LastIndex
    <2> QED
      BY <1>1, <1>2, <1>3, <1>5, <1>6, <1>7, <1>8, <2>1 DEF Tracked
  <1>13. Shown'
    <2>1. Written(table', Nothing, log, 0, n)
      BY <1>5, AppliedTable
    <2>2. applied_index' \in 0..n /\ commit_index' \in {0, n}
      BY <1>1, <1>3, <1>5, SMT DEF Shown
    <2> QED
      BY <1>1, <1>5, <1>8, <2>1, <2>2 DEF Shown
  <1>14. \E x : Numbered(x, Saved', history', pending', Len(log')) /\ Kept(x, history', Len(Durable'))
    BY <1>1, <1>5, <1>6, <1>7, <1>10
  <1> QED
    BY <1>1, <1>2, <1>3, <1>7, <1>11, <1>12, <1>13, <1>14 DEF DBInv

(* A write in progress ends without an answer, or with an error, while the *)
(* entries in the file become those of a shorter part of it.               *)
LEMMA FailedNumbers ==
    ASSUME DBInv, Answer(FALSE), file' \in Seq(Record), synced' = synced,
           Durable' = Durable, Saved' \in Seq(Item), IsPrefixOf(Saved', Saved)
    PROVE  /\ history' \in Seq(Call) /\ pending' = None
           /\ InPlace(Saved', 0)
           /\ \E w : Numbered(w, Saved', history', None, Len(log)) /\ Kept(w, history', Len(Durable))
  <1>1. /\ pending' = None
        /\ history' = IF pending = None THEN history
                      ELSE Append(history, [op |-> pending, acked |-> FALSE])
    BY DEF Answer
  <1>2. TypeInv /\ InPlace(Saved, 0)
    BY DEF DBInv
  <1>3. file \in Seq(Record) /\ synced \in 0..Len(file) /\ history \in Seq(Call) /\ log \in Seq(Item)
    BY <1>2 DEF TypeInv
  <1>4. Saved \in Seq(Item) /\ Len(Saved) \in Nat /\ Len(Durable) \in Nat
    BY <1>3, FileFacts, SMT
  <1>5. PICK n \in Nat : n = Len(log)
    BY <1>3, LenProperties, SMT
  <1>6. PICK w : Numbered(w, Saved, history, pending, n) /\ Kept(w, history, Len(Durable))
    BY <1>5 DEF DBInv
  <1>7. history' \in Seq(Call) /\ Numbered(w, Saved, history', None, n) /\ Kept(w, history', Len(Durable))
    <2>1. CASE pending = None
      BY <1>1, <1>3, <1>6, <2>1
    <2>2. CASE pending # None
      <3>1. pending \in Op /\ FALSE \in BOOLEAN
        BY <1>2, <2>2, SMT DEF TypeInv
      <3>2. Tracked
        BY <2>2 DEF DBInv, Live
      <3>3. n \in 1..Len(Saved) => Saved[n].data = pending
        BY <1>5, <2>2, <3>2 DEF Tracked, IsPrefixOf
      <3>4. history' = Append(history, [op |-> pending, acked |-> FALSE])
        BY <1>1, <2>2
      <3>5. history' \in Seq(Call)
        <4>1. [op |-> pending, acked |-> FALSE] \in Call
          BY <3>1, SMT DEF Call
        <4> QED
          BY <1>3, <3>4, <4>1, AppendProperties
      <3> QED
        BY <1>3, <1>4, <1>6, <2>2, <3>1, <3>3, <3>4, <3>5, NumberedAnswer
    <2> QED
      BY <2>1, <2>2, SMT
  <1>8. Numbered(w, Saved', history', None, n)
    BY <1>4, <1>7, NumberedPrefix
  <1>9. InPlace(Saved', 0)
    <2>1. Len(Saved') \in Nat
      BY LenProperties, SMT
    <2>2. \A k \in 1..Len(Saved') : k \in 1..Len(Saved) /\ Saved'[k] = Saved[k]
      BY <1>4, <2>1, SMT DEF IsPrefixOf
    <2> QED
      BY <1>2, <2>2 DEF InPlace
  <1> QED
    BY <1>1, <1>5, <1>7, <1>8, <1>9

(* A save fails.  If it had written the entry of a write, the object is    *)
(* not used any more.                                                      *)
LEMMA SyncFailedStep ==
    ASSUME DBInv, SyncFailed
    PROVE  DBInv'
  <1>1. /\ pc = "sync" /\ i' = 0 /\ pc' = IF i > persisted_index + 1 THEN "failed" ELSE "idle"
        /\ UNCHANGED <<current_term, voted_for, log, stable_index>>
        /\ UNCHANGED <<file, synced, persisted_index, commit_index, table, applied_index, open, opens>>
        /\ Answer(FALSE)
    BY DEF SyncFailed, Store!SyncFails, Store!Fail, Store!Goto, Store!coreVars
  <1>2. Live /\ pc \in InSave /\ pc' \notin InSave /\ pc' # "entries" /\ pc' # "sync"
    BY <1>1, SMT DEF Live, InSave
  <1>3. Tracked /\ Shown /\ TypeInv
    BY <1>2 DEF DBInv
  <1>4. file \in Seq(Record) /\ synced \in 0..Len(file)
    BY <1>3 DEF TypeInv
  <1>5. Saved' = Saved /\ Durable' = Durable
    BY <1>1 DEF Saved, Durable, At
  <1>6. Saved \in Seq(Item) /\ IsPrefixOf(Saved, Saved)
    <2>1. Saved \in Seq(Item) /\ Len(Saved) <= Len(Saved)
      BY <1>4, FileFacts, SMT
    <2> QED
      BY <2>1 DEF IsPrefixOf
  <1>7. /\ history' \in Seq(Call) /\ pending' = None /\ InPlace(Saved', 0)
        /\ \E w : Numbered(w, Saved', history', None, Len(log)) /\ Kept(w, history', Len(Durable))
    BY <1>1, <1>4, <1>5, <1>6, FailedNumbers
  <1>8. TypeInv'
    <2>1. pc' \in InSave \cup {"idle", "failed"} /\ i' \in Nat
      BY <1>1, SMT
    <2> QED
      BY <1>1, <1>3, <1>7, <2>1 DEF TypeInv
  <1>9. Live' => Tracked' /\ Shown'
    <2> SUFFICES ASSUME Live' PROVE Tracked' /\ Shown'
      BY SMT
    <2>1. pc' = "idle"
      BY <1>2 DEF Live
    <2>2. PICK n \in Nat : n = Len(log)
      BY <1>3, LenProperties, SMT DEF TypeInv
    <2>3. i = n + 1 /\ persisted_index = Base /\ ~(i > persisted_index + 1)
      <3>1. i = n + 1 /\ persisted_index = Base
        BY <1>1, <1>3, <2>2 DEF Tracked
      <3>2. ~(i > persisted_index + 1)
        BY <1>1, <2>1, SMT
      <3> QED
        BY <3>1, <3>2, SMT
    <2>4. pending = None
      <3>1. pending # None => Base = n - 1
        BY <2>2, SMT DEF Base
      <3> QED
        BY <2>3, <3>1, SMT
    <2>5. Base' = Base
      BY <1>1, <1>7, <2>4 DEF Base
    <2>6. Base = n
      BY <2>2, <2>4 DEF Base
    <2>7. Len(Saved) = n
      BY <1>1, <1>3, <2>3, SMT DEF Tracked
    <2>8. Tracked'
      BY <1>1, <1>2, <1>3, <1>5, <1>7, <2>5, <2>6, <2>7 DEF Tracked
    <2>9. Shown'
      BY <1>1, <1>3, <1>7, <2>5 DEF Shown
    <2> QED
      BY <2>8, <2>9, SMT
  <1>10. open' => opens' > 0
    BY <1>1 DEF DBInv
  <1> QED
    BY <1>1, <1>2, <1>5, <1>7, <1>8, <1>9, <1>10 DEF DBInv

(* What a crash leaves of the file.                                        *)
LEMMA CrashFile ==
    ASSUME file \in Seq(Record), synced \in 0..Len(file), file' \in Store!CrashFiles, synced' = synced
    PROVE  /\ file' \in Seq(Record) /\ synced' \in 0..Len(file')
           /\ Durable' = Durable /\ Saved' \in Seq(Item) /\ IsPrefixOf(Saved', Saved)
  <1>1. PICK l \in Nat : l = Len(file)
    BY LenProperties, SMT
  <1>2. PICK n \in synced..Len(file) :
            file' = SubSeq(file, 1, n) \/ file' = Append(SubSeq(file, 1, n), Store!Torn)
    BY DEF Store!CrashFiles
  <1>3. PICK m \in Nat : m = synced /\ m <= n /\ n \in 0..l /\ m <= l
    BY <1>1, SMT
  <1>4. PICK g : g = SubSeq(file, 1, n)
    OBVIOUS
  <1>5. g \in Seq(Record) /\ Len(g) = n /\ \A k \in 1..n : g[k] = file[k]
    BY <1>1, <1>3, <1>4, PrefixProperties, SMT
  <1>6. Store!Torn \in Record
    BY SMT DEF Record
  <1>7. PICK f : f = file'
    BY SMT
  <1>8. f \in Seq(Record) /\ Len(f) >= n /\ Len(f) \in Nat /\ \A k \in 1..n : f[k] = file[k]
    <2>1. CASE f = g
      BY <1>3, <1>5, <2>1, SMT
    <2>2. CASE f = Append(g, Store!Torn)
      <3>1. f \in Seq(Record) /\ Len(f) = n + 1 /\ \A k \in 1..n : f[k] = g[k]
        BY <1>3, <1>5, <1>6, <2>2, AppendProperties, SMT
      <3> QED
        BY <1>3, <1>5, <3>1, SMT
    <2> QED
      BY <1>2, <1>4, <1>7, <2>1, <2>2
  <1>9. SubSeq(f, 1, m) = SubSeq(file, 1, m)
    <2>1. m <= Len(f) /\ m <= Len(file) /\ \A k \in 1..m : f[k] = file[k]
      BY <1>1, <1>3, <1>8, SMT
    <2> QED
      BY <1>8, <2>1, SamePrefix, SMT
  <1>10. Durable' = Durable
    BY <1>3, <1>7, <1>9 DEF Durable, At
  <1>11. Saved' = At(file, n).entries /\ At(file, n) \in State
    <2>1. At(file, n) \in State /\ Store!ReplayFile(g) = At(file, n)
      <3>1. n \in 0..Len(file) /\ n \in n..Len(file)
        BY <1>1, <1>3, SMT
      <3> QED
        BY <1>4, <3>1, AtGrows DEF At
    <2>2. CASE f = g
      BY <1>7, <2>1, <2>2 DEF Saved
    <2>3. CASE f = Append(g, Store!Torn)
      <3>1. PICK x, y : x = Store!ReplayFile(g) /\ y = Store!ReplayFile(f)
        OBVIOUS
      <3>2. x \in State /\ y = Store!ReplayRecord(x, Store!Torn)
        BY <1>5, <2>1, <2>3, <3>1, ReplayAppend
      <3>3. y.entries = x.entries
        <4>1. CASE x.lost
          <5>1. y = x
            BY <1>6, <3>2, <4>1, ReplayStep
          <5> QED
            BY <5>1
        <4>2. CASE ~x.lost
          <5>1. Store!Torn.tag = "Torn"
            BY SMT DEF Store!Torn
          <5>2. Store!Torn.tag # "Entry"
            BY <5>1, SMT
          <5> QED
            BY <1>6, <3>2, <4>2, <5>2, ReplayStep
        <4> QED
          BY <4>1, <4>2, SMT
      <3> QED
        BY <1>7, <2>1, <3>1, <3>3 DEF Saved
    <2> QED
      BY <1>2, <1>4, <1>7, <2>2, <2>3
  <1>12. IsPrefixOf(Saved', Saved)
    <2>1. n \in 0..Len(file) /\ Len(file) \in n..Len(file)
      BY <1>1, <1>3, SMT
    <2>2. IsPrefixOf(At(file, n).entries, At(file, Len(file)).entries)
      BY <2>1, AtGrows
    <2> QED
      BY <1>11, <2>2, AtEnds DEF Saved
  <1>13. Saved' \in Seq(Item)
    BY <1>11, SMT DEF State
  <1>14. synced' \in 0..Len(file')
    BY <1>3, <1>7, <1>8, SMT
  <1> QED
    BY <1>7, <1>8, <1>10, <1>12, <1>13, <1>14

(* A crash.                                                                *)
LEMMA CrashStep ==
    ASSUME DBInv, Crash
    PROVE  DBInv'
  <1>1. /\ file' \in Store!CrashFiles /\ Answer(FALSE) /\ open' = FALSE /\ pc' = "idle" /\ i' = 0
        /\ UNCHANGED <<current_term, voted_for, log, synced, opens>>
    BY DEF Crash, coreVars
  <1>2. TypeInv
    BY DEF DBInv
  <1>3. /\ file' \in Seq(Record) /\ synced' \in 0..Len(file')
        /\ Durable' = Durable /\ Saved' \in Seq(Item) /\ IsPrefixOf(Saved', Saved)
    BY <1>1, <1>2, CrashFile DEF TypeInv
  <1>4. /\ history' \in Seq(Call) /\ pending' = None /\ InPlace(Saved', 0)
        /\ \E w : Numbered(w, Saved', history', None, Len(log)) /\ Kept(w, history', Len(Durable))
    BY <1>1, <1>3, FailedNumbers
  <1>5. pc' \notin InSave /\ ~Live'
    BY <1>1, SMT DEF Live, InSave
  <1>6. TypeInv'
    <2>1. pc' \in InSave \cup {"idle", "failed"} /\ i' \in Nat
      BY <1>1, SMT
    <2> QED
      BY <1>1, <1>2, <1>3, <1>4, <2>1 DEF TypeInv
  <1> QED
    BY <1>1, <1>3, <1>4, <1>5, <1>6 DEF DBInv

(* The store before it is first opened.                                    *)
LEMMA DBInit == Init => DBInv
  <1> SUFFICES ASSUME Init PROVE DBInv
    BY SMT
  <1>1. /\ current_term = 0 /\ voted_for = None /\ log = << >> /\ file = << >> /\ synced = 0
        /\ pc = "idle" /\ i = 0 /\ open = FALSE /\ opens = 0 /\ pending = None /\ history = << >>
    BY DEF Init
  <1>2. Saved = << >>
    <2>1. Blank.entries = << >>
      BY SMT DEF Blank
    <2> QED
      BY <1>1, <2>1, ReplayEmpty DEF Saved
  <1>3. Len(<< >>) = 0 /\ \A k \in 1..0 : FALSE
    BY SMT
  <1>4. /\ << >> \in Seq(Item) /\ << >> \in Seq(Record) /\ << >> \in Seq(Call)
        /\ 0 \in Nat /\ 0 \in 0..0
    BY SMT
  <1>5. TypeInv
    BY <1>1, <1>3, <1>4 DEF TypeInv
  <1>6. pc \notin InSave /\ ~Live
    BY <1>1, SMT DEF Live, InSave
  <1>7. InPlace(Saved, 0)
    BY <1>2, <1>3 DEF InPlace
  <1>8. \A w : Numbered(w, Saved, history, pending, Len(log)) /\ Kept(w, history, Len(Durable))
    BY <1>1, <1>2, <1>3 DEF Numbered, Kept
  <1> QED
    BY <1>1, <1>5, <1>6, <1>7, <1>8 DEF DBInv

(* Every step keeps the invariant.                                         *)
LEMMA DBNext ==
    ASSUME ~WritesAfterTear, ~RetriesAfterError, DBInv, [Next]_vars
    PROVE  DBInv'
  <1>1. CASE Open
    BY <1>1, OpenStep, SMT
  <1>2. CASE \E op \in Op : Write(op)
    BY <1>2, WriteStep, SMT
  <1>3. CASE Sync
    BY <1>3, SyncCallStep, SMT
  <1>4. CASE Saving
    BY <1>4, HardStateStep, TruncateStep, EntryStep DEF Saving
  <1>5. CASE SyncDone
    BY <1>5, SyncDoneStep, SMT
  <1>6. CASE SyncFailed
    BY <1>6, SyncFailedStep, SMT
  <1>7. CASE Crash
    BY <1>7, CrashStep, SMT
  <1>8. CASE UNCHANGED vars
    <2>1. /\ UNCHANGED <<current_term, voted_for, log, stable_index, commit_index>>
          /\ UNCHANGED <<file, synced, persisted_index, pc, i>>
          /\ UNCHANGED <<table, applied_index, open, opens, pending, history>>
      BY <1>8 DEF vars, coreVars, storeVars, dbVars
    <2>2. Saved' = Saved /\ Durable' = Durable /\ Base' = Base
      BY <2>1 DEF Saved, Durable, At, Base
    <2>3. TypeInv' = TypeInv
      BY <2>1 DEF TypeInv
    <2>4. Live' => Tracked' /\ Shown'
      <3> SUFFICES ASSUME Live' PROVE Tracked' /\ Shown'
        BY SMT
      <3>1. Live
        BY <2>1 DEF Live
      <3>2. Tracked /\ Shown
        BY <3>1 DEF DBInv
      <3>3. Tracked'
        BY <2>1, <2>2, <3>2 DEF Tracked
      <3>4. Shown'
        BY <2>1, <2>2, <3>2 DEF Shown
      <3> QED
        BY <3>3, <3>4, SMT
    <2> QED
      BY <2>1, <2>2, <2>3, <2>4 DEF DBInv
  <1> QED
    BY <1>1, <1>2, <1>3, <1>4, <1>5, <1>6, <1>7, <1>8 DEF Next

(* The invariant is one.                                                   *)
LEMMA DBInvariant ==
    ASSUME ~WritesAfterTear, ~RetriesAfterError
    PROVE  Spec => []DBInv
  <1>1. DBInv /\ [Next]_vars => DBInv'
    BY DBNext, SMT
  <1> QED
    BY <1>1, DBInit, PTL DEF Spec

-----------------------------------------------------------------------------
(* Recovery.                                                               *)

(* The value t shows for key k is that of the last of the entries es that  *)
(* writes it, the one in progress or write w[j] of the history; no         *)
(* acknowledged write to k is later.                                       *)
Explained(es, t, h, p, n, w, k) ==
    \/ \E j \in 1..Len(es) :
          /\ es[j].data.key = k /\ es[j].data.val = t[k]
          /\ \/ p # None /\ j = n
             \/ /\ w[j] \in 1..Len(h) /\ es[j].data = h[w[j]].op
                /\ \A m \in 1..Len(h) : h[m].acked /\ h[m].op.key = k => m <= w[j]
    \/ t[k] = None /\ \A m \in 1..Len(h) : h[m].op.key = k => ~h[m].acked

(* Table t holds what the writes w[1..Len(es)], all of them in h, leave of *)
(* an empty one: what it shows for key k is the last of them to k.         *)
LEMMA RecoveredKey ==
    ASSUME NEW es \in Seq(Item), NEW t, Written(t, Nothing, es, 0, Len(es)),
           NEW h \in Seq(Call), NEW p, NEW n, NEW w, NEW d \in 0..Len(es),
           Numbered(w, es, h, p, n), Kept(w, h, d), NEW k \in Key
    PROVE  Explained(es, t, h, p, n, w, k)
  <1> USE DEF Explained
  <1>1. PICK l \in Nat, q \in Nat : l = Len(es) /\ q = Len(h)
    BY LenProperties, SMT
  <1>2. k \in DOMAIN Nothing /\ Nothing[k] = None /\ 0 + 1 = 1
    BY SMT DEF Nothing
  <1>3. ASSUME NEW m \in 1..q, h[m].acked, h[m].op.key = k
        PROVE  \E a \in 1..l : w[a] = m /\ es[a].data.key = k
    <2>1. PICK a \in 1..d : w[a] = m
      BY <1>1, <1>3 DEF Kept
    <2>2. a \in 1..l
      BY <1>1, SMT
    <2>3. m # q + 1
      BY SMT
    <2>4. es[a].data = h[m].op
      BY <1>1, <2>1, <2>2, <2>3 DEF Numbered
    <2> QED
      BY <1>3, <2>1, <2>2, <2>4
  <1>4. CASE \E j \in 1..l : LastWrite(es, 0, l, k, j) /\ t[k] = es[j].data.val
    <2>1. PICK j \in 1..l : LastWrite(es, 0, l, k, j) /\ t[k] = es[j].data.val
      BY <1>4, SMT
    <2>2. es[j].data.key = k /\ \A a \in (j + 1)..l : es[a].data.key # k
      BY <2>1 DEF LastWrite
    <2>3. CASE p # None /\ j = n
      BY <1>1, <2>1, <2>2, <2>3
    <2>4. CASE w[j] \in 1..q /\ es[j].data = h[w[j]].op
      <3>1. ASSUME NEW m \in 1..q, h[m].acked, h[m].op.key = k
            PROVE  m <= w[j]
        <4>1. PICK a \in 1..l : w[a] = m /\ es[a].data.key = k
          BY <1>3, <3>1, SMT
        <4>2. a < j \/ a = j
          <5>1. a \notin (j + 1)..l
            BY <2>2, <4>1
          <5> QED
            BY <5>1, SMT
        <4>3. a < j => w[a] < w[j]
          BY <1>1 DEF Numbered
        <4> QED
          BY <2>4, <4>1, <4>2, <4>3, SMT
      <3> QED
        BY <1>1, <2>1, <2>2, <2>4, <3>1
    <2> QED
      BY <1>1, <2>3, <2>4 DEF Numbered
  <1>5. CASE (\A j \in 1..l : es[j].data.key # k) /\ t[k] = None
    BY <1>1, <1>3, <1>5
  <1>6. \/ \E j \in 1..l : LastWrite(es, 0, l, k, j) /\ t[k] = es[j].data.val
        \/ (\A j \in 1..l : es[j].data.key # k) /\ t[k] = None
    BY <1>1, <1>2 DEF Written
  <1> QED
    BY <1>4, <1>5, <1>6

(* What a crash may leave, and which writes it shows.                      *)
LEMMA InvIsExact == DBInv => RecoveryIsExact
  <1> SUFFICES ASSUME DBInv, NEW tab \in Recovered, NEW k \in Key
               PROVE  \E n \in Writes(k) \cup {0} :
                          /\ \A m \in Writes(k) : history[m].acked => m <= n
                          /\ \/ n > 0 /\ tab[k] = history[n].op.val
                             \/ n = 0 /\ tab[k] = None
                             \/ pending # None /\ pending = [key |-> k, val |-> tab[k]]
    BY DEF RecoveryIsExact
  <1>1. PICK c \in synced..Len(file) : tab = ApplyEntries(Nothing, At(file, c).entries)
    BY DEF Recovered, Store!Crashes, At
  <1>2. TypeInv
    BY DEF DBInv
  <1>3. /\ file \in Seq(Record) /\ synced \in 0..Len(file) /\ history \in Seq(Call)
        /\ pending \in Op \cup {None}
    BY <1>2 DEF TypeInv
  <1>4. Len(file) \in Nat /\ c \in 0..Len(file) /\ Len(file) \in c..Len(file)
    BY <1>3, LenProperties, SMT
  <1>5. PICK es : es = At(file, c).entries
    OBVIOUS
  <1>6. /\ es \in Seq(Item) /\ IsPrefixOf(es, Saved) /\ IsPrefixOf(Durable, es)
    <2>1. At(file, c) \in State /\ IsPrefixOf(At(file, synced).entries, At(file, c).entries)
      BY <1>3, AtGrows
    <2>2. IsPrefixOf(At(file, c).entries, At(file, Len(file)).entries)
      BY <1>3, <1>4, AtGrows
    <2>3. At(file, c).entries \in Seq(Item)
      BY <2>1, SMT DEF State
    <2> QED
      BY <1>3, <1>5, <2>1, <2>2, <2>3, AtEnds DEF Saved, Durable
  <1>7. PICK l \in Nat, q \in Nat : l = Len(es) /\ q = Len(history)
    BY <1>3, <1>6, LenProperties, SMT
  <1>8. Saved \in Seq(Item) /\ Len(Durable) \in 0..Len(es)
    <2>1. Saved \in Seq(Item) /\ Len(Durable) \in Nat
      BY <1>3, FileFacts, SMT
    <2>2. Len(Durable) <= Len(es)
      BY <1>6 DEF IsPrefixOf
    <2> QED
      BY <1>7, <2>1, <2>2, SMT
  <1>9. PICK w : Numbered(w, Saved, history, pending, Len(log)) /\ Kept(w, history, Len(Durable))
    BY DEF DBInv
  <1>10. Numbered(w, es, history, pending, Len(log))
    BY <1>6, <1>8, <1>9, NumberedPrefix
  <1>11. Written(tab, Nothing, es, 0, Len(es))
    <2>1. SubSeq(es, 0 + 1, l) = es
      BY <1>6, <1>7, SMT
    <2>2. /\ Nothing = [x \in DOMAIN Nothing |-> Nothing[x]]
          /\ \A e \in Item : e.data.key \in DOMAIN Nothing
      BY SMT DEF Nothing, Item, Op
    <2>3. l <= Len(es) /\ 0 \in Nat
      BY <1>7, SMT
    <2>4. Written(ApplyEntries(Nothing, SubSeq(es, 0 + 1, l)), Nothing, es, 0, l)
      BY <1>6, <2>2, <2>3, ApplyWritten
    <2> QED
      BY <1>1, <1>5, <1>7, <2>1, <2>4
  <1>12. \A m : m \in Writes(k) <=> m \in 1..q /\ history[m].op.key = k
    <2>1. DOMAIN history = 1..q
      BY <1>3, <1>7, SMT
    <2> QED
      BY <2>1 DEF Writes
  <1>13. CASE \E j \in 1..l : es[j].data.key = k /\ es[j].data.val = tab[k] /\ pending # None /\ j = Len(log)
    <2>1. PICK j \in 1..l : es[j].data.key = k /\ es[j].data.val = tab[k] /\ pending # None /\ j = Len(log)
      BY <1>13, SMT
    <2>2. Tracked
      BY <2>1 DEF DBInv, Live
    <2>3. es[j].data = pending
      <3>1. Len(es) <= Len(Saved) /\ Len(Saved) <= Len(log) /\ Len(Saved) \in Nat
        BY <1>3, <1>6, <2>2, FileFacts DEF Tracked, IsPrefixOf
      <3>2. j \in 1..Len(es) /\ j \in 1..Len(Saved)
        BY <1>7, <3>1, SMT
      <3>3. es[j] = Saved[j] /\ Saved[j] = log[j]
        BY <1>6, <2>2, <3>2 DEF Tracked, IsPrefixOf
      <3> QED
        BY <2>1, <2>2, <3>3 DEF Tracked
    <2>4. pending = [key |-> k, val |-> tab[k]]
      <3>1. pending \in Op
        BY <1>3, <2>1, SMT
      <3> QED
        BY <2>1, <2>3, <3>1, SMT DEF Op
    <2>5. PICK n \in Writes(k) \cup {0} : \A m \in Writes(k) \cup {0} : m <= n
      <3>1. Writes(k) \cup {0} \subseteq 0..q /\ 0 \in Writes(k) \cup {0}
        BY <1>12, SMT
      <3>2. PICK W : W = Writes(k) \cup {0}
        OBVIOUS
      <3> QED
        BY <3>1, <3>2, MaxProperties
    <2> QED
      BY <2>1, <2>4, <2>5
  <1>14. CASE \E j \in 1..l : /\ es[j].data.key = k /\ es[j].data.val = tab[k]
                              /\ w[j] \in 1..q /\ es[j].data = history[w[j]].op
                              /\ \A m \in 1..q : history[m].acked /\ history[m].op.key = k => m <= w[j]
    <2>1. PICK j \in 1..l : /\ es[j].data.key = k /\ es[j].data.val = tab[k]
                            /\ w[j] \in 1..q /\ es[j].data = history[w[j]].op
                            /\ \A m \in 1..q : history[m].acked /\ history[m].op.key = k => m <= w[j]
      BY <1>14, SMT
    <2>2. w[j] \in Writes(k) \cup {0} /\ tab[k] = history[w[j]].op.val
      BY <1>12, <2>1
    <2>3. w[j] > 0
      BY <2>1, SMT
    <2>4. \A m \in Writes(k) : history[m].acked => m <= w[j]
      BY <1>12, <2>1
    <2> QED
      BY <2>2, <2>3, <2>4
  <1>15. CASE tab[k] = None /\ \A m \in 1..q : history[m].op.key = k => ~history[m].acked
    BY <1>12, <1>15
  <1> QED
    <2>1. Explained(es, tab, history, pending, Len(log), w, k)
      BY <1>3, <1>6, <1>8, <1>9, <1>10, <1>11, RecoveredKey
    <2> QED
      BY <1>7, <1>13, <1>14, <1>15, <2>1 DEF Explained

(* "Single-node recovery is exact": whatever a crash leaves of the file,   *)
(* each key comes back with its last acknowledged write or a later one     *)
(* that failed or is in progress, for any keys, values and number of       *)
(* writes, openings and crashes.  The caller reopens the store after a     *)
(* save that failed and does not write behind a torn record.               *)
THEOREM RecoveryStaysExact ==
    ASSUME ~WritesAfterTear, ~RetriesAfterError
    PROVE  Spec => []RecoveryIsExact
  BY InvIsExact, DBInvariant, PTL

-----------------------------------------------------------------------------
(* Refinement.                                                             *)

KvTable == IF open THEN table ELSE Nothing
KvOpen == open \/ opens = 0

(* The table that entries leave is the one their writes leave.             *)
LEMMA ReplayedWrites ==
    ASSUME NEW es \in Seq(Item), NEW t, Written(t, Nothing, es, 0, Len(es)), NEW w, NEW n,
           Numbered(w, es, history, None, n)
    PROVE  t = Kv!ApplyAll(Kv!Nothing, {w[a] : a \in 1..Len(es)})
  <1>1. PICK l \in Nat : l = Len(es)
    BY LenProperties, SMT
  <1>2. PICK ids : ids = {w[a] : a \in 1..l}
    OBVIOUS
  <1>3. \A a \in 1..l : w[a] \in 1..Len(history) /\ es[a].data = history[w[a]].op
    BY <1>1 DEF Numbered
  <1>4. DOMAIN Nothing = Key /\ Nothing = Kv!Nothing /\ 0 + 1 = 1
    BY SMT DEF Nothing, Kv!Nothing
  <1>5. ASSUME NEW k \in Key
        PROVE  t[k] = LET writes == {m \in ids : history[m].op.key = k}
                      IN  IF writes = {} THEN Nothing[k] ELSE history[Kv!Max(writes)].op.val
    <2>1. PICK writes : writes = {m \in ids : history[m].op.key = k}
      OBVIOUS
    <2>2. CASE \E j \in 1..l : LastWrite(es, 0, l, k, j) /\ t[k] = es[j].data.val
      <3>1. PICK j \in 1..l : LastWrite(es, 0, l, k, j) /\ t[k] = es[j].data.val
        BY <2>2
      <3>2. es[j].data.key = k /\ \A a \in (j + 1)..l : es[a].data.key # k
        BY <3>1 DEF LastWrite
      <3>3. w[j] \in writes
        BY <1>2, <1>3, <2>1, <3>2
      <3>4. ASSUME NEW m \in writes PROVE m \in Nat /\ m <= w[j]
        <4>1. PICK a \in 1..l : m = w[a] /\ history[m].op.key = k
          BY <1>2, <2>1
        <4>2. es[a].data.key = k
          BY <1>3, <4>1
        <4>3. a \notin (j + 1)..l
          BY <3>2, <4>2
        <4>4. a < j \/ a = j
          BY <4>3, SMT
        <4>5. a < j => w[a] < w[j]
          BY <1>1 DEF Numbered
        <4>6. w[a] \in 1..Len(history) /\ w[j] \in 1..Len(history)
          BY <1>3
        <4>7. w[a] \in Nat /\ w[j] \in Nat
          BY <4>6, SMT
        <4> QED
          BY <4>1, <4>4, <4>5, <4>7, SMT
      <3>5. Kv!Max(writes) = w[j]
        <4> DEFINE P(x) == x \in writes /\ \A y \in writes : x >= y
        <4>1. P(w[j])
          BY <3>3, <3>4, SMT
        <4>2. \A x : P(x) => x = w[j]
          BY <3>3, <3>4, SMT
        <4>3. Kv!Max(writes) = CHOOSE x : P(x)
          BY SMT DEF Kv!Max
        <4> HIDE DEF P
        <4>4. P(CHOOSE x : P(x))
          BY <4>1
        <4> QED
          BY <4>2, <4>3, <4>4
      <3>6. t[k] = history[w[j]].op.val /\ writes # {}
        BY <1>3, <3>1, <3>3
      <3> QED
        BY <2>1, <3>5, <3>6
    <2>3. CASE (\A j \in 1..l : es[j].data.key # k) /\ t[k] = Nothing[k]
      <3>1. writes = {}
        BY <1>2, <1>3, <2>1, <2>3
      <3> QED
        BY <2>1, <2>3, <3>1
    <2> QED
      BY <1>1, <1>4, <2>2, <2>3 DEF Written
  <1>6. t = [k \in Key |-> t[k]]
    BY <1>4 DEF Written
  <1>7. Kv!ApplyAll(Nothing, ids)
          = [k \in Key |-> LET writes == {m \in ids : history[m].op.key = k}
                           IN  IF writes = {} THEN Nothing[k] ELSE history[Kv!Max(writes)].op.val]
    BY DEF Kv!ApplyAll
  <1> QED
    BY <1>1, <1>2, <1>4, <1>5, <1>6, <1>7

(* The end of a successful save is a write acknowledged, the store opened  *)
(* again, or nothing a reader can tell.                                    *)
LEMMA SyncDoneImplements ==
    ASSUME DBInv, SyncDone
    PROVE  [Kv!Next]_<<history, KvTable, KvOpen>>
  <1>1. /\ pc = "sync" /\ UNCHANGED <<log, opens>> /\ open' = TRUE /\ pending' = None
        /\ history' = IF pending = None THEN history
                      ELSE Append(history, [op |-> pending, acked |-> TRUE])
    BY DEF SyncDone, Store!SaveSync, Answer
  <1>2. Live /\ pc \in InSave
    BY <1>1, SMT DEF Live, InSave
  <1>3. Tracked /\ Shown /\ TypeInv /\ opens > 0
    BY <1>2 DEF DBInv
  <1>4. log \in Seq(Item) /\ history \in Seq(Call) /\ file \in Seq(Record) /\ synced \in 0..Len(file)
    BY <1>3 DEF TypeInv
  <1>5. PICK n \in Nat : n = Len(log)
    BY <1>4, LenProperties, SMT
  <1>6. /\ Written(table', Nothing, log, 0, n)
        /\ pending = None => table' = table
    BY <1>5, AppliedTable
  <1>7. KvOpen' /\ KvOpen' = TRUE /\ KvTable' = table' /\ (open => KvTable = table /\ KvOpen = TRUE) /\ opens # 0
    BY <1>1, <1>3, SMT DEF KvOpen, KvTable, TypeInv
  <1>8. CASE ~open
    <2>1. pending = None /\ history' = history /\ ~KvOpen
      BY <1>1, <1>7, <1>8 DEF DBInv, KvOpen
    <2>2. Saved = log
      <3>1. Len(Saved) = n /\ IsPrefixOf(Saved, log)
        BY <1>1, <1>3, <1>5, SMT DEF Tracked
      <3>2. \A k \in 1..n : Saved[k] = log[k]
        BY <3>1 DEF IsPrefixOf
      <3>3. Saved \in Seq(Item)
        BY <1>4, FileFacts, SMT
      <3> QED
        BY <1>4, <1>5, <3>1, <3>2, <3>3, SeqEqual, SMT
    <2>3. PICK w : Numbered(w, log, history, None, n) /\ Kept(w, history, Len(Durable))
      BY <1>5, <2>1, <2>2 DEF DBInv
    <2>4. table' = Kv!ApplyAll(Kv!Nothing, {w[a] : a \in 1..Len(log)})
      BY <1>4, <1>5, <1>6, <2>3, ReplayedWrites
    <2>5. PICK ids : ids = {w[a] : a \in 1..n}
      OBVIOUS
    <2>6. DOMAIN history = 1..Len(history)
      BY <1>4, SMT
    <2>7. ids \subseteq DOMAIN history
      BY <1>5, <2>3, <2>5, <2>6 DEF Numbered
    <2>8. Kv!Acked \subseteq ids
      <3>1. Len(Durable) \in Nat /\ Len(Durable) <= n
        BY <1>4, <1>5, <2>2, FileFacts, SMT
      <3>2. \A a \in 1..Len(Durable) : a \in 1..n
        BY <3>1, SMT
      <3> QED
        BY <2>3, <2>5, <2>6, <3>2 DEF Kept, Kv!Acked
    <2>9. ids \ Kv!Acked \in SUBSET (DOMAIN history \ Kv!Acked)
      BY <2>7
    <2>10. Kv!Acked \cup (ids \ Kv!Acked) = ids
      BY <2>8
    <2>11. KvTable' = Kv!ApplyAll(Kv!Nothing, Kv!Acked \cup (ids \ Kv!Acked))
      BY <1>5, <1>7, <2>4, <2>5, <2>10
    <2>12. Kv!Reopen
      BY <1>7, <2>1, <2>9, <2>11 DEF Kv!Reopen, KvTable, KvOpen
    <2> QED
      BY <2>12 DEF Kv!Next
  <1>9. CASE open /\ pending = None
    BY <1>1, <1>6, <1>7, <1>9
  <1>10. CASE open /\ pending # None
    <2>1. pending \in Op /\ pending.key \in Key
      BY <1>3, <1>10, SMT DEF TypeInv, Op
    <2>2. n >= 1 /\ log[n].data = pending /\ Written(table, Nothing, log, 0, n - 1) /\ n - 1 \in Nat
      <3>1. n >= 1 /\ log[n].data = pending
        BY <1>3, <1>5, <1>10 DEF Tracked
      <3>2. Base = n - 1
        BY <1>5, <1>10 DEF Base
      <3> QED
        BY <1>3, <3>1, <3>2, SMT DEF Shown
    <2>3. /\ DOMAIN Nothing = Key /\ table = [k \in Key |-> table[k]]
      <3>1. DOMAIN Nothing = Key
        BY SMT DEF Nothing
      <3> QED
        BY <2>2, <3>1 DEF Written
    <2>4. table' = [table EXCEPT ![pending.key] = pending.val]
      <3>1. PICK m \in Nat : m = n - 1 /\ m + 1 = n /\ 0 <= m /\ 0 \in Nat
        BY <2>2, SMT
      <3>2. log[m + 1].data.key \in DOMAIN Nothing /\ Written(table, Nothing, log, 0, m)
        BY <2>1, <2>2, <2>3, <3>1
      <3>3. Written(Apply(table, log[m + 1]), Nothing, log, 0, m + 1)
        BY <3>1, <3>2, WrittenNext
      <3>4. Apply(table, log[n]) = [table EXCEPT ![pending.key] = pending.val]
        BY <2>2 DEF Apply
      <3> QED
        BY <1>6, <3>1, <3>3, <3>4, WrittenSame
    <2>5. Kv!ApplyAll(table, {}) = table
      <3>1. Kv!ApplyAll(table, {}) = [k \in Key |-> table[k]]
        BY SMT DEF Kv!ApplyAll
      <3> QED
        BY <2>3, <3>1
    <2>6. KvTable' = Kv!Apply(Kv!ApplyAll(KvTable, {}), pending)
      BY <1>7, <1>10, <2>4, <2>5 DEF Kv!Apply
    <2>7. KvOpen /\ KvOpen' = KvOpen /\ history' = Append(history, [op |-> pending, acked |-> TRUE])
      BY <1>1, <1>7, <1>10
    <2>8. {} \in SUBSET Kv!Late
      OBVIOUS
    <2>9. Kv!Acknowledge(pending)
      BY <2>6, <2>7, <2>8 DEF Kv!Acknowledge, KvTable, KvOpen
    <2>10. pending \in Kv!Op
      BY <2>1 DEF Op, Kv!Op
    <2> QED
      BY <2>9, <2>10 DEF Kv!Next
  <1> QED
    BY <1>8, <1>9, <1>10, SMT

(* A write that fails or is cut short.                                     *)
LEMMA FailureImplements ==
    ASSUME DBInv, Answer(FALSE), pending # None, opens # 0, opens' = opens,
           \/ UNCHANGED <<table, open>>
           \/ open' = FALSE
    PROVE  Kv!Next
  <1>1. history' = Append(history, [op |-> pending, acked |-> FALSE])
    BY DEF Answer
  <1>2. open /\ pending \in Op
    BY SMT DEF DBInv, TypeInv
  <1>3. pending \in Kv!Op
    BY <1>2 DEF Op, Kv!Op
  <1>4. KvOpen
    BY <1>2 DEF KvOpen
  <1>5. CASE UNCHANGED <<table, open>>
    <2>1. KvTable' = KvTable /\ KvOpen' = KvOpen
      BY <1>5 DEF KvTable, KvOpen
    <2>2. Kv!Fail(pending)
      BY <1>1, <1>4, <2>1 DEF Kv!Fail, KvTable, KvOpen
    <2> QED
      BY <1>3, <2>2 DEF Kv!Next
  <1>6. CASE open' = FALSE
    <2>1. KvTable' = Kv!Nothing /\ KvOpen' = FALSE
      BY <1>6, SMT DEF KvTable, KvOpen, Nothing, Kv!Nothing
    <2>2. Kv!Fail(pending)
      BY <1>1, <1>4, <2>1 DEF Kv!Fail, KvTable, KvOpen
    <2> QED
      BY <1>3, <2>2 DEF Kv!Next
  <1> QED
    BY <1>5, <1>6

(* Every step is one of the store that is promised, or none.               *)
LEMMA StepImplements ==
    ASSUME DBInv, [Next]_vars
    PROVE  [Kv!Next]_<<history, KvTable, KvOpen>>
  <1>1. ASSUME UNCHANGED <<history, table, open, opens>>
        PROVE  UNCHANGED <<history, KvTable, KvOpen>>
    BY <1>1 DEF KvTable, KvOpen
  <1>2. opens \in Nat /\ (open => opens # 0) /\ (pc \in InSave => opens # 0)
    BY SMT DEF DBInv, TypeInv
  <1>3. CASE Open
    <2>1. ~open /\ opens' = opens + 1 /\ UNCHANGED <<open, history>>
      BY <1>3 DEF Open
    <2>2. opens' # 0
      BY <1>2, <2>1, SMT
    <2>3. KvTable = Nothing /\ KvTable' = Nothing /\ KvOpen' = FALSE
      BY <2>1, <2>2, SMT DEF KvTable, KvOpen
    <2>4. CASE opens = 0
      <3>1. Nothing = Kv!Nothing
        BY SMT DEF Nothing, Kv!Nothing
      <3>2. Kv!Close
        BY <2>1, <2>3, <2>4, <3>1 DEF Kv!Close, KvTable, KvOpen
      <3> QED
        BY <3>2 DEF Kv!Next
    <2>5. CASE opens # 0
      <3>1. KvOpen = FALSE
        BY <2>1, <2>5, SMT DEF KvOpen
      <3> QED
        BY <2>1, <2>3, <3>1
    <2> QED
      BY <2>4, <2>5, SMT
  <1>4. CASE \E op \in Op : Write(op)
    BY <1>1, <1>4 DEF Write
  <1>5. CASE Sync
    BY <1>1, <1>5 DEF Sync, dbVars
  <1>6. CASE Saving
    BY <1>1, <1>6 DEF Saving, dbVars
  <1>7. CASE SyncDone
    BY <1>7, SyncDoneImplements, SMT
  <1>8. CASE SyncFailed
    <2>1. /\ pc = "sync" /\ Answer(FALSE) /\ UNCHANGED <<table, open, opens>>
      BY <1>8 DEF SyncFailed, Store!SyncFails
    <2>2. pc \in InSave
      BY <2>1, SMT DEF InSave
    <2>3. CASE pending = None
      BY <1>1, <2>1, <2>3 DEF Answer
    <2>4. CASE pending # None
      BY <1>2, <2>1, <2>2, <2>4, FailureImplements
    <2> QED
      BY <2>3, <2>4, SMT
  <1>9. CASE Crash
    <2>1. Answer(FALSE) /\ open' = FALSE /\ UNCHANGED <<table, opens>>
      BY <1>9 DEF Crash
    <2>2. CASE pending # None
      <3>1. opens # 0
        BY <1>2, <2>2 DEF DBInv
      <3> QED
        BY <2>1, <2>2, <3>1, FailureImplements
    <2>3. CASE pending = None /\ ~open
      <3>1. history' = history
        BY <2>1, <2>3 DEF Answer
      <3>2. open' = open
        BY <2>1, <2>3 DEF DBInv, TypeInv
      <3> QED
        BY <1>1, <2>1, <3>1, <3>2
    <2>4. CASE pending = None /\ open
      <3>1. history' = history
        BY <2>1, <2>4 DEF Answer
      <3>2. KvTable' = Kv!Nothing /\ KvOpen' = FALSE /\ KvOpen
        BY <1>2, <2>1, <2>4, SMT DEF KvTable, KvOpen, Nothing, Kv!Nothing
      <3>3. Kv!Close
        BY <3>1, <3>2 DEF Kv!Close, KvTable, KvOpen
      <3> QED
        BY <3>3 DEF Kv!Next
    <2> QED
      BY <2>2, <2>3, <2>4, SMT
  <1>10. CASE UNCHANGED vars
    BY <1>1, <1>10 DEF vars, dbVars
  <1> QED
    BY <1>3, <1>4, <1>5, <1>6, <1>7, <1>8, <1>9, <1>10 DEF Next

(* The single-node store is a durable key-value store (KvStore): what it   *)
(* acknowledged is never lost, reads follow the order of writes although   *)
(* entries are applied again, and nothing appears that was not written.    *)
(* Same hypotheses on the caller.                                          *)
THEOREM StoreIsDurable ==
    ASSUME ~WritesAfterTear, ~RetriesAfterError
    PROVE  Spec => DurableStore
  <1>1. Init => Kv!Init
    BY SMT DEF Init, Kv!Init, Nothing, Kv!Nothing
  <1>2. DBInv /\ [Next]_vars => [Kv!Next]_<<history, KvTable, KvOpen>>
    BY StepImplements, SMT
  <1>3. DBInv /\ [Next]_vars =>
            [Kv!Next]_<<history, IF open THEN table ELSE Nothing, open \/ opens = 0>>
    BY <1>2 DEF KvTable, KvOpen
  <1> QED
    BY <1>1, <1>3, DBInvariant, PTL DEF Spec, DurableStore, Kv!Spec

=============================================================================
