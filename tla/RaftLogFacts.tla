---------------------------- MODULE RaftLogFacts ----------------------------
(* Facts about the operators of RaftLog that several proofs use.           *)
EXTENDS RaftLog, SequenceTheorems, WellFoundedInduction, TLAPS

(* Min finds the least element, as the search loops of raft.cc do.         *)
LEMMA MinProperties ==
    ASSUME NEW S, S \subseteq Nat, S # {}
    PROVE  Min(S) \in S /\ \A n \in S : Min(S) <= n
  <1>1. PICK x \in S : \A y \in S : ~(<<y, x>> \in OpToRel(<, Nat))
    BY WFMin, NatLessThanWellFounded, Zenon
  <1>2. \A y \in S : ~(y < x)
    BY <1>1, Zenon DEF OpToRel
  <1>3. \A y \in S : x <= y
    BY <1>2
  <1> QED
    BY <1>3, Zenon DEF Min

(* Max finds the greatest element of a bounded set of indices.             *)
LEMMA MaxProperties ==
    ASSUME NEW S, NEW b \in Nat, S \subseteq 0..b, S # {}
    PROVE  Max(S) \in S /\ \A n \in S : n <= Max(S)
  <1> DEFINE T == {k \in Nat : b - k \in S}
  <1>1. T \subseteq Nat /\ T # {}
    <2>1. PICK n \in S : TRUE
      BY Zenon
    <2>2. b - n \in T
      BY <2>1
    <2> QED
      BY <2>2, Zenon
  <1>2. PICK k \in T : \A y \in T : k <= y
    BY <1>1, MinProperties, Zenon
  <1>3. \A n \in S : n <= b - k
    <2> SUFFICES ASSUME NEW n \in S PROVE n <= b - k
      OBVIOUS
    <2>1. b - n \in T
      OBVIOUS
    <2> QED
      BY <2>1, <1>2
  <1>4. b - k \in S
    BY <1>2
  <1> QED
    BY <1>3, <1>4, Zenon DEF Max

-----------------------------------------------------------------------------
(* Sequences.                                                              *)

(* The elements of a sequence.                                             *)
LEMMA RangeElements ==
    ASSUME NEW S, NEW f \in Seq(S), NEW x
    PROVE  x \in Range(f) <=> \E k \in 1..Len(f) : f[k] = x
  <1>1. DOMAIN f = 1..Len(f)
    BY LenProperties
  <1> QED
    BY <1>1, Zenon DEF Range

(* Prefixes of sequences that agree are equal.                             *)
LEMMA SamePrefix ==
    ASSUME NEW S, NEW f \in Seq(S), NEW g \in Seq(S), NEW n \in Nat,
           n <= Len(f), n <= Len(g), \A k \in 1..n : f[k] = g[k]
    PROVE  SubSeq(f, 1, n) = SubSeq(g, 1, n)
  <1>1. Len(f) \in Nat /\ Len(g) \in Nat
    BY LenProperties
  <1>2. /\ \A k \in 1..n : f[k] \in S
        /\ \A k \in 1..n : g[k] \in S
    BY <1>1, ElementOfSeq
  <1> DEFINE s == SubSeq(f, 1, n)
             t == SubSeq(g, 1, n)
  <1>3. /\ s \in Seq(S) /\ Len(s) = n /\ \A k \in 1..n : s[k] = f[k]
        /\ t \in Seq(S) /\ Len(t) = n /\ \A k \in 1..n : t[k] = g[k]
    BY <1>1, <1>2, SubSeqProperties
  <1> HIDE DEF s, t
  <1>4. s = t
    BY <1>3, SeqEqual
  <1> QED
    BY <1>4 DEF s, t

(* A prefix of a file, element by element.                                 *)
LEMMA PrefixProperties ==
    ASSUME NEW S, NEW f \in Seq(S), NEW n \in 0..Len(f)
    PROVE  /\ SubSeq(f, 1, n) \in Seq(S) /\ Len(SubSeq(f, 1, n)) = n
           /\ \A k \in 1..n : SubSeq(f, 1, n)[k] = f[k]
  <1>1. Len(f) \in Nat /\ n \in Nat
    BY LenProperties
  <1>2. \A k \in 1..n : f[k] \in S
    BY <1>1, ElementOfSeq
  <1> QED
    BY <1>1, <1>2, SubSeqProperties

-----------------------------------------------------------------------------
(* What ApplyEntries computes.                                             *)

(* The entry of s[a+1..b] that writes key k last.                          *)
LastWrite(s, a, b, k, j) ==
    j \in (a + 1)..b /\ s[j].data.key = k /\ \A l \in (j + 1)..b : s[l].data.key # k

(* Table t is table `tab` after the writes of s[a+1..b], in order.         *)
Written(t, tab, s, a, b) ==
    /\ t = [k \in DOMAIN tab |-> t[k]]
    /\ \A k \in DOMAIN tab :
          \/ \E j \in (a + 1)..b : LastWrite(s, a, b, k, j) /\ t[k] = s[j].data.val
          \/ (\A j \in (a + 1)..b : s[j].data.key # k) /\ t[k] = tab[k]

(* One more write overwrites its own key only.                             *)
LEMMA WrittenNext ==
    ASSUME NEW t, NEW tab, NEW s, NEW a \in Nat, NEW b \in Nat, a <= b,
           Written(t, tab, s, a, b), s[b + 1].data.key \in DOMAIN tab
    PROVE  Written(Apply(t, s[b + 1]), tab, s, a, b + 1)
  <1> DEFINE e == s[b + 1]
             u == Apply(t, e)
  <1>1. t = [k \in DOMAIN tab |-> t[k]] /\ DOMAIN t = DOMAIN tab
    BY Zenon DEF Written
  <1>2. /\ u = [k \in DOMAIN tab |-> u[k]]
        /\ \A k \in DOMAIN tab : u[k] = IF k = e.data.key THEN e.data.val ELSE t[k]
    BY <1>1, Zenon DEF Apply
  <1>3. /\ b + 1 \in (a + 1)..(b + 1) /\ (b + 1 + 1)..(b + 1) = {}
        /\ \A j \in (a + 1)..(b + 1) : j \in (a + 1)..b \/ j = b + 1
        /\ \A j \in (a + 1)..b : j \in (a + 1)..(b + 1)
        /\ \A j \in (a + 1)..b : \A l \in (j + 1)..(b + 1) : l \in (j + 1)..b \/ l = b + 1
    OBVIOUS
  <1> HIDE DEF u, e
  <1>4. ASSUME NEW k \in DOMAIN tab
        PROVE  \/ \E j \in (a + 1)..(b + 1) : LastWrite(s, a, b + 1, k, j) /\ u[k] = s[j].data.val
               \/ (\A j \in (a + 1)..(b + 1) : s[j].data.key # k) /\ u[k] = tab[k]
    <2>1. CASE k = e.data.key
      <3>1. LastWrite(s, a, b + 1, k, b + 1)
        BY <1>3, <2>1, Zenon DEF LastWrite, e
      <3> QED
        BY <1>2, <1>3, <2>1, <3>1, Zenon DEF e
    <2>2. CASE k # e.data.key
      <3>1. u[k] = t[k]
        BY <1>2, <2>2, Zenon
      <3>2. CASE \E j \in (a + 1)..b : LastWrite(s, a, b, k, j) /\ t[k] = s[j].data.val
        <4>1. PICK j \in (a + 1)..b : LastWrite(s, a, b, k, j) /\ t[k] = s[j].data.val
          BY <3>2
        <4>2. LastWrite(s, a, b + 1, k, j)
          BY <1>3, <2>2, <4>1, Zenon DEF LastWrite, e
        <4> QED
          BY <1>3, <3>1, <4>1, <4>2, Zenon
      <3>3. CASE (\A j \in (a + 1)..b : s[j].data.key # k) /\ t[k] = tab[k]
        BY <1>3, <2>2, <3>1, <3>3, Zenon DEF e
      <3> QED
        BY <3>2, <3>3, Zenon DEF Written
    <2> QED
      BY <2>1, <2>2
  <1> QED
    BY <1>2, <1>4, Zenon DEF Written, u, e

(* The same writes give the same table.                                    *)
LEMMA WrittenSame ==
    ASSUME NEW t, NEW u, NEW tab, NEW s, NEW a \in Nat, NEW b \in Nat,
           Written(t, tab, s, a, b), Written(u, tab, s, a, b)
    PROVE  t = u
  <1>1. ASSUME NEW k \in DOMAIN tab PROVE t[k] = u[k]
    <2>1. \/ \E j \in (a + 1)..b : LastWrite(s, a, b, k, j) /\ t[k] = s[j].data.val
          \/ (\A j \in (a + 1)..b : s[j].data.key # k) /\ t[k] = tab[k]
      BY Zenon DEF Written
    <2>2. \/ \E j \in (a + 1)..b : LastWrite(s, a, b, k, j) /\ u[k] = s[j].data.val
          \/ (\A j \in (a + 1)..b : s[j].data.key # k) /\ u[k] = tab[k]
      BY Zenon DEF Written
    <2>3. CASE \A j \in (a + 1)..b : s[j].data.key # k
      BY <2>1, <2>2, <2>3, Zenon DEF LastWrite
    <2>4. ASSUME NEW j \in (a + 1)..b, LastWrite(s, a, b, k, j), t[k] = s[j].data.val,
                 NEW l \in (a + 1)..b, LastWrite(s, a, b, k, l), u[k] = s[l].data.val
          PROVE  t[k] = u[k]
      <3>1. l \notin (j + 1)..b /\ j \notin (l + 1)..b
        BY <2>4, Zenon DEF LastWrite
      <3>2. j = l
        BY <3>1
      <3> QED
        BY <2>4, <3>2, Zenon
    <2> QED
      BY <2>1, <2>2, <2>3, <2>4, Zenon
  <1>2. t = [k \in DOMAIN tab |-> t[k]] /\ u = [k \in DOMAIN tab |-> u[k]]
    BY Zenon DEF Written
  <1> QED
    BY <1>1, <1>2, Zenon

(* Applying entries one after the other performs their writes in order.    *)
LEMMA ApplyIsWritten ==
    ASSUME NEW tab, tab = [k \in DOMAIN tab |-> tab[k]], NEW es, Len(es) \in Nat,
           \A j \in 1..Len(es) : es[j].data.key \in DOMAIN tab
    PROVE  Written(ApplyEntries(tab, es), tab, es, 0, Len(es))
  <1> DEFINE N == Len(es)
             W(t, n) == Written(t, tab, es, 0, n)
             F(g) == [n \in 0..N |-> IF n = 0 THEN tab ELSE Apply(g[n - 1], es[n])]
  <1>1. W(tab, 0)
    <2>1. \A j \in (0 + 1)..0 : FALSE
      OBVIOUS
    <2> QED
      BY <2>1, Zenon DEF Written
  <1>2. ASSUME NEW n \in 0..N, n # 0, NEW t, W(t, n - 1) PROVE W(Apply(t, es[n]), n)
    <2>1. n - 1 \in Nat /\ 0 <= n - 1 /\ (n - 1) + 1 = n /\ n \in 1..N
      BY <1>2
    <2>2. Written(Apply(t, es[(n - 1) + 1]), tab, es, 0, (n - 1) + 1)
      BY <1>2, <2>1, WrittenNext
    <2> QED
      BY <2>1, <2>2
  <1>3. ASSUME NEW t, NEW u, NEW n \in 0..N, W(t, n), W(u, n) PROVE t = u
    BY <1>3, WrittenSame
  <1> DEFINE none == {n \in Nat : n <= N /\ ~\E t : W(t, n)}
  <1>4. ASSUME NEW n \in 0..N PROVE \E t : W(t, n)
    <2>0. n \in Nat /\ n <= N
      OBVIOUS
    <2> SUFFICES ASSUME none # {} PROVE FALSE
      BY <2>0, Zenon
    <2>1. PICK m \in none : \A y \in none : m <= y
      BY MinProperties, Zenon
    <2>2. m \in 0..N /\ ~\E t : W(t, m)
      BY <2>1
    <2>3. m # 0
      BY <1>1, <2>2, Zenon
    <2>4. m - 1 \in Nat /\ m - 1 <= N /\ ~(m <= m - 1)
      BY <2>2, <2>3
    <2>5. PICK t : W(t, m - 1)
      BY <2>1, <2>4, Zenon
    <2> QED
      BY <1>2, <2>2, <2>3, <2>5, Zenon
  <1> HIDE DEF W, N, none
  <1> DEFINE T(n) == CHOOSE t : W(t, n)
  <1>5. \A n \in 0..N : W(T(n), n)
    BY <1>4, Zenon
  <1> HIDE DEF T
  <1>6. \E g : g = F(g)
    <2> DEFINE g == [n \in 0..N |-> T(n)]
    <2>1. ASSUME NEW n \in 0..N PROVE g[n] = F(g)[n]
      <3>1. CASE n = 0
        BY <1>1, <1>3, <1>5, <3>1, Zenon
      <3>2. CASE n # 0
        <4>1. n - 1 \in 0..N
          BY <3>2 DEF N
        <4>2. g[n - 1] = T(n - 1) /\ W(T(n - 1), n - 1)
          BY <1>5, <4>1, Zenon
        <4>3. W(Apply(g[n - 1], es[n]), n)
          BY <1>2, <3>2, <4>2, Zenon
        <4> QED
          BY <1>3, <1>5, <3>2, <4>3, Zenon
      <3> QED
        BY <3>1, <3>2
    <2>2. g = F(g)
      BY <2>1, Zenon
    <2> QED
      BY <2>2, Zenon
  <1>7. PICK h : h = (CHOOSE g : g = F(g))
    OBVIOUS
  <1>8. h = F(h)
    BY <1>6, <1>7, Zenon
  <1>9. \A n \in 0..N : h[n] = IF n = 0 THEN tab ELSE Apply(h[n - 1], es[n])
    <2> SUFFICES ASSUME NEW n \in 0..N
                 PROVE  h[n] = IF n = 0 THEN tab ELSE Apply(h[n - 1], es[n])
      OBVIOUS
    <2>1. h[n] = F(h)[n]
      BY <1>8, Zenon
    <2> QED
      BY <2>1, Zenon
  <1>10. ApplyEntries(tab, es) = h[N]
    BY <1>7, Zenon DEF ApplyEntries, N
  <1> DEFINE wrong == {n \in Nat : n <= N /\ ~W(h[n], n)}
  <1>11. wrong = {}
    <2> SUFFICES ASSUME wrong # {} PROVE FALSE
      OBVIOUS
    <2>1. PICK m \in wrong : \A y \in wrong : m <= y
      BY MinProperties, Zenon
    <2>2. m \in 0..N /\ m \in Nat /\ ~W(h[m], m)
      BY <2>1 DEF N
    <2>3. CASE m = 0
      BY <1>1, <1>9, <2>2, <2>3, Zenon
    <2>4. CASE m # 0
      <3>1. m - 1 \in Nat /\ m - 1 <= N /\ ~(m <= m - 1)
        BY <2>2, <2>4 DEF N
      <3>2. W(h[m - 1], m - 1)
        BY <2>1, <3>1, Zenon
      <3>3. W(Apply(h[m - 1], es[m]), m)
        BY <1>2, <2>2, <2>4, <3>2, Zenon
      <3> QED
        BY <1>9, <2>2, <2>4, <3>3, Zenon
    <2> QED
      BY <2>3, <2>4
  <1>12. W(h[N], N)
    <2>1. N \in Nat /\ N <= N
      BY DEF N
    <2> QED
      BY <1>11, <2>1, Zenon
  <1> QED
    BY <1>10, <1>12, Zenon DEF W, N

(* Applying a part of a log performs the writes of that part.              *)
LEMMA ApplyWritten ==
    ASSUME NEW tab, tab = [k \in DOMAIN tab |-> tab[k]],
           NEW S, \A e \in S : e.data.key \in DOMAIN tab,
           NEW s \in Seq(S), NEW a \in Nat, NEW b \in Nat, b <= Len(s)
    PROVE  Written(ApplyEntries(tab, SubSeq(s, a + 1, b)), tab, s, a, b)
  <1>1. PICK es : es = SubSeq(s, a + 1, b)
    BY Zenon
  <1>2. PICK n : n = IF a + 1 <= b THEN b - a ELSE 0
    OBVIOUS
  <1>3. Len(s) \in Nat
    BY LenProperties
  <1>4. n \in Nat
    BY <1>2
  <1>5. Len(es) = n /\ \A j \in 1..n : es[j] = s[a + j]
    <2>1. CASE a + 1 <= b
      BY <1>1, <1>2, <1>3, <2>1, SubSeqProperties
    <2>2. CASE ~(a + 1 <= b)
      <3>1. es = << >>
        BY <1>1, <2>2, SubSeqProperties
      <3> QED
        BY <1>2, <2>2, <3>1
    <2> QED
      BY <2>1, <2>2
  <1>6. \A j \in 1..n : a + j \in 1..Len(s)
    BY <1>2, <1>3
  <1>7. \A l \in 1..Len(s) : s[l] \in S
    BY ElementOfSeq
  <1>8. \A j \in 1..n : es[j].data.key \in DOMAIN tab
    BY <1>5, <1>6, <1>7, Zenon
  <1>9. PICK t : t = ApplyEntries(tab, es)
    OBVIOUS
  <1>10. Written(t, tab, es, 0, n)
    BY <1>4, <1>5, <1>8, <1>9, ApplyIsWritten
  <1>11. ASSUME NEW k \in DOMAIN tab
         PROVE  \/ \E j \in (a + 1)..b : LastWrite(s, a, b, k, j) /\ t[k] = s[j].data.val
                \/ (\A j \in (a + 1)..b : s[j].data.key # k) /\ t[k] = tab[k]
    <2>1. \A j \in (a + 1)..b : j - a \in 1..n /\ j = a + (j - a)
      BY <1>2
    <2>2. CASE \E j \in (0 + 1)..n : LastWrite(es, 0, n, k, j) /\ t[k] = es[j].data.val
      <3>1. PICK x \in 1..n : LastWrite(es, 0, n, k, x) /\ t[k] = es[x].data.val
        BY <2>2
      <3>2. a + x \in (a + 1)..b
        BY <1>2, <3>1
      <3>3. ASSUME NEW l \in (a + x + 1)..b PROVE s[l].data.key # k
        <4>1. l - a \in 1..n /\ l - a \in (x + 1)..n /\ l = a + (l - a)
          BY <1>2, <3>1
        <4> QED
          BY <1>5, <3>1, <4>1, Zenon DEF LastWrite
      <3>4. LastWrite(s, a, b, k, a + x)
        BY <1>5, <3>1, <3>2, <3>3, Zenon DEF LastWrite
      <3> QED
        BY <1>5, <3>1, <3>2, <3>4, Zenon
    <2>3. CASE (\A j \in (0 + 1)..n : es[j].data.key # k) /\ t[k] = tab[k]
      <3>1. ASSUME NEW j \in (a + 1)..b PROVE s[j].data.key # k
        <4>1. PICK l \in 1..n : j = a + l
          BY <2>1, Zenon
        <4>2. es[l].data.key # k
          BY <2>3
        <4> QED
          BY <1>5, <4>1, <4>2, Zenon
      <3> QED
        BY <2>3, <3>1, Zenon
    <2> QED
      BY <1>10, <2>2, <2>3, Zenon DEF Written
  <1> QED
    BY <1>1, <1>9, <1>10, <1>11, Zenon DEF Written

(* Writing again what was written last, and then what follows, is writing  *)
(* all of it once.                                                         *)
LEMMA WrittenTwice ==
    ASSUME NEW tab, NEW t, NEW u, NEW s, NEW a \in Nat, NEW b \in Nat, NEW p \in Nat,
           NEW c \in Nat, a <= b, b <= p, p <= c,
           Written(t, tab, s, a, p), Written(u, t, s, b, c)
    PROVE  Written(u, tab, s, a, c)
  <1> SUFFICES ASSUME NEW k \in DOMAIN tab
               PROVE  \/ \E j \in (a + 1)..c : LastWrite(s, a, c, k, j) /\ u[k] = s[j].data.val
                      \/ (\A j \in (a + 1)..c : s[j].data.key # k) /\ u[k] = tab[k]
    BY Zenon DEF Written
  <1>1. \/ \E j \in (b + 1)..c : LastWrite(s, b, c, k, j) /\ u[k] = s[j].data.val
        \/ (\A j \in (b + 1)..c : s[j].data.key # k) /\ u[k] = t[k]
    BY Zenon DEF Written
  <1>2. \/ \E j \in (a + 1)..p : LastWrite(s, a, p, k, j) /\ t[k] = s[j].data.val
        \/ (\A j \in (a + 1)..p : s[j].data.key # k) /\ t[k] = tab[k]
    BY Zenon DEF Written
  <1>3. /\ \A j \in (b + 1)..c : j \in (a + 1)..c
        /\ \A j \in (a + 1)..c : j \in (a + 1)..p \/ j \in (b + 1)..c
        /\ \A j \in (a + 1)..p : j \in (a + 1)..c
        /\ \A j \in (a + 1)..p : \A l \in (j + 1)..c : l \in (j + 1)..p \/ l \in (b + 1)..c
    OBVIOUS
  <1>4. CASE \E j \in (b + 1)..c : LastWrite(s, b, c, k, j) /\ u[k] = s[j].data.val
    BY <1>3, <1>4, Zenon DEF LastWrite
  <1>5. CASE (\A j \in (b + 1)..c : s[j].data.key # k) /\ u[k] = t[k]
    <2>1. CASE \E j \in (a + 1)..p : LastWrite(s, a, p, k, j) /\ t[k] = s[j].data.val
      <3>1. PICK j \in (a + 1)..p : LastWrite(s, a, p, k, j) /\ t[k] = s[j].data.val
        BY <2>1
      <3>2. \A l \in (j + 1)..c : s[l].data.key # k
        BY <1>3, <1>5, <3>1, Zenon DEF LastWrite
      <3>3. LastWrite(s, a, c, k, j)
        BY <1>3, <3>1, <3>2, Zenon DEF LastWrite
      <3> QED
        BY <1>3, <1>5, <3>1, <3>3, Zenon
    <2>2. CASE (\A j \in (a + 1)..p : s[j].data.key # k) /\ t[k] = tab[k]
      BY <1>3, <1>5, <2>2, Zenon
    <2> QED
      BY <1>2, <2>1, <2>2
  <1> QED
    BY <1>1, <1>4, <1>5

(* What is written depends on the entries up to the last one alone.        *)
LEMMA WrittenAgree ==
    ASSUME NEW t, NEW tab, NEW r, NEW s, NEW a \in Nat, NEW b \in Nat,
           \A j \in 1..b : r[j] = s[j], Written(t, tab, r, a, b)
    PROVE  Written(t, tab, s, a, b)
  <1>1. \A j \in (a + 1)..b : r[j] = s[j] /\ \A l \in (j + 1)..b : r[l] = s[l]
    OBVIOUS
  <1>2. \A k \in DOMAIN tab, j \in (a + 1)..b : LastWrite(r, a, b, k, j) => LastWrite(s, a, b, k, j)
    BY <1>1, Zenon DEF LastWrite
  <1> SUFFICES ASSUME NEW k \in DOMAIN tab
               PROVE  \/ \E j \in (a + 1)..b : LastWrite(s, a, b, k, j) /\ t[k] = s[j].data.val
                      \/ (\A j \in (a + 1)..b : s[j].data.key # k) /\ t[k] = tab[k]
    BY Zenon DEF Written
  <1>3. \/ \E j \in (a + 1)..b : LastWrite(r, a, b, k, j) /\ t[k] = r[j].data.val
        \/ (\A j \in (a + 1)..b : r[j].data.key # k) /\ t[k] = tab[k]
    BY Zenon DEF Written
  <1>4. CASE \E j \in (a + 1)..b : LastWrite(r, a, b, k, j) /\ t[k] = r[j].data.val
    BY <1>1, <1>2, <1>4, Zenon
  <1>5. CASE (\A j \in (a + 1)..b : r[j].data.key # k) /\ t[k] = tab[k]
    BY <1>1, <1>5, Zenon
  <1> QED
    BY <1>3, <1>4, <1>5
=============================================================================
