---------------------------- MODULE RecallProofs -----------------------------
(***************************************************************************)
(* Theorems about Recall, for any vaults, chunks, queries, scores and      *)
(* bounds.                                                                 *)
(***************************************************************************)
EXTENDS Recall, CollectionLemmas

-----------------------------------------------------------------------------
(* Sorted.                                                                    *)

Scored(S) == IsFiniteSet(S) /\ \A x \in S : x.score \in Int

Best(T) == CHOOSE e \in T : \A x \in T : x.score <= e.score

\* The recursion that defines Sorted.
Sorting(h, S) ==
    h = [T \in SUBSET S |-> IF T = {} THEN <<>> ELSE <<Best(T)>> \o h[T \ {Best(T)}]]

\* q lists the members of S, the best ones first.
Ranking(q, S) ==
    /\ q \in Seq(S) /\ Len(q) = Cardinality(S)
    /\ \A i, j \in 1 .. Len(q) : q[i] = q[j] => i = j
    /\ \A x \in S : \E i \in 1 .. Len(q) : q[i] = x
    /\ \A i, j \in 1 .. Len(q) : i < j => q[i].score >= q[j].score

LEMMA BestIsBest ==
  ASSUME NEW S, Scored(S), NEW T \in SUBSET S, T # {}
  PROVE  Best(T) \in T /\ \A x \in T : x.score <= Best(T).score
  <1> DEFINE Rel == {p \in T \X T : p[2].score <= p[1].score}
  <1>1. IsFiniteSet(T) /\ \A x \in T : x.score \in Int
      BY FS_Subset DEF Scored
  <1>2. \A a, b \in T : <<a, b>> \in Rel <=> b.score <= a.score
      OBVIOUS
  <1>3. Ranks(Rel, T)
      <2> HIDE DEF Rel
      <2>1. \A a, b \in T : b.score <= a.score \/ a.score <= b.score
          BY <1>1
      <2>2. \A a, b, c \in T : b.score <= a.score /\ c.score <= b.score => c.score <= a.score
          BY <1>1
      <2> QED  BY <1>2, <2>1, <2>2 DEF Ranks
  <1>4. \E m \in T : \A x \in T : <<m, x>> \in Rel
      <2> HIDE DEF Rel
      <2> QED  BY <1>1, <1>3, BestMember
  <1>5. \E m \in T : \A x \in T : x.score <= m.score
      <2> HIDE DEF Rel
      <2> QED  BY <1>2, <1>4
  <1> QED  BY <1>5 DEF Best

\* The solution for the sets of n members extends that for the smaller ones.
LEMMA SortingExists ==
  ASSUME NEW S, Scored(S)
  PROVE  \E h \in [SUBSET S -> Seq(S)] : Sorting(h, S)
  <1> DEFINE Small(n) == {T \in SUBSET S : Cardinality(T) <= n}
             Part(h, n) == h = [T \in Small(n) |->
                  IF T = {} THEN <<>> ELSE <<Best(T)>> \o h[T \ {Best(T)}]]
             Solvable(n) == \E h \in [Small(n) -> Seq(S)] : Part(h, n)
             Bad == {n \in Nat : ~ Solvable(n)}
  <1>1. \A T \in SUBSET S : /\ IsFiniteSet(T) /\ Cardinality(T) \in Nat
                            /\ Cardinality(T) <= Cardinality(S)
                            /\ Cardinality(T) = 0 <=> T = {}
      BY FS_Subset, FS_CardinalityType, FS_EmptySet DEF Scored
  <1>2. Bad = {}
      <2> SUFFICES ASSUME Bad # {} PROVE FALSE
          OBVIOUS
      <2>1. PICK n \in Bad : \A m \in Bad : n <= m
          <3> HIDE DEF Bad
          <3>1. Bad \in SUBSET Nat
              BY DEF Bad
          <3> QED  BY <3>1, LeastNumber
      <2>2. n # 0
          <3> DEFINE z == [T \in Small(0) |-> <<>>]
          <3>1. \A T \in Small(0) : T = {}
              BY <1>1
          <3>2. Part(z, 0) /\ z \in [Small(0) -> Seq(S)]
              BY <3>1
          <3>3. Solvable(0)
              BY <3>2
          <3> HIDE DEF Solvable
          <3> QED  BY <2>1, <3>3
      <2>3. n \in Nat /\ n - 1 \in Nat /\ Solvable(n - 1)
          <3> HIDE DEF Solvable
          <3> QED  BY <2>1, <2>2
      <2>4. PICK h \in [Small(n - 1) -> Seq(S)] : Part(h, n - 1)
          BY <2>3
      <2> DEFINE g == [T \in Small(n) |->
                  IF T = {} THEN <<>> ELSE <<Best(T)>> \o h[T \ {Best(T)}]]
      <2>5. \A T \in Small(n) \ {{}} : Best(T) \in T /\ T \ {Best(T)} \in Small(n - 1)
          <3> SUFFICES ASSUME NEW T \in Small(n) \ {{}}, NEW y, y = Best(T)
                       PROVE  y \in T /\ T \ {y} \in Small(n - 1)
              OBVIOUS
          <3>1. y \in T
              BY BestIsBest
          <3>2. Cardinality(T \ {y}) = Cardinality(T) - 1
              BY <1>1, <3>1, FS_RemoveElement
          <3>3. Cardinality(T) \in Nat /\ Cardinality(T) <= n
              BY <1>1
          <3> QED  BY <2>3, <3>1, <3>2, <3>3
      <2>6. \A T \in Small(n - 1) : T \in Small(n) /\ g[T] = h[T]
          <3> SUFFICES ASSUME NEW T \in Small(n - 1)
                       PROVE  T \in Small(n) /\ g[T] = h[T]
              OBVIOUS
          <3>1. T \in Small(n)
              BY <1>1, <2>3
          <3>2. h[T] = IF T = {} THEN <<>> ELSE <<Best(T)>> \o h[T \ {Best(T)}]
              BY <2>4
          <3> QED  BY <3>1, <3>2
      <2>7. g \in [Small(n) -> Seq(S)]
          <3> SUFFICES ASSUME NEW T \in Small(n)
                       PROVE  g[T] \in Seq(S)
              OBVIOUS
          <3>1. CASE T = {}
              BY <3>1
          <3>2. CASE T # {}
              <4>1. Best(T) \in S /\ h[T \ {Best(T)}] \in Seq(S)
                  BY <2>5, <3>2
              <4> QED  BY <3>2, <4>1
          <3> QED  BY <3>1, <3>2
      <2>8. Part(g, n)
          <3>1. \A T \in Small(n) : T # {} => g[T \ {Best(T)}] = h[T \ {Best(T)}]
              <4> HIDE DEF g
              <4> QED  BY <2>5, <2>6
          <3>2. \A T \in Small(n) : g[T] =
                   IF T = {} THEN <<>> ELSE <<Best(T)>> \o h[T \ {Best(T)}]
              OBVIOUS
          <3>3. g = [T \in Small(n) |-> g[T]]
              OBVIOUS
          <3> HIDE DEF g
          <3>4. \A T \in Small(n) : g[T] =
                   IF T = {} THEN <<>> ELSE <<Best(T)>> \o g[T \ {Best(T)}]
              BY <3>1, <3>2
          <3> QED  BY <3>3, <3>4
      <2>9. Solvable(n)
          BY <2>7, <2>8
      <2> HIDE DEF Solvable
      <2> QED  BY <2>1, <2>9
  <1>3. PICK h \in [Small(Cardinality(S)) -> Seq(S)] : Part(h, Cardinality(S))
      <2>1. Cardinality(S) \in Nat
          BY FS_CardinalityType DEF Scored
      <2> QED  BY <1>2, <2>1
  <1>4. Small(Cardinality(S)) = SUBSET S
      BY <1>1
  <1> QED  BY <1>3, <1>4 DEF Sorting

LEMMA SortedIsASolution ==
  ASSUME NEW S, Scored(S)
  PROVE  \E h : Sorting(h, S) /\ Sorted(S) = h[S]
  <1> DEFINE sorted == CHOOSE h : Sorting(h, S)
  <1>1. Sorting(sorted, S)
      BY SortingExists
  <1>2. Sorted(S) = sorted[S]
      BY DEF Sorted, Sorting, Best
  <1> QED  BY <1>1, <1>2

\* The best member goes before a ranking of the others.
LEMMA RankBefore ==
  ASSUME NEW S, Scored(S), NEW b \in S, \A x \in S : x.score <= b.score,
         NEW q, Ranking(q, S \ {b})
  PROVE  Ranking(<<b>> \o q, S)
  <1> DEFINE w == <<b>> \o q
             n == Len(q)
             R == S \ {b}
  <1>1. q \in Seq(R) /\ n \in Nat /\ n = Cardinality(R)
      BY DEF Ranking
  <1>2. Cardinality(S) = n + 1
      <2>1. IsFiniteSet(S) /\ Cardinality(R) = Cardinality(S) - 1 /\ Cardinality(S) \in Nat
          BY FS_RemoveElement, FS_CardinalityType DEF Scored
      <2> QED  BY <1>1, <2>1
  <1>3. \A i \in 1 .. n : q[i] \in R
      BY <1>1
  <1>4. w \in Seq(S) /\ Len(w) = n + 1 /\ w[1] = b
        /\ \A i \in 1 .. n + 1 : i # 1 => w[i] = q[i - 1] /\ i - 1 \in 1 .. n
      <2>1. q \in Seq(S) /\ <<b>> \in Seq(S)
          BY <1>1
      <2>2. w \in Seq(S) /\ Len(w) = n + 1
          BY <1>1, <2>1
      <2>3. \A i \in 1 .. n + 1 : w[i] = IF i <= 1 THEN <<b>>[i] ELSE q[i - 1]
          BY <1>1, <2>1
      <2>4. 1 \in 1 .. n + 1 /\ \A i \in 1 .. n + 1 : i # 1 => ~(i <= 1) /\ i - 1 \in 1 .. n
          <3>1. \A m \in Nat : 1 \in 1 .. m + 1 /\
                   \A i \in 1 .. m + 1 : i # 1 => ~(i <= 1) /\ i - 1 \in 1 .. m
              OBVIOUS
          <3> HIDE DEF n
          <3> QED  BY <1>1, <3>1
      <2>5. w[1] = <<b>>[1] /\ <<b>>[1] = b
          BY <2>3, <2>4
      <2> HIDE DEF w
      <2> QED  BY <2>2, <2>3, <2>4, <2>5
  <1>5. \A i, j \in 1 .. n : (q[i] = q[j] => i = j) /\ (i < j => q[i].score >= q[j].score)
      BY DEF Ranking
  <1> HIDE DEF w
  <1>6. ASSUME NEW i \in 1 .. n + 1, NEW j \in 1 .. n + 1
        PROVE  (w[i] = w[j] => i = j) /\ (i < j => w[i].score >= w[j].score)
      <2>1. CASE i = 1 /\ j = 1
          BY <2>1
      <2>2. CASE i = 1 /\ j # 1
          <3>1. w[j] \in S /\ w[j] # b
              BY <1>3, <1>4, <2>2
          <3>2. w[j].score <= b.score /\ w[j].score \in Int /\ b.score \in Int
              BY <3>1 DEF Scored
          <3> QED  BY <1>4, <2>2, <3>1, <3>2
      <2>3. CASE i # 1 /\ j = 1
          <3>1. w[i] \in S /\ w[i] # b /\ w[j] = b
              BY <1>1, <1>3, <1>4, <2>3
          <3> QED  BY <1>1, <2>3, <3>1
      <2>4. CASE i # 1 /\ j # 1
          <3>1. w[i] = q[i - 1] /\ w[j] = q[j - 1] /\ i - 1 \in 1 .. n /\ j - 1 \in 1 .. n
              BY <1>4, <2>4
          <3>2. (i - 1 = j - 1 <=> i = j) /\ (i < j => i - 1 < j - 1)
              BY <1>1
          <3> QED  BY <1>5, <3>1, <3>2
      <2> QED  BY <2>1, <2>2, <2>3, <2>4
  <1>7. ASSUME NEW x \in S
        PROVE  \E i \in 1 .. n + 1 : w[i] = x
      <2>1. CASE x = b
          BY <1>1, <1>4, <2>1
      <2>2. CASE x # b
          <3>1. PICK i \in 1 .. n : q[i] = x
              BY <2>2 DEF Ranking
          <3>2. i + 1 \in 1 .. n + 1 /\ i + 1 # 1 /\ i + 1 - 1 = i
              BY <1>1
          <3>3. w[i + 1] = q[i + 1 - 1]
              BY <1>4, <3>2
          <3> QED  BY <3>1, <3>2, <3>3
      <2> QED  BY <2>1, <2>2
  <1>8. Ranking(w, S)
      <2> HIDE DEF n, R
      <2> QED  BY <1>2, <1>4, <1>6, <1>7 DEF Ranking
  <1> QED  BY <1>8 DEF w

LEMMA SortedRanks ==
  ASSUME NEW S, Scored(S)
  PROVE  Ranking(Sorted(S), S)
  <1>1. PICK h : Sorting(h, S) /\ Sorted(S) = h[S]
      BY SortedIsASolution
  <1> DEFINE Bad == {T \in SUBSET S : ~ Ranking(h[T], T)}
  <1>2. Bad = {}
      <2> SUFFICES ASSUME Bad # {} PROVE FALSE
          OBVIOUS
      <2>1. PICK T \in Bad : \A U \in Bad : U \subseteq T => U = T
          <3>1. Bad \in SUBSET SUBSET S /\ IsFiniteSet(S)
              BY DEF Scored
          <3> HIDE DEF Bad
          <3> QED  BY <3>1, SmallestSet
      <2>2. T \in SUBSET S /\ ~ Ranking(h[T], T)
          BY <2>1
      <2>3. T # {}
          <3>1. h[{}] = <<>>
              BY <1>1 DEF Sorting
          <3>2. Cardinality({}) = 0
              BY FS_EmptySet
          <3>3. Ranking(<<>>, {})
              BY <3>2 DEF Ranking
          <3> QED  BY <2>2, <3>1, <3>3
      <2>4. Scored(T)
          BY <2>2, FS_Subset DEF Scored
      <2>5. PICK b : b = Best(T)
          OBVIOUS
      <2>6. b \in T /\ \A x \in T : x.score <= b.score
          BY <2>2, <2>3, <2>5, BestIsBest
      <2>7. h[T] = <<b>> \o h[T \ {b}]
          BY <1>1, <2>2, <2>3, <2>5 DEF Sorting
      <2>8. Ranking(h[T \ {b}], T \ {b})
          <3>1. T \ {b} \notin Bad /\ T \ {b} \in SUBSET S
              <4> HIDE DEF Bad
              <4> QED  BY <2>1, <2>2, <2>6
          <3> QED  BY <3>1
      <2> QED  BY <2>2, <2>4, <2>6, <2>7, <2>8, RankBefore
  <1>3. S \notin Bad
      BY <1>2
  <1> QED  BY <1>1, <1>3

-----------------------------------------------------------------------------
(* Lists cut, searched and taken from.                                        *)

LEMMA ImageIsFinite ==
  ASSUME NEW S, IsFiniteSet(S), NEW f
  PROVE  IsFiniteSet({f[x] : x \in S})
  <1> DEFINE T == {f[x] : x \in S}
             g == [x \in S |-> f[x]]
  <1>1. g \in Surjection(S, T)
      BY DEF Surjection
  <1> QED  BY <1>1, FS_Surjection

LEMMA Members ==
  ASSUME NEW S, NEW s \in Seq(S)
  PROVE  /\ ToSet(s) \subseteq S /\ IsFiniteSet(ToSet(s))
         /\ \A x : x \in ToSet(s) <=> \E i \in 1 .. Len(s) : s[i] = x
  <1>1. DOMAIN s = 1 .. Len(s) /\ Len(s) \in Nat
      OBVIOUS
  <1>2. IsFiniteSet(1 .. Len(s))
      BY <1>1, FS_Interval
  <1>3. IsFiniteSet({s[i] : i \in 1 .. Len(s)})
      BY <1>2, ImageIsFinite
  <1>4. ToSet(s) = {s[i] : i \in 1 .. Len(s)}
      BY <1>1 DEF ToSet
  <1>5. \A i \in 1 .. Len(s) : s[i] \in S
      BY <1>1
  <1> QED  BY <1>3, <1>4, <1>5

LEMMA CountUpTo ==
  ASSUME NEW n \in Nat
  PROVE  IsFiniteSet(1 .. n) /\ Cardinality(1 .. n) = n
  BY FS_Interval

LEMMA FirstOfList ==
  ASSUME NEW S, NEW s \in Seq(S), NEW n \in Nat
  PROVE  /\ FirstOf(s, n) \in Seq(S)
         /\ Len(FirstOf(s, n)) = IF Len(s) < n THEN Len(s) ELSE n
         /\ \A i \in 1 .. Len(FirstOf(s, n)) : FirstOf(s, n)[i] = s[i]
  <1> DEFINE m == IF Len(s) < n THEN Len(s) ELSE n
  <1>1. m \in Nat /\ m <= Len(s) /\ Len(s) \in Nat
      OBVIOUS
  <1>2. FirstOf(s, n) = SubSeq(s, 1, m)
      BY DEF FirstOf
  <1>3. Len(SubSeq(s, 1, m)) = m /\ SubSeq(s, 1, m) \in Seq(S)
        /\ \A i \in 1 .. m : SubSeq(s, 1, m)[i] = s[i]
      <2> HIDE DEF m
      <2>1. \A i \in 1 .. m : s[i] \in S
          BY <1>1
      <2> QED  BY <1>1, <2>1
  <1> QED  BY <1>2, <1>3

\* q lists at most n members of S, none twice, the best ones first.
Shortlist(q, S, n) ==
    /\ q \in Seq(S) /\ Len(q) <= n
    /\ \A i, j \in 1 .. Len(q) : q[i] = q[j] => i = j
    /\ \A i, j \in 1 .. Len(q) : i < j => q[i].score >= q[j].score
    /\ Len(q) < n => \A x \in S : x \in ToSet(q)
    /\ \A x \in S : x \notin ToSet(q) => \A i \in 1 .. Len(q) : x.score <= q[i].score

LEMMA BestOfSorted ==
  ASSUME NEW S, Scored(S), NEW n \in Nat
  PROVE  Shortlist(FirstOf(Sorted(S), n), S, n)
  <1> DEFINE s == Sorted(S)
             q == FirstOf(s, n)
  <1>1. Ranking(s, S)
      BY SortedRanks
  <1>2. s \in Seq(S) /\ Len(s) \in Nat
      BY <1>1 DEF Ranking
  <1> HIDE DEF s
  <1>3. /\ q \in Seq(S) /\ Len(q) = IF Len(s) < n THEN Len(s) ELSE n
        /\ \A i \in 1 .. Len(q) : q[i] = s[i]
      BY <1>2, FirstOfList
  <1> HIDE DEF q
  <1>4. Len(q) \in Nat /\ Len(q) <= n /\ Len(q) <= Len(s) /\ (Len(q) < n => Len(q) = Len(s))
      BY <1>2, <1>3
  <1>5. \A i \in 1 .. Len(q) : i \in 1 .. Len(s)
      BY <1>2, <1>4
  <1>6. \A i, j \in 1 .. Len(q) : (q[i] = q[j] => i = j) /\ (i < j => q[i].score >= q[j].score)
      BY <1>1, <1>3, <1>5 DEF Ranking
  <1>7. \A x : x \in ToSet(q) <=> \E i \in 1 .. Len(q) : q[i] = x
      BY <1>3, Members
  <1>8. ASSUME NEW x \in S, x \notin ToSet(q)
        PROVE  Len(q) = n /\ \A i \in 1 .. Len(q) : x.score <= q[i].score
      <2>1. PICK k \in 1 .. Len(s) : s[k] = x
          BY <1>1 DEF Ranking
      <2>2. k \notin 1 .. Len(q)
          BY <1>3, <1>7, <1>8, <2>1
      <2>3. Len(q) < k
          BY <1>2, <1>4, <2>2
      <2>4. \A i \in 1 .. Len(q) : i < k /\ q[i].score >= x.score
          BY <1>1, <1>2, <1>3, <1>4, <1>5, <2>1, <2>3 DEF Ranking
      <2>5. \A i \in 1 .. Len(q) : q[i].score \in Int /\ x.score \in Int
          BY <1>3 DEF Scored
      <2> QED  BY <1>2, <1>4, <2>3, <2>4, <2>5
  <1>9. Shortlist(q, S, n)
      BY <1>3, <1>4, <1>6, <1>8 DEF Shortlist
  <1> QED  BY <1>9 DEF q, s

\* The places P in ascending order.
InOrder(p, P) ==
    /\ p \in Seq(P)
    /\ \A i, j \in 1 .. Len(p) : i < j <=> p[i] < p[j]
    /\ \A i, j \in 1 .. Len(p) : p[i] = p[j] => i = j
    /\ \A x \in P : \E i \in 1 .. Len(p) : p[i] = x

LEMMA AscendingOrder ==
  ASSUME NEW P \in SUBSET Int, IsFiniteSet(P)
  PROVE  InOrder(Ascending(P), P)
  <1> DEFINE f == [i \in P |-> [id |-> i, score |-> -i]]
             S == {f[i] : i \in P}
             s == Sorted(S)
             p == Ids(s)
  <1>1. S = {[id |-> i, score |-> -i] : i \in P}
      OBVIOUS
  <1>2. Ascending(P) = p
      BY <1>1 DEF Ascending
  <1>3. IsFiniteSet(S)
      <2> HIDE DEF f
      <2> QED  BY ImageIsFinite
  <1>4. \A x \in S : x.id \in P /\ x.score = -x.id /\ x = f[x.id]
      OBVIOUS
  <1>5. Scored(S)
      BY <1>3, <1>4 DEF Scored
  <1>6. \A i \in P : f[i] \in S /\ f[i].id = i
      OBVIOUS
  <1> HIDE DEF S, f
  <1>7. Ranking(s, S)
      BY <1>5, SortedRanks
  <1> HIDE DEF s
  <1>8. s \in Seq(S) /\ Len(s) \in Nat /\ DOMAIN s = 1 .. Len(s)
      BY <1>7 DEF Ranking
  <1>9. p \in Seq(P) /\ Len(p) = Len(s) /\ \A i \in 1 .. Len(s) : p[i] = s[i].id
      BY <1>4, <1>8 DEF Ids
  <1> HIDE DEF p
  <1>10. \A i \in 1 .. Len(s) : s[i] \in S /\ p[i] \in Int /\ s[i].score = -p[i] /\ s[i] = f[p[i]]
      <2> SUFFICES ASSUME NEW i \in 1 .. Len(s)
                   PROVE  /\ s[i] \in S /\ p[i] \in Int
                          /\ s[i].score = -p[i] /\ s[i] = f[p[i]]
          OBVIOUS
      <2>1. s[i] \in S /\ p[i] = s[i].id
          BY <1>8, <1>9
      <2> QED  BY <1>4, <2>1
  <1>11. \A i, j \in 1 .. Len(p) : p[i] = p[j] => i = j
      BY <1>7, <1>9, <1>10 DEF Ranking
  <1>12. \A i, j \in 1 .. Len(p) : i < j => p[i] <= p[j]
      <2>1. \A i, j \in 1 .. Len(p) : i < j => -p[i] >= -p[j]
          <3>1. \A i, j \in 1 .. Len(s) : i < j => s[i].score >= s[j].score
              BY <1>7 DEF Ranking
          <3> QED  BY <1>9, <1>10, <3>1
      <2> QED  BY <1>9, <1>10, <2>1
  <1>13. \A i, j \in 1 .. Len(p) : i < j <=> p[i] < p[j]
      <2> SUFFICES ASSUME NEW i \in 1 .. Len(p), NEW j \in 1 .. Len(p)
                   PROVE  i < j <=> p[i] < p[j]
          OBVIOUS
      <2>1. i \in Int /\ j \in Int /\ p[i] \in Int /\ p[j] \in Int
          BY <1>8, <1>9, <1>10
      <2>2. i < j => p[i] <= p[j] /\ p[i] # p[j]
          BY <1>11, <1>12, <2>1
      <2>3. j < i => p[j] <= p[i]
          BY <1>12
      <2> QED  BY <2>1, <2>2, <2>3
  <1>14. \A x \in P : \E i \in 1 .. Len(p) : p[i] = x
      <2> SUFFICES ASSUME NEW x \in P
                   PROVE  \E i \in 1 .. Len(p) : p[i] = x
          OBVIOUS
      <2>1. PICK i \in 1 .. Len(s) : s[i] = f[x]
          BY <1>6, <1>7 DEF Ranking
      <2> QED  BY <1>6, <1>9, <2>1
  <1>15. InOrder(p, P)
      BY <1>9, <1>11, <1>13, <1>14 DEF InOrder
  <1> QED  BY <1>2, <1>15

LEMMA AtPlaces ==
  ASSUME NEW S, NEW s \in Seq(S), NEW P \in SUBSET (1 .. Len(s)), NEW p \in Seq(P)
  PROVE  /\ At(s, p) \in Seq(S) /\ Len(At(s, p)) = Len(p)
         /\ \A i \in 1 .. Len(p) : At(s, p)[i] = s[p[i]]
  <1>1. DOMAIN p = 1 .. Len(p) /\ Len(p) \in Nat /\ \A i \in 1 .. Len(p) : p[i] \in 1 .. Len(s)
      <2>1. DOMAIN p = 1 .. Len(p) /\ Len(p) \in Nat /\ \A i \in 1 .. Len(p) : p[i] \in P
          OBVIOUS
      <2> QED  BY <2>1
  <1>2. \A i \in 1 .. Len(p) : s[p[i]] \in S
      BY <1>1
  <1> QED  BY <1>1, <1>2 DEF At

\* Some places of a list, in their order.
LEMMA TakenFrom ==
  ASSUME NEW S, NEW s \in Seq(S), NEW P \in SUBSET (1 .. Len(s))
  PROVE  \E p : /\ InOrder(p, P) /\ Len(p) <= Len(s)
                /\ Taken(s, P) \in Seq(S) /\ Len(Taken(s, P)) = Len(p)
                /\ \A i \in 1 .. Len(p) : Taken(s, P)[i] = s[p[i]]
  <1> DEFINE p == Ascending(P)
  <1>1. IsFiniteSet(1 .. Len(s)) /\ Cardinality(1 .. Len(s)) = Len(s)
      <2>1. Len(s) \in Nat
          OBVIOUS
      <2> QED  BY <2>1, CountUpTo
  <1>2. P \in SUBSET Int /\ IsFiniteSet(P) /\ Cardinality(P) <= Len(s)
      <2>1. IsFiniteSet(P) /\ Cardinality(P) <= Cardinality(1 .. Len(s))
          BY <1>1, FS_Subset
      <2> QED  BY <1>1, <2>1
  <1>3. InOrder(p, P)
      BY <1>2, AscendingOrder
  <1>4. Taken(s, P) = At(s, p)
      BY DEF Taken
  <1> HIDE DEF p
  <1>5. p \in Seq(P) /\ Len(p) \in Nat /\ \A i \in 1 .. Len(p) : p[i] \in P
      BY <1>3 DEF InOrder
  <1>6. Len(p) <= Len(s)
      <2> DEFINE g == [i \in 1 .. Len(p) |-> p[i]]
      <2>1. g \in Injection(1 .. Len(p), P)
          BY <1>3, <1>5 DEF Injection, IsInjective, InOrder
      <2>2. Cardinality(1 .. Len(p)) <= Cardinality(P)
          <3> HIDE DEF g
          <3> QED  BY <1>2, <2>1, FS_Injection
      <2>3. Cardinality(1 .. Len(p)) = Len(p)
          BY <1>5, CountUpTo
      <2>4. Cardinality(P) \in Nat /\ Len(s) \in Nat
          BY <1>2, FS_CardinalityType
      <2> QED  BY <1>2, <1>5, <2>2, <2>3, <2>4
  <1> QED  BY <1>3, <1>4, <1>5, <1>6, AtPlaces

-----------------------------------------------------------------------------
(* First occurrences, files and re-ranking.                                   *)

LEMMA FirstOccurrences ==
  ASSUME NEW S, NEW s \in Seq(S)
  PROVE  /\ Firsts(s) \in SUBSET (1 .. Len(s))
         /\ \A i, j \in Firsts(s) : s[i] = s[j] => i = j
         /\ \A x \in ToSet(s) : \E i \in Firsts(s) : s[i] = x
  <1>1. DOMAIN s = 1 .. Len(s) /\ Len(s) \in Nat
      OBVIOUS
  <1>2. Firsts(s) = {i \in 1 .. Len(s) : \A j \in 1 .. Len(s) : j < i => s[j] # s[i]}
      BY <1>1 DEF Firsts
  <1>3. ASSUME NEW i \in Firsts(s), NEW j \in Firsts(s), s[i] = s[j]
        PROVE  i = j
      <2>1. i \in 1 .. Len(s) /\ j \in 1 .. Len(s) /\ ~(i < j) /\ ~(j < i)
          BY <1>2, <1>3
      <2> QED  BY <1>1, <2>1
  <1>4. ASSUME NEW x \in ToSet(s)
        PROVE  \E i \in Firsts(s) : s[i] = x
      <2> DEFINE N == {i \in 1 .. Len(s) : s[i] = x}
      <2>1. N \in SUBSET Nat /\ N # {}
          BY <1>1, <1>4, Members
      <2>2. PICK m \in N : \A n \in N : m <= n
          <3> HIDE DEF N
          <3> QED  BY <2>1, LeastNumber
      <2>3. m \in 1 .. Len(s) /\ s[m] = x
          BY <2>2
      <2>4. \A j \in 1 .. Len(s) : j < m => s[j] # s[m]
          <3> SUFFICES ASSUME NEW j \in 1 .. Len(s), j < m, s[j] = s[m]
                       PROVE  FALSE
              OBVIOUS
          <3>1. j \in N
              BY <2>3
          <3>2. m <= j
              <4> HIDE DEF N
              <4> QED  BY <2>2, <3>1
          <3> QED  BY <2>3, <3>2
      <2> QED  BY <1>2, <2>3, <2>4
  <1> QED  BY <1>2, <1>3, <1>4

\* Places of first occurrences hold different things.
LEMMA TakenOnce ==
  ASSUME NEW S, NEW s \in Seq(S), NEW P \in SUBSET Firsts(s)
  PROVE  /\ Taken(s, P) \in Seq(S) /\ Len(Taken(s, P)) <= Len(s)
         /\ \A i, j \in 1 .. Len(Taken(s, P)) : Taken(s, P)[i] = Taken(s, P)[j] => i = j
         /\ \A i \in 1 .. Len(Taken(s, P)) : \E k \in P : Taken(s, P)[i] = s[k]
         /\ \A k \in P : \E i \in 1 .. Len(Taken(s, P)) : Taken(s, P)[i] = s[k]
  <1> DEFINE t == Taken(s, P)
  <1>1. P \in SUBSET (1 .. Len(s)) /\ \A i, j \in P : s[i] = s[j] => i = j
      BY FirstOccurrences
  <1>2. PICK p : /\ InOrder(p, P) /\ Len(p) <= Len(s)
                 /\ t \in Seq(S) /\ Len(t) = Len(p)
                 /\ \A i \in 1 .. Len(p) : t[i] = s[p[i]]
      BY <1>1, TakenFrom
  <1> HIDE DEF t
  <1>3. \A i \in 1 .. Len(p) : p[i] \in P
      BY <1>2 DEF InOrder
  <1>4. /\ \A i, j \in 1 .. Len(p) : p[i] = p[j] => i = j
        /\ \A x \in P : \E i \in 1 .. Len(p) : p[i] = x
      BY <1>2 DEF InOrder
  <1>5. /\ t \in Seq(S) /\ Len(t) <= Len(s) /\ 1 .. Len(t) = 1 .. Len(p)
        /\ \A i \in 1 .. Len(p) : t[i] = s[p[i]]
      BY <1>2
  <1>6. ASSUME NEW i \in 1 .. Len(p), NEW j \in 1 .. Len(p), t[i] = t[j]
        PROVE  i = j
      <2>1. s[p[i]] = s[p[j]]
          BY <1>5, <1>6
      <2>2. p[i] = p[j]
          BY <1>1, <1>3, <2>1
      <2> QED  BY <1>4, <2>2
  <1>7. \A i \in 1 .. Len(p) : \E k \in P : t[i] = s[k]
      BY <1>3, <1>5
  <1>8. \A k \in P : \E i \in 1 .. Len(p) : t[i] = s[k]
      BY <1>4, <1>5
  <1>9. \A i, j \in 1 .. Len(t) : t[i] = t[j] => i = j
      BY <1>5, <1>6
  <1> QED  BY <1>5, <1>7, <1>8, <1>9 DEF t

\* The list without repetitions.
LEMMA Distinct ==
  ASSUME NEW S, NEW s \in Seq(S)
  PROVE  /\ Taken(s, Firsts(s)) \in Seq(S)
         /\ \A i, j \in 1 .. Len(Taken(s, Firsts(s))) :
               Taken(s, Firsts(s))[i] = Taken(s, Firsts(s))[j] => i = j
         /\ ToSet(Taken(s, Firsts(s))) = ToSet(s)
  <1> DEFINE F == Firsts(s)
             t == Taken(s, F)
  <1>1. /\ F \in SUBSET (1 .. Len(s))
        /\ \A x \in ToSet(s) : \E i \in F : s[i] = x
      BY FirstOccurrences
  <1>2. /\ t \in Seq(S)
        /\ \A i, j \in 1 .. Len(t) : t[i] = t[j] => i = j
        /\ \A i \in 1 .. Len(t) : \E k \in F : t[i] = s[k]
        /\ \A k \in F : \E i \in 1 .. Len(t) : t[i] = s[k]
      BY TakenOnce
  <1> HIDE DEF t, F
  <1>3. \A x : x \in ToSet(s) <=> \E i \in 1 .. Len(s) : s[i] = x
      BY Members
  <1>4. \A x : x \in ToSet(t) <=> \E i \in 1 .. Len(t) : t[i] = x
      BY <1>2, Members
  <1>5. ToSet(t) \subseteq ToSet(s)
      BY <1>1, <1>2, <1>3, <1>4
  <1>6. ToSet(s) \subseteq ToSet(t)
      BY <1>1, <1>2, <1>3, <1>4
  <1> QED  BY <1>2, <1>5, <1>6 DEF t, F

\* Every place of a list, once, in any order.
Shuffle(p, n) ==
    /\ p \in Seq(1 .. n) /\ Len(p) = n
    /\ \A i, j \in 1 .. n : p[i] = p[j] => i = j
    /\ \A k \in 1 .. n : \E i \in 1 .. n : p[i] = k

LEMMA AllPlaces ==
  ASSUME NEW n \in Nat, NEW p \in Seq(1 .. n),
         \A i, j \in 1 .. Len(p) : p[i] = p[j] => i = j,
         \A k \in 1 .. n : \E i \in 1 .. Len(p) : p[i] = k
  PROVE  Shuffle(p, n)
  <1> DEFINE D == 1 .. Len(p)
             N == 1 .. n
             g == [i \in D |-> p[i]]
  <1>1. Len(p) \in Nat /\ \A i \in D : p[i] \in N
      <2> HIDE DEF N
      <2>1. p \in Seq(N)
          BY DEF N
      <2> QED  BY <2>1
  <1>2. g \in Injection(D, N)
      BY <1>1 DEF Injection, IsInjective
  <1>3. g \in Surjection(D, N)
      BY <1>1 DEF Surjection
  <1>4. IsFiniteSet(D) /\ IsFiniteSet(N) /\ Cardinality(D) = Len(p) /\ Cardinality(N) = n
      BY <1>1, CountUpTo
  <1>5. Cardinality(D) = Cardinality(N)
      <2> HIDE DEF D, N, g
      <2> QED  BY <1>2, <1>3, <1>4, FS_Injection
  <1>6. Len(p) = n
      <2> HIDE DEF D, N
      <2> QED  BY <1>4, <1>5
  <1> QED  BY <1>6 DEF Shuffle

LEMMA RerankShuffles ==
  ASSUME NEW S, NEW out \in Seq(S), NEW order \in Seq(1 .. Len(out))
  PROVE  \E p : Shuffle(p, Len(out)) /\ Rerank(out, order) = At(out, p)
  <1> DEFINE n == Len(out)
             D == 1 .. n
             a == Taken(order, Firsts(order))
             P == DOMAIN out \ ToSet(order)
             b == Ascending(P)
             p == a \o b
  <1>1. n \in Nat /\ DOMAIN out = D
      OBVIOUS
  <1>2. /\ a \in Seq(D) /\ ToSet(a) = ToSet(order)
        /\ \A i, j \in 1 .. Len(a) : a[i] = a[j] => i = j
      BY Distinct
  <1>3. InOrder(b, P)
      <2>1. IsFiniteSet(D)
          BY <1>1, CountUpTo
      <2>2. P \in SUBSET D /\ P \in SUBSET Int
          BY <1>1
      <2>3. IsFiniteSet(P)
          BY <2>1, <2>2, FS_Subset
      <2> HIDE DEF P
      <2> QED  BY <2>2, <2>3, AscendingOrder
  <1>4. Rerank(out, order) = At(out, p)
      BY DEF Rerank
  <1>5. P = D \ ToSet(order)
      BY <1>1
  <1> HIDE DEF P, a, b, n
  <1>6. b \in Seq(P)
        /\ (\A i, j \in 1 .. Len(b) : b[i] = b[j] => i = j)
        /\ \A x \in P : \E i \in 1 .. Len(b) : b[i] = x
      BY <1>3 DEF InOrder
  <1>7. b \in Seq(D) /\ Len(a) \in Nat /\ Len(b) \in Nat
        /\ (\A i \in 1 .. Len(b) : b[i] \in P) /\ (\A i \in 1 .. Len(a) : a[i] \in D)
      <2>1. P \in SUBSET D
          BY <1>5
      <2>2. b \in Seq(P) /\ a \in Seq(D)
          BY <1>2, <1>6
      <2> HIDE DEF D
      <2>3. \A i \in 1 .. Len(b) : b[i] \in P
          BY <2>2
      <2>4. b \in Seq(D) /\ Len(b) \in Nat
          BY <2>1, <2>2
      <2> QED  BY <2>2, <2>3, <2>4
  <1>8. p \in Seq(D) /\ Len(p) = Len(a) + Len(b)
        /\ \A i \in 1 .. Len(p) : p[i] = IF i <= Len(a) THEN a[i] ELSE b[i - Len(a)]
      BY <1>2, <1>7
  <1> HIDE DEF p
  <1>9. \A i \in 1 .. Len(p) : i <= Len(a) => i \in 1 .. Len(a) /\ p[i] = a[i]
      BY <1>7, <1>8
  <1>10. \A i \in 1 .. Len(p) : ~(i <= Len(a)) => i - Len(a) \in 1 .. Len(b) /\ p[i] = b[i - Len(a)]
      BY <1>7, <1>8
  <1>11. \A x : x \in ToSet(order) <=> \E i \in 1 .. Len(a) : a[i] = x
      BY <1>2, Members
  <1>12. ASSUME NEW i \in 1 .. Len(p), NEW j \in 1 .. Len(p), p[i] = p[j]
         PROVE  i = j
      <2>1. CASE i <= Len(a) /\ j <= Len(a)
          BY <1>2, <1>9, <1>12, <2>1
      <2>2. CASE i <= Len(a) /\ ~(j <= Len(a))
          BY <1>5, <1>7, <1>9, <1>10, <1>11, <1>12, <2>2
      <2>3. CASE ~(i <= Len(a)) /\ j <= Len(a)
          BY <1>5, <1>7, <1>9, <1>10, <1>11, <1>12, <2>3
      <2>4. CASE ~(i <= Len(a)) /\ ~(j <= Len(a))
          <3>1. i - Len(a) = j - Len(a)
              <4>1. /\ i - Len(a) \in 1 .. Len(b) /\ j - Len(a) \in 1 .. Len(b)
                    /\ b[i - Len(a)] = b[j - Len(a)]
                  BY <1>10, <1>12, <2>4
              <4> QED  BY <1>6, <4>1
          <3> QED  BY <1>7, <3>1
      <2> QED  BY <2>1, <2>2, <2>3, <2>4
  <1>13. ASSUME NEW k \in D
         PROVE  \E i \in 1 .. Len(p) : p[i] = k
      <2>1. CASE k \in ToSet(order)
          <3>1. PICK i \in 1 .. Len(a) : a[i] = k
              BY <1>11, <2>1
          <3>2. i \in 1 .. Len(p) /\ i <= Len(a)
              BY <1>7, <1>8
          <3> QED  BY <1>9, <3>1, <3>2
      <2>2. CASE k \notin ToSet(order)
          <3>1. PICK i \in 1 .. Len(b) : b[i] = k
              BY <1>5, <1>6, <2>2
          <3>2. i + Len(a) \in 1 .. Len(p) /\ ~(i + Len(a) <= Len(a)) /\ i + Len(a) - Len(a) = i
              BY <1>7, <1>8
          <3> QED  BY <1>10, <3>1, <3>2
      <2> QED  BY <2>1, <2>2
  <1>14. Shuffle(p, n)
      BY <1>1, <1>8, <1>12, <1>13, AllPlaces
  <1> QED  BY <1>4, <1>14 DEF n

\* Re-ranking loses and repeats nothing.
LEMMA RerankIsAPermutation ==
  ASSUME NEW S, NEW out \in Seq(S), NEW order \in Seq(1 .. Len(out))
  PROVE  /\ Rerank(out, order) \in Seq(S) /\ Len(Rerank(out, order)) = Len(out)
         /\ ToSet(Rerank(out, order)) = ToSet(out)
         /\ IsInjective(out) => IsInjective(Rerank(out, order))
  <1> DEFINE n == Len(out)
             w == Rerank(out, order)
  <1>1. PICK p : Shuffle(p, n) /\ w = At(out, p)
      BY RerankShuffles
  <1>2. p \in Seq(1 .. n) /\ Len(p) = n /\ n \in Nat
      BY <1>1 DEF Shuffle
  <1>3. w \in Seq(S) /\ Len(w) = n /\ \A i \in 1 .. n : w[i] = out[p[i]]
      <2>1. p \in Seq(1 .. Len(out)) /\ 1 .. Len(out) \in SUBSET (1 .. Len(out))
          BY <1>2
      <2>2. /\ At(out, p) \in Seq(S) /\ Len(At(out, p)) = Len(p)
            /\ \A i \in 1 .. Len(p) : At(out, p)[i] = out[p[i]]
          BY <2>1, AtPlaces
      <2> HIDE DEF w
      <2> QED  BY <1>1, <1>2, <2>2
  <1>4. \A i \in 1 .. n : p[i] \in 1 .. n
      BY <1>2
  <1> HIDE DEF w
  <1>5. DOMAIN w = 1 .. n /\ DOMAIN out = 1 .. n
      BY <1>3
  <1>6. \A x : x \in ToSet(w) <=> \E i \in 1 .. n : w[i] = x
      BY <1>3, Members
  <1>7. \A x : x \in ToSet(out) <=> \E i \in 1 .. n : out[i] = x
      BY Members
  <1>8. ToSet(w) \subseteq ToSet(out)
      BY <1>3, <1>4, <1>6, <1>7
  <1>9. ToSet(out) \subseteq ToSet(w)
      <2>1. \A k \in 1 .. n : \E i \in 1 .. n : p[i] = k
          BY <1>1 DEF Shuffle
      <2> HIDE DEF n
      <2>2. \A k \in 1 .. n : \E i \in 1 .. n : w[i] = out[k]
          <3> SUFFICES ASSUME NEW k \in 1 .. n
                       PROVE  \E i \in 1 .. n : w[i] = out[k]
              OBVIOUS
          <3>1. PICK i \in 1 .. n : p[i] = k
              BY <2>1
          <3> QED  BY <1>3, <3>1
      <2> QED  BY <1>6, <1>7, <2>2
  <1>10. IsInjective(out) => IsInjective(w)
      <2>1. \A i, j \in 1 .. n : p[i] = p[j] => i = j
          BY <1>1 DEF Shuffle
      <2> HIDE DEF n
      <2> QED  BY <1>3, <1>4, <1>5, <2>1 DEF IsInjective
  <1> QED  BY <1>3, <1>8, <1>9, <1>10 DEF w

-----------------------------------------------------------------------------
(* The inductive invariant.                                                   *)

RequestType ==
    [pc : Phases, vault : Vault \cup {None}, mode : Modes \cup {None},
     rewrite : Rewrites, filter : SUBSET Chunk, limit : Limit \cup {0},
     more : Limit \cup {0}, asks : Seq(Query), lists : Seq(Seq(Chunk)), index : SUBSET Chunk,
     out : Seq(Entries), top : Int, files : Seq(Files), sources : Seq(Files),
     context : SUBSET Chunk, stamped : 0 .. 2]

\* The kinds of request that call doRecall, or load whole files, and their
\* phases on the way to an answer.
Single == {"recall", "mcp", "hybrid", "rag", "auto", "full"}
Inside == {"rewrite", "search", "fan", "lexical", "cache", "fuse", "fetch", "rank",
           "context", "full", "load", "answer", "explain"}

\* Nothing has been put into the context yet.
Early  == {"idle", "rewrite", "search", "fan", "lexical", "cache", "fuse", "fetch", "rank",
           "use", "context", "vaults", "batch"}

\* Each kind of request has its phases; rankings name no chunk twice; the files of
\* the context are among the sources.
Placed(x) ==
    /\ x.pc \in Inside \cup {"failed"} => kind \in Single /\ x.vault \in Vault
    /\ x.pc = "use" => kind \in Single \cup {"vaults"}
    /\ x.pc = "vaults" => kind = "vaults"
    /\ x.pc = "batch" => kind = "batch" /\ x.out = <<>>
    /\ kind = "hybrid" /\ x.pc # "idle" => x.mode # "sparse"
    /\ x.pc = "search" => x.asks # <<>>
    /\ x.pc \in Early => x.context = {} /\ x.stamped = 0
    /\ x.pc \in {"full", "load"} => x.stamped <= 1
    /\ \A c \in x.context : File[c] \in ToSet(x.sources)
    /\ \A i \in 1 .. Len(x.lists) : IsInjective(x.lists[i]) /\ Len(x.lists[i]) <= 2 * x.limit

\* What a chunk among the results may be.
Sound(e) == e.id \in seen /\ Home[e.id] = Client(e.vault)

Cap(x) == IF x.mode = "sparse" THEN 2 * x.limit ELSE x.limit

\* No id twice, and none twice but what may be.
Once(s) == \A i, j \in 1 .. Len(s) : s[i].id = s[j].id => i = j

Fair(s) == \A i, j \in 1 .. Len(s) : i # j /\ s[i].id = s[j].id => MayRepeat(s[i].id)

\* Before they are looked up, results name chunks, each once; afterwards they
\* are entries that exist.
Results(x) ==
    /\ x.pc \in {"fetch", "rank", "use", "context", "vaults"} =>
          \A i \in 1 .. Len(x.out) : x.out[i].id \in Chunk
    /\ x.pc = "fetch" =>
          /\ Len(x.out) <= Cap(x) /\ Once(x.out)
          /\ \A i \in 1 .. Len(x.out) : x.out[i].vault = x.vault
    /\ x.pc \in {"rank", "use", "context"} => Len(x.out) <= Cap(x)
    /\ x.pc \in {"rank", "context"} => Once(x.out)
    /\ x.pc \in {"use", "vaults", "done"} => Fair(x.out)
    /\ x.pc \in {"rank", "use", "context", "vaults", "done"} =>
          \A i \in 1 .. Len(x.out) : x.out[i].id \in Chunk => Sound(x.out[i])
    /\ x.pc = "done" /\ kind # "cited" =>
          Len(x.out) <= (IF x.mode = "sparse" \/ kind = "hybrid" THEN 2 ELSE 1) * x.limit + x.more

Good(x) == x \in RequestType /\ Placed(x) /\ Results(x)

\* The goroutines of a request over several vaults: what is in the response is
\* what those that are done have found.
GoroutineType ==
    [pc : {"search", "append", "done"}, vault : Vault \cup Unlisted, found : Seq(Entries)]

Goroutines ==
    /\ r.pc = "idle" => DOMAIN workers = {}
    /\ \A v \in DOMAIN workers :
          /\ workers[v] \in GoroutineType
          /\ workers[v].pc = "search" => workers[v].found = <<>>
          /\ workers[v].pc # "done" => r.pc = "vaults"
          /\ Once(workers[v].found)
          /\ \A i \in 1 .. Len(workers[v].found) :
                /\ workers[v].found[i].id \in Chunk /\ Sound(workers[v].found[i])
                /\ workers[v].found[i].vault = workers[v].vault
    /\ r.pc = "vaults" =>
          \A e : e \in ToSet(r.out) <=>
                 \E v \in DOMAIN workers : workers[v].pc = "done" /\ e \in ToSet(workers[v].found)

\* The answer over several vaults shows the best of what they found.
Merged ==
    kind = "vaults" /\ r.pc = "use" =>
        LET found == UNION {ToSet(workers[v].found) : v \in DOMAIN workers} IN
        /\ ToSet(r.out) \subseteq found
        /\ Len(r.out) < r.limit => found \subseteq ToSet(r.out)
        /\ \A e \in found, i \in DOMAIN r.out :
              e \notin ToSet(r.out) => e.score <= r.out[i].score

\* The goroutines of a batch: those that run hold the slots, those that are done
\* have written their entries.
Batched ==
    /\ IsFiniteSet(DOMAIN queries) /\ DOMAIN queries \subseteq Nat
    /\ DOMAIN entries = DOMAIN queries
    /\ \A i \in DOMAIN queries :
          /\ queries[i] \in [pc : {"queued", "running", "done"}, vault : Vault]
          /\ queries[i].pc # "done" => r.pc = "batch"
          /\ queries[i].pc = "done" => entries[i] # None /\ entries[i].index = i
    /\ slots \in 0 .. BatchSlots
    /\ slots = Cardinality({i \in DOMAIN queries : queries[i].pc = "running"})

Stores ==
    /\ kind \in Kinds /\ stored \subseteq Chunk /\ seen \subseteq Chunk
    /\ lexical \in [Vault -> SUBSET Chunk]
    /\ r.pc # "idle" => stored \subseteq seen

Inv == Stores /\ Good(r) /\ Goroutines /\ Merged /\ Batched

-----------------------------------------------------------------------------
(* What searches find.                                                        *)

\* s names at most n of the ids in C, none twice, in entries of vault v.
Found(s, n, v, C) ==
    /\ s \in Seq(Entries) /\ Len(s) <= n
    /\ \A i, j \in 1 .. Len(s) : s[i].id = s[j].id => i = j
    /\ \A i \in 1 .. Len(s) : s[i].id \in C /\ s[i].vault = v

LEMMA EntriesAreScored ==
  ASSUME NEW D, IsFiniteSet(D), NEW f \in [D -> Entries]
  PROVE  Scored({f[c] : c \in D})
  <1>1. IsFiniteSet({f[c] : c \in D})
      BY ImageIsFinite
  <1>2. \A x \in {f[c] : c \in D} : x.score \in Int
      BY DEF Entries
  <1> QED  BY <1>1, <1>2 DEF Scored

Values(f, D) == {f[c] : c \in D}

LEMMA EntriesAreRanked ==
  ASSUME NEW D, IsFiniteSet(D), NEW f \in [D -> Entries], NEW n \in Nat
  PROVE  Shortlist(FirstOf(Sorted(Values(f, D)), n), Values(f, D), n)
  <1>1. Scored(Values(f, D))
      BY EntriesAreScored DEF Values
  <1> QED  BY <1>1, BestOfSorted

LEMMA EntriesAreFound ==
  ASSUME NEW D, IsFiniteSet(D), NEW f \in [D -> Entries], NEW v, NEW n \in Nat,
         \A c \in D : f[c].id = c /\ f[c].vault = v
  PROVE  Found(FirstOf(Sorted({f[c] : c \in D}), n), n, v, D)
  <1> DEFINE S == {f[c] : c \in D}
             s == FirstOf(Sorted(S), n)
  <1>2. S \subseteq Entries /\ \A x \in S : x.id \in D /\ x.vault = v /\ x = f[x.id]
      OBVIOUS
  <1>3. Shortlist(s, S, n)
      BY EntriesAreRanked DEF Values
  <1> HIDE DEF S, s
  <1>4. s \in Seq(S) /\ Len(s) <= n /\ \A i, j \in 1 .. Len(s) : s[i] = s[j] => i = j
      BY <1>3 DEF Shortlist
  <1>5. \A i \in 1 .. Len(s) : s[i] \in S
      BY <1>4
  <1>6. s \in Seq(Entries)
      BY <1>2, <1>4
  <1>7. Found(s, n, v, D)
      BY <1>2, <1>4, <1>5, <1>6 DEF Found
  <1> QED  BY <1>7 DEF s, S

LEMMA SearchFinds ==
  ASSUME RecallAssumption, stored \subseteq Chunk,
         NEW v \in Vault \cup Unlisted, NEW q \in Query, NEW filter, NEW n \in Nat
  PROVE  Found(Search(v, q, filter, n), n, v,
               {c \in stored \cap filter : Home[c] = Client(v)})
  <1> DEFINE D == {c \in stored \cap filter : Home[c] = Client(v)}
             f == [c \in D |-> [id |-> c, score |-> Score[q][c], vault |-> v]]
  <1>1. IsFiniteSet(D) /\ D \subseteq Chunk
      BY FS_Subset DEF RecallAssumption
  <1>2. f \in [D -> Entries]
      <2>1. \A c \in D : Score[q][c] \in Int
          BY <1>1 DEF RecallAssumption
      <2> QED  BY <1>1, <2>1 DEF Entries
  <1>3. \A c \in D : f[c].id = c /\ f[c].vault = v
      OBVIOUS
  <1>4. {f[c] : c \in D} = {[id |-> c, score |-> Score[q][c], vault |-> v] : c \in D}
      <2> HIDE DEF D
      <2> QED  OBVIOUS
  <1>5. Found(FirstOf(Sorted({f[c] : c \in D}), n), n, v, D)
      <2> HIDE DEF D, f
      <2>1. IsFiniteSet(D)
          BY <1>1
      <2> QED  BY <2>1, <1>2, <1>3, EntriesAreFound, ZenonT(60)
  <1> QED  BY <1>4, <1>5 DEF Search

LEMMA LexicalSearchFinds ==
  ASSUME RecallAssumption, NEW index \in SUBSET Chunk, NEW v \in Vault, NEW n \in Nat
  PROVE  Found(LexicalSearch(index, v, n), n, v, index)
  <1> DEFINE D == {c \in index : Bm25[c] >= 0}
             f == [c \in D |-> [id |-> c, score |-> Bm25[c], vault |-> v]]
  <1>1. IsFiniteSet(D) /\ D \subseteq Chunk
      BY FS_Subset DEF RecallAssumption
  <1>2. f \in [D -> Entries]
      <2>1. \A c \in D : Bm25[c] \in Int
          BY <1>1 DEF RecallAssumption
      <2> QED  BY <1>1, <2>1 DEF Entries
  <1>3. \A c \in D : f[c].id = c /\ f[c].vault = v
      OBVIOUS
  <1>4. {f[c] : c \in D} = {[id |-> c, score |-> Bm25[c], vault |-> v] : c \in D}
      <2> HIDE DEF D
      <2> QED  OBVIOUS
  <1>5. Found(FirstOf(Sorted({f[c] : c \in D}), n), n, v, D)
      <2> HIDE DEF D, f
      <2>1. IsFiniteSet(D) /\ n \in Nat
          BY <1>1
      <2>2. f \in [D -> Entries] /\ \A c \in D : f[c].id = c /\ f[c].vault = v
          BY <1>2, <1>3
      <2> QED  BY ONLY <2>1, <2>2, EntriesAreFound, ZenonT(60)
  <1>6. Found(LexicalSearch(index, v, n), n, v, D)
      BY <1>4, <1>5 DEF LexicalSearch
  <1> QED  BY <1>6 DEF Found

LEMMA FactSearchFinds ==
  ASSUME RecallAssumption, NEW n \in Nat
  PROVE  Found(FactSearch(n), n, None, Fact)
  <1> DEFINE f == [c \in Fact |-> [id |-> c, score |-> FactScore[c], vault |-> None]]
  <1>1. IsFiniteSet(Fact)
      BY DEF RecallAssumption
  <1>2. f \in [Fact -> Entries]
      BY DEF Entries, RecallAssumption
  <1>3. \A c \in Fact : f[c].id = c /\ f[c].vault = None
      OBVIOUS
  <1>4. {f[c] : c \in Fact} =
            {[id |-> c, score |-> FactScore[c], vault |-> None] : c \in Fact}
      OBVIOUS
  <1>5. Found(FirstOf(Sorted({f[c] : c \in Fact}), n), n, None, Fact)
      <2> HIDE DEF f
      <2> QED  BY <1>1, <1>2, <1>3, EntriesAreFound, ZenonT(60)
  <1> QED  BY <1>4, <1>5 DEF FactSearch

\* The chunks of a list of lists.
LEMMA ShareType ==
  ASSUME NEW list \in Seq(Chunk), NEW c
  PROVE  Share(list, c) \in Nat
  <1>1. CASE c \in ToSet(list)
      <2> DEFINE k == CHOOSE i \in DOMAIN list : list[i] = c
      <2>1. \E i \in DOMAIN list : list[i] = c
          BY <1>1, Members
      <2>2. k \in DOMAIN list
          BY <2>1
      <2>3. k \in Nat /\ k >= 1
          BY <2>2
      <2>4. Share(list, c) = Unit \div (K + k)
          BY <1>1 DEF Share
      <2> HIDE DEF k
      <2>5. K + k \in Nat /\ K + k > 0 /\ Unit \in Nat
          BY <2>3 DEF K, Unit
      <2>6. Unit \div (K + k) \in Nat
          BY <2>5
      <2> QED  BY <2>4, <2>6
  <1>2. CASE c \notin ToSet(list)
      BY <1>2 DEF Share
  <1> QED  BY <1>1, <1>2

\* The score of a chunk: the sum of its shares.
Total(lists, c) == SumFunction([i \in DOMAIN lists |-> Share(lists[i], c)])

\* Entries carry their scores, the best ones first.
Fused(out, lists) ==
    /\ \A i \in 1 .. Len(out) : out[i].score = Total(lists, out[i].id)
    /\ \A i, j \in 1 .. Len(out) : i < j => out[i].score >= out[j].score

LEMMA FuseRanks ==
  ASSUME RecallAssumption, NEW lists \in Seq(Seq(Chunk)), NEW v \in Vault, NEW n \in Nat
  PROVE  /\ Found(FirstOf(Fuse(lists, v), n), n, v, Chunk)
         /\ Fused(FirstOf(Fuse(lists, v), n), lists)
  <1> DEFINE D == UNION {ToSet(lists[i]) : i \in DOMAIN lists}
             total == [c \in D |->
                          SumFunction([i \in DOMAIN lists |-> Share(lists[i], c)])]
             f == [c \in D |-> [id |-> c, vault |-> v, score |-> total[c]]]
  <1>1. DOMAIN lists = 1 .. Len(lists) /\ Len(lists) \in Nat
        /\ \A i \in DOMAIN lists : lists[i] \in Seq(Chunk)
      OBVIOUS
  <1>2. IsFiniteSet(D) /\ D \subseteq Chunk
      <2>1. \A i \in DOMAIN lists : ToSet(lists[i]) \subseteq Chunk
          BY <1>1, Members
      <2>2. D \subseteq Chunk
          BY <2>1
      <2> HIDE DEF D
      <2> QED  BY <2>2, FS_Subset DEF RecallAssumption
  <1>3. ASSUME NEW c \in D
        PROVE  total[c] \in Int
      <2> DEFINE g == [i \in DOMAIN lists |-> Share(lists[i], c)]
      <2>1. IsFiniteSet(DOMAIN lists)
          BY <1>1, CountUpTo
      <2>2. g \in [DOMAIN lists -> Int]
          BY <1>1, ShareType
      <2> HIDE DEF g
      <2>3. SumFunction(g) \in Int
          BY <2>1, <2>2, SumType
      <2> QED  BY <2>3 DEF g
  <1>4. f \in [D -> Entries] /\ \A c \in D : f[c].id = c /\ f[c].vault = v
      <2> HIDE DEF total, D
      <2> QED  BY <1>2, <1>3 DEF Entries
  <1>10. \A c \in D : f[c].score = Total(lists, c)
      <2>1. \A c \in D : total[c] = Total(lists, c)
          <3> HIDE DEF D
          <3> QED  BY DEF Total
      <2> HIDE DEF total, D
      <2> QED  BY <2>1
  <1>5. Fuse(lists, v) = Sorted({f[c] : c \in D})
      <2>1. {f[c] : c \in D} = {[id |-> c, vault |-> v, score |-> total[c]] : c \in D}
          <3> HIDE DEF total, D
          <3> QED  OBVIOUS
      <2>2. {[id |-> c, vault |-> v, score |-> total[c]] : c \in D} =
            {[id |-> c, vault |-> v,
              score |-> SumFunction([i \in DOMAIN lists |-> Share(lists[i], c)])] : c \in D}
          <3> HIDE DEF D
          <3> QED  OBVIOUS
      <2> QED  BY <2>1, <2>2 DEF Fuse
  <1> DEFINE out == FirstOf(Fuse(lists, v), n)
  <1> HIDE DEF f, D, total
  <1>6. Found(out, n, v, D) /\ Shortlist(out, Values(f, D), n)
      <2>1. IsFiniteSet(D)
          BY <1>2
      <2>2. f \in [D -> Entries]
          BY <1>4
      <2>3. \A c \in D : f[c].id = c /\ f[c].vault = v
          BY <1>4
      <2>4. Found(FirstOf(Sorted({f[c] : c \in D}), n), n, v, D)
          BY <2>1, <2>2, <2>3, EntriesAreFound, ZenonT(60)
      <2>5. Shortlist(FirstOf(Sorted(Values(f, D)), n), Values(f, D), n)
          BY <2>1, <2>2, EntriesAreRanked
      <2>6. Fuse(lists, v) = Sorted(Values(f, D))
          BY <1>5 DEF Values
      <2> QED  BY <1>5, <2>4, <2>5, <2>6
  <1> HIDE DEF out
  <1>7. Found(out, n, v, Chunk)
      BY <1>2, <1>6 DEF Found
  <1>8. \A i, j \in 1 .. Len(out) : i < j => out[i].score >= out[j].score
      BY <1>6 DEF Shortlist
  <1>9. \A i \in 1 .. Len(out) : out[i].score = Total(lists, out[i].id)
      <2>1. out \in Seq(Values(f, D))
          BY <1>6 DEF Shortlist
      <2>2. \A i \in 1 .. Len(out) : out[i] \in Values(f, D)
          BY <2>1
      <2>3. \A x \in Values(f, D) : x.score = Total(lists, x.id)
          BY <1>4, <1>10 DEF Values
      <2> QED  BY <2>2, <2>3
  <1>11. Fused(out, lists)
      BY <1>8, <1>9 DEF Fused
  <1> QED  BY <1>7, <1>11 DEF out

LEMMA FuseFinds ==
  ASSUME RecallAssumption, NEW lists \in Seq(Seq(Chunk)), NEW v \in Vault, NEW n \in Nat
  PROVE  Found(FirstOf(Fuse(lists, v), n), n, v, Chunk)
  BY FuseRanks

\* Ids of a list that names no chunk twice.
LEMMA IdsOfFound ==
  ASSUME NEW s, NEW n \in Nat, NEW v, NEW C \in SUBSET Chunk, Found(s, n, v, C)
  PROVE  Ids(s) \in Seq(Chunk) /\ IsInjective(Ids(s)) /\ Len(Ids(s)) = Len(s) /\ Len(s) <= n
  <1>1. s \in Seq(Entries) /\ DOMAIN s = 1 .. Len(s) /\ Len(s) \in Nat
      BY DEF Found
  <1>2. \A i \in 1 .. Len(s) : s[i].id \in Chunk
      BY DEF Found
  <1>3. Ids(s) \in Seq(Chunk) /\ Len(Ids(s)) = Len(s) /\ DOMAIN Ids(s) = 1 .. Len(s)
      BY <1>1, <1>2 DEF Ids
  <1>4. IsInjective(Ids(s))
      BY <1>1, <1>3 DEF Ids, IsInjective, Found
  <1> QED  BY <1>3, <1>4 DEF Found

LEMMA FilesOfList ==
  ASSUME NEW s \in Seq(Entries), \A i \in 1 .. Len(s) : s[i].id \in Chunk
  PROVE  /\ FilesOf(s) \in Seq(Files)
         /\ \A i \in 1 .. Len(s) : File[s[i].id] \in ToSet(FilesOf(s))
  <1> DEFINE f == [i \in DOMAIN s |-> File[s[i].id]]
             t == Taken(f, Firsts(f))
  <1>1. DOMAIN s = 1 .. Len(s) /\ Len(s) \in Nat
      OBVIOUS
  <1>2. f \in Seq(Files) /\ Len(f) = Len(s) /\ \A i \in 1 .. Len(s) : f[i] = File[s[i].id]
      BY <1>1 DEF Files
  <1>3. FilesOf(s) = t
      BY DEF FilesOf
  <1> HIDE DEF f
  <1>4. t \in Seq(Files) /\ ToSet(t) = ToSet(f)
      BY <1>2, Distinct
  <1>5. \A i \in 1 .. Len(s) : f[i] \in ToSet(f)
      BY <1>2, Members
  <1> HIDE DEF t
  <1> QED  BY <1>2, <1>3, <1>4, <1>5

-----------------------------------------------------------------------------
(* Steps of the request.                                                      *)

\* The request moves on; an index may be cached.
Moves(s) ==
    /\ r' = s
    /\ lexical' \in [Vault -> SUBSET Chunk]
    /\ UNCHANGED <<kind, stored, seen, workers, queries, slots, entries>>

LEMMA StepMoves ==
  ASSUME Inv, NEW s, Step(s)
  PROVE  Moves(s)
  BY DEF Inv, Stores, Step, Moves

\* To a good record, with no goroutine under way.
LEMMA MoveKeeps ==
  ASSUME Inv, NEW s, Moves(s), Good(s), r.pc # "idle", s.pc \notin {"idle", "vaults"},
         \A v \in DOMAIN workers : workers[v].pc = "done",
         \A i \in DOMAIN queries : queries[i].pc = "done"
  PROVE  Stores' /\ Good(r)' /\ Goroutines' /\ Batched'
  <1>1. /\ r' = s /\ kind' = kind /\ stored' = stored /\ seen' = seen
        /\ lexical' \in [Vault -> SUBSET Chunk]
        /\ workers' = workers /\ queries' = queries /\ slots' = slots /\ entries' = entries
      BY DEF Moves
  <1>2. Stores'
      BY <1>1 DEF Inv, Stores
  <1>3. Good(r)'
      <2>1. r' \in RequestType /\ Placed(r)'
          BY <1>1 DEF Good, Placed
      <2>2. \A x : Sound(x)' <=> Sound(x)
          BY <1>1 DEF Sound, Client
      <2>3. \A id : MayRepeat(id)' <=> MayRepeat(id)
          BY <1>1 DEF MayRepeat, SearchedTwice, Client
      <2>4. Results(r)'
          BY <1>1, <2>2, <2>3 DEF Good, Results, Once, Fair
      <2> QED  BY <2>1, <2>4 DEF Good
  <1>4. Goroutines'
      BY <1>1 DEF Inv, Goroutines, Sound, Client, Once
  <1>5. Batched'
      BY <1>1 DEF Inv, Batched
  <1> QED  BY <1>2, <1>3, <1>4, <1>5

LEMMA RequestSteps ==
  ASSUME Inv, NEW s, Moves(s), Good(s), r.pc \in Inside \cup {"use", "failed"},
         s.pc \notin {"idle", "vaults"}, s.pc = "use" => r.pc \in Inside
  PROVE  Inv'
  <1>1. r.pc # "idle" /\ r.pc # "vaults" /\ r.pc # "batch"
      BY DEF Inside
  <1>2. /\ \A v \in DOMAIN workers : workers[v].pc = "done"
        /\ \A i \in DOMAIN queries : queries[i].pc = "done"
      BY <1>1 DEF Inv, Goroutines, Batched
  <1>3. Merged'
      <2>1. r.pc \in Inside => kind # "vaults"
          BY DEF Inv, Good, Placed, Single
      <2>2. r' = s /\ kind' = kind
          BY DEF Moves
      <2> QED  BY <2>1, <2>2 DEF Merged
  <1> QED  BY <1>1, <1>2, <1>3, MoveKeeps DEF Inv

LEMMA FailKeeps ==
  ASSUME Inv, r.pc \in Inside, Fail
  PROVE  Inv'
  <1> DEFINE s == [r EXCEPT !.pc = "failed", !.asks = <<>>, !.lists = <<>>, !.index = {}]
  <1>1. r \in RequestType /\ Placed(r) /\ Results(r)
      BY DEF Inv, Good
  <1>2. s \in RequestType
      <2>1. /\ "failed" \in Phases /\ <<>> \in Seq(Query) /\ <<>> \in Seq(Seq(Chunk))
            /\ {} \in SUBSET Chunk
          BY DEF Phases
      <2> QED  BY <1>1, <2>1 DEF RequestType
  <1>3. /\ s.pc = "failed" /\ s.lists = <<>> /\ s.vault = r.vault /\ s.mode = r.mode
        /\ s.context = r.context /\ s.sources = r.sources
      BY <1>1 DEF RequestType
  <1>4. Moves(s)
      BY StepMoves DEF Fail
  <1> HIDE DEF s
  <1>5. Placed(s)
      BY <1>1, <1>3 DEF Placed, Inside, Early
  <1>6. Results(s)
      BY <1>3 DEF Results
  <1>7. Good(s)
      BY <1>2, <1>5, <1>6 DEF Good
  <1> QED  BY <1>3, <1>4, <1>7, RequestSteps
\* What most steps leave alone.
Keeps(s) ==
    /\ s.vault = r.vault /\ s.mode = r.mode /\ s.limit = r.limit /\ s.more = r.more
    /\ s.context = r.context /\ s.stamped = r.stamped /\ s.sources = r.sources

LEMMA Steady ==
  ASSUME Inv
  PROVE  /\ r \in RequestType /\ Placed(r) /\ Results(r)
         /\ stored \subseteq Chunk /\ seen \subseteq Chunk
         /\ r.limit \in Nat /\ 2 * r.limit \in Nat /\ Cap(r) \in Nat /\ Cap(r) <= 2 * r.limit
         /\ r.pc # "idle" => stored \subseteq seen
  <1>1. r \in RequestType /\ Placed(r) /\ Results(r)
      BY DEF Inv, Good
  <1>2. r.limit \in Nat
      <2>1. r.limit \in Limit \cup {0}
          BY <1>1 DEF RequestType
      <2>2. Limit \subseteq Nat \ {0}
          BY RecallAssumption DEF RecallAssumption
      <2>3. 0 \in Nat /\ Limit \subseteq Nat
          BY <2>2
      <2> QED  BY <2>1, <2>3, Zenon
  <1>3. 2 * r.limit \in Nat /\ r.limit <= 2 * r.limit
      BY <1>2
  <1>4. Cap(r) \in Nat /\ Cap(r) <= 2 * r.limit
      BY <1>2, <1>3 DEF Cap
  <1> QED  BY <1>1, <1>2, <1>3, <1>4 DEF Inv, Stores

\* Steps of doRecall before it has results.
LEMMA EarlySteps ==
  ASSUME Inv, r.pc \in Inside \cap Early, NEW s \in RequestType, Step(s) \/ Moves(s), Keeps(s),
         s.pc \in {"search", "fan", "lexical", "cache", "fuse"},
         s.pc = "search" => s.asks # <<>>,
         \A i \in 1 .. Len(s.lists) : IsInjective(s.lists[i]) /\ Len(s.lists[i]) <= 2 * r.limit
  PROVE  Inv'
  <1>1. Placed(r) /\ Results(r)
      BY Steady
  <1>2. Placed(s)
      BY <1>1 DEF Placed, Keeps, Inside, Early
  <1>3. Results(s)
      BY DEF Results
  <1>4. Good(s) /\ Moves(s)
      BY <1>2, <1>3, StepMoves DEF Good
  <1> QED  BY <1>4, RequestSteps

\* A ranking is ready to be looked up ...
LEMMA FetchSteps ==
  ASSUME Inv, r.pc \in Inside \cap Early, NEW s \in RequestType, Step(s), Keeps(s),
         s.pc = "fetch", Found(s.out, Cap(r), r.vault, Chunk),
         \A i \in 1 .. Len(s.lists) : IsInjective(s.lists[i]) /\ Len(s.lists[i]) <= 2 * r.limit
  PROVE  Inv'
  <1>1. Placed(r) /\ Results(r)
      BY Steady
  <1>2. Placed(s)
      BY <1>1 DEF Placed, Keeps, Inside, Early
  <1>3. Results(s)
      BY DEF Results, Found, Keeps, Cap, Once
  <1>4. Good(s) /\ Moves(s)
      BY <1>2, <1>3, StepMoves DEF Good
  <1> QED  BY <1>4, RequestSteps

\* ... and results are ready to be re-ranked.
LEMMA RankSteps ==
  ASSUME Inv, r.pc \in Inside \cap Early, NEW out \in Seq(Entries), NEW top \in Int,
         Step(Ranked(out, top)), Len(out) <= Cap(r), Once(out),
         \A i \in 1 .. Len(out) : out[i].id \in Chunk /\ Sound(out[i])
  PROVE  Inv'
  <1> DEFINE s == Ranked(out, top)
  <1>1. r \in RequestType /\ Placed(r) /\ Results(r)
      BY Steady
  <1>2. s \in RequestType
      <2>1. "rank" \in Phases /\ <<>> \in Seq(Query) /\ {} \in SUBSET Chunk
          BY DEF Phases
      <2> QED  BY <1>1, <2>1 DEF RequestType, Ranked
  <1>3. Keeps(s) /\ s.pc = "rank" /\ s.out = out /\ s.lists = r.lists
      BY <1>1 DEF RequestType, Ranked, Keeps
  <1> HIDE DEF s
  <1>4. Placed(s)
      BY <1>1, <1>3 DEF Placed, Keeps, Inside, Early
  <1>5. Results(s)
      BY <1>3 DEF Results, Keeps, Cap
  <1>6. Good(s)
      BY <1>2, <1>4, <1>5 DEF Good
  <1>7. Moves(s)
      BY StepMoves DEF s
  <1> QED  BY <1>3, <1>6, <1>7, RequestSteps

LEMMA TopType ==
  ASSUME NEW out \in Seq(Entries)
  PROVE  TopOf(out) \in Int
  <1>1. out # <<>> => out[1] \in Entries
      OBVIOUS
  <1> QED  BY <1>1 DEF TopOf, Entries

\* Nothing was found.
LEMMA NoneRank ==
  ASSUME Inv, r.pc \in Inside \cap Early, Step(Ranked(<<>>, 0))
  PROVE  Inv'
  <1>1. <<>> \in Seq(Entries) /\ Len(<<>>) = 0 /\ Once(<<>>)
      BY DEF Once
  <1>2. Len(<<>>) <= Cap(r)
      BY <1>1, Steady
  <1>3. \A i \in 1 .. Len(<<>>) : <<>>[i].id \in Chunk /\ Sound(<<>>[i])
      BY <1>1
  <1>4. PICK out, top : out = <<>> /\ top = 0
      OBVIOUS
  <1>5. /\ out \in Seq(Entries) /\ top \in Int /\ Step(Ranked(out, top))
        /\ Len(out) <= Cap(r) /\ Once(out)
        /\ \A i \in 1 .. Len(out) : out[i].id \in Chunk /\ Sound(out[i])
      BY <1>1, <1>2, <1>3, <1>4
  <1> QED  BY <1>5, RankSteps

LEMMA RewriteKeeps ==
  ASSUME Inv, RewriteQuery
  PROVE  Inv'
  <1>1. r \in RequestType /\ Placed(r)
      BY Steady
  <1>2. PICK asks \in Rewrite(r.rewrite) :
           IF FansOut(asks) THEN Step([r EXCEPT !.pc = "fan", !.rewrite = "off", !.asks = asks])
           ELSE Step([r EXCEPT !.pc = "search", !.rewrite = "off", !.asks = <<asks[1]>>])
      BY DEF RewriteQuery
  <1>3. r.pc = "rewrite" /\ r.pc \in Inside \cap Early
      BY DEF RewriteQuery, Inside, Early
  <1>4. asks \in Seq(Query) /\ asks[1] \in Query
      <2>1. Original \in Query
          BY RecallAssumption DEF RecallAssumption
      <2>2. r.rewrite \in {"off", "hyde", "stepback", "multiquery"}
          BY <1>1 DEF RequestType, Rewrites
      <2>3. \/ asks = <<Original>>
            \/ \E q \in Query : asks = <<q>> \/ asks = <<q, Original>>
          <3>1. CASE r.rewrite = "off"
              BY <1>2, <3>1 DEF Rewrite
          <3>2. CASE r.rewrite = "hyde"
              BY <1>2, <3>2 DEF Rewrite
          <3>3. CASE r.rewrite = "stepback"
              BY <1>2, <3>3 DEF Rewrite
          <3>4. CASE r.rewrite = "multiquery"
              BY <1>2, <3>4 DEF Rewrite
          <3> QED  BY <2>2, <3>1, <3>2, <3>3, <3>4
      <2>4. \A q \in Query : <<q>> \in Seq(Query) /\ <<q>>[1] = q
                          /\ <<q, Original>> \in Seq(Query) /\ <<q, Original>>[1] = q
          BY <2>1
      <2> QED  BY <2>1, <2>3, <2>4
  <1>5. ASSUME NEW pc \in {"search", "fan"}, NEW a \in Seq(Query), a # <<>> \/ pc = "fan",
               Step([r EXCEPT !.pc = pc, !.rewrite = "off", !.asks = a])
        PROVE  Inv'
      <2> DEFINE s == [r EXCEPT !.pc = pc, !.rewrite = "off", !.asks = a]
      <2>1. s \in RequestType
          <3>1. pc \in Phases /\ "off" \in Rewrites
              BY DEF Phases, Rewrites
          <3> QED  BY <1>1, <1>5, <3>1 DEF RequestType
      <2>2. Keeps(s) /\ s.pc = pc /\ s.asks = a /\ s.lists = r.lists
          BY <1>1 DEF RequestType, Keeps
      <2> HIDE DEF s
      <2>3. Step(s)
          BY <1>5 DEF s
      <2>4. \A i \in 1 .. Len(s.lists) :
               IsInjective(s.lists[i]) /\ Len(s.lists[i]) <= 2 * r.limit
          BY <1>1, <2>2 DEF Placed
      <2> QED  BY <1>3, <1>5, <2>1, <2>2, <2>3, <2>4, EarlySteps
  <1>6. <<asks[1]>> \in Seq(Query) /\ <<asks[1]>> # <<>>
      BY <1>4
  <1> QED  BY <1>2, <1>4, <1>5, <1>6
LEMMA SearchIsSound ==
  ASSUME Inv, stored \subseteq seen, NEW v \in Vault \cup Unlisted, NEW q \in Query,
         NEW filter, NEW n \in Nat
  PROVE  /\ Search(v, q, filter, n) \in Seq(Entries) /\ Len(Search(v, q, filter, n)) <= n
         /\ Once(Search(v, q, filter, n))
         /\ \A i \in 1 .. Len(Search(v, q, filter, n)) :
               /\ Search(v, q, filter, n)[i].id \in Chunk
               /\ Sound(Search(v, q, filter, n)[i])
               /\ Search(v, q, filter, n)[i].vault = v
         /\ Ids(Search(v, q, filter, n)) \in Seq(Chunk)
         /\ IsInjective(Ids(Search(v, q, filter, n)))
         /\ Len(Ids(Search(v, q, filter, n))) <= n
  <1> DEFINE s == Search(v, q, filter, n)
             C == {c \in stored \cap filter : Home[c] = Client(v)}
  <1>1. stored \subseteq Chunk
      BY Steady
  <1>2. Found(s, n, v, C)
      BY <1>1, RecallAssumption, SearchFinds
  <1>3. C \subseteq Chunk /\ \A c \in C : c \in seen /\ Home[c] = Client(v)
      BY <1>1
  <1> HIDE DEF s, C
  <1>4. s \in Seq(Entries) /\ DOMAIN s = 1 .. Len(s)
      BY <1>2 DEF Found
  <1>5. Once(s)
      BY <1>2 DEF Found, Once
  <1>7. \A i \in 1 .. Len(s) : s[i].id \in Chunk /\ Sound(s[i]) /\ s[i].vault = v
      BY <1>2, <1>3 DEF Found, Sound
  <1>8. Ids(s) \in Seq(Chunk) /\ IsInjective(Ids(s)) /\ Len(Ids(s)) <= n
      BY <1>2, <1>3, IdsOfFound
  <1> QED  BY <1>2, <1>4, <1>5, <1>7, <1>8 DEF Found, s

LEMMA DenseKeeps ==
  ASSUME Inv, denseRecall
  PROVE  Inv'
  <1> DEFINE out == Search(r.vault, r.asks[1], r.filter, r.limit)
             top == TopOf(out)
  <1>1. r.pc = "search" /\ r.mode = "dense" /\ Step(Ranked(out, top))
      BY DEF denseRecall
  <1>2. r.vault \in Vault /\ r.asks[1] \in Query /\ r.limit \in Nat /\ stored \subseteq seen
        /\ Cap(r) = r.limit
      <2>1. r.asks \in Seq(Query) /\ r.asks # <<>>
          BY <1>1, Steady DEF RequestType, Placed
      <2>2. r.asks[1] \in Query
          BY <2>1
      <2> QED  BY <1>1, <2>2, Steady DEF Placed, Inside, Cap
  <1>3. /\ out \in Seq(Entries) /\ Len(out) <= r.limit /\ Once(out)
        /\ \A i \in 1 .. Len(out) : out[i].id \in Chunk /\ Sound(out[i])
      BY <1>2, SearchIsSound
  <1> HIDE DEF out
  <1>4. top \in Int
      BY <1>3, TopType
  <1> HIDE DEF top
  <1>5. r.pc \in Inside \cap Early
      BY <1>1 DEF Inside, Early
  <1> QED  BY <1>1, <1>2, <1>3, <1>4, <1>5, RankSteps

LEMMA FanSearchKeeps ==
  ASSUME Inv, FanSearch
  PROVE  Inv'
  <1> DEFINE ids == Ids(Search(r.vault, r.asks[1], r.filter, 2 * r.limit))
             found == [r EXCEPT !.asks = Tail(@), !.lists = Append(@, ids)]
             passed == [r EXCEPT !.asks = Tail(@)]
  <1>1. r.pc = "fan" /\ r.asks # <<>> /\ (Step(found) \/ Step(passed))
      BY DEF FanSearch
  <1>2. r \in RequestType /\ Placed(r) /\ r.pc \in Inside \cap Early
      BY <1>1, Steady DEF Inside, Early
  <1>3. r.asks \in Seq(Query) /\ r.lists \in Seq(Seq(Chunk))
        /\ \A i \in 1 .. Len(r.lists) : IsInjective(r.lists[i]) /\ Len(r.lists[i]) <= 2 * r.limit
      BY <1>2 DEF RequestType, Placed
  <1>4. r.asks[1] \in Query /\ Tail(r.asks) \in Seq(Query)
      BY <1>1, <1>3
  <1>5. ids \in Seq(Chunk) /\ IsInjective(ids) /\ Len(ids) <= 2 * r.limit
      <2>1. r.vault \in Vault /\ 2 * r.limit \in Nat /\ stored \subseteq seen
          BY <1>1, Steady DEF Placed, Inside
      <2> QED  BY <1>4, <2>1, SearchIsSound
  <1> HIDE DEF ids
  <1>6. /\ Append(r.lists, ids) \in Seq(Seq(Chunk))
        /\ \A i \in 1 .. Len(Append(r.lists, ids)) :
              /\ IsInjective(Append(r.lists, ids)[i])
              /\ Len(Append(r.lists, ids)[i]) <= 2 * r.limit
      <2> DEFINE l == Append(r.lists, ids)
      <2>1. l \in Seq(Seq(Chunk)) /\ Len(l) = Len(r.lists) + 1 /\ Len(r.lists) \in Nat
          BY <1>3, <1>5
      <2>2. \A i \in 1 .. Len(l) : l[i] = ids \/ (i \in 1 .. Len(r.lists) /\ l[i] = r.lists[i])
          BY <1>3, <1>5
      <2> HIDE DEF l
      <2>3. \A i \in 1 .. Len(l) : IsInjective(l[i]) /\ Len(l[i]) <= 2 * r.limit
          BY <1>3, <1>5, <2>2
      <2> QED  BY <2>1, <2>3 DEF l
  <1>7. CASE Step(found)
      <2>1. found \in RequestType
          BY <1>2, <1>4, <1>6 DEF RequestType
      <2>2. Keeps(found) /\ found.pc = "fan" /\ found.lists = Append(r.lists, ids)
          BY <1>1, <1>2 DEF RequestType, Keeps
      <2> HIDE DEF found
      <2> QED  BY <1>2, <1>6, <1>7, <2>1, <2>2, EarlySteps
  <1>8. CASE Step(passed)
      <2>1. passed \in RequestType
          BY <1>2, <1>4 DEF RequestType
      <2>2. Keeps(passed) /\ passed.pc = "fan" /\ passed.lists = r.lists
          BY <1>1, <1>2 DEF RequestType, Keeps
      <2> HIDE DEF passed
      <2> QED  BY <1>2, <1>3, <1>8, <2>1, <2>2, EarlySteps
  <1> QED  BY <1>1, <1>7, <1>8

LEMMA FanFuseKeeps ==
  ASSUME Inv, FanFuse
  PROVE  Inv'
  <1> DEFINE out == FirstOf(Fuse(r.lists, r.vault), r.limit)
             s == [r EXCEPT !.pc = "fetch", !.out = out]
  <1>1. r.pc = "fan" /\ (Step(Ranked(<<>>, 0)) \/ Step(s))
      BY DEF FanFuse
  <1>2. r \in RequestType /\ Placed(r) /\ r.pc \in Inside \cap Early
      BY <1>1, Steady DEF Inside, Early
  <1>3. CASE Step(Ranked(<<>>, 0))
      BY <1>2, <1>3, NoneRank
  <1>4. CASE Step(s)
      <2>1. r.lists \in Seq(Seq(Chunk)) /\ r.vault \in Vault /\ r.limit \in Nat
            /\ Cap(r) \in Nat /\ r.limit <= Cap(r)
          <3>1. r.limit \in Nat /\ r.limit <= Cap(r) /\ Cap(r) \in Nat
              BY Steady DEF Cap
          <3> QED  BY <1>2, <3>1 DEF RequestType, Placed
      <2>2. Found(out, r.limit, r.vault, Chunk)
          BY <2>1, RecallAssumption, FuseFinds
      <2> HIDE DEF out
      <2>3. out \in Seq(Entries) /\ Found(out, Cap(r), r.vault, Chunk)
          <3>1. out \in Seq(Entries) /\ Len(out) \in Nat /\ Len(out) <= r.limit
              BY <2>2 DEF Found
          <3>2. Len(out) <= Cap(r)
              BY <2>1, <3>1
          <3> QED  BY <2>2, <3>1, <3>2 DEF Found
      <2>4. s \in RequestType
          <3>1. "fetch" \in Phases
              BY DEF Phases
          <3> QED  BY <1>2, <2>3, <3>1 DEF RequestType
      <2>5. Keeps(s) /\ s.pc = "fetch" /\ s.out = out /\ s.lists = r.lists
          BY <1>2 DEF RequestType, Keeps
      <2> HIDE DEF s
      <2>6. \A i \in 1 .. Len(s.lists) :
               IsInjective(s.lists[i]) /\ Len(s.lists[i]) <= 2 * r.limit
          BY <1>2, <2>5 DEF Placed
      <2> QED  BY <1>2, <1>4, <2>3, <2>4, <2>5, <2>6, FetchSteps
  <1> QED  BY <1>1, <1>3, <1>4

LEMMA HybridSearchKeeps ==
  ASSUME Inv, HybridSearch
  PROVE  Inv'
  <1> DEFINE ids == Ids(Search(r.vault, r.asks[1], r.filter, 2 * r.limit))
             s == [r EXCEPT !.pc = "lexical", !.asks = <<>>, !.lists = <<ids>>]
  <1>1. r.pc = "search" /\ Step(s)
      BY DEF HybridSearch
  <1>2. r \in RequestType /\ Placed(r) /\ r.pc \in Inside \cap Early
      BY <1>1, Steady DEF Inside, Early
  <1>3. r.asks \in Seq(Query) /\ r.asks # <<>>
      BY <1>1, <1>2 DEF RequestType, Placed
  <1>4. r.asks[1] \in Query
      BY <1>3
  <1>5. ids \in Seq(Chunk) /\ IsInjective(ids) /\ Len(ids) <= 2 * r.limit
      <2>1. r.vault \in Vault /\ 2 * r.limit \in Nat /\ stored \subseteq seen
          BY <1>1, Steady DEF Placed, Inside
      <2> QED  BY <1>4, <2>1, SearchIsSound
  <1> HIDE DEF ids
  <1>6. s \in RequestType
      <2>1. "lexical" \in Phases /\ <<>> \in Seq(Query) /\ <<ids>> \in Seq(Seq(Chunk))
          BY <1>5 DEF Phases
      <2> QED  BY <1>2, <2>1 DEF RequestType
  <1>7. Keeps(s) /\ s.pc = "lexical" /\ s.lists = <<ids>>
      BY <1>2 DEF RequestType, Keeps
  <1> HIDE DEF s
  <1>8. \A i \in 1 .. Len(s.lists) : IsInjective(s.lists[i]) /\ Len(s.lists[i]) <= 2 * r.limit
      BY <1>5, <1>7
  <1> QED  BY <1>1, <1>2, <1>6, <1>7, <1>8, EarlySteps

LEMMA SparseSearchKeeps ==
  ASSUME Inv, SparseSearch
  PROVE  Inv'
  <1> DEFINE s == [r EXCEPT !.pc = "lexical", !.asks = <<>>]
  <1>1. r.pc = "search" /\ Step(s)
      BY DEF SparseSearch
  <1>2. r \in RequestType /\ Placed(r) /\ r.pc \in Inside \cap Early
      BY <1>1, Steady DEF Inside, Early
  <1>3. s \in RequestType
      <2>1. "lexical" \in Phases /\ <<>> \in Seq(Query)
          BY DEF Phases
      <2> QED  BY <1>2, <2>1 DEF RequestType
  <1>4. Keeps(s) /\ s.pc = "lexical" /\ s.lists = r.lists
      BY <1>2 DEF RequestType, Keeps
  <1> HIDE DEF s
  <1>5. \A i \in 1 .. Len(s.lists) : IsInjective(s.lists[i]) /\ Len(s.lists[i]) <= 2 * r.limit
      BY <1>2, <1>4 DEF Placed
  <1> QED  BY <1>1, <1>2, <1>3, <1>4, <1>5, EarlySteps
\* lexicalIndexFor, whatever it returns.
LEMMA IndexKeeps ==
  ASSUME Inv, UseCached \/ Build \/ NoIndex
  PROVE  Inv'
  <1>1. r \in RequestType /\ Placed(r) /\ r.pc = "lexical" /\ r.pc \in Inside \cap Early
      BY Steady DEF UseCached, Build, NoIndex, Inside, Early
  <1>2. ASSUME NEW pc \in {"fuse", "cache"}, NEW index \in SUBSET Chunk,
               Step([r EXCEPT !.pc = pc, !.index = index])
        PROVE  Inv'
      <2> DEFINE s == [r EXCEPT !.pc = pc, !.index = index]
      <2>1. s \in RequestType
          <3>1. pc \in Phases
              BY DEF Phases
          <3> QED  BY <1>1, <3>1 DEF RequestType
      <2>2. Keeps(s) /\ s.pc = pc /\ s.lists = r.lists
          BY <1>1 DEF RequestType, Keeps
      <2>3. Step(s)
          BY <1>2
      <2> HIDE DEF s
      <2>4. \A i \in 1 .. Len(s.lists) :
               IsInjective(s.lists[i]) /\ Len(s.lists[i]) <= 2 * r.limit
          BY <1>1, <2>2 DEF Placed
      <2> QED  BY <1>1, <2>1, <2>2, <2>3, <2>4, EarlySteps
  <1>3. CASE UseCached
      <2>1. lexical[r.vault] \in SUBSET Chunk
          BY <1>1 DEF Inv, Stores, Placed, Inside
      <2> QED  BY <1>2, <1>3, <2>1 DEF UseCached
  <1>4. CASE Build
      <2>1. {c \in stored : Home[c] = Default} \in SUBSET Chunk
          BY Steady
      <2> QED  BY <1>2, <1>4, <2>1 DEF Build
  <1>5. CASE NoIndex
      <2>1. r.index \in SUBSET Chunk
          BY <1>1 DEF RequestType
      <2>2. [r EXCEPT !.pc = "fuse", !.index = r.index] = [r EXCEPT !.pc = "fuse"]
          BY <1>1 DEF RequestType
      <2> QED  BY <1>2, <1>5, <2>1, <2>2 DEF NoIndex
  <1> QED  BY <1>3, <1>4, <1>5

LEMMA CacheKeeps ==
  ASSUME Inv, Cache
  PROVE  Inv'
  <1> DEFINE s == [r EXCEPT !.pc = "fuse"]
  <1>1. r \in RequestType /\ Placed(r) /\ r.pc = "cache" /\ r.pc \in Inside \cap Early
      BY Steady DEF Cache, Inside, Early
  <1>2. s \in RequestType
      <2>1. "fuse" \in Phases
          BY DEF Phases
      <2> QED  BY <1>1, <2>1 DEF RequestType
  <1>3. Keeps(s) /\ s.pc = "fuse" /\ s.lists = r.lists
      BY <1>1 DEF RequestType, Keeps
  <1>4. Moves(s)
      <2>1. r.index \in SUBSET Chunk /\ lexical \in [Vault -> SUBSET Chunk]
          BY <1>1 DEF RequestType, Inv, Stores
      <2>2. lexical' = [lexical EXCEPT ![r.vault] = r.index]
          BY DEF Cache
      <2>3. lexical' \in [Vault -> SUBSET Chunk]
          BY <2>1, <2>2
      <2> QED  BY <2>3 DEF Cache, Moves
  <1> HIDE DEF s
  <1>5. \A i \in 1 .. Len(s.lists) : IsInjective(s.lists[i]) /\ Len(s.lists[i]) <= 2 * r.limit
      BY <1>1, <1>3 DEF Placed
  <1> QED  BY <1>1, <1>2, <1>3, <1>4, <1>5, EarlySteps

LEMMA LexicalFacts ==
  ASSUME Inv, r.pc = "fuse"
  PROVE  LET found == LexicalSearch(r.index, r.vault, 2 * r.limit) IN
         /\ Found(found, 2 * r.limit, r.vault, Chunk) /\ found \in Seq(Entries)
         /\ Ids(found) \in Seq(Chunk) /\ IsInjective(Ids(found)) /\ Len(Ids(found)) <= 2 * r.limit
  <1> DEFINE found == LexicalSearch(r.index, r.vault, 2 * r.limit)
  <1>1. r.index \in SUBSET Chunk /\ r.vault \in Vault /\ 2 * r.limit \in Nat
      BY Steady DEF RequestType, Placed, Inside
  <1>2. Found(found, 2 * r.limit, r.vault, r.index)
      BY <1>1, RecallAssumption, LexicalSearchFinds
  <1> HIDE DEF found
  <1>3. Found(found, 2 * r.limit, r.vault, Chunk)
      BY <1>1, <1>2 DEF Found
  <1>4. Ids(found) \in Seq(Chunk) /\ IsInjective(Ids(found)) /\ Len(Ids(found)) <= 2 * r.limit
      BY <1>1, <1>2, IdsOfFound
  <1> QED  BY <1>3, <1>4 DEF Found, found

LEMMA SparseKeeps ==
  ASSUME Inv, SparseRank
  PROVE  Inv'
  <1> DEFINE found == LexicalSearch(r.index, r.vault, 2 * r.limit)
             s == [r EXCEPT !.pc = "fetch", !.index = {}, !.out = found, !.lists = <<Ids(found)>>]
  <1>1. r.pc = "fuse" /\ r.mode = "sparse" /\ (Fail \/ Step(Ranked(<<>>, 0)) \/ Step(s))
      BY DEF SparseRank
  <1>2. r \in RequestType /\ Placed(r) /\ r.pc \in Inside \cap Early
      BY <1>1, Steady DEF Inside, Early
  <1>3. /\ Found(found, 2 * r.limit, r.vault, Chunk) /\ found \in Seq(Entries)
        /\ Ids(found) \in Seq(Chunk) /\ IsInjective(Ids(found)) /\ Len(Ids(found)) <= 2 * r.limit
      BY <1>1, LexicalFacts
  <1> HIDE DEF found
  <1>4. CASE Step(s)
      <2>1. s \in RequestType
          <3>1. "fetch" \in Phases /\ {} \in SUBSET Chunk /\ <<Ids(found)>> \in Seq(Seq(Chunk))
              BY <1>3 DEF Phases
          <3> QED  BY <1>2, <1>3, <3>1 DEF RequestType
      <2>2. Keeps(s) /\ s.pc = "fetch" /\ s.out = found /\ s.lists = <<Ids(found)>>
          BY <1>2 DEF RequestType, Keeps
      <2> HIDE DEF s
      <2>3. \A i \in 1 .. Len(s.lists) :
               IsInjective(s.lists[i]) /\ Len(s.lists[i]) <= 2 * r.limit
          BY <1>3, <2>2
      <2>4. Found(s.out, Cap(r), r.vault, Chunk)
          BY <1>1, <1>3, <2>2 DEF Cap
      <2> QED  BY <1>2, <1>4, <2>1, <2>2, <2>3, <2>4, FetchSteps
  <1>5. CASE Step(Ranked(<<>>, 0))
      BY <1>2, <1>5, NoneRank
  <1>6. CASE Fail
      BY <1>2, <1>6, FailKeeps
  <1> QED  BY <1>1, <1>4, <1>5, <1>6

LEMMA HybridFuseKeeps ==
  ASSUME Inv, HybridFuse
  PROVE  Inv'
  <1> DEFINE ids == Ids(LexicalSearch(r.index, r.vault, 2 * r.limit))
             lists == Append(r.lists, ids)
             out == FirstOf(Fuse(lists, r.vault), r.limit)
             s == [r EXCEPT !.pc = "fetch", !.index = {}, !.lists = lists, !.out = out]
  <1>1. r.pc = "fuse" /\ r.mode = "hybrid" /\ (Step(Ranked(<<>>, 0)) \/ Step(s))
      BY DEF HybridFuse
  <1>2. r \in RequestType /\ Placed(r) /\ r.pc \in Inside \cap Early
      BY <1>1, Steady DEF Inside, Early
  <1>3. ids \in Seq(Chunk) /\ IsInjective(ids) /\ Len(ids) <= 2 * r.limit
      BY <1>1, LexicalFacts
  <1> HIDE DEF ids
  <1>4. r.lists \in Seq(Seq(Chunk))
        /\ \A i \in 1 .. Len(r.lists) : IsInjective(r.lists[i]) /\ Len(r.lists[i]) <= 2 * r.limit
      BY <1>2 DEF RequestType, Placed
  <1>5. lists \in Seq(Seq(Chunk)) /\ Len(lists) = Len(r.lists) + 1 /\ Len(r.lists) \in Nat
      BY <1>3, <1>4
  <1>6. \A i \in 1 .. Len(lists) :
           lists[i] = ids \/ (i \in 1 .. Len(r.lists) /\ lists[i] = r.lists[i])
      BY <1>3, <1>4
  <1> HIDE DEF lists
  <1>7. \A i \in 1 .. Len(lists) : IsInjective(lists[i]) /\ Len(lists[i]) <= 2 * r.limit
      BY <1>3, <1>4, <1>6
  <1>8. r.vault \in Vault /\ r.limit \in Nat /\ Cap(r) = r.limit
      BY <1>1, <1>2, Steady DEF Placed, Cap
  <1>9. Found(out, Cap(r), r.vault, Chunk) /\ out \in Seq(Entries)
      <2>1. Found(out, r.limit, r.vault, Chunk)
          BY <1>5, <1>8, RecallAssumption, FuseFinds
      <2> HIDE DEF out
      <2> QED  BY <1>8, <2>1 DEF Found
  <1> HIDE DEF out
  <1>10. CASE Step(s)
      <2>1. s \in RequestType
          <3>1. "fetch" \in Phases /\ {} \in SUBSET Chunk
              BY DEF Phases
          <3> QED  BY <1>2, <1>5, <1>9, <3>1 DEF RequestType
      <2>2. Keeps(s) /\ s.pc = "fetch" /\ s.out = out /\ s.lists = lists
          BY <1>2 DEF RequestType, Keeps
      <2> HIDE DEF s
      <2> QED  BY <1>2, <1>7, <1>9, <1>10, <2>1, <2>2, FetchSteps
  <1>11. CASE Step(Ranked(<<>>, 0))
      BY <1>2, <1>11, NoneRank
  <1> QED  BY <1>1, <1>10, <1>11
\* Points are looked up: those that are left, in their order.
LEMMA FetchedTakes ==
  ASSUME Inv, r.pc = "fetch"
  PROVE  \E p : /\ InOrder(p, {i \in 1 .. Len(r.out) :
                                  r.out[i].id \in stored /\ Home[r.out[i].id] = r.vault})
                /\ Len(p) <= Len(r.out)
                /\ Fetched(r.out) \in Seq(Entries) /\ Len(Fetched(r.out)) = Len(p)
                /\ \A i \in 1 .. Len(p) : Fetched(r.out)[i] = r.out[p[i]]
  <1> DEFINE P == {i \in 1 .. Len(r.out) :
                      r.out[i].id \in stored /\ Home[r.out[i].id] = r.vault}
  <1>1. r.out \in Seq(Entries)
      BY Steady DEF RequestType
  <1>2. Fetched(r.out) = Taken(r.out, P)
      <2>1. DOMAIN r.out = 1 .. Len(r.out)
          BY <1>1
      <2> QED  BY <2>1 DEF Fetched
  <1>3. P \in SUBSET (1 .. Len(r.out))
      OBVIOUS
  <1> HIDE DEF P
  <1>4. \E p : /\ InOrder(p, P) /\ Len(p) <= Len(r.out)
               /\ Taken(r.out, P) \in Seq(Entries) /\ Len(Taken(r.out, P)) = Len(p)
               /\ \A i \in 1 .. Len(p) : Taken(r.out, P)[i] = r.out[p[i]]
      BY <1>1, <1>3, TakenFrom
  <1> QED  BY <1>2, <1>4 DEF P

LEMMA ByIDsKeeps ==
  ASSUME Inv, recallByIDs
  PROVE  Inv'
  <1> DEFINE out == Fetched(r.out)
             top == TopOf(out)
             P == {i \in 1 .. Len(r.out) :
                      r.out[i].id \in stored /\ Home[r.out[i].id] = r.vault}
  <1>1. r.pc = "fetch" /\ Step(Ranked(out, top))
      BY DEF recallByIDs
  <1>2. r \in RequestType /\ Placed(r) /\ Results(r) /\ r.pc \in Inside \cap Early
        /\ stored \subseteq seen
      BY <1>1, Steady DEF Inside, Early
  <1>3. PICK p : /\ InOrder(p, P) /\ Len(p) <= Len(r.out)
                 /\ out \in Seq(Entries) /\ Len(out) = Len(p)
                 /\ \A i \in 1 .. Len(p) : out[i] = r.out[p[i]]
      BY <1>1, FetchedTakes
  <1>4. p \in Seq(P) /\ Len(p) \in Nat /\ \A i \in 1 .. Len(p) : p[i] \in P
      <2> HIDE DEF P
      <2> QED  BY <1>3 DEF InOrder
  <1> HIDE DEF out
  <1>5. /\ Len(r.out) <= Cap(r)
        /\ \A i, j \in 1 .. Len(r.out) : r.out[i].id = r.out[j].id => i = j
        /\ \A i \in 1 .. Len(r.out) : r.out[i].vault = r.vault /\ r.out[i].id \in Chunk
      BY <1>1, <1>2 DEF Results, Once
  <1>6. Len(out) <= Cap(r)
      <2>1. Len(r.out) \in Nat /\ Cap(r) \in Nat
          BY <1>2, Steady DEF RequestType
      <2> QED  BY <1>3, <1>4, <1>5, <2>1
  <1>7. Once(out)
      <2>2. ASSUME NEW i \in 1 .. Len(p), NEW j \in 1 .. Len(p), out[i].id = out[j].id
            PROVE  i = j
          <3>1. r.out[p[i]].id = r.out[p[j]].id
                /\ p[i] \in 1 .. Len(r.out) /\ p[j] \in 1 .. Len(r.out)
              BY <1>3, <1>4, <2>2
          <3>2. p[i] = p[j]
              BY <1>5, <3>1
          <3> QED  BY <1>3, <3>2 DEF InOrder
      <2> QED  BY <1>3, <2>2 DEF Once
  <1>8. ASSUME NEW i \in 1 .. Len(out)
        PROVE  out[i].id \in Chunk /\ Sound(out[i])
      <2>1. out[i] = r.out[p[i]] /\ p[i] \in 1 .. Len(r.out)
            /\ out[i].id \in stored /\ Home[out[i].id] = r.vault
          BY <1>3, <1>4
      <2>2. out[i].vault = r.vault /\ r.vault \in Vault
          BY <1>1, <1>2, <1>5, <2>1 DEF Placed, Inside
      <2> QED  BY <1>2, <1>5, <2>1, <2>2 DEF Sound, Client
  <1>9. top \in Int
      BY <1>3, TopType
  <1> HIDE DEF top
  <1> QED  BY <1>1, <1>2, <1>3, <1>6, <1>7, <1>8, <1>9, RankSteps

\* The results in another order, or the same.
LEMMA RespondKeeps ==
  ASSUME Inv, r.pc = "rank", NEW out \in Seq(Entries), Respond(out),
         Len(out) = Len(r.out), ToSet(out) = ToSet(r.out), IsInjective(out)
  PROVE  Inv'
  <1> DEFINE s == [r EXCEPT !.pc = IF kind \in {"rag", "auto"} THEN "context" ELSE "use",
                            !.out = out, !.lists = <<>>]
  <1>1. r \in RequestType /\ Placed(r) /\ Results(r) /\ r.pc \in Inside
      BY Steady DEF Inside
  <1>2. s \in RequestType
      <2>1. "context" \in Phases /\ "use" \in Phases /\ <<>> \in Seq(Seq(Chunk))
          BY DEF Phases
      <2> QED  BY <1>1, <2>1 DEF RequestType
  <1>3. Keeps(s) /\ s.pc \in {"context", "use"} /\ s.out = out /\ s.lists = <<>>
      BY <1>1 DEF RequestType, Keeps
  <1>4. Moves(s)
      BY StepMoves DEF Respond
  <1> HIDE DEF s
  <1>5. Placed(s)
      BY <1>1, <1>3 DEF Placed, Keeps, Inside, Early
  <1>6. \A i \in 1 .. Len(out) : out[i].id \in Chunk /\ Sound(out[i])
      <2>1. \A i \in 1 .. Len(r.out) : r.out[i].id \in Chunk /\ Sound(r.out[i])
          BY <1>1 DEF Results
      <2>2. \A i \in 1 .. Len(out) : out[i] \in ToSet(r.out)
          BY Members
      <2>3. \A i \in 1 .. Len(out) : \E j \in 1 .. Len(r.out) : r.out[j] = out[i]
          <3>1. r.out \in Seq(Entries)
              BY <1>1 DEF RequestType
          <3> QED  BY <2>2, <3>1, Members
      <2> QED  BY <2>1, <2>3
  <1>7. Len(out) <= Cap(r)
      BY <1>1 DEF Results
  <1>10. Once(out)
      <2>1. Once(r.out) /\ r.out \in Seq(Entries) /\ DOMAIN out = 1 .. Len(out)
          BY <1>1 DEF Results, RequestType
      <2>2. \A i \in 1 .. Len(out) : \E k \in 1 .. Len(r.out) : r.out[k] = out[i]
          BY <2>1, Members
      <2>3. \A i, j \in 1 .. Len(out) : out[i].id = out[j].id => out[i] = out[j]
          BY <2>1, <2>2 DEF Once
      <2> QED  BY <2>1, <2>3 DEF Once, IsInjective
  <1>8. Results(s)
      BY <1>3, <1>6, <1>7, <1>10 DEF Results, Keeps, Cap, Once, Fair
  <1>9. Good(s)
      BY <1>2, <1>5, <1>8 DEF Good
  <1> QED  BY <1>1, <1>3, <1>4, <1>9, RequestSteps

LEMMA RerankKeeps ==
  ASSUME Inv, RerankResults \/ KeepOrder
  PROVE  Inv'
  <1>1. r \in RequestType /\ Results(r) /\ r.pc = "rank"
      BY Steady DEF RerankResults, KeepOrder
  <1>2. r.out \in Seq(Entries) /\ DOMAIN r.out = 1 .. Len(r.out) /\ IsInjective(r.out)
      <2>1. r.out \in Seq(Entries) /\ DOMAIN r.out = 1 .. Len(r.out) /\ Once(r.out)
          BY <1>1 DEF RequestType, Results
      <2> QED  BY <2>1 DEF Once, IsInjective
  <1>3. CASE KeepOrder
      BY <1>1, <1>2, <1>3, RespondKeeps DEF KeepOrder
  <1>4. CASE RerankResults
      <2>1. PICK order \in BoundedSeq(DOMAIN r.out, Len(r.out)) : Respond(Rerank(r.out, order))
          BY <1>4 DEF RerankResults
      <2>2. order \in Seq(1 .. Len(r.out))
          BY <1>2, <2>1 DEF BoundedSeq, SeqOf
      <2>3. /\ Rerank(r.out, order) \in Seq(Entries)
            /\ Len(Rerank(r.out, order)) = Len(r.out)
            /\ ToSet(Rerank(r.out, order)) = ToSet(r.out)
            /\ IsInjective(Rerank(r.out, order))
          BY <1>2, <2>2, RerankIsAPermutation
      <2> QED  BY <1>1, <2>1, <2>3, RespondKeeps
  <1> QED  BY <1>3, <1>4
-----------------------------------------------------------------------------
(* Steps of the callers.                                                      *)


LEMMA MostType ==
  ASSUME Inv, r.pc # "idle"
  PROVE  /\ Most \in Nat /\ r.more \in Nat /\ r.limit <= Most /\ Cap(r) <= Most
         /\ (kind = "hybrid" => Most = r.limit + r.limit + r.more)
         /\ (kind = "hybrid" => Cap(r) = r.limit)
  <1>1. r.limit \in Nat /\ (kind = "hybrid" => r.mode # "sparse")
      BY Steady DEF Placed
  <1>3. r.more \in Nat
      <2>1. r.more \in Limit \cup {0} /\ \A n \in Limit : n \in Nat
          BY Steady, RecallAssumption DEF RequestType, RecallAssumption
      <2>2. r.more \in Limit \/ r.more = 0
          BY <2>1, Zenon
      <2> QED  BY <2>1, <2>2
  <1>2. \A n \in Nat : 1 * n = n /\ 2 * n = n + n /\ n <= 2 * n
      OBVIOUS
  <1> QED  BY <1>1, <1>2, <1>3 DEF Most, Cap

LEMMA DoneSteps ==
  ASSUME Inv, r.pc \in {"use", "failed", "explain"}, NEW s \in RequestType, Step(s), Keeps(s),
         s.pc = "done", s.lists = r.lists, Fair(s.out), Len(s.out) <= Most,
         \A i \in 1 .. Len(s.out) : s.out[i].id \in Chunk => Sound(s.out[i])
  PROVE  Inv'
  <1>1. Placed(r)
      BY Steady
  <1>2. Placed(s)
      BY <1>1 DEF Placed, Keeps, Inside, Early
  <1>3. Results(s)
      BY DEF Results, Keeps, Most
  <1>4. Good(s) /\ Moves(s)
      BY <1>2, <1>3, StepMoves DEF Good
  <1>5. r.pc \in Inside \cup {"use", "failed"}
      BY DEF Inside
  <1> QED  BY <1>4, <1>5, RequestSteps

LEMMA AnswersKeeps ==
  ASSUME Inv, RecallAnswers
  PROVE  Inv'
  <1> DEFINE s == [r EXCEPT !.pc = "done"]
  <1>1. r \in RequestType /\ Results(r) /\ r.pc = "use" /\ Step(s)
      BY Steady DEF RecallAnswers
  <1>2. s \in RequestType
      <2>1. "done" \in Phases
          BY DEF Phases
      <2> QED  BY <1>1, <2>1 DEF RequestType
  <1>3. Keeps(s) /\ s.pc = "done" /\ s.out = r.out /\ s.lists = r.lists
      BY <1>1 DEF RequestType, Keeps
  <1> HIDE DEF s
  <1>4. /\ Fair(r.out) /\ Len(r.out) <= Cap(r)
        /\ \A i \in 1 .. Len(r.out) : r.out[i].id \in Chunk => Sound(r.out[i])
      BY <1>1 DEF Results
  <1>5. Len(r.out) <= Most
      <2>1. Len(r.out) \in Nat
          BY <1>1 DEF RequestType
      <2>2. Cap(r) \in Nat
          BY Steady
      <2> QED  BY <1>1, <1>4, <2>1, <2>2, MostType
  <1> QED  BY <1>1, <1>2, <1>3, <1>4, <1>5, DoneSteps

\* Facts are no chunks.
LEMMA FactsAreFound ==
  ASSUME Inv
  PROVE  LET facts == FactSearch(r.limit) IN
         /\ facts \in Seq(Entries) /\ Len(facts) <= r.limit /\ Once(facts)
         /\ \A i \in 1 .. Len(facts) : facts[i].id \in Fact /\ facts[i].id \notin Chunk
  <1> DEFINE facts == FactSearch(r.limit)
  <1>1. Found(facts, r.limit, None, Fact)
      BY Steady, RecallAssumption, FactSearchFinds
  <1> HIDE DEF facts
  <1>2. facts \in Seq(Entries) /\ DOMAIN facts = 1 .. Len(facts)
      BY <1>1 DEF Found
  <1>3. Once(facts)
      BY <1>1, <1>2 DEF Found, Once
  <1>4. Fact \cap Chunk = {}
      BY RecallAssumption DEF RecallAssumption
  <1>5. \A i \in 1 .. Len(facts) : facts[i].id \in Fact /\ facts[i].id \notin Chunk
      BY <1>1, <1>4 DEF Found
  <1> QED  BY <1>1, <1>2, <1>3, <1>5 DEF Found, facts

LEMMA MembersOfBoth ==
  ASSUME NEW S, NEW s \in Seq(S), NEW t \in Seq(S)
  PROVE  /\ s \o t \in Seq(S)
         /\ \A x : x \in ToSet(s \o t) <=> x \in ToSet(s) \/ x \in ToSet(t)
         /\ \A i \in 1 .. Len(s \o t) : (s \o t)[i] \in ToSet(s) \/ (s \o t)[i] \in ToSet(t)
  <1> DEFINE u == s \o t
  <1>1. /\ u \in Seq(S) /\ Len(u) = Len(s) + Len(t) /\ Len(s) \in Nat /\ Len(t) \in Nat
        /\ \A i \in 1 .. Len(s) : u[i] = s[i]
        /\ \A i \in 1 .. Len(t) : u[Len(s) + i] = t[i]
        /\ \A i \in 1 .. Len(u) : u[i] = IF i <= Len(s) THEN s[i] ELSE t[i - Len(s)]
      OBVIOUS
  <1> HIDE DEF u
  <1>2. /\ \A x : x \in ToSet(u) <=> \E i \in 1 .. Len(u) : u[i] = x
        /\ \A x : x \in ToSet(s) <=> \E i \in 1 .. Len(s) : s[i] = x
        /\ \A x : x \in ToSet(t) <=> \E i \in 1 .. Len(t) : t[i] = x
      <2> HIDE DEF u
      <2>1. \A x : x \in ToSet(u) <=> \E i \in 1 .. Len(u) : u[i] = x
          BY <1>1, Members
      <2>2. \A x : x \in ToSet(s) <=> \E i \in 1 .. Len(s) : s[i] = x
          BY Members
      <2>3. \A x : x \in ToSet(t) <=> \E i \in 1 .. Len(t) : t[i] = x
          BY Members
      <2> QED  BY <2>1, <2>2, <2>3
  <1>3. ASSUME NEW i \in 1 .. Len(u)
        PROVE  u[i] \in ToSet(s) \/ u[i] \in ToSet(t)
      <2>1. CASE i <= Len(s)
          <3>1. i \in 1 .. Len(s) /\ u[i] = s[i]
              BY <1>1, <2>1
          <3> QED  BY <1>2, <3>1
      <2>2. CASE ~(i <= Len(s))
          <3>1. i - Len(s) \in 1 .. Len(t) /\ u[i] = t[i - Len(s)]
              BY <1>1, <2>2
          <3> QED  BY <1>2, <3>1
      <2> QED  BY <2>1, <2>2
  <1>4. ASSUME NEW x, x \in ToSet(s) \/ x \in ToSet(t)
        PROVE  x \in ToSet(u)
      <2>1. CASE x \in ToSet(s)
          <3>1. PICK i \in 1 .. Len(s) : s[i] = x
              BY <1>2, <2>1
          <3>2. i \in 1 .. Len(u) /\ u[i] = x
              BY <1>1, <3>1
          <3> QED  BY <1>2, <3>2
      <2>2. CASE x \in ToSet(t)
          <3>1. PICK i \in 1 .. Len(t) : t[i] = x
              BY <1>2, <2>2
          <3>2. Len(s) + i \in 1 .. Len(u) /\ u[Len(s) + i] = x
              BY <1>1, <3>1
          <3> QED  BY <1>2, <3>2
      <2> QED  BY <1>4, <2>1, <2>2
  <1>5. \A x : x \in ToSet(u) <=> x \in ToSet(s) \/ x \in ToSet(t)
      BY <1>2, <1>3, <1>4
  <1> QED  BY <1>1, <1>3, <1>5 DEF u

\* Parts of a fair list, in any order, are fair ...
LEMMA FairPart ==
  ASSUME NEW s, Fair(s), NEW out, NEW p,
         \A i \in 1 .. Len(out) : p[i] \in 1 .. Len(s) /\ out[i] = s[p[i]],
         \A i, j \in 1 .. Len(out) : p[i] = p[j] => i = j
  PROVE  Fair(out)
  <1>1. ASSUME NEW i \in 1 .. Len(out), NEW j \in 1 .. Len(out), i # j, out[i].id = out[j].id
        PROVE  MayRepeat(out[i].id)
      <2>1. p[i] \in 1 .. Len(s) /\ p[j] \in 1 .. Len(s) /\ p[i] # p[j]
          BY <1>1, Zenon
      <2>2. out[i] = s[p[i]] /\ out[j] = s[p[j]]
          BY Zenon
      <2>3. s[p[i]].id = s[p[j]].id => MayRepeat(s[p[i]].id)
          BY <2>1, Zenon DEF Fair
      <2> QED  BY <1>1, <2>2, <2>3, Zenon
  <1> QED  BY <1>1, Zenon DEF Fair

\* ... and so are two of them, if what both hold may repeat.
LEMMA FairTogether ==
  ASSUME NEW s \in Seq(Entries), NEW t \in Seq(Entries), Fair(s), Fair(t),
         \A i \in 1 .. Len(s), j \in 1 .. Len(t) : s[i].id = t[j].id => MayRepeat(s[i].id)
  PROVE  Fair(s \o t)
  <1> DEFINE u == s \o t
  <1>1. Len(u) = Len(s) + Len(t) /\ Len(s) \in Nat /\ Len(t) \in Nat
        /\ \A i \in 1 .. Len(u) : u[i] = IF i <= Len(s) THEN s[i] ELSE t[i - Len(s)]
      OBVIOUS
  <1> HIDE DEF u
  <1>2. \A i \in 1 .. Len(u) :
           \/ i \in 1 .. Len(s) /\ u[i] = s[i]
           \/ i - Len(s) \in 1 .. Len(t) /\ u[i] = t[i - Len(s)]
      BY <1>1
  <1>3. ASSUME NEW i \in 1 .. Len(u), NEW j \in 1 .. Len(u), i # j, u[i].id = u[j].id
        PROVE  MayRepeat(u[i].id)
      <2>1. CASE i \in 1 .. Len(s) /\ u[i] = s[i]
          <3>1. CASE j \in 1 .. Len(s) /\ u[j] = s[j]
              BY <1>3, <2>1, <3>1 DEF Fair
          <3>2. CASE j - Len(s) \in 1 .. Len(t) /\ u[j] = t[j - Len(s)]
              BY <1>3, <2>1, <3>2
          <3> QED  BY <1>2, <3>1, <3>2
      <2>2. CASE i - Len(s) \in 1 .. Len(t) /\ u[i] = t[i - Len(s)]
          <3>1. CASE j \in 1 .. Len(s) /\ u[j] = s[j]
              BY <1>3, <2>2, <3>1
          <3>2. CASE j - Len(s) \in 1 .. Len(t) /\ u[j] = t[j - Len(s)]
              <4>1. i - Len(s) # j - Len(s)
                  BY <1>1, <1>3
              <4> QED  BY <1>3, <2>2, <3>2, <4>1 DEF Fair
          <3> QED  BY <1>2, <3>1, <3>2
      <2> QED  BY <1>2, <2>1, <2>2
  <1> QED  BY <1>3 DEF Fair, u

\* The best n of a list: each from a place of its own.
LEMMA ByScoreRanks ==
  ASSUME NEW s \in Seq(Entries), NEW n \in Nat
  PROVE  LET out == FirstOf(ByScore(s), n) IN
         /\ out \in Seq(Entries) /\ Len(out) <= n
         /\ \E p : /\ \A i \in 1 .. Len(out) : p[i] \in 1 .. Len(s) /\ out[i] = s[p[i]]
                   /\ \A i, j \in 1 .. Len(out) : p[i] = p[j] => i = j
         /\ \A k \in 1 .. Len(s) : \/ \E i \in 1 .. Len(out) : out[i] = s[k]
                                   \/ /\ Len(out) = n
                                      /\ \A i \in 1 .. Len(out) : s[k].score <= out[i].score
  <1> DEFINE P == 1 .. Len(s)
             f == [i \in P |-> [id |-> i, score |-> s[i].score]]
             S == {f[i] : i \in P}
             q == Sorted(S)
             p == Ids(q)
             w == At(s, p)
             out == FirstOf(w, n)
  <1>1. DOMAIN s = P /\ IsFiniteSet(P) /\ \A i \in P : s[i] \in Entries /\ s[i].score \in Int
      <2>1. DOMAIN s = P /\ Len(s) \in Nat /\ \A i \in P : s[i] \in Entries
          OBVIOUS
      <2> QED  BY <2>1, CountUpTo DEF Entries
  <1>2. S = {[id |-> i, score |-> s[i].score] : i \in DOMAIN s}
      BY <1>1
  <1>3. ByScore(s) = w
      BY <1>2 DEF ByScore
  <1>4. IsFiniteSet(S)
      <2> HIDE DEF f, P
      <2> QED  BY <1>1, ImageIsFinite
  <1>5. \A x \in S : x.id \in P /\ x.score = s[x.id].score /\ x = f[x.id]
      <2> HIDE DEF P
      <2> QED  OBVIOUS
  <1>6. \A i \in P : f[i] \in S /\ f[i].id = i /\ f[i].score = s[i].score
      <2> HIDE DEF P
      <2> QED  OBVIOUS
  <1> HIDE DEF S, f
  <1>7. Scored(S)
      BY <1>1, <1>4, <1>5 DEF Scored
  <1>8. Ranking(q, S)
      BY <1>7, SortedRanks
  <1> HIDE DEF q
  <1>9. q \in Seq(S) /\ Len(q) \in Nat /\ DOMAIN q = 1 .. Len(q) /\ \A i \in 1 .. Len(q) : q[i] \in S
      <2>1. q \in Seq(S)
          BY <1>8 DEF Ranking
      <2> QED  BY <2>1
  <1>10. p \in Seq(P) /\ Len(p) = Len(q) /\ \A i \in 1 .. Len(q) : p[i] = q[i].id
      <2> HIDE DEF P
      <2> QED  BY <1>5, <1>9 DEF Ids
  <1> HIDE DEF p
  <1>11. w \in Seq(Entries) /\ Len(w) = Len(q) /\ \A i \in 1 .. Len(q) : w[i] = s[p[i]]
      <2>1. P \in SUBSET (1 .. Len(s))
          OBVIOUS
      <2> HIDE DEF P
      <2> QED  BY <1>10, <2>1, AtPlaces
  <1> HIDE DEF w
  <1>12. /\ out \in Seq(Entries) /\ Len(out) = (IF Len(w) < n THEN Len(w) ELSE n)
         /\ \A i \in 1 .. Len(out) : out[i] = w[i]
      BY <1>11, FirstOfList
  <1> HIDE DEF out
  <1>13. Len(out) <= n /\ Len(out) <= Len(q) /\ Len(out) \in Nat
         /\ (Len(out) = n \/ Len(out) = Len(q))
      BY <1>9, <1>11, <1>12
  <1>14. \A i \in 1 .. Len(out) : i \in 1 .. Len(q) /\ out[i] = s[p[i]] /\ p[i] \in P
      <2>1. \A i \in 1 .. Len(out) : i \in 1 .. Len(q)
          BY <1>9, <1>13
      <2> HIDE DEF P
      <2> QED  BY <1>5, <1>9, <1>10, <1>11, <1>12, <2>1
  <1>15. \A i, j \in 1 .. Len(out) : p[i] = p[j] => i = j
      <2>1. \A i, j \in 1 .. Len(q) : q[i] = q[j] => i = j
          BY <1>8 DEF Ranking
      <2> HIDE DEF P
      <2> QED  BY <1>5, <1>9, <1>10, <1>14, <2>1
  <1>16. ASSUME NEW k \in P
         PROVE  \/ \E i \in 1 .. Len(out) : out[i] = s[k]
                \/ Len(out) = n /\ \A i \in 1 .. Len(out) : s[k].score <= out[i].score
      <2>1. PICK m \in 1 .. Len(q) : q[m] = f[k]
          BY <1>6, <1>8 DEF Ranking
      <2>2. p[m] = k
          BY <1>6, <1>10, <2>1
      <2>3. CASE m \in 1 .. Len(out)
          BY <1>14, <2>2, <2>3
      <2>4. CASE m \notin 1 .. Len(out)
          <3>1. Len(out) = n /\ \A i \in 1 .. Len(out) : i < m
              BY <1>13, <2>4
          <3>2. ASSUME NEW i \in 1 .. Len(out)
                PROVE  s[k].score <= out[i].score
              <4>1. q[i].score >= q[m].score
                  BY <1>8, <1>14, <3>1 DEF Ranking
              <4>2. q[m].score = s[k].score
                  BY <1>6, <2>1
              <4>3. q[i].score = out[i].score
                  <5>1. i \in 1 .. Len(q) /\ out[i] = s[p[i]]
                      BY <1>14
                  <5>2. p[i] = q[i].id /\ q[i] \in S
                      BY <1>9, <1>10, <5>1
                  <5> QED  BY <1>5, <5>1, <5>2
              <4>4. s[k].score \in Int /\ out[i].score \in Int
                  BY <1>1, <1>14
              <4> QED  BY <4>1, <4>2, <4>3, <4>4
          <3> QED  BY <3>1, <3>2
      <2> QED  BY <2>3, <2>4
  <1> QED  BY <1>3, <1>12, <1>13, <1>14, <1>15, <1>16 DEF out, P

LEMMA ExpandKeeps ==
  ASSUME Inv, Expand
  PROVE  Inv'
  <1> DEFINE facts == FactSearch(r.limit)
             list == r.out \o facts
             out == FirstOf(ByScore(list), r.limit)
             top == TopOf(out)
             s == [r EXCEPT !.pc = "done", !.out = out, !.top = top]
  <1>1. r \in RequestType /\ Results(r) /\ r.pc = "use" /\ Step(s)
      BY Steady DEF Expand
  <1>2. r.out \in Seq(Entries) /\ Fair(r.out)
        /\ \A i \in 1 .. Len(r.out) : r.out[i].id \in Chunk /\ Sound(r.out[i])
      BY <1>1 DEF RequestType, Results
  <1>3. facts \in Seq(Entries) /\ Once(facts)
        /\ \A i \in 1 .. Len(facts) : facts[i].id \notin Chunk
      BY FactsAreFound
  <1> HIDE DEF facts
  <1>4. list \in Seq(Entries) /\ Fair(list)
      <2>1. Fair(facts)
          BY <1>3 DEF Once, Fair
      <2> QED  BY <1>2, <1>3, <2>1, FairTogether
  <1>5. \A i \in 1 .. Len(list) : list[i].id \in Chunk => Sound(list[i])
      <2>1. \A i \in 1 .. Len(list) : list[i] \in ToSet(r.out) \/ list[i] \in ToSet(facts)
          BY <1>2, <1>3, MembersOfBoth
      <2>2. \A e \in ToSet(r.out) : \E i \in 1 .. Len(r.out) : r.out[i] = e
          BY <1>2, Members
      <2>3. \A e \in ToSet(facts) : \E i \in 1 .. Len(facts) : facts[i] = e
          BY <1>3, Members
      <2> HIDE DEF list
      <2> QED  BY <1>2, <1>3, <2>1, <2>2, <2>3
  <1> HIDE DEF list
  <1>6. /\ out \in Seq(Entries) /\ Len(out) <= r.limit
        /\ \E p : /\ \A i \in 1 .. Len(out) : p[i] \in 1 .. Len(list) /\ out[i] = list[p[i]]
                  /\ \A i, j \in 1 .. Len(out) : p[i] = p[j] => i = j
      BY <1>4, Steady, ByScoreRanks
  <1> HIDE DEF out
  <1>7. PICK p : /\ \A i \in 1 .. Len(out) : p[i] \in 1 .. Len(list) /\ out[i] = list[p[i]]
                 /\ \A i, j \in 1 .. Len(out) : p[i] = p[j] => i = j
      BY <1>6
  <1>8. Fair(out)
      BY <1>4, <1>7, FairPart
  <1>9. \A i \in 1 .. Len(out) : out[i].id \in Chunk => Sound(out[i])
      BY <1>5, <1>7
  <1>10. top \in Int
      BY <1>6, TopType
  <1> HIDE DEF top
  <1>11. s \in RequestType
      <2>1. "done" \in Phases
          BY DEF Phases
      <2> QED  BY <1>1, <1>6, <1>10, <2>1 DEF RequestType
  <1>12. Keeps(s) /\ s.pc = "done" /\ s.out = out /\ s.lists = r.lists
      BY <1>1 DEF RequestType, Keeps
  <1> HIDE DEF s
  <1>13. Len(out) <= Most
      <2>1. Len(out) \in Nat
          BY <1>6
      <2> QED  BY <1>1, <1>6, <2>1, Steady, MostType
  <1> QED  BY <1>1, <1>8, <1>9, <1>11, <1>12, <1>13, DoneSteps

\* Facts by name: each once, at most n.
LEMMA NamedFacts ==
  ASSUME Inv, NEW n \in Nat, NEW named \in FactsByName(n)
  PROVE  /\ named \in Seq(Entries) /\ Len(named) <= n /\ Once(named)
         /\ \A i \in 1 .. Len(named) : named[i].id \in Fact /\ named[i].id \notin Chunk
  <1>1. PICK s \in BoundedSeq(Fact, n) :
           IsInjective(s) /\ named = [i \in DOMAIN s |-> [id |-> s[i], score |-> 0, vault |-> None]]
      BY DEF FactsByName
  <1>2. PICK m \in 0 .. n : s \in [1 .. m -> Fact]
      BY DEF BoundedSeq, SeqOf
  <1>3. DOMAIN s = 1 .. m /\ m \in Nat /\ m <= n
      BY <1>2
  <1>4. \A i \in 1 .. m : /\ [id |-> s[i], score |-> 0, vault |-> None] \in Entries
                          /\ named[i].id = s[i] /\ s[i] \in Fact
      BY <1>1, <1>2, <1>3 DEF Entries
  <1>5. named \in Seq(Entries) /\ Len(named) = m
      BY <1>1, <1>3, <1>4
  <1>6. Once(named)
      BY <1>1, <1>3, <1>4, <1>5 DEF Once, IsInjective
  <1>7. Fact \cap Chunk = {}
      BY RecallAssumption DEF RecallAssumption
  <1> QED  BY <1>3, <1>4, <1>5, <1>6, <1>7

LEMMA HybridAnswersKeeps ==
  ASSUME Inv, HybridAnswers
  PROVE  Inv'
  <1>1. r \in RequestType /\ Results(r) /\ kind = "hybrid" /\ r.pc \in {"use", "failed"}
      BY Steady DEF HybridAnswers
  <1> DEFINE chunks == IF r.pc = "failed" THEN <<>> ELSE r.out
  <1>2. PICK near \in {<<>>, FactSearch(r.limit)}, named \in FactsByName(r.more) :
           Step([r EXCEPT !.pc = "done",
                          !.out = (IF r.pc = "failed" THEN <<>> ELSE @) \o near \o named])
      BY DEF HybridAnswers
  <1> DEFINE both == chunks \o near
             out == both \o named
             s == [r EXCEPT !.pc = "done", !.out = out]
  <1>3. Step(s)
      BY <1>1, <1>2 DEF RequestType
  <1>4. chunks \in Seq(Entries) /\ Len(chunks) <= r.limit /\ Fair(chunks)
        /\ \A i \in 1 .. Len(chunks) : chunks[i].id \in Chunk /\ Sound(chunks[i])
      <2>1. CASE r.pc = "failed"
          <3>1. <<>> \in Seq(Entries) /\ Len(<<>>) = 0 /\ Fair(<<>>)
              BY DEF Fair
          <3>2. 0 <= r.limit
              BY Steady
          <3> QED  BY <2>1, <3>1, <3>2
      <2>2. CASE r.pc = "use"
          <3>1. /\ Fair(r.out) /\ Len(r.out) <= Cap(r)
                /\ \A i \in 1 .. Len(r.out) : r.out[i].id \in Chunk /\ Sound(r.out[i])
              BY <1>1, <2>2 DEF Results
          <3>2. r.out \in Seq(Entries) /\ chunks = r.out
              BY <1>1, <2>2 DEF RequestType
          <3> QED  BY <1>1, <3>1, <3>2, MostType
      <2> QED  BY <1>1, <2>1, <2>2
  <1>5. near \in Seq(Entries) /\ Len(near) <= r.limit /\ Fair(near)
        /\ \A i \in 1 .. Len(near) : near[i].id \in Fact /\ near[i].id \notin Chunk
      <2>1. CASE near = <<>>
          <3>1. <<>> \in Seq(Entries) /\ Len(<<>>) = 0 /\ Fair(<<>>)
              BY DEF Fair
          <3>2. 0 <= r.limit
              BY Steady
          <3> QED  BY <2>1, <3>1, <3>2
      <2>2. CASE near = FactSearch(r.limit)
          BY <2>2, FactsAreFound DEF Once, Fair
      <2> QED  BY <1>2, <2>1, <2>2
  <1>6. named \in Seq(Entries) /\ Len(named) <= r.more /\ Fair(named)
        /\ \A i \in 1 .. Len(named) : named[i].id \in Fact /\ named[i].id \notin Chunk
      <2>1. r.more \in Nat
          BY <1>1, MostType
      <2> QED  BY <2>1, NamedFacts DEF Once, Fair
  <1> HIDE DEF chunks
  <1>7. both \in Seq(Entries) /\ Fair(both)
      BY <1>4, <1>5, FairTogether
  <1>8. \A i \in 1 .. Len(both) : both[i] \in ToSet(chunks) \/ both[i] \in ToSet(near)
      BY <1>4, <1>5, MembersOfBoth
  <1>9. Len(both) = Len(chunks) + Len(near)
      BY <1>4, <1>5
  <1> HIDE DEF both
  <1>10. out \in Seq(Entries) /\ Len(out) = Len(both) + Len(named)
         /\ \A i \in 1 .. Len(out) : out[i] \in ToSet(both) \/ out[i] \in ToSet(named)
      BY <1>6, <1>7, MembersOfBoth
  <1>11. Fair(out)
      <2>1. \A i \in 1 .. Len(both), j \in 1 .. Len(named) :
               both[i].id = named[j].id => MayRepeat(both[i].id)
          BY <1>1, <1>6 DEF MayRepeat
      <2> QED  BY <1>6, <1>7, <2>1, FairTogether
  <1> HIDE DEF out
  <1>12. \A i \in 1 .. Len(out) : out[i].id \in Chunk => Sound(out[i])
      <2>1. \A e \in ToSet(both) : e \in ToSet(chunks) \/ e \in ToSet(near)
          BY <1>7, <1>8, Members
      <2>2. \A e \in ToSet(chunks) : Sound(e)
          BY <1>4, Members
      <2>3. \A e \in ToSet(near) : e.id \notin Chunk
          BY <1>5, Members
      <2>4. \A e \in ToSet(named) : e.id \notin Chunk
          BY <1>6, Members
      <2> QED  BY <1>10, <2>1, <2>2, <2>3, <2>4
  <1>13. Len(out) <= Most
      <2>1. Len(chunks) \in Nat /\ Len(near) \in Nat /\ Len(named) \in Nat
          BY <1>4, <1>5, <1>6
      <2> QED  BY <1>1, <1>4, <1>5, <1>6, <1>9, <1>10, <2>1, Steady, MostType
  <1>14. s \in RequestType
      <2>1. "done" \in Phases
          BY DEF Phases
      <2> QED  BY <1>1, <1>10, <2>1 DEF RequestType
  <1>15. Keeps(s) /\ s.pc = "done" /\ s.out = out /\ s.lists = r.lists
      BY <1>1 DEF RequestType, Keeps
  <1> HIDE DEF s
  <1> QED  BY <1>1, <1>3, <1>11, <1>12, <1>13, <1>14, <1>15, DoneSteps

-----------------------------------------------------------------------------
(* Steps of /ask.                                                             *)

\* Steps to a phase without results.
LEMMA ContextSteps ==
  ASSUME Inv, r.pc \in {"context", "full", "load", "answer"}, NEW s \in RequestType, Step(s),
         s.vault = r.vault, s.mode = r.mode, s.limit = r.limit, s.lists = r.lists,
         s.pc \in {"full", "load", "answer", "explain"},
         s.pc \in {"full", "load"} => s.stamped <= 1,
         \A c \in s.context : File[c] \in ToSet(s.sources)
  PROVE  Inv'
  <1>1. Placed(r)
      BY Steady
  <1>2. Placed(s)
      BY <1>1 DEF Placed, Inside, Early
  <1>3. Results(s)
      BY DEF Results
  <1>4. Good(s) /\ Moves(s)
      BY <1>2, <1>3, StepMoves DEF Good
  <1>5. r.pc \in Inside \cup {"use", "failed"}
      BY DEF Inside
  <1> QED  BY <1>4, <1>5, RequestSteps

LEMMA UseChunksKeeps ==
  ASSUME Inv, UseChunks
  PROVE  Inv'
  <1> DEFINE chunks == {r.out[i].id : i \in DOMAIN r.out}
             files == FilesOf(r.out)
  <1>1. PICK n \in Stamps(chunks) :
           \/ Step([r EXCEPT !.pc = "full", !.out = <<>>, !.sources = files, !.stamped = n])
           \/ Step([r EXCEPT !.pc = "answer", !.sources = files,
                             !.out = <<>>, !.context = chunks, !.stamped = n])
      BY DEF UseChunks
  <1>2. r \in RequestType /\ Placed(r) /\ Results(r) /\ r.pc = "context"
      BY Steady DEF UseChunks
  <1>3. n \in {0, 1}
      <2>1. r.stamped = 0
          BY <1>2 DEF Placed, Early
      <2> QED  BY <2>1 DEF Stamps
  <1>4. r.out \in Seq(Entries) /\ DOMAIN r.out = 1 .. Len(r.out)
        /\ \A i \in 1 .. Len(r.out) : r.out[i].id \in Chunk
      BY <1>2 DEF RequestType, Results
  <1>5. files \in Seq(Files) /\ \A i \in 1 .. Len(r.out) : File[r.out[i].id] \in ToSet(files)
      BY <1>4, FilesOfList
  <1>6. chunks \in SUBSET Chunk /\ \A c \in chunks : File[c] \in ToSet(files)
      BY <1>4, <1>5
  <1>7. r.context = {}
      BY <1>2 DEF Placed, Early
  <1>8. /\ "full" \in Phases /\ "answer" \in Phases /\ <<>> \in Seq(Entries)
        /\ n \in 0 .. 2 /\ n <= 1
      BY <1>3 DEF Phases
  <1> HIDE DEF chunks, files
  <1>9. ASSUME Step([r EXCEPT !.pc = "full", !.out = <<>>, !.sources = files, !.stamped = n])
        PROVE  Inv'
      <2> DEFINE s == [r EXCEPT !.pc = "full", !.out = <<>>, !.sources = files, !.stamped = n]
      <2>1. s \in RequestType
          BY <1>2, <1>5, <1>8 DEF RequestType
      <2>2. /\ s.vault = r.vault /\ s.mode = r.mode /\ s.limit = r.limit /\ s.lists = r.lists
            /\ s.pc = "full" /\ s.stamped = n /\ s.context = r.context
          BY <1>2 DEF RequestType
      <2>3. Step(s)
          BY <1>9
      <2> HIDE DEF s
      <2> QED  BY <1>2, <1>7, <1>8, <2>1, <2>2, <2>3, ContextSteps
  <1>10. ASSUME Step([r EXCEPT !.pc = "answer", !.sources = files,
                               !.out = <<>>, !.context = chunks, !.stamped = n])
         PROVE  Inv'
      <2> DEFINE s == [r EXCEPT !.pc = "answer", !.sources = files,
                                !.out = <<>>, !.context = chunks, !.stamped = n]
      <2>1. s \in RequestType
          BY <1>2, <1>5, <1>6, <1>8 DEF RequestType
      <2>2. /\ s.vault = r.vault /\ s.mode = r.mode /\ s.limit = r.limit /\ s.lists = r.lists
            /\ s.pc = "answer" /\ s.context = chunks /\ s.sources = files
          BY <1>2 DEF RequestType
      <2>3. Step(s)
          BY <1>10
      <2> HIDE DEF s
      <2> QED  BY <1>2, <1>6, <2>1, <2>2, <2>3, ContextSteps
  <1> QED  BY <1>1, <1>9, <1>10

\* What the searches of the full mode find.
LEMMA AskSearch ==
  ASSUME Inv, r.pc \in {"full", "load", "explain"}, NEW filter, NEW n \in Nat
  PROVE  LET found == Search(r.vault, Original, filter, n) IN
         /\ found \in Seq(Entries) /\ DOMAIN found = 1 .. Len(found) /\ Len(found) <= n
         /\ Once(found)
         /\ \A i \in 1 .. Len(found) : found[i].id \in Chunk /\ Sound(found[i])
         /\ FilesOf(found) \in Seq(Files)
         /\ \A i \in 1 .. Len(found) : File[found[i].id] \in ToSet(FilesOf(found))
  <1> DEFINE found == Search(r.vault, Original, filter, n)
  <1>1. r.vault \in Vault /\ stored \subseteq seen /\ Original \in Query
      BY Steady, RecallAssumption DEF Placed, Inside, RecallAssumption
  <1>2. /\ found \in Seq(Entries) /\ Len(found) <= n /\ Once(found)
        /\ \A i \in 1 .. Len(found) : found[i].id \in Chunk /\ Sound(found[i])
      BY <1>1, SearchIsSound
  <1> HIDE DEF found
  <1>3. /\ FilesOf(found) \in Seq(Files)
        /\ \A i \in 1 .. Len(found) : File[found[i].id] \in ToSet(FilesOf(found))
      BY <1>2, FilesOfList
  <1>4. DOMAIN found = 1 .. Len(found)
      BY <1>2
  <1> QED  BY <1>2, <1>3, <1>4 DEF found

LEMMA FindFilesKeeps ==
  ASSUME Inv, FindFiles
  PROVE  Inv'
  <1> DEFINE files == FilesOf(Search(r.vault, Original, Chunk, 50))
             s == [r EXCEPT !.pc = "load", !.files = files]
  <1>1. r \in RequestType /\ Placed(r) /\ r.pc = "full" /\ r.pc \in Inside
      BY Steady DEF FindFiles, Inside
  <1>2. files \in Seq(Files)
      <2>1. 50 \in Nat
          OBVIOUS
      <2> QED  BY <1>1, <2>1, AskSearch
  <1> HIDE DEF files
  <1>3. CASE Step(s)
      <2>1. s \in RequestType
          <3>1. "load" \in Phases
              BY DEF Phases
          <3> QED  BY <1>1, <1>2, <3>1 DEF RequestType
      <2>2. /\ s.vault = r.vault /\ s.mode = r.mode /\ s.limit = r.limit /\ s.lists = r.lists
            /\ s.pc = "load" /\ s.stamped = r.stamped
            /\ s.context = r.context /\ s.sources = r.sources
          BY <1>1 DEF RequestType
      <2> HIDE DEF s
      <2>3. r.stamped <= 1 /\ \A c \in r.context : File[c] \in ToSet(r.sources)
          BY <1>1 DEF Placed
      <2> QED  BY <1>1, <1>3, <2>1, <2>2, <2>3, ContextSteps
  <1>4. CASE Fail
      BY <1>1, <1>4, FailKeeps
  <1> QED  BY <1>3, <1>4 DEF FindFiles, files

LEMMA LoadFileKeeps ==
  ASSUME Inv, LoadFile
  PROVE  Inv'
  <1> DEFINE found == Search(r.vault, Original, {c \in Chunk : File[c] = r.files[1]}, 100)
             sources == r.sources \o FilesOf(found)
             context == r.context \cup {found[i].id : i \in DOMAIN found}
             loaded == [r EXCEPT !.files = Tail(@), !.sources = sources, !.context = context]
             passed == [r EXCEPT !.files = Tail(@)]
  <1>1. r \in RequestType /\ Placed(r) /\ r.pc = "load" /\ r.files # <<>>
      BY Steady DEF LoadFile
  <1>2. Step(loaded) \/ Step(passed)
      <2>1. \/ Step([r EXCEPT !.files = Tail(@), !.sources = @ \o Named(found),
                              !.context = @ \cup {found[i].id : i \in DOMAIN found}])
            \/ Step(passed)
          BY DEF LoadFile
      <2> HIDE DEF found
      <2> QED  BY <1>1, <2>1 DEF Named, RequestType
  <1>3. /\ found \in Seq(Entries) /\ DOMAIN found = 1 .. Len(found)
        /\ \A i \in 1 .. Len(found) : found[i].id \in Chunk
        /\ FilesOf(found) \in Seq(Files)
        /\ \A i \in 1 .. Len(found) : File[found[i].id] \in ToSet(FilesOf(found))
      <2>1. 100 \in Nat
          OBVIOUS
      <2> QED  BY <1>1, <2>1, AskSearch
  <1> HIDE DEF found
  <1>4. /\ r.sources \in Seq(Files) /\ r.context \subseteq Chunk /\ Tail(r.files) \in Seq(Files)
        /\ r.stamped <= 1 /\ \A c \in r.context : File[c] \in ToSet(r.sources)
      BY <1>1 DEF RequestType, Placed
  <1>5. sources \in Seq(Files) /\ context \in SUBSET Chunk
      BY <1>3, <1>4
  <1>6. \A c \in context : File[c] \in ToSet(sources)
      <2> DEFINE more == FilesOf(found)
      <2>1. more \in Seq(Files)
          BY <1>3
      <2> HIDE DEF more
      <2>2. r.sources \o more \in Seq(Files)
          BY <1>4, <2>1
      <2>3. ToSet(r.sources) \cup ToSet(more) \subseteq ToSet(r.sources \o more)
          <3>1. ASSUME NEW i \in 1 .. Len(r.sources)
                PROVE  i \in 1 .. Len(r.sources \o more) /\ (r.sources \o more)[i] = r.sources[i]
              BY <1>4, <2>1
          <3>2. ASSUME NEW i \in 1 .. Len(more)
                PROVE  /\ i + Len(r.sources) \in 1 .. Len(r.sources \o more)
                       /\ (r.sources \o more)[i + Len(r.sources)] = more[i]
              BY <1>4, <2>1
          <3> DEFINE w == r.sources \o more
          <3>3. \A x : x \in ToSet(w) <=> \E i \in 1 .. Len(w) : w[i] = x
              BY <2>2, Members
          <3>4. \A x : x \in ToSet(more) <=> \E i \in 1 .. Len(more) : more[i] = x
              BY <2>1, Members
          <3>5. \A x : x \in ToSet(r.sources) <=>
                       \E i \in 1 .. Len(r.sources) : r.sources[i] = x
              BY <1>4, Members
          <3>6. /\ \A i \in 1 .. Len(r.sources) : i \in 1 .. Len(w) /\ w[i] = r.sources[i]
                /\ \A i \in 1 .. Len(more) :
                      i + Len(r.sources) \in 1 .. Len(w) /\ w[i + Len(r.sources)] = more[i]
              BY <3>1, <3>2
          <3> HIDE DEF w
          <3>7. ToSet(r.sources) \cup ToSet(more) \subseteq ToSet(w)
              BY <3>3, <3>4, <3>5, <3>6
          <3> QED  BY <3>7 DEF w
      <2>4. \A c \in context : c \in r.context \/ \E i \in 1 .. Len(found) : c = found[i].id
          BY <1>3
      <2>5. \A i \in 1 .. Len(found) : File[found[i].id] \in ToSet(more)
          BY <1>3 DEF more
      <2>6. sources = r.sources \o more
          BY DEF more
      <2> HIDE DEF sources, context
      <2> QED  BY <1>4, <2>3, <2>4, <2>5, <2>6
  <1> HIDE DEF sources, context
  <1>7. CASE Step(loaded)
      <2>1. loaded \in RequestType
          BY <1>1, <1>4, <1>5 DEF RequestType
      <2>2. /\ loaded.vault = r.vault /\ loaded.mode = r.mode /\ loaded.limit = r.limit
            /\ loaded.lists = r.lists /\ loaded.pc = "load" /\ loaded.stamped = r.stamped
            /\ loaded.context = context /\ loaded.sources = sources
          BY <1>1 DEF RequestType
      <2> HIDE DEF loaded
      <2> QED  BY <1>1, <1>4, <1>6, <1>7, <2>1, <2>2, ContextSteps
  <1>8. CASE Step(passed)
      <2>1. passed \in RequestType
          BY <1>1, <1>4 DEF RequestType
      <2>2. /\ passed.vault = r.vault /\ passed.mode = r.mode /\ passed.limit = r.limit
            /\ passed.lists = r.lists /\ passed.pc = "load" /\ passed.stamped = r.stamped
            /\ passed.context = r.context /\ passed.sources = r.sources
          BY <1>1 DEF RequestType
      <2> HIDE DEF passed
      <2> QED  BY <1>1, <1>4, <1>8, <2>1, <2>2, ContextSteps
  <1> QED  BY <1>2, <1>7, <1>8

LEMMA AnswerKeeps ==
  ASSUME Inv, Loaded \/ Synthesize
  PROVE  Inv'
  <1>1. r \in RequestType /\ Placed(r) /\ r.pc \in {"load", "answer"} /\ r.pc \in Inside
      BY Steady DEF Loaded, Synthesize, Inside
  <1>2. \A c \in r.context : File[c] \in ToSet(r.sources)
      BY <1>1 DEF Placed
  <1>3. CASE Loaded
      <2>1. PICK n \in Stamps(r.context) :
               Step([r EXCEPT !.pc = "answer", !.files = <<>>, !.stamped = n])
          BY <1>3 DEF Loaded
      <2> DEFINE s == [r EXCEPT !.pc = "answer", !.files = <<>>, !.stamped = n]
      <2>2. n \in 0 .. 2
          <3>1. r.stamped \in 0 .. 2 /\ r.stamped <= 1
              BY <1>1, <1>3 DEF RequestType, Placed, Loaded
          <3>2. n = r.stamped \/ n = r.stamped + 1
              BY <2>1 DEF Stamps
          <3> QED  BY <3>1, <3>2
      <2>3. s \in RequestType
          <3>1. "answer" \in Phases /\ <<>> \in Seq(Files)
              BY DEF Phases
          <3> QED  BY <1>1, <2>2, <3>1 DEF RequestType
      <2>4. /\ s.vault = r.vault /\ s.mode = r.mode /\ s.limit = r.limit /\ s.lists = r.lists
            /\ s.pc = "answer" /\ s.context = r.context /\ s.sources = r.sources
          BY <1>1 DEF RequestType
      <2> HIDE DEF s
      <2>5. Step(s)
          BY <2>1 DEF s
      <2> QED  BY <1>1, <1>2, <2>3, <2>4, <2>5, ContextSteps
  <1>4. CASE Synthesize
      <2> DEFINE s == [r EXCEPT !.pc = "explain"]
      <2>1. Step(s) \/ Fail
          BY <1>4 DEF Synthesize
      <2>2. s \in RequestType
          <3>1. "explain" \in Phases
              BY DEF Phases
          <3> QED  BY <1>1, <3>1 DEF RequestType
      <2>3. /\ s.vault = r.vault /\ s.mode = r.mode /\ s.limit = r.limit /\ s.lists = r.lists
            /\ s.pc = "explain" /\ s.context = r.context /\ s.sources = r.sources
          BY <1>1 DEF RequestType
      <2> HIDE DEF s
      <2>4. CASE Step(s)
          BY <1>1, <1>2, <2>2, <2>3, <2>4, ContextSteps
      <2>5. CASE Fail
          BY <1>1, <2>5, FailKeeps
      <2> QED  BY <2>1, <2>4, <2>5
  <1> QED  BY <1>3, <1>4

LEMMA ExplainKeeps ==
  ASSUME Inv, Explain
  PROVE  Inv'
  <1>1. r \in RequestType /\ Placed(r) /\ r.pc = "explain"
      BY Steady DEF Explain
  <1>2. PICK out \in {<<>>, Search(r.vault, Original, Chunk, r.limit)} :
           Step([r EXCEPT !.pc = "done", !.out = out])
      BY DEF Explain
  <1> DEFINE s == [r EXCEPT !.pc = "done", !.out = out]
  <1>3. /\ out \in Seq(Entries) /\ Len(out) <= r.limit /\ Once(out)
        /\ \A i \in 1 .. Len(out) : Sound(out[i])
      <2>1. r.limit \in Nat
          BY Steady
      <2>2. CASE out = <<>>
          <3>1. <<>> \in Seq(Entries) /\ Len(<<>>) = 0 /\ Once(<<>>)
              BY DEF Once
          <3> QED  BY <2>1, <2>2, <3>1
      <2>3. CASE out # <<>>
          <3> DEFINE found == Search(r.vault, Original, Chunk, r.limit)
          <3>1. /\ found \in Seq(Entries) /\ Len(found) <= r.limit /\ Once(found)
                /\ \A i \in 1 .. Len(found) : Sound(found[i])
              BY <1>1, <2>1, AskSearch
          <3>2. out = found
              BY <1>2, <2>3
          <3> HIDE DEF found
          <3> QED  BY <3>1, <3>2
      <2> QED  BY <2>2, <2>3
  <1>4. s \in RequestType
      <2>1. "done" \in Phases
          BY DEF Phases
      <2> QED  BY <1>1, <1>3, <2>1 DEF RequestType
  <1>5. Keeps(s) /\ s.pc = "done" /\ s.out = out /\ s.lists = r.lists
      BY <1>1 DEF RequestType, Keeps
  <1>6. Step(s)
      BY <1>2
  <1> HIDE DEF s
  <1>7. Len(out) <= Most
      <2>1. Len(out) \in Nat /\ r.limit \in Nat
          BY <1>3, Steady
      <2> QED  BY <1>1, <1>3, <2>1, MostType
  <1>8. Fair(out)
      BY <1>3 DEF Once, Fair
  <1> QED  BY <1>1, <1>3, <1>4, <1>5, <1>6, <1>7, <1>8, DoneSteps
-----------------------------------------------------------------------------
(* The beginning and the end of a request.                                    *)

LEMMA IdleIsTyped == Idle \in RequestType
  <1>1. /\ "idle" \in Phases /\ "off" \in Rewrites
        /\ <<>> \in Seq(Query) /\ <<>> \in Seq(Seq(Chunk)) /\ <<>> \in Seq(Entries)
        /\ <<>> \in Seq(Files) /\ {} \in SUBSET Chunk /\ 0 \in Int /\ 0 \in 0 .. 2
      BY DEF Phases, Rewrites
  <1> QED  BY <1>1 DEF Idle, RequestType

LEMMA IdleFacts ==
  /\ Idle.pc = "idle" /\ Idle.lists = <<>> /\ Idle.out = <<>> /\ Idle.context = {}
  /\ Idle.stamped = 0 /\ Idle.sources = <<>> /\ Idle.limit = 0 /\ Idle.vault = None
  BY DEF Idle

LEMMA NobodyRuns ==
  ASSUME Inv, r.pc # "vaults", r.pc # "batch"
  PROVE  /\ \A v \in DOMAIN workers : workers[v].pc = "done"
         /\ \A i \in DOMAIN queries : queries[i].pc = "done"
         /\ slots = 0
  <1>1. /\ \A v \in DOMAIN workers : workers[v].pc = "done"
        /\ \A i \in DOMAIN queries : queries[i].pc = "done"
      BY DEF Inv, Goroutines, Batched
  <1>2. {i \in DOMAIN queries : queries[i].pc = "running"} = {}
      BY <1>1
  <1>3. slots = Cardinality({})
      BY <1>2 DEF Inv, Batched
  <1> QED  BY <1>1, <1>3, FS_EmptySet

LEMMA EndKeeps ==
  ASSUME Inv, r.pc \in {"failed", "done"}, End
  PROVE  Inv'
  <1>1. /\ r' = Idle /\ seen' = {} /\ workers' = <<>> /\ queries' = <<>> /\ entries' = <<>>
        /\ UNCHANGED <<kind, stored, lexical, slots>>
      BY DEF End
  <1>2. Stores'
      BY <1>1, IdleFacts DEF Inv, Stores
  <1>3. Good(r)'
      <2>1. Placed(r)'
          BY <1>1, IdleFacts DEF Placed, Inside
      <2>2. Results(r)'
          BY <1>1, IdleFacts DEF Results
      <2> QED  BY <1>1, <2>1, <2>2, IdleIsTyped DEF Good
  <1>4. DOMAIN <<>> = {}
      OBVIOUS
  <1>5. Goroutines'
      BY <1>1, <1>4, IdleFacts DEF Goroutines
  <1>6. Merged'
      BY <1>1, IdleFacts DEF Merged
  <1>7. Batched'
      <2>1. slots' = 0 /\ 0 \in 0 .. BatchSlots
          BY <1>1, NobodyRuns, RecallAssumption DEF RecallAssumption
      <2>2. {i \in DOMAIN queries' : queries'[i].pc = "running"} = {}
          BY <1>1, <1>4
      <2>3. DOMAIN queries' = {} /\ DOMAIN entries' = {}
          BY <1>1, <1>4
      <2> QED  BY <2>1, <2>2, <2>3, FS_EmptySet DEF Batched
  <1> QED  BY <1>2, <1>3, <1>5, <1>6, <1>7 DEF Inv

LEMMA FinishKeeps ==
  ASSUME Inv, RecallFails \/ Done
  PROVE  Inv'
  BY EndKeeps DEF RecallFails, Done

\* A request without goroutines of its own begins.
LEMMA StartSteps ==
  ASSUME Inv, r.pc = "idle", seen' = stored,
         UNCHANGED <<kind, stored, lexical, workers, queries, slots, entries>>,
         r'.pc \notin {"idle", "vaults", "batch", "use"}, Good(r)'
  PROVE  Inv'
  <1>1. Stores'
      BY DEF Inv, Stores
  <1>3. Goroutines'
      BY DEF Inv, Goroutines
  <1>4. Merged'
      BY DEF Merged
  <1>5. Batched'
      BY NobodyRuns DEF Inv, Batched
  <1> QED  BY <1>1, <1>3, <1>4, <1>5 DEF Inv

LEMMA RequestFacts ==
  ASSUME NEW q \in Requests
  PROVE  /\ q.vault \in Vault /\ q.mode \in Modes /\ q.rewrite \in Rewrites
         /\ q.filter \in SUBSET Chunk /\ q.limit \in Limit /\ q.more \in Limit \cup {0}
         /\ kind \in Single /\ (kind = "hybrid" => q.mode # "sparse")
  <1>1. Chunk \in SUBSET Chunk /\ Filters \subseteq SUBSET Chunk /\ "dense" \in Modes
      BY RecallAssumption DEF RecallAssumption, Modes
  <1>2. \A p \in handleRecall \cup mcpRecall \cup Plain \cup handleHybrid :
           /\ p.vault \in Vault /\ p.mode \in Modes /\ p.rewrite \in Rewrites
           /\ p.filter \in SUBSET Chunk /\ p.limit \in Limit /\ p.more \in Limit \cup {0}
      BY <1>1 DEF handleRecall, mcpRecall, Plain, handleHybrid
  <1>3. kind \in Single
      BY DEF Requests, Single
  <1>4. kind = "hybrid" => Requests = handleHybrid
      BY DEF Requests
  <1>5. Requests \subseteq handleRecall \cup mcpRecall \cup Plain \cup handleHybrid
      <2>1. CASE kind = "recall"
          BY <2>1 DEF Requests
      <2>2. CASE kind = "mcp"
          BY <2>2 DEF Requests, mcpHybridSearch, mcpContextBundle
      <2>3. CASE kind \in {"rag", "auto", "full"}
          BY <2>3 DEF Requests, handleAsk, mcpAsk
      <2> QED  BY <1>3, <1>4, <2>1, <2>2, <2>3 DEF Single
  <1>6. kind = "hybrid" => q.mode # "sparse"
      <2>1. \A p \in handleHybrid : p.mode \in {"dense"}
          BY DEF handleHybrid
      <2>2. kind = "hybrid" => q \in handleHybrid
          BY <1>4
      <2>3. kind = "hybrid" => q.mode = "dense"
          BY <2>1, <2>2
      <2> QED  BY <2>3
  <1> QED  BY <1>2, <1>3, <1>5, <1>6

LEMMA BeginKeeps ==
  ASSUME Inv, NEW q \in Requests, Begin(q)
  PROVE  Inv'
  <1> DEFINE pc == IF kind = "full" THEN "full" ELSE "rewrite"
             s == [Idle EXCEPT !.pc = pc, !.vault = q.vault, !.mode = q.mode,
                               !.rewrite = q.rewrite, !.filter = q.filter, !.limit = q.limit,
                               !.more = q.more]
  <1>1. /\ r.pc = "idle" /\ r' = s /\ seen' = stored
        /\ UNCHANGED <<kind, stored, lexical, workers, queries, slots, entries>>
      BY DEF Begin
  <1>2. pc \in {"full", "rewrite"} /\ pc \in Phases
      BY DEF Phases
  <1> HIDE DEF pc
  <1>3. s \in RequestType
      BY <1>2, RequestFacts, IdleIsTyped DEF RequestType
  <1>4. /\ s.pc = pc /\ s.vault = q.vault /\ s.mode = q.mode /\ s.lists = <<>>
        /\ s.context = {} /\ s.stamped = 0
      BY DEF Idle
  <1> HIDE DEF s
  <1>5. Placed(r)'
      BY <1>1, <1>2, <1>4, RequestFacts DEF Placed, Inside, Early
  <1>6. Results(r)'
      BY <1>1, <1>2, <1>4 DEF Results
  <1> QED  BY <1>1, <1>2, <1>3, <1>4, <1>5, <1>6, StartSteps DEF Good

\* Citations are chunks that were found, each once.
LEMMA CitedAreFound ==
  ASSUME NEW found \in Seq(Entries), NEW cites \in Seq(Chunk)
  PROVE  /\ Cited(cites, found) \in Seq(Entries)
         /\ Once(Cited(cites, found))
         /\ \A i \in 1 .. Len(Cited(cites, found)) :
               \E j \in 1 .. Len(found) : found[j] = Cited(cites, found)[i]
  <1> DEFINE P == {i \in Firsts(cites) : \E j \in DOMAIN found : found[j].id = cites[i]}
             cited == Taken(cites, P)
             out == [i \in DOMAIN cited |-> CHOOSE e \in ToSet(found) : e.id = cited[i]]
  <1>1. DOMAIN found = 1 .. Len(found)
      OBVIOUS
  <1>2. P \in SUBSET Firsts(cites) /\ \A k \in P : \E j \in 1 .. Len(found) : found[j].id = cites[k]
      BY <1>1
  <1> HIDE DEF P
  <1>3. /\ cited \in Seq(Chunk)
        /\ \A i, j \in 1 .. Len(cited) : cited[i] = cited[j] => i = j
        /\ \A i \in 1 .. Len(cited) : \E k \in P : cited[i] = cites[k]
      BY <1>2, TakenOnce
  <1> HIDE DEF cited
  <1>4. DOMAIN cited = 1 .. Len(cited) /\ Len(cited) \in Nat
      BY <1>3
  <1>5. ASSUME NEW i \in 1 .. Len(cited)
        PROVE  out[i].id = cited[i] /\ \E k \in 1 .. Len(found) : found[k] = out[i]
      <2>1. PICK j \in 1 .. Len(found) : found[j].id = cited[i]
          BY <1>2, <1>3
      <2>2. found[j] \in ToSet(found)
          BY Members
      <2>3. out[i] = CHOOSE e \in ToSet(found) : e.id = cited[i]
          BY <1>4
      <2>4. out[i] \in ToSet(found) /\ out[i].id = cited[i]
          BY <2>1, <2>2, <2>3
      <2> HIDE DEF out
      <2> QED  BY <2>4, Members
  <1>6. DOMAIN out = 1 .. Len(cited)
      BY <1>4
  <1>7. \A i \in 1 .. Len(cited) : out[i] \in Entries
      <2> HIDE DEF out
      <2> QED  BY <1>5
  <1>8. out \in Seq(Entries) /\ Len(out) = Len(cited)
      BY <1>4, <1>6, <1>7
  <1> HIDE DEF out
  <1>9. Once(out)
      BY <1>3, <1>5, <1>8 DEF Once
  <1> QED  BY <1>5, <1>8, <1>9 DEF Cited, out, cited, P

LEMMA AskCitedKeeps ==
  ASSUME Inv, AskCited
  PROVE  Inv'
  <1>1. PICK v \in Vault, n \in Limit, cites \in BoundedSeq(Chunk, 2) :
           r' = [Idle EXCEPT
                !.pc = "done", !.vault = v, !.mode = "dense", !.limit = n,
                !.sources = FilesOf(Search(v, Original, Chunk, n)),
                !.context = {Search(v, Original, Chunk, n)[i].id :
                                i \in DOMAIN Search(v, Original, Chunk, n)},
                !.out = Cited(cites, Search(v, Original, Chunk, n))]
      BY DEF AskCited
  <1> DEFINE found == Search(v, Original, Chunk, n)
             out == Cited(cites, found)
             files == FilesOf(found)
             context == {found[i].id : i \in DOMAIN found}
             s == [Idle EXCEPT !.pc = "done", !.vault = v, !.mode = "dense", !.limit = n,
                               !.sources = files, !.context = context, !.out = out]
  <1>2. /\ kind = "cited" /\ r.pc = "idle" /\ r' = s /\ seen' = stored
        /\ UNCHANGED <<kind, stored, lexical, workers, queries, slots, entries>>
      BY <1>1 DEF AskCited
  <1>3. stored \subseteq Chunk /\ Original \in Query /\ n \in Nat
      BY Steady, RecallAssumption DEF RecallAssumption
  <1> DEFINE C == {c \in stored \cap Chunk : Home[c] = Client(v)}
  <1>4. Found(found, n, v, C)
      BY <1>3, RecallAssumption, SearchFinds
  <1>5. C \subseteq Chunk /\ \A c \in C : c \in stored /\ Home[c] = Client(v)
      OBVIOUS
  <1> HIDE DEF found, C
  <1>6. found \in Seq(Entries) /\ DOMAIN found = 1 .. Len(found)
        /\ \A i \in 1 .. Len(found) : found[i].id \in C /\ found[i].vault = v
      BY <1>4 DEF Found
  <1>7. files \in Seq(Files) /\ \A i \in 1 .. Len(found) : File[found[i].id] \in ToSet(files)
      BY <1>5, <1>6, FilesOfList
  <1>8. context \in SUBSET Chunk /\ \A c \in context : File[c] \in ToSet(files)
      <2> HIDE DEF files
      <2> QED  BY <1>5, <1>6, <1>7
  <1>9. cites \in Seq(Chunk)
      <2>1. PICK m \in 0 .. 2 : cites \in [1 .. m -> Chunk]
          BY DEF BoundedSeq, SeqOf
      <2> QED  BY <2>1
  <1>10. /\ out \in Seq(Entries) /\ Once(out)
         /\ \A i \in 1 .. Len(out) : \E j \in 1 .. Len(found) : found[j] = out[i]
      BY <1>6, <1>9, CitedAreFound
  <1> HIDE DEF out, files, context
  <1>11. s \in RequestType
      <2>1. "done" \in Phases /\ "dense" \in Modes
          BY DEF Phases, Modes
      <2> QED  BY <1>7, <1>8, <1>10, <2>1, IdleIsTyped DEF RequestType
  <1>12. /\ s.pc = "done" /\ s.mode = "dense" /\ s.lists = <<>> /\ s.out = out
         /\ s.context = context /\ s.sources = files
      BY DEF Idle
  <1> HIDE DEF s
  <1>13. Placed(r)'
      BY <1>2, <1>8, <1>12 DEF Placed, Inside, Early
  <1>14. Results(r)'
      <2>1. \A i \in 1 .. Len(out) : out[i].id \in stored /\ Home[out[i].id] = Client(out[i].vault)
          BY <1>5, <1>6, <1>10
      <2>2. \A i \in 1 .. Len(r'.out) :
               r'.out[i].id \in seen' /\ Home[r'.out[i].id] = Client(r'.out[i].vault)
          BY <1>2, <1>12, <2>1
      <2>3. r'.pc = "done" /\ Once(r'.out) /\ kind' = "cited"
          BY <1>2, <1>10, <1>12
      <2>4. Fair(r.out)'
          BY <2>3 DEF Once, Fair
      <2> QED  BY <2>2, <2>3, <2>4 DEF Results, Sound
  <1> QED  BY <1>2, <1>11, <1>12, <1>13, <1>14, StartSteps DEF Good

-----------------------------------------------------------------------------
(* Goroutines over several vaults.                                            *)

LEMMA WaitingIsTyped ==
  ASSUME NEW v \in Vault \cup Unlisted
  PROVE  Waiting(v) \in GoroutineType /\ Waiting(v).pc = "search" /\ Waiting(v).found = <<>>
  <1>1. <<>> \in Seq(Entries)
      OBVIOUS
  <1> QED  BY <1>1 DEF Waiting, GoroutineType

LEMMA CrossVaultKeeps ==
  ASSUME Inv, NEW names \in NameLists, NEW n \in Limit, NEW f \in Filters,
         CrossVault(names, n, f)
  PROVE  Inv'
  <1> DEFINE s == [Idle EXCEPT !.pc = "vaults", !.mode = "dense", !.limit = n, !.filter = f]
  <1>1. /\ kind = "vaults" /\ r.pc = "idle" /\ r' = s /\ seen' = stored
        /\ workers' = [g \in DOMAIN names |-> Waiting(names[g])]
        /\ UNCHANGED <<kind, stored, lexical, queries, slots, entries>>
      BY DEF CrossVault
  <1>2. s \in RequestType
      <2>1. f \in SUBSET Chunk /\ "vaults" \in Phases /\ "dense" \in Modes
          BY RecallAssumption DEF RecallAssumption, Phases, Modes
      <2> QED  BY <2>1, IdleIsTyped DEF RequestType
  <1>3. /\ s.pc = "vaults" /\ s.mode = "dense" /\ s.lists = <<>> /\ s.out = <<>>
        /\ s.context = {} /\ s.stamped = 0
      BY DEF Idle
  <1> HIDE DEF s
  <1>4. Stores'
      BY <1>1, <1>3 DEF Inv, Stores
  <1>5. Placed(r)'
      BY <1>1, <1>3 DEF Placed, Inside, Early
  <1>6. Results(r)'
      BY <1>1, <1>3 DEF Results, Fair
  <1>7. Goroutines'
      <2>1. /\ DOMAIN workers' = DOMAIN names
            /\ \A g \in DOMAIN names : /\ workers'[g] \in GoroutineType
                                       /\ workers'[g].pc = "search"
                                       /\ workers'[g].found = <<>>
          <3>1. names \in Seq(Vault \cup Unlisted)
              BY RecallAssumption DEF RecallAssumption
          <3>2. \A g \in DOMAIN names : names[g] \in Vault \cup Unlisted
              BY <3>1
          <3> QED  BY <1>1, <3>2, WaitingIsTyped
      <2>2. ToSet(r'.out) = {}
          BY <1>1, <1>3 DEF ToSet
      <2>3. r'.pc = "vaults"
          BY <1>1, <1>3
      <2>4. Once(<<>>) /\ Len(<<>>) = 0
          BY DEF Once
      <2> QED  BY <2>1, <2>2, <2>3, <2>4 DEF Goroutines
  <1>8. Merged'
      BY <1>1, <1>3 DEF Merged
  <1>9. Batched'
      BY <1>1, NobodyRuns DEF Inv, Batched
  <1> QED  BY <1>1, <1>2, <1>4, <1>5, <1>6, <1>7, <1>8, <1>9 DEF Inv, Good

\* One goroutine steps.
LEMMA GoroutineFacts ==
  ASSUME Inv, NEW v \in DOMAIN workers, workers[v].pc # "done"
  PROVE  /\ workers[v] \in GoroutineType /\ workers[v].vault \in Vault \cup Unlisted
         /\ r.pc = "vaults" /\ kind = "vaults" /\ stored \subseteq seen
         /\ \A i \in DOMAIN queries : queries[i].pc = "done"
  <1>1. workers[v] \in GoroutineType /\ r.pc = "vaults"
      BY DEF Inv, Goroutines
  <1>2. workers[v].vault \in Vault \cup Unlisted
      BY <1>1 DEF GoroutineType
  <1> QED  BY <1>1, <1>2, Steady DEF Inv, Batched, Placed

\* It does not touch the response.
LEMMA WorkerSteps ==
  ASSUME Inv, NEW v \in DOMAIN workers, workers[v].pc = "search",
         NEW w \in GoroutineType, w.pc # "search", w.vault = workers[v].vault,
         w.pc = "done" => w.found = <<>>, Once(w.found),
         \A i \in 1 .. Len(w.found) : /\ w.found[i].id \in Chunk /\ Sound(w.found[i])
                                      /\ w.found[i].vault = w.vault,
         workers' = [workers EXCEPT ![v] = w],
         UNCHANGED <<kind, stored, lexical, r, seen, queries, slots, entries>>
  PROVE  Inv'
  <1>1. workers[v] \in GoroutineType /\ r.pc = "vaults"
      BY GoroutineFacts
  <1>2. DOMAIN workers' = DOMAIN workers /\ workers'[v] = w
        /\ \A u \in DOMAIN workers : u # v => workers'[u] = workers[u]
      OBVIOUS
  <1>3. Stores' /\ Good(r)' /\ Batched'
      <2>1. \A u \in DOMAIN workers : workers'[u].vault = workers[u].vault
          BY <1>2
      <2>2. \A id : MayRepeat(id)' <=> MayRepeat(id)
          <3>1. \A x : SearchedTwice(x)' <=> SearchedTwice(x)
              BY <1>2, <2>1 DEF SearchedTwice, Client
          <3> QED  BY <3>1 DEF MayRepeat
      <2>3. \A x : Sound(x)' <=> Sound(x)
          BY DEF Sound, Client
      <2>4. r' \in RequestType /\ Placed(r)'
          BY DEF Inv, Good, Placed
      <2>5. Results(r)'
          BY <2>2, <2>3 DEF Inv, Good, Results, Once, Fair
      <2> QED  BY <2>4, <2>5 DEF Inv, Stores, Good, Batched
  <1>4. Merged'
      BY <1>1 DEF Merged
  <1>5. ToSet(<<>>) = {}
      BY DEF ToSet
  <1>6. Goroutines'
      <2>1. \A u \in DOMAIN workers :
              /\ workers'[u] \in GoroutineType
              /\ workers'[u].pc = "search" => workers'[u].found = <<>>
              /\ Once(workers'[u].found)
              /\ \A i \in 1 .. Len(workers'[u].found) :
                    /\ workers'[u].found[i].id \in Chunk /\ Sound(workers'[u].found[i])
                    /\ workers'[u].found[i].vault = workers'[u].vault
          BY <1>2 DEF Inv, Goroutines
      <2>2. \A e : (\E u \in DOMAIN workers :
                        workers[u].pc = "done" /\ e \in ToSet(workers[u].found))
                   <=> (\E u \in DOMAIN workers :
                        workers'[u].pc = "done" /\ e \in ToSet(workers'[u].found))
          BY <1>2, <1>5
      <2>3. \A e : e \in ToSet(r.out) <=>
                 \E u \in DOMAIN workers : workers[u].pc = "done" /\ e \in ToSet(workers[u].found)
          BY <1>1 DEF Inv, Goroutines
      <2>5. \A u \in DOMAIN workers' : \A i \in 1 .. Len(workers'[u].found) :
               /\ workers'[u].found[i].id \in Chunk /\ workers'[u].found[i].id \in seen'
               /\ Home[workers'[u].found[i].id] = Client(workers'[u].found[i].vault)
               /\ workers'[u].found[i].vault = workers'[u].vault
          BY <1>2, <2>1 DEF Sound
      <2>6. \A u \in DOMAIN workers' : workers'[u].pc # "done" => r'.pc = "vaults"
          BY <1>1
      <2>7. \A e : e \in ToSet(r'.out) <=>
                 \E u \in DOMAIN workers' :
                    workers'[u].pc = "done" /\ e \in ToSet(workers'[u].found)
          BY <1>2, <2>2, <2>3
      <2>8. r'.pc # "idle"
          BY <1>1
      <2> QED  BY <1>2, <2>1, <2>5, <2>6, <2>7, <2>8 DEF Goroutines, Sound, Once
  <1> QED  BY <1>3, <1>4, <1>6 DEF Inv

LEMMA SearchVaultKeeps ==
  ASSUME Inv, NEW v \in DOMAIN workers, SearchVault(v) \/ VaultFails(v)
  PROVE  Inv'
  <1>1. workers[v].pc = "search"
      BY DEF SearchVault, VaultFails
  <1>2. /\ workers[v].vault \in Vault \cup Unlisted /\ workers[v] \in GoroutineType
        /\ r.pc = "vaults" /\ stored \subseteq seen
      BY <1>1, GoroutineFacts
  <1>3. workers[v].found = <<>>
      BY <1>1 DEF Inv, Goroutines
  <1>4. CASE SearchVault(v)
      <2> DEFINE found == Search(workers[v].vault, Original, r.filter, r.limit)
                 w == [workers[v] EXCEPT !.pc = "append", !.found = found]
      <2>1. /\ workers' = [workers EXCEPT ![v] = w]
            /\ UNCHANGED <<kind, stored, lexical, r, seen, queries, slots, entries>>
          BY <1>4 DEF SearchVault
      <2>2. found \in Seq(Entries) /\ Once(found)
            /\ \A i \in 1 .. Len(found) : /\ found[i].id \in Chunk /\ Sound(found[i])
                                          /\ found[i].vault = workers[v].vault
          BY <1>2, Steady, RecallAssumption, SearchIsSound DEF RecallAssumption
      <2> HIDE DEF found
      <2>3. w \in GoroutineType /\ w.pc = "append" /\ w.found = found
            /\ w.vault = workers[v].vault
          BY <1>2, <2>2 DEF GoroutineType
      <2> HIDE DEF w
      <2> QED  BY <1>1, <2>1, <2>2, <2>3, WorkerSteps
  <1>5. CASE VaultFails(v)
      <2> DEFINE w == [workers[v] EXCEPT !.pc = "done"]
      <2>1. /\ workers' = [workers EXCEPT ![v] = w]
            /\ UNCHANGED <<kind, stored, lexical, r, seen, queries, slots, entries>>
          BY <1>5 DEF VaultFails
      <2>2. w \in GoroutineType /\ w.pc = "done" /\ w.found = <<>>
            /\ w.vault = workers[v].vault
          BY <1>2, <1>3 DEF GoroutineType
      <2> HIDE DEF w
      <2>3. /\ Once(w.found)
            /\ \A i \in 1 .. Len(w.found) : /\ w.found[i].id \in Chunk /\ Sound(w.found[i])
                                            /\ w.found[i].vault = w.vault
          <3>1. 1 .. Len(w.found) = {}
              BY <2>2
          <3> QED  BY <3>1 DEF Once
      <2> QED  BY <1>1, <2>1, <2>2, <2>3, WorkerSteps
  <1> QED  BY <1>4, <1>5

LEMMA AppendKeeps ==
  ASSUME Inv, NEW v \in DOMAIN workers, AppendVault(v)
  PROVE  Inv'
  <1> DEFINE found == workers[v].found
             out == r.out \o found
  <1>1. /\ workers[v].pc = "append"
        /\ workers' = [workers EXCEPT ![v].pc = "done"] /\ r' = [r EXCEPT !.out = out]
        /\ UNCHANGED <<kind, stored, lexical, seen, queries, slots, entries>>
      BY DEF AppendVault, Appended
  <1>2. /\ workers[v].vault \in Vault \cup Unlisted /\ workers[v] \in GoroutineType
        /\ r.pc = "vaults"
        /\ kind = "vaults" /\ \A i \in DOMAIN queries : queries[i].pc = "done"
      BY <1>1, GoroutineFacts
  <1>3. r \in RequestType /\ Placed(r) /\ Results(r)
      BY Steady
  <1>4. /\ r.out \in Seq(Entries) /\ Fair(r.out)
        /\ \A i \in 1 .. Len(r.out) : r.out[i].id \in Chunk /\ Sound(r.out[i])
      BY <1>2, <1>3 DEF RequestType, Results
  <1>5. /\ found \in Seq(Entries) /\ Once(found)
        /\ \A i \in 1 .. Len(found) : /\ found[i].id \in Chunk /\ Sound(found[i])
                                      /\ found[i].vault = workers[v].vault
      BY <1>2 DEF Inv, Goroutines, GoroutineType
  <1>6. /\ DOMAIN workers' = DOMAIN workers /\ workers'[v].pc = "done"
        /\ workers'[v].found = found /\ workers'[v] \in GoroutineType
        /\ workers'[v].vault = workers[v].vault
        /\ \A u \in DOMAIN workers : u # v => workers'[u] = workers[u]
      BY <1>1, <1>2 DEF GoroutineType
  <1>16. \A e \in ToSet(r.out) :
            \E u \in DOMAIN workers : workers[u].pc = "done" /\ e \in ToSet(workers[u].found)
      BY <1>2 DEF Inv, Goroutines
  <1> HIDE DEF found
  <1>7. /\ out \in Seq(Entries)
        /\ \A x : x \in ToSet(out) <=> x \in ToSet(r.out) \/ x \in ToSet(found)
      BY <1>4, <1>5, MembersOfBoth
  <1>8. \A i \in 1 .. Len(out) : out[i].id \in Chunk /\ Sound(out[i])
      <2>1. \A i \in 1 .. Len(out) : out[i] \in ToSet(r.out) \/ out[i] \in ToSet(found)
          BY <1>4, <1>5, MembersOfBoth
      <2>2. \A x \in ToSet(r.out) : x.id \in Chunk /\ Sound(x)
          BY <1>4, Members
      <2>3. \A x \in ToSet(found) : x.id \in Chunk /\ Sound(x)
          BY <1>5, Members
      <2> HIDE DEF out
      <2> QED  BY <2>1, <2>2, <2>3
  \* What is there came from another goroutine that searched the same vault.
  <1>17. Fair(out)
      <2>1. Fair(found)
          BY <1>5 DEF Once, Fair
      <2>2. ASSUME NEW i \in 1 .. Len(r.out), NEW j \in 1 .. Len(found),
                   r.out[i].id = found[j].id
            PROVE  MayRepeat(r.out[i].id)
          <3>1. r.out[i] \in ToSet(r.out)
              BY <1>4, Members
          <3>2. PICK u \in DOMAIN workers :
                   workers[u].pc = "done" /\ r.out[i] \in ToSet(workers[u].found)
              BY <1>16, <3>1
          <3>3. workers[u].found \in Seq(Entries)
                /\ \A k \in 1 .. Len(workers[u].found) :
                      workers[u].found[k].vault = workers[u].vault
              BY DEF Inv, Goroutines, GoroutineType
          <3>4. r.out[i].vault = workers[u].vault
              BY <3>2, <3>3, Members
          <3>5. u # v
              BY <1>1, <3>2
          <3>6. /\ Client(workers[u].vault) = Home[r.out[i].id]
                /\ Client(workers[v].vault) = Home[r.out[i].id]
                /\ r.out[i].id \in Chunk
              BY <1>4, <1>5, <2>2, <3>4 DEF Sound
          <3> QED  BY <1>2, <3>5, <3>6 DEF MayRepeat, SearchedTwice
      <2> QED  BY <1>4, <1>5, <2>1, <2>2, FairTogether
  <1>18. \A id : MayRepeat(id)' <=> MayRepeat(id)
      <2>1. \A u \in DOMAIN workers : workers'[u].vault = workers[u].vault
          BY <1>6
      <2>2. \A x : SearchedTwice(x)' <=> SearchedTwice(x)
          BY <1>6, <2>1 DEF SearchedTwice, Client
      <2> QED  BY <1>1, <2>2 DEF MayRepeat
  <1> HIDE DEF out
  <1>9. /\ r' \in RequestType /\ r'.out = out /\ r'.pc = "vaults"
        /\ r'.context = r.context /\ r'.stamped = r.stamped /\ r'.sources = r.sources
        /\ r'.lists = r.lists /\ r'.limit = r.limit
      BY <1>1, <1>2, <1>3, <1>7 DEF RequestType
  <1>10. Placed(r)'
      BY <1>1, <1>2, <1>3, <1>9 DEF Placed, Inside, Early
  <1>11. Results(r)'
      <2>1. \A i \in 1 .. Len(r'.out) : /\ r'.out[i].id \in Chunk /\ r'.out[i].id \in seen'
                                        /\ Home[r'.out[i].id] = Client(r'.out[i].vault)
          BY <1>1, <1>8, <1>9 DEF Sound
      <2>2. Fair(r.out)'
          BY <1>9, <1>17, <1>18 DEF Fair
      <2> QED  BY <1>9, <2>1, <2>2 DEF Results, Sound
  <1>12. Stores'
      BY <1>1, <1>2, <1>9 DEF Inv, Stores
  <1>13. Merged'
      BY <1>9 DEF Merged
  <1>14. Batched'
      BY <1>1, <1>2 DEF Inv, Batched
  <1>15. Goroutines'
      <2>1. \A u \in DOMAIN workers :
              /\ workers'[u] \in GoroutineType
              /\ workers'[u].pc = "search" => workers'[u].found = <<>>
              /\ workers'[u].found = workers[u].found
              /\ workers'[u].vault = workers[u].vault
          BY <1>6 DEF Inv, Goroutines, found
      <2>2. \A u \in DOMAIN workers :
              /\ Once(workers'[u].found)
              /\ \A i \in 1 .. Len(workers'[u].found) :
                    /\ workers'[u].found[i].id \in Chunk /\ workers'[u].found[i].id \in seen
                    /\ Home[workers'[u].found[i].id] = Client(workers'[u].found[i].vault)
                    /\ workers'[u].found[i].vault = workers'[u].vault
          BY <2>1 DEF Inv, Goroutines, Sound
      <2>3. \A e : e \in ToSet(r.out) <=>
                 \E u \in DOMAIN workers : workers[u].pc = "done" /\ e \in ToSet(workers[u].found)
          BY <1>2 DEF Inv, Goroutines
      <2>4. \A e : e \in ToSet(out) <=>
                 \E u \in DOMAIN workers :
                    workers'[u].pc = "done" /\ e \in ToSet(workers'[u].found)
          <3>1. ASSUME NEW e, e \in ToSet(out)
                PROVE  \E u \in DOMAIN workers :
                          workers'[u].pc = "done" /\ e \in ToSet(workers'[u].found)
              <4>1. CASE e \in ToSet(found)
                  BY <1>6, <4>1
              <4>2. CASE e \in ToSet(r.out)
                  <5>1. PICK u \in DOMAIN workers :
                           workers[u].pc = "done" /\ e \in ToSet(workers[u].found)
                      BY <2>3, <4>2
                  <5>2. u # v
                      BY <1>1, <5>1
                  <5> QED  BY <1>6, <5>1, <5>2
              <4> QED  BY <1>7, <3>1, <4>1, <4>2
          <3>2. ASSUME NEW e, NEW u \in DOMAIN workers,
                       workers'[u].pc = "done", e \in ToSet(workers'[u].found)
                PROVE  e \in ToSet(out)
              <4>1. CASE u = v
                  BY <1>6, <1>7, <3>2, <4>1
              <4>2. CASE u # v
                  BY <1>6, <1>7, <2>3, <3>2, <4>2
              <4> QED  BY <4>1, <4>2
          <3> QED  BY <3>1, <3>2
      <2>6. \A e : e \in ToSet(r'.out) <=>
                 \E u \in DOMAIN workers' :
                    workers'[u].pc = "done" /\ e \in ToSet(workers'[u].found)
          BY <1>6, <1>9, <2>4
      <2> QED  BY <1>1, <1>6, <1>9, <2>1, <2>2, <2>6 DEF Goroutines, Sound, Once
  <1> QED  BY <1>9, <1>10, <1>11, <1>12, <1>13, <1>14, <1>15 DEF Inv, Good

LEMMA MergeKeeps ==
  ASSUME Inv, Merge
  PROVE  Inv'
  <1> DEFINE S == ToSet(r.out)
             out == FirstOf(ByScore(r.out), r.limit)
             top == TopOf(out)
             s == [r EXCEPT !.pc = "use", !.out = out, !.top = top]
  <1>1. /\ r.pc = "vaults" /\ \A v \in DOMAIN workers : workers[v].pc = "done"
        /\ Step(s)
      BY DEF Merge
  <1>2. r \in RequestType /\ Placed(r) /\ Results(r) /\ kind = "vaults"
      BY <1>1, Steady DEF Placed
  <1>3. r.out \in Seq(Entries) /\ Fair(r.out)
        /\ \A i \in 1 .. Len(r.out) : r.out[i].id \in Chunk /\ Sound(r.out[i])
      BY <1>1, <1>2 DEF RequestType, Results
  <1>5. \A e : e \in S <=> \E v \in DOMAIN workers : e \in ToSet(workers[v].found)
      BY <1>1 DEF Inv, Goroutines
  <1>6. \A e : e \in S <=> \E k \in 1 .. Len(r.out) : r.out[k] = e
      BY <1>3, Members
  <1> HIDE DEF S
  <1>7. /\ out \in Seq(Entries) /\ Len(out) <= r.limit
        /\ \E p : /\ \A i \in 1 .. Len(out) : p[i] \in 1 .. Len(r.out) /\ out[i] = r.out[p[i]]
                  /\ \A i, j \in 1 .. Len(out) : p[i] = p[j] => i = j
        /\ \A k \in 1 .. Len(r.out) :
              \/ \E i \in 1 .. Len(out) : out[i] = r.out[k]
              \/ /\ Len(out) = r.limit
                 /\ \A i \in 1 .. Len(out) : r.out[k].score <= out[i].score
      BY <1>3, Steady, ByScoreRanks
  <1> HIDE DEF out
  <1>8. PICK p : /\ \A i \in 1 .. Len(out) : p[i] \in 1 .. Len(r.out) /\ out[i] = r.out[p[i]]
                 /\ \A i, j \in 1 .. Len(out) : p[i] = p[j] => i = j
      BY <1>7
  <1>9. Fair(out)
      BY <1>3, <1>8, FairPart
  <1>4. \A i \in 1 .. Len(out) : out[i].id \in Chunk /\ Sound(out[i]) /\ out[i] \in S
      BY <1>3, <1>6, <1>8
  <1>20. Len(out) \in Nat /\ DOMAIN out = 1 .. Len(out)
      BY <1>7
  <1>10. top \in Int
      BY <1>7, TopType
  <1> HIDE DEF top
  <1>11. s \in RequestType
      <2>1. "use" \in Phases
          BY DEF Phases
      <2> QED  BY <1>2, <1>7, <1>10, <2>1 DEF RequestType
  <1>12. Keeps(s) /\ s.pc = "use" /\ s.out = out /\ s.lists = r.lists
      BY <1>2 DEF RequestType, Keeps
  <1> HIDE DEF s
  <1>13. Len(out) <= Cap(s)
      <2>1. r.limit \in Nat /\ s.limit = r.limit
          BY <1>12, Steady DEF Keeps
      <2> QED  BY <1>7, <1>20, <2>1 DEF Cap
  <1>14. Placed(s)
      BY <1>1, <1>2, <1>12 DEF Placed, Keeps, Inside, Early
  <1>15. Results(s)
      BY <1>4, <1>9, <1>12, <1>13 DEF Results
  <1>16. Moves(s) /\ Good(s)
      BY <1>1, <1>11, <1>14, <1>15, StepMoves DEF Good
  <1>17. \A i \in DOMAIN queries : queries[i].pc = "done"
      BY <1>1 DEF Inv, Batched
  <1>18. Stores' /\ Good(r)' /\ Goroutines' /\ Batched'
      BY <1>1, <1>12, <1>16, <1>17, MoveKeeps
  <1>19. Merged'
      <2>1. r'.out = out /\ r'.limit = r.limit /\ workers' = workers /\ r.limit \in Nat
          BY <1>12, <1>16, Steady DEF Moves, Keeps
      <2>2. UNION {ToSet(workers[v].found) : v \in DOMAIN workers} = S
          BY <1>5
      <2>3. \A x : x \in ToSet(out) <=> \E i \in 1 .. Len(out) : out[i] = x
          BY <1>7, Members
      <2>4. ToSet(out) \subseteq S
          BY <1>4, <2>3
      <2>5. ASSUME NEW e \in S, e \notin ToSet(out)
            PROVE  Len(out) = r.limit /\ \A i \in 1 .. Len(out) : e.score <= out[i].score
          <3>1. PICK k \in 1 .. Len(r.out) : r.out[k] = e
              BY <1>6
          <3>2. ~(\E i \in 1 .. Len(out) : out[i] = r.out[k])
              BY <2>3, <2>5, <3>1
          <3> QED  BY <1>7, <3>1, <3>2
      <2>6. Len(out) < r.limit => S \subseteq ToSet(out)
          BY <1>20, <2>1, <2>5
      <2> QED  BY <1>20, <2>1, <2>2, <2>4, <2>5, <2>6 DEF Merged
  <1> QED  BY <1>18, <1>19 DEF Inv

-----------------------------------------------------------------------------
(* The goroutines of a batch.                                                 *)

QueryType == [pc : {"queued", "running", "done"}, vault : Vault]

Running == {i \in DOMAIN queries : queries[i].pc = "running"}

LEMMA BatchKeeps ==
  ASSUME Inv, NEW n \in 1 .. MaxBatch, NEW limit \in Limit, Batch(n, limit)
  PROVE  Inv'
  <1> DEFINE s == [Idle EXCEPT !.pc = "batch", !.limit = limit]
  <1>1. /\ kind = "batch" /\ r.pc = "idle" /\ r' = s /\ seen' = stored
        /\ entries' = [i \in 1 .. n |-> None]
        /\ UNCHANGED <<kind, stored, lexical, workers, slots>>
      BY DEF Batch
  <1>2. PICK v \in [1 .. n -> Vault] :
           queries' = [i \in 1 .. n |-> [pc |-> "queued", vault |-> v[i]]]
      BY DEF Batch
  <1>3. s \in RequestType
      <2>1. "batch" \in Phases
          BY DEF Phases
      <2> QED  BY <2>1, IdleIsTyped DEF RequestType
  <1>4. /\ s.pc = "batch" /\ s.lists = <<>> /\ s.out = <<>> /\ s.context = {}
        /\ s.stamped = 0 /\ s.mode = None
      BY DEF Idle
  <1> HIDE DEF s
  <1>5. Stores'
      BY <1>1, <1>4 DEF Inv, Stores
  <1>6. Placed(r)'
      BY <1>1, <1>4 DEF Placed, Inside, Early
  <1>7. Results(r)'
      BY <1>1, <1>4 DEF Results
  <1>8. Goroutines'
      BY <1>1, <1>4 DEF Inv, Goroutines
  <1>9. Merged'
      BY <1>1, <1>4 DEF Merged
  <1>10. Batched'
      <2>1. n \in Nat
          BY RecallAssumption DEF RecallAssumption
      <2>2. IsFiniteSet(1 .. n) /\ 1 .. n \subseteq Nat
          BY <2>1, CountUpTo
      <2>3. DOMAIN queries' = 1 .. n /\ DOMAIN entries' = 1 .. n
          BY <1>1, <1>2
      <2>4. \A i \in 1 .. n : queries'[i].pc = "queued" /\ queries'[i] \in QueryType
          BY <1>2 DEF QueryType
      <2>5. {i \in 1 .. n : queries'[i].pc = "running"} = {}
          BY <2>4
      <2>6. slots' = 0 /\ 0 \in 0 .. BatchSlots
          BY <1>1, NobodyRuns, RecallAssumption DEF RecallAssumption
      <2>7. r'.pc = "batch"
          BY <1>1, <1>4
      <2> QED  BY <2>2, <2>3, <2>4, <2>5, <2>6, <2>7, FS_EmptySet DEF Batched, QueryType
  <1> QED  BY <1>1, <1>3, <1>5, <1>6, <1>7, <1>8, <1>9, <1>10 DEF Inv, Good

LEMMA RunningFacts ==
  ASSUME Inv
  PROVE  /\ Running \subseteq DOMAIN queries /\ IsFiniteSet(Running)
         /\ slots = Cardinality(Running) /\ slots \in 0 .. BatchSlots
         /\ \A i \in DOMAIN queries : queries[i] \in QueryType
  <1>1. IsFiniteSet(DOMAIN queries) /\ Running \subseteq DOMAIN queries
      BY DEF Inv, Batched, Running
  <1>2. IsFiniteSet(Running)
      BY <1>1, FS_Subset
  <1> QED  BY <1>1, <1>2 DEF Inv, Batched, Running, QueryType

\* A goroutine of a batch touches nothing but its batch.
LEMMA QuerySteps ==
  ASSUME Inv, r.pc = "batch", UNCHANGED <<kind, stored, lexical, r, seen, workers>>, Batched'
  PROVE  Inv'
  BY DEF Inv, Stores, Good, Placed, Results, Goroutines, Merged, Sound, Client

LEMMA AcquireKeeps ==
  ASSUME Inv, NEW i \in DOMAIN queries, Acquire(i)
  PROVE  Inv'
  <1>1. /\ queries[i].pc = "queued" /\ slots < BatchSlots /\ slots' = slots + 1
        /\ queries' = [queries EXCEPT ![i].pc = "running"]
        /\ UNCHANGED <<kind, stored, lexical, r, seen, workers, entries>>
      BY DEF Acquire
  <1>2. r.pc = "batch" /\ queries[i] \in QueryType
      BY <1>1 DEF Inv, Batched, QueryType
  <1>3. /\ DOMAIN queries' = DOMAIN queries
        /\ queries'[i].pc = "running" /\ queries'[i] \in QueryType
        /\ \A j \in DOMAIN queries : j # i => queries'[j] = queries[j]
      BY <1>1, <1>2 DEF QueryType
  <1>4. Running' = Running \cup {i} /\ i \notin Running
      BY <1>1, <1>3 DEF Running
  <1>5. Cardinality(Running \cup {i}) = Cardinality(Running) + 1
      BY <1>4, RunningFacts, FS_AddElement
  <1>6. slots' = Cardinality(Running') /\ slots' \in 0 .. BatchSlots
      <2>1. slots \in 0 .. BatchSlots /\ slots = Cardinality(Running) /\ BatchSlots \in Nat
          BY RunningFacts, RecallAssumption DEF RecallAssumption
      <2>2. slots' = Cardinality(Running')
          BY <1>1, <1>4, <1>5, <2>1
      <2> QED  BY <1>1, <2>1, <2>2
  <1>7. Batched'
      <2>1. \A j \in DOMAIN queries :
               /\ queries'[j] \in QueryType
               /\ queries'[j].pc = "done" => entries[j] # None /\ entries[j].index = j
          BY <1>3 DEF Inv, Batched, QueryType
      <2>2. /\ IsFiniteSet(DOMAIN queries) /\ DOMAIN queries \subseteq Nat
            /\ DOMAIN entries = DOMAIN queries
          BY DEF Inv, Batched
      <2> QED  BY <1>1, <1>2, <1>3, <1>6, <2>1, <2>2 DEF Batched, QueryType, Running
  <1> QED  BY <1>1, <1>2, <1>7, QuerySteps

LEMMA LeaveKeeps ==
  ASSUME Inv, NEW i \in DOMAIN queries, NEW entry \in [index : {i}, results : Nat],
         Leave(i, entry)
  PROVE  Inv'
  <1>1. /\ queries[i].pc = "running" /\ slots' = slots - 1
        /\ queries' = [queries EXCEPT ![i].pc = "done"]
        /\ entries' = [entries EXCEPT ![i] = entry]
        /\ UNCHANGED <<kind, stored, lexical, r, seen, workers>>
      BY DEF Leave
  <1>2. r.pc = "batch" /\ queries[i] \in QueryType
      BY <1>1 DEF Inv, Batched, QueryType
  <1>3. /\ DOMAIN queries' = DOMAIN queries
        /\ queries'[i].pc = "done" /\ queries'[i] \in QueryType
        /\ \A j \in DOMAIN queries : j # i => queries'[j] = queries[j]
      BY <1>1, <1>2 DEF QueryType
  <1>4. Running' = Running \ {i} /\ i \in Running
      BY <1>1, <1>3 DEF Running
  <1>5. Cardinality(Running \ {i}) = Cardinality(Running) - 1
      BY <1>4, RunningFacts, FS_RemoveElement
  <1>6. slots' = Cardinality(Running') /\ slots' \in 0 .. BatchSlots
      <2>1. /\ slots \in 0 .. BatchSlots /\ slots = Cardinality(Running) /\ BatchSlots \in Nat
            /\ IsFiniteSet(Running)
          BY RunningFacts, RecallAssumption DEF RecallAssumption
      <2>2. slots' = Cardinality(Running')
          BY <1>1, <1>4, <1>5, <2>1
      <2>3. slots # 0
          BY <1>4, <2>1, FS_EmptySet
      <2> QED  BY <1>1, <2>1, <2>2, <2>3
  <1>7. entry # None /\ entry.index = i
      <2>1. i \in Nat
          BY DEF Inv, Batched
      <2>2. entry \in [index : Nat, results : Nat] /\ entry.index = i
          BY <2>1
      <2> QED  BY <2>2, RecallAssumption DEF RecallAssumption
  <1>8. Batched'
      <2>1. /\ IsFiniteSet(DOMAIN queries) /\ DOMAIN queries \subseteq Nat
            /\ DOMAIN entries = DOMAIN queries
          BY DEF Inv, Batched
      <2>2. DOMAIN entries' = DOMAIN queries /\ entries'[i] = entry
            /\ \A j \in DOMAIN queries : j # i => entries'[j] = entries[j]
          BY <1>1, <2>1
      <2>3. \A j \in DOMAIN queries :
               /\ queries'[j] \in QueryType
               /\ queries'[j].pc = "done" => entries'[j] # None /\ entries'[j].index = j
          BY <1>3, <1>7, <2>2 DEF Inv, Batched, QueryType
      <2> QED  BY <1>1, <1>2, <1>3, <1>6, <2>1, <2>2, <2>3 DEF Batched, QueryType, Running
  <1> QED  BY <1>1, <1>2, <1>8, QuerySteps
LEMMA QueryLeavesKeeps ==
  ASSUME Inv, NEW i \in DOMAIN queries, QueryAnswers(i) \/ QueryFails(i)
  PROVE  Inv'
  <1>1. CASE QueryFails(i)
      BY <1>1, LeaveKeeps DEF QueryFails
  <1>2. CASE QueryAnswers(i)
      <2> DEFINE found == Search(queries[i].vault, Original, Chunk, r.limit)
                 entry == [index |-> i, results |-> Len(found)]
      <2>1. queries[i].pc = "running" /\ Leave(i, entry)
          BY <1>2 DEF QueryAnswers, Leave
      <2>2. r.pc # "idle" /\ queries[i].vault \in Vault
          BY <2>1 DEF Inv, Batched
      <2>3. found \in Seq(Entries)
          BY <2>2, Steady, RecallAssumption, SearchIsSound DEF RecallAssumption
      <2> HIDE DEF found
      <2>4. entry \in [index : {i}, results : Nat]
          BY <2>3
      <2> HIDE DEF entry
      <2> QED  BY <2>1, <2>4, LeaveKeeps
  <1> QED  BY <1>1, <1>2

LEMMA BatchAnswersKeeps ==
  ASSUME Inv, BatchAnswers
  PROVE  Inv'
  <1> DEFINE s == [r EXCEPT !.pc = "done"]
  <1>1. /\ r.pc = "batch" /\ \A i \in DOMAIN queries : queries[i].pc = "done"
        /\ Step(s)
      BY DEF BatchAnswers
  <1>2. r \in RequestType /\ Placed(r) /\ Results(r) /\ kind = "batch" /\ r.out = <<>>
      BY <1>1, Steady DEF Placed
  <1>3. s \in RequestType
      <2>1. "done" \in Phases
          BY DEF Phases
      <2> QED  BY <1>2, <2>1 DEF RequestType
  <1>4. Keeps(s) /\ s.pc = "done" /\ s.out = <<>> /\ s.lists = r.lists
      BY <1>2 DEF RequestType, Keeps
  <1> HIDE DEF s
  <1>5. Placed(s)
      BY <1>1, <1>2, <1>4 DEF Placed, Keeps, Inside, Early
  <1>6. Results(s)
      <2>1. s.limit \in Nat /\ s.more \in Nat /\ 2 * s.limit + s.more >= 0
            /\ 1 * s.limit + s.more >= 0
          BY <1>1, <1>4, Steady, MostType DEF Keeps
      <2>2. Fair(<<>>) /\ Len(<<>>) = 0
          BY DEF Fair
      <2> QED  BY <1>4, <2>1, <2>2 DEF Results
  <1>7. Moves(s) /\ Good(s)
      BY <1>1, <1>3, <1>5, <1>6, StepMoves DEF Good
  <1>8. \A v \in DOMAIN workers : workers[v].pc = "done"
      BY <1>1 DEF Inv, Goroutines
  <1>9. Stores' /\ Good(r)' /\ Goroutines' /\ Batched'
      BY <1>1, <1>4, <1>7, <1>8, MoveKeeps
  <1>10. Merged'
      BY <1>4, <1>7 DEF Merged, Moves
  <1> QED  BY <1>9, <1>10 DEF Inv

-----------------------------------------------------------------------------
(* Chunks come and go.                                                        *)

\* What was stored at some time stays so for the request.
LEMMA StoreSteps ==
  ASSUME Inv, Stores', seen \subseteq seen',
         UNCHANGED <<kind, r, workers, queries, slots, entries>>
  PROVE  Inv'
  <1>1. \A e : Sound(e) => e.id \in seen' /\ Home[e.id] = Client(e.vault)
      BY DEF Sound
  <1>5. \A id : MayRepeat(id)' <=> MayRepeat(id)
      BY DEF MayRepeat, SearchedTwice
  <1>2. Good(r)'
      <2>1. r' \in RequestType /\ Placed(r)'
          BY DEF Inv, Good, Placed
      <2>2. Results(r)'
          BY <1>1, <1>5 DEF Inv, Good, Results, Sound, Once, Fair
      <2> QED  BY <2>1, <2>2 DEF Good
  <1>3. Goroutines'
      BY <1>1 DEF Inv, Goroutines, Sound, Once
  <1>4. Merged' /\ Batched'
      BY DEF Inv, Merged, Batched
  <1> QED  BY <1>2, <1>3, <1>4 DEF Inv

LEMMA StoresKeep ==
  ASSUME Inv,
         (\E c \in Moving : Insert(c) \/ Delete(c)) \/ (\E v \in Vault : Invalidate(v))
  PROVE  Inv'
  <1>1. Stores
      BY DEF Inv
  <1>2. ASSUME NEW c \in Moving, Insert(c)
        PROVE  Inv'
      <2>1. c \in Chunk
          BY RecallAssumption DEF RecallAssumption
      <2>2. Stores' /\ seen \subseteq seen'
          BY <1>1, <1>2, <2>1 DEF Insert, Stores
      <2> QED  BY <1>2, <2>2, StoreSteps DEF Insert
  <1>3. ASSUME NEW c \in Moving, Delete(c)
        PROVE  Inv'
      <2>1. Stores' /\ seen \subseteq seen'
          BY <1>1, <1>3 DEF Delete, Stores
      <2> QED  BY <1>3, <2>1, StoreSteps DEF Delete
  <1>4. ASSUME NEW v \in Vault, Invalidate(v)
        PROVE  Inv'
      <2>1. Stores' /\ seen \subseteq seen'
          BY <1>1, <1>4 DEF Invalidate, Stores
      <2> QED  BY <1>4, <2>1, StoreSteps DEF Invalidate
  <1> QED  BY <1>2, <1>3, <1>4

-----------------------------------------------------------------------------
(* The theorems.                                                              *)

LEMMA InitInv == Init => Inv
  <1> SUFFICES ASSUME Init PROVE Inv
      OBVIOUS
  <1>1. /\ r = Idle /\ stored = Chunk \ Moving /\ seen = {} /\ workers = <<>>
        /\ queries = <<>> /\ slots = 0 /\ entries = <<>> /\ kind \in Kinds
        /\ lexical = [v \in Vault |-> {}]
      BY DEF Init
  <1>2. Stores
      BY <1>1, IdleFacts DEF Stores
  <1>3. Good(r)
      BY <1>1, IdleFacts, IdleIsTyped DEF Good, Placed, Inside, Results
  <1>4. DOMAIN <<>> = {}
      OBVIOUS
  <1>5. Goroutines
      BY <1>1, <1>4, IdleFacts DEF Goroutines
  <1>6. Merged
      BY <1>1, IdleFacts DEF Merged
  <1>7. Batched
      <2>1. 0 \in 0 .. BatchSlots
          BY RecallAssumption DEF RecallAssumption
      <2>2. {i \in DOMAIN queries : queries[i].pc = "running"} = {}
          BY <1>1, <1>4
      <2> QED  BY <1>1, <1>4, <2>1, <2>2, FS_EmptySet DEF Batched
  <1> QED  BY <1>2, <1>3, <1>5, <1>6, <1>7 DEF Inv

LEMMA NextInv == Inv /\ [Next]_vars => Inv'
  <1> SUFFICES ASSUME Inv, [Next]_vars PROVE Inv'
      OBVIOUS
  <1>1. CASE UNCHANGED vars
      <2>1. Stores' /\ seen \subseteq seen'
          BY <1>1 DEF vars, Inv, Stores
      <2> QED  BY <1>1, <2>1, StoreSteps DEF vars
  <1>2. CASE doRecall
      <2>1. CASE RewriteQuery
          BY <2>1, RewriteKeeps
      <2>2. CASE EmbeddingFails \/ SearchFails \/ FetchFails
          <3>1. r.pc \in Inside /\ Fail
              BY <2>2 DEF EmbeddingFails, SearchFails, FetchFails, Inside
          <3> QED  BY <3>1, FailKeeps
      <2>3. CASE denseRecall
          BY <2>3, DenseKeeps
      <2>4. CASE FanSearch
          BY <2>4, FanSearchKeeps
      <2>5. CASE FanFuse
          BY <2>5, FanFuseKeeps
      <2>6. CASE HybridSearch
          BY <2>6, HybridSearchKeeps
      <2>7. CASE SparseSearch
          BY <2>7, SparseSearchKeeps
      <2>8. CASE UseCached \/ Build \/ NoIndex
          BY <2>8, IndexKeeps
      <2>9. CASE Cache
          BY <2>9, CacheKeeps
      <2>10. CASE SparseRank
          BY <2>10, SparseKeeps
      <2>11. CASE HybridFuse
          BY <2>11, HybridFuseKeeps
      <2>12. CASE recallByIDs
          BY <2>12, ByIDsKeeps
      <2>13. CASE RerankResults \/ KeepOrder
          BY <2>13, RerankKeeps
      <2> QED  BY <1>2, <2>1, <2>2, <2>3, <2>4, <2>5, <2>6, <2>7, <2>8, <2>9, <2>10,
                  <2>11, <2>12, <2>13 DEF doRecall
  <1>3. CASE RecallAnswers \/ Expand \/ HybridAnswers \/ RecallFails \/ Done
      BY <1>3, AnswersKeeps, ExpandKeeps, HybridAnswersKeeps, FinishKeeps
  <1>4. CASE UseChunks \/ FindFiles \/ LoadFile \/ Loaded \/ Synthesize \/ Explain
      BY <1>4, UseChunksKeeps, FindFilesKeeps, LoadFileKeeps, AnswerKeeps, ExplainKeeps
  <1>5. CASE \E v \in DOMAIN workers : SearchVault(v) \/ VaultFails(v) \/ AppendVault(v)
      BY <1>5, SearchVaultKeeps, AppendKeeps
  <1>6. CASE Merge
      BY <1>6, MergeKeeps
  <1>7. CASE \E i \in DOMAIN queries : Acquire(i) \/ QueryAnswers(i) \/ QueryFails(i)
      BY <1>7, AcquireKeeps, QueryLeavesKeeps
  <1>8. CASE BatchAnswers
      BY <1>8, BatchAnswersKeeps
  <1>9. CASE Progress
      BY <1>2, <1>3, <1>4, <1>5, <1>6, <1>7, <1>8, <1>9 DEF Progress
  <1>10. CASE \/ \E c \in Moving : Insert(c) \/ Delete(c)
              \/ \E v \in Vault : Invalidate(v)
      BY <1>10, StoresKeep
  <1>11. CASE \/ \E q \in Requests : Begin(q)
              \/ AskCited
      BY <1>11, BeginKeeps, AskCitedKeeps
  <1>12. CASE \E names \in NameLists, n \in Limit, f \in Filters : CrossVault(names, n, f)
      BY <1>12, CrossVaultKeeps
  <1>13. CASE \E n \in 1 .. MaxBatch, limit \in Limit : Batch(n, limit)
      BY <1>13, BatchKeeps
  <1> QED  BY <1>1, <1>9, <1>10, <1>11, <1>12, <1>13 DEF Next

LEMMA Inductive == Spec => []Inv
  BY InitInv, NextInv, PTL DEF Spec
LEMMA InvTyped == Inv => TypeOK
  <1> SUFFICES ASSUME Inv PROVE TypeOK
      OBVIOUS
  <1>1. r \in RequestType
      BY Steady
  <1>2. /\ kind \in Kinds /\ stored \subseteq Chunk /\ seen \subseteq Chunk
        /\ lexical \in [Vault -> SUBSET Chunk]
      BY DEF Inv, Stores
  <1>3. \A v \in DOMAIN workers : workers[v] \in GoroutineType
      BY DEF Inv, Goroutines
  <1>4. /\ IsFiniteSet(DOMAIN queries)
        /\ \A i \in DOMAIN queries :
              queries[i] \in [pc : {"queued", "running", "done"}, vault : Vault]
        /\ slots \in 0 .. BatchSlots
        /\ slots = Cardinality({i \in DOMAIN queries : queries[i].pc = "running"})
      BY DEF Inv, Batched
  <1> QED  BY <1>1, <1>2, <1>3, <1>4 DEF TypeOK, RequestType, GoroutineType

\* Every variable keeps its type, and of a batch exactly the queries that run hold
\* slots of the semaphore, never more than it has (handleBatchRecall).
THEOREM RecallTypes == Spec => []TypeOK
  BY Inductive, InvTyped, PTL

LEMMA InvSound == Inv => AnswersAreSound
  <1> SUFFICES ASSUME Inv PROVE AnswersAreSound
      OBVIOUS
  <1>1. r \in RequestType /\ Placed(r) /\ Results(r)
      BY Steady
  <1>2. ResultsExist
      <2> SUFFICES ASSUME r.pc = "done" PROVE ResultsExist
          BY DEF ResultsExist
      <2>1. r.out \in Seq(Entries)
          BY <1>1 DEF RequestType
      <2>2. /\ \A i, j \in DOMAIN r.out :
                  i # j /\ r.out[i].id = r.out[j].id => MayRepeat(r.out[i].id)
            /\ kind # "cited" => Len(r.out) <= Most
            /\ \A i \in 1 .. Len(r.out) : r.out[i].id \in Chunk => Sound(r.out[i])
          <3>1. Fair(r.out) /\ DOMAIN r.out = 1 .. Len(r.out)
              BY <1>1, <2>1 DEF Results
          <3> QED  BY <1>1, <3>1 DEF Results, Most, Fair
      <2>3. \A e \in ToSet(r.out) : \E i \in 1 .. Len(r.out) : r.out[i] = e
          BY <2>1, Members
      <2>4. \A e \in ToSet(r.out) :
              e.id \in Chunk => e.id \in seen /\ Home[e.id] = Client(e.vault)
          BY <2>2, <2>3 DEF Sound
      <2> QED  BY <2>2, <2>4 DEF ResultsExist
  <1>3. SourcesCoverContext
      BY <1>1 DEF Placed, SourcesCoverContext
  <1> QED  BY <1>2, <1>3 DEF AnswersAreSound

\* For any chunks, vaults, rankings, filters and answers of the models, however
\* chunks come and go and whatever fails: no response names a result twice, unless
\* two goroutines searched its vault or it is a fact asked for by name and near the
\* query; none exceeds its limits, or shows a chunk that was gone before the request
\* began or lives in another vault, although the lexical index may be of any age and
\* of the default vault (recallByIDs looks every point up); and what an answer was
\* given as context is named in its sources (queryContext).
THEOREM RecallIsSound == Spec => []AnswersAreSound
  BY Inductive, InvSound, PTL

LEMMA InvCounts == Inv => EveryGoroutineCounts
  <1> SUFFICES ASSUME Inv PROVE EveryGoroutineCounts
      OBVIOUS
  <1>1. kind = "batch" /\ r.pc = "done" =>
          \A i \in DOMAIN entries : entries[i] # None /\ entries[i].index = i
      BY DEF Inv, Batched
  <1> QED  BY <1>1 DEF Inv, Merged, EveryGoroutineCounts

\* For any number of vaults and queries: a response over several vaults is the
\* best top_k of everything found by the goroutines that did not fail, and every
\* query of a batch has its own entry, in whatever order the goroutines end
\* (handleRecall, handleBatchRecall).
THEOREM GoroutinesCount == Spec => []EveryGoroutineCounts
  BY Inductive, InvCounts, PTL
-----------------------------------------------------------------------------
(* Rankings are kept.                                                         *)

LEMMA QuotientsFall ==
  ASSUME NEW u \in Nat, NEW a \in Nat, NEW b \in Nat, 0 < a, a <= b
  PROVE  /\ u \div b <= u \div a
         /\ a < b /\ b * b <= u => u \div b < u \div a
  <1> DEFINE p == u \div a
             q == u \div b
  <1>1. /\ p \in Nat /\ q \in Nat
        /\ a * p <= u /\ u < a * (p + 1)
        /\ b * q <= u /\ u < b * (q + 1)
      <2>1. \A d \in Nat : 0 < d =>
               u \div d \in Nat /\ d * (u \div d) <= u /\ u < d * (u \div d + 1)
          OBVIOUS
      <2>2. 0 < b
          OBVIOUS
      <2> QED  BY <2>1, <2>2
  <1> HIDE DEF p, q
  <1>2. q <= p
      <2> SUFFICES ASSUME p < q PROVE FALSE
          BY <1>1
      <2>1. p + 1 <= q
          BY <1>1
      <2>2. a * (p + 1) <= a * q
          BY <1>1, <2>1
      <2>3. a * q <= b * q
          BY <1>1
      <2> QED  BY <1>1, <2>2, <2>3
  <1>3. ASSUME a < b, b * b <= u
        PROVE  q < p
      <2>1. b <= q
          <3> SUFFICES ASSUME q < b PROVE FALSE
              BY <1>1
          <3>1. q + 1 <= b
              BY <1>1
          <3>2. b * (q + 1) <= b * b
              BY <1>1, <3>1
          <3> QED  BY <1>1, <1>3, <3>2
      <2>2. a + 1 <= b
          BY <1>3
      <2>3. (a + 1) * q <= b * q
          BY <1>1, <2>2
      <2>4. a * (q + 1) <= u
          <3>1. a * (q + 1) = a * q + a /\ (a + 1) * q = a * q + q
              BY <1>1
          <3>2. a <= q
              BY <1>1, <2>1, <2>2
          <3>3. a * q \in Nat /\ b * q \in Nat
              BY <1>1
          <3> QED  BY <1>1, <2>3, <3>1, <3>2, <3>3
      <2> SUFFICES ASSUME p <= q PROVE FALSE
          BY <1>1
      <2>5. p + 1 <= q + 1
          BY <1>1
      <2>6. a * (p + 1) <= a * (q + 1)
          BY <1>1, <2>5
      <2> QED  BY <1>1, <2>4, <2>6
  <1> QED  BY <1>2, <1>3 DEF p, q
\* Where a ranking puts b no later than a, b's share is no smaller.
LEMMA SharesFall ==
  ASSUME NEW list \in Seq(Chunk), NEW a, NEW b,
         \A n \in 1 .. Len(list) : (K + n) * (K + n) <= Unit,
         Place(list, b) <= Place(list, a)
  PROVE  /\ Share(list, a) <= Share(list, b)
         /\ Place(list, b) < Place(list, a) => Share(list, a) < Share(list, b)
  <1> DEFINE at(c) == CHOOSE i \in DOMAIN list : list[i] = c
             pa == at(a)
             pb == at(b)
  <1>1. DOMAIN list = 1 .. Len(list) /\ Len(list) \in Nat
      OBVIOUS
  <1>2. a \in ToSet(list) => pa \in 1 .. Len(list)
      <2>1. a \in ToSet(list) => \E i \in DOMAIN list : list[i] = a
          BY <1>1, Members
      <2> QED  BY <1>1, <2>1
  <1>3. b \in ToSet(list) => pb \in 1 .. Len(list)
      <2>1. b \in ToSet(list) => \E i \in DOMAIN list : list[i] = b
          BY <1>1, Members
      <2> QED  BY <1>1, <2>1
  <1>4. /\ a \in ToSet(list) => Place(list, a) = pa /\ Share(list, a) = Unit \div (K + pa)
        /\ b \in ToSet(list) => Place(list, b) = pb /\ Share(list, b) = Unit \div (K + pb)
        /\ a \notin ToSet(list) => Place(list, a) = Len(list) + 1 /\ Share(list, a) = 0
        /\ b \notin ToSet(list) => Place(list, b) = Len(list) + 1 /\ Share(list, b) = 0
      BY DEF Place, Share
  <1> HIDE DEF pa, pb
  <1>5. K \in Nat /\ Unit \in Nat /\ 0 < K
      BY DEF K, Unit
  <1>6. Share(list, a) \in Nat /\ Share(list, b) \in Nat
      BY ShareType
  <1>7. CASE a \in ToSet(list)
      <2>1. b \in ToSet(list)
          BY <1>1, <1>2, <1>4, <1>7
      <2>2. pa \in Nat /\ pb \in Nat /\ pb <= pa /\ pa \in 1 .. Len(list)
          BY <1>2, <1>3, <1>4, <1>7, <2>1
      <2>3. K + pb \in Nat /\ K + pa \in Nat /\ 0 < K + pb /\ K + pb <= K + pa
          BY <1>5, <2>2
      <2>4. (K + pa) * (K + pa) <= Unit
          BY <2>2
      <2>5. /\ Unit \div (K + pa) <= Unit \div (K + pb)
            /\ K + pb < K + pa => Unit \div (K + pa) < Unit \div (K + pb)
          BY <1>5, <2>3, <2>4, QuotientsFall
      <2>6. pb < pa => K + pb < K + pa
          BY <1>5, <2>2
      <2> QED  BY <1>4, <1>7, <2>1, <2>5, <2>6
  <1>8. CASE a \notin ToSet(list)
      <2>1. CASE b \notin ToSet(list)
          BY <1>1, <1>4, <1>8, <2>1
      <2>2. CASE b \in ToSet(list)
          <3>1. pb \in 1 .. Len(list) /\ (K + pb) * (K + pb) <= Unit
              BY <1>3, <2>2
          <3> DEFINE d == K + pb
          <3>2. d \in Nat /\ 0 < d /\ d * d <= Unit
              BY <1>5, <3>1
          <3> HIDE DEF d
          <3>3. d <= Unit
              BY <1>5, <3>2
          <3>4. 0 < Unit \div d
              BY <1>5, <3>2, <3>3
          <3> QED  BY <1>4, <1>6, <1>8, <2>2, <3>4 DEF d
      <2> QED  BY <2>1, <2>2
  <1> QED  BY <1>7, <1>8

\* No ranking of lists puts b before a, and one puts a before b.
AheadIn(lists, a, b) ==
    /\ \A i \in DOMAIN lists : Place(lists[i], a) <= Place(lists[i], b)
    /\ \E i \in DOMAIN lists : Place(lists[i], a) < Place(lists[i], b)

\* A list that keeps to the rankings it was fused from.
Agrees(out, lists) ==
    \A i, j \in 1 .. Len(out) : i < j => ~AheadIn(lists, out[j].id, out[i].id)

\* No ranking is too long for the unit of scores.
Resolved(lists) ==
    \A i \in 1 .. Len(lists) : \A k \in 1 .. Len(lists[i]) : (K + k) * (K + k) <= Unit

LEMMA FuseAgrees ==
  ASSUME RecallAssumption, NEW lists \in Seq(Seq(Chunk)), NEW v \in Vault, NEW n \in Nat,
         Resolved(lists)
  PROVE  Agrees(FirstOf(Fuse(lists, v), n), lists)
  <1> DEFINE out == FirstOf(Fuse(lists, v), n)
  <1>0. Fused(out, lists)
      BY FuseRanks
  <1> HIDE DEF out
  <1>1. /\ \A i \in 1 .. Len(out) : out[i].score = Total(lists, out[i].id)
        /\ \A i, j \in 1 .. Len(out) : i < j => out[i].score >= out[j].score
      BY <1>0 DEF Fused
  <1>2. DOMAIN lists = 1 .. Len(lists) /\ Len(lists) \in Nat
        /\ \A i \in DOMAIN lists : lists[i] \in Seq(Chunk)
      OBVIOUS
  <1>3. IsFiniteSet(DOMAIN lists)
      BY <1>2, CountUpTo
  <1>4. ASSUME NEW a, NEW b, AheadIn(lists, b, a)
        PROVE  Total(lists, a) < Total(lists, b) /\ Total(lists, a) \in Int /\ Total(lists, b) \in Int
      <2> DEFINE f == [i \in DOMAIN lists |-> Share(lists[i], a)]
                 g == [i \in DOMAIN lists |-> Share(lists[i], b)]
      <2>1. f \in [DOMAIN lists -> Int] /\ g \in [DOMAIN lists -> Int]
          BY <1>2, ShareType
      <2>2. \A i \in DOMAIN lists :
               /\ Share(lists[i], a) <= Share(lists[i], b)
               /\ Place(lists[i], b) < Place(lists[i], a) =>
                     Share(lists[i], a) < Share(lists[i], b)
          <3> TAKE i \in DOMAIN lists
          <3>1. Place(lists[i], b) <= Place(lists[i], a)
              BY <1>4 DEF AheadIn
          <3>2. \A k \in 1 .. Len(lists[i]) : (K + k) * (K + k) <= Unit
              BY <1>2 DEF Resolved
          <3>3. lists[i] \in Seq(Chunk)
              BY <1>2
          <3> QED  BY <3>1, <3>2, <3>3, SharesFall
      <2>3. \E i \in DOMAIN lists : Place(lists[i], b) < Place(lists[i], a)
          BY <1>4 DEF AheadIn
      <2>4. (\A i \in DOMAIN lists : f[i] <= g[i]) /\ (\E i \in DOMAIN lists : f[i] < g[i])
          BY <2>2, <2>3
      <2>5. Total(lists, a) = SumFunction(f) /\ Total(lists, b) = SumFunction(g)
          BY DEF Total
      <2> HIDE DEF f, g
      <2>6. SumFunction(f) < SumFunction(g)
          BY <1>3, <2>1, <2>4, SumMonotone
      <2>7. SumFunction(f) \in Int /\ SumFunction(g) \in Int
          BY <1>3, <2>1, SumType
      <2> QED  BY <2>5, <2>6, <2>7
  <1>5. ASSUME NEW i \in 1 .. Len(out), NEW j \in 1 .. Len(out), i < j,
               AheadIn(lists, out[j].id, out[i].id)
        PROVE  FALSE
      <2>1. out[i].score >= out[j].score
          BY <1>1, <1>5
      <2>2. Total(lists, out[i].id) < Total(lists, out[j].id)
            /\ Total(lists, out[i].id) \in Int /\ Total(lists, out[j].id) \in Int
          BY <1>4, <1>5
      <2> QED  BY <1>1, <2>1, <2>2
  <1>6. Agrees(out, lists)
      BY <1>5 DEF Agrees
  <1> QED  BY <1>6 DEF out

\* A single ranking agrees with itself.
LEMMA AloneAgrees ==
  ASSUME NEW out \in Seq(Entries), Ids(out) \in Seq(Chunk), IsInjective(Ids(out))
  PROVE  Agrees(out, <<Ids(out)>>)
  <1> DEFINE ids == Ids(out)
  <1>1. DOMAIN out = 1 .. Len(out) /\ DOMAIN ids = 1 .. Len(out) /\ Len(out) \in Nat
        /\ \A i \in 1 .. Len(out) : ids[i] = out[i].id
      BY DEF Ids
  <1> HIDE DEF ids
  <1>2. ids \in Seq(Chunk) /\ Len(ids) = Len(out)
      <2>1. ids \in Seq(Chunk)
          BY DEF ids
      <2> QED  BY <1>1, <2>1
  <1>3. ASSUME NEW i \in 1 .. Len(out)
        PROVE  Place(ids, out[i].id) = i
      <2>1. ids[i] \in ToSet(ids)
          BY <1>2, Members
      <2>2. \A k \in DOMAIN ids : ids[k] = ids[i] => k = i
          BY <1>1 DEF ids, IsInjective
      <2>3. (CHOOSE k \in DOMAIN ids : ids[k] = ids[i]) = i
          BY <1>1, <2>2
      <2> QED  BY <1>1, <2>1, <2>3 DEF Place
  <1>4. \A i, j \in 1 .. Len(out) : i < j => ~AheadIn(<<ids>>, out[j].id, out[i].id)
      <2>1. <<ids>>[1] = ids /\ 1 \in DOMAIN <<ids>>
          OBVIOUS
      <2>2. ASSUME NEW i \in 1 .. Len(out), NEW j \in 1 .. Len(out), i < j,
                   AheadIn(<<ids>>, out[j].id, out[i].id)
            PROVE  FALSE
          <3>1. Place(ids, out[j].id) <= Place(ids, out[i].id)
              BY <2>1, <2>2 DEF AheadIn
          <3> QED  BY <1>3, <2>2, <3>1
      <2> QED  BY <2>2
  <1> QED  BY <1>4 DEF Agrees, ids
LEMMA ListsAreResolved ==
  ASSUME NEW limit \in Limit \cup {0}, NEW lists \in Seq(Seq(Chunk)),
         \A i \in 1 .. Len(lists) : Len(lists[i]) <= 2 * limit
  PROVE  Resolved(lists)
  <1>1. limit \in Nat /\ (K + 2 * limit) * (K + 2 * limit) <= Unit
      <2>1. CASE limit = 0
          BY <2>1 DEF K, Unit
      <2>2. CASE limit \in Limit
          BY <2>2, RecallAssumption, UnitAssumption DEF RecallAssumption
      <2> QED  BY <2>1, <2>2
  <1>2. ASSUME NEW i \in 1 .. Len(lists), NEW k \in 1 .. Len(lists[i])
        PROVE  (K + k) * (K + k) <= Unit
      <2> DEFINE a == K + k
                 b == K + 2 * limit
      <2>1. lists[i] \in Seq(Chunk) /\ Len(lists[i]) \in Nat
          OBVIOUS
      <2>2. k \in Nat /\ k <= 2 * limit
          BY <1>1, <2>1
      <2>3. a \in Nat /\ b \in Nat /\ a <= b /\ b * b <= Unit
          BY <1>1, <2>2 DEF K
      <2> HIDE DEF a, b
      <2>4. a * a <= b * b
          <3>1. a * a <= a * b
              BY <2>3
          <3>2. a * b <= b * b
              BY <2>3
          <3>3. a * a \in Int /\ a * b \in Int /\ b * b \in Int
              BY <2>3
          <3> QED  BY <3>1, <3>2, <3>3
      <2>5. a * a \in Int /\ b * b \in Int /\ Unit \in Int
          BY <2>3 DEF Unit
      <2>6. a * a <= Unit
          BY <2>3, <2>4, <2>5
      <2> QED  BY <2>6 DEF a
  <1> QED  BY <1>2 DEF Resolved

\* What is about to be looked up keeps to the rankings it comes from.
Agreed == r.pc = "fetch" => Agrees(r.out, r.lists)

LEMMA FetchAgrees ==
  ASSUME Inv, FanFuse \/ SparseRank \/ HybridFuse
  PROVE  Agreed'
  <1>1. /\ r \in RequestType /\ Placed(r) /\ r.pc \in {"fan", "fuse"}
        /\ r.limit \in Nat /\ r.limit \in Limit \cup {0}
      BY Steady DEF FanFuse, SparseRank, HybridFuse, RequestType
  <1>2. /\ r.lists \in Seq(Seq(Chunk)) /\ r.vault \in Vault
        /\ \A i \in 1 .. Len(r.lists) : Len(r.lists[i]) <= 2 * r.limit
      BY <1>1 DEF RequestType, Placed, Inside
  <1>3. CASE FanFuse
      <2> DEFINE out == FirstOf(Fuse(r.lists, r.vault), r.limit)
                 s == [r EXCEPT !.pc = "fetch", !.out = out]
      <2>1. Step(Ranked(<<>>, 0)) \/ Step(s)
          BY <1>3 DEF FanFuse
      <2>2. Agrees(out, r.lists)
          BY <1>1, <1>2, RecallAssumption, ListsAreResolved, FuseAgrees
      <2> HIDE DEF out
      <2>3. s.out = out /\ s.lists = r.lists /\ Ranked(<<>>, 0).pc = "rank"
          BY <1>1 DEF RequestType, Ranked
      <2> QED  BY <2>1, <2>2, <2>3 DEF Agreed, Step
  <1>4. CASE HybridFuse
      <2> DEFINE ids == Ids(LexicalSearch(r.index, r.vault, 2 * r.limit))
                 lists == Append(r.lists, ids)
                 out == FirstOf(Fuse(lists, r.vault), r.limit)
                 s == [r EXCEPT !.pc = "fetch", !.index = {}, !.lists = lists, !.out = out]
      <2>1. r.pc = "fuse" /\ (Step(Ranked(<<>>, 0)) \/ Step(s))
          BY <1>4 DEF HybridFuse
      <2>2. ids \in Seq(Chunk) /\ Len(ids) <= 2 * r.limit
          BY <2>1, LexicalFacts
      <2> HIDE DEF ids
      <2>3. /\ lists \in Seq(Seq(Chunk))
            /\ \A i \in 1 .. Len(lists) : Len(lists[i]) <= 2 * r.limit
          BY <1>2, <2>2
      <2> HIDE DEF lists
      <2>4. Agrees(out, lists)
          BY <1>1, <1>2, <2>3, RecallAssumption, ListsAreResolved, FuseAgrees
      <2> HIDE DEF out
      <2>5. s.out = out /\ s.lists = lists /\ Ranked(<<>>, 0).pc = "rank"
          BY <1>1 DEF RequestType, Ranked
      <2> QED  BY <2>1, <2>4, <2>5 DEF Agreed, Step
  <1>5. CASE SparseRank
      <2> DEFINE found == LexicalSearch(r.index, r.vault, 2 * r.limit)
                 s == [r EXCEPT !.pc = "fetch", !.index = {}, !.out = found,
                                !.lists = <<Ids(found)>>]
      <2>1. r.pc = "fuse" /\ (Fail \/ Step(Ranked(<<>>, 0)) \/ Step(s))
          BY <1>5 DEF SparseRank
      <2>2. found \in Seq(Entries) /\ Ids(found) \in Seq(Chunk) /\ IsInjective(Ids(found))
          BY <2>1, LexicalFacts
      <2> HIDE DEF found
      <2>3. Agrees(found, <<Ids(found)>>)
          BY <2>2, AloneAgrees
      <2>4. /\ s.out = found /\ s.lists = <<Ids(found)>>
            /\ Ranked(<<>>, 0).pc = "rank"
            /\ [r EXCEPT !.pc = "failed", !.asks = <<>>, !.lists = <<>>, !.index = {}].pc = "failed"
          BY <1>1 DEF RequestType, Ranked
      <2> QED  BY <2>1, <2>3, <2>4 DEF Agreed, Step, Fail
  <1> QED  BY <1>3, <1>4, <1>5
\* Only these steps leave the look-up or the re-ranking ...
LEMMA StepsFrom ==
  ASSUME Inv, [Next]_vars, r.pc \in {"fetch", "rank"}, r' # r
  PROVE  \/ r.pc = "fetch" /\ (recallByIDs \/ FetchFails)
         \/ r.pc = "rank" /\ (RerankResults \/ KeepOrder)
  <1>1. Next
      BY DEF vars
  <1>2. CASE doRecall
      BY <1>2 DEF doRecall, RewriteQuery, EmbeddingFails, denseRecall, FanSearch, FanFuse,
            HybridSearch, SparseSearch, SearchFails, UseCached, Build, NoIndex, Cache,
            SparseRank, HybridFuse, recallByIDs, FetchFails, RerankResults, KeepOrder
  <1>3. ~(RecallAnswers \/ Expand \/ HybridAnswers \/ RecallFails \/ Done)
      BY DEF RecallAnswers, Expand, HybridAnswers, RecallFails, Done
  <1>4. ~(UseChunks \/ FindFiles \/ LoadFile \/ Loaded \/ Synthesize \/ Explain)
      BY DEF UseChunks, FindFiles, LoadFile, Loaded, Synthesize, Explain
  <1>5. ASSUME NEW v \in DOMAIN workers, SearchVault(v) \/ VaultFails(v) \/ AppendVault(v)
        PROVE  FALSE
      <2>1. workers[v].pc # "done"
          BY <1>5 DEF SearchVault, VaultFails, AppendVault
      <2> QED  BY <2>1, GoroutineFacts
  <1>6. ASSUME NEW i \in DOMAIN queries, Acquire(i) \/ QueryAnswers(i) \/ QueryFails(i)
        PROVE  FALSE
      BY <1>6 DEF Acquire, QueryAnswers, QueryFails, Leave
  <1>7. ~(Merge \/ BatchAnswers)
      BY DEF Merge, BatchAnswers
  <1>8. ASSUME NEW c \in Moving, Insert(c) \/ Delete(c)
        PROVE  FALSE
      BY <1>8 DEF Insert, Delete
  <1>9. ASSUME NEW v \in Vault, Invalidate(v)
        PROVE  FALSE
      BY <1>9 DEF Invalidate
  <1>10. ASSUME NEW q \in Requests, Begin(q)
         PROVE  FALSE
      BY <1>10 DEF Begin
  <1>11. ~AskCited
      BY DEF AskCited
  <1>12. ASSUME NEW names, NEW n, NEW f, CrossVault(names, n, f)
         PROVE  FALSE
      BY <1>12 DEF CrossVault
  <1>13. ASSUME NEW n, NEW limit, Batch(n, limit)
         PROVE  FALSE
      BY <1>13 DEF Batch
  <1>14. CASE Progress
      BY <1>2, <1>3, <1>4, <1>5, <1>6, <1>7, <1>14 DEF Progress
  <1> QED  BY <1>1, <1>8, <1>9, <1>10, <1>11, <1>12, <1>13, <1>14 DEF Next

\* ... and only these lead to the look-up.
LEMMA StepsTo ==
  ASSUME Inv, [Next]_vars, r'.pc = "fetch", r' # r
  PROVE  FanFuse \/ SparseRank \/ HybridFuse
  <1>1. Next /\ r \in RequestType
      BY Steady DEF vars
  <1>2. \A s : Step(s) => s.pc = "fetch"
      BY DEF Step
  <1>3. ~Fail
      BY <1>1 DEF Fail, Step, RequestType
  <1>4. \A out, top : ~Step(Ranked(out, top))
      <2>1. \A out, top : Ranked(out, top).pc = "rank"
          BY <1>1 DEF Ranked, RequestType
      <2> QED  BY <1>2, <2>1
  <1>5. \A out : ~Respond(out)
      <2> SUFFICES ASSUME NEW out, Respond(out) PROVE FALSE
          OBVIOUS
      <2> DEFINE s == [r EXCEPT !.pc = IF kind \in {"rag", "auto"} THEN "context" ELSE "use",
                                !.out = out, !.lists = <<>>]
      <2>1. Step(s)
          BY DEF Respond
      <2>2. s.pc \in {"context", "use"}
          BY <1>1 DEF RequestType
      <2> HIDE DEF s
      <2> QED  BY <1>2, <2>1, <2>2
  <1>6. ~End
      BY IdleFacts DEF End
  <1>7. CASE doRecall
      <2>1. ~RewriteQuery
          <3> SUFFICES ASSUME RewriteQuery PROVE FALSE
              OBVIOUS
          <3>1. PICK asks \in Rewrite(r.rewrite) :
                   \/ Step([r EXCEPT !.pc = "fan", !.rewrite = "off", !.asks = asks])
                   \/ Step([r EXCEPT !.pc = "search", !.rewrite = "off", !.asks = <<asks[1]>>])
              BY DEF RewriteQuery
          <3>2. /\ [r EXCEPT !.pc = "fan", !.rewrite = "off", !.asks = asks].pc = "fan"
                /\ [r EXCEPT !.pc = "search", !.rewrite = "off", !.asks = <<asks[1]>>].pc = "search"
              BY <1>1 DEF RequestType
          <3> QED  BY <1>2, <3>1, <3>2
      <2>2. ~(EmbeddingFails \/ SearchFails \/ FetchFails)
          BY <1>3 DEF EmbeddingFails, SearchFails, FetchFails
      <2>3. ~denseRecall /\ ~recallByIDs
          BY <1>4 DEF denseRecall, recallByIDs
      <2>4. ~FanSearch
          BY <1>1 DEF FanSearch, Step, RequestType
      <2>5. ~HybridSearch /\ ~SparseSearch
          BY <1>1 DEF HybridSearch, SparseSearch, Step, RequestType
      <2>6. ~UseCached /\ ~Build /\ ~NoIndex /\ ~Cache
          BY <1>1 DEF UseCached, Build, NoIndex, Cache, Step, RequestType
      <2>7. ~RerankResults /\ ~KeepOrder
          BY <1>5 DEF RerankResults, KeepOrder
      <2> QED  BY <1>7, <2>1, <2>2, <2>3, <2>4, <2>5, <2>6, <2>7 DEF doRecall
  <1>8. ~RecallAnswers /\ ~Expand /\ ~RecallFails /\ ~Done
      BY <1>1, <1>6 DEF RecallAnswers, Expand, RecallFails, Done, Step, RequestType
  <1>9. ~HybridAnswers
      BY <1>1 DEF HybridAnswers, Step, RequestType
  <1>10. ~UseChunks
      BY <1>1 DEF UseChunks, Step, RequestType
  <1>11. ~FindFiles
      BY <1>1, <1>3 DEF FindFiles, Step, RequestType
  <1>12. ~LoadFile
      BY <1>1 DEF LoadFile, Step, RequestType
  <1>13. ~Loaded /\ ~Synthesize /\ ~Explain
      BY <1>1, <1>3 DEF Loaded, Synthesize, Explain, Step, RequestType
  <1>14. ASSUME NEW v \in DOMAIN workers, SearchVault(v) \/ VaultFails(v) \/ AppendVault(v)
         PROVE  FALSE
      <2>1. AppendVault(v)
          BY <1>14 DEF SearchVault, VaultFails
      <2>2. r.pc = "vaults"
          BY <2>1, GoroutineFacts DEF AppendVault
      <2> QED  BY <1>1, <2>1, <2>2 DEF AppendVault, RequestType
  <1>15. ASSUME NEW i \in DOMAIN queries, Acquire(i) \/ QueryAnswers(i) \/ QueryFails(i)
         PROVE  FALSE
      BY <1>15 DEF Acquire, QueryAnswers, QueryFails, Leave
  <1>16. ~Merge /\ ~BatchAnswers
      BY <1>1 DEF Merge, BatchAnswers, Step, RequestType
  <1>17. ASSUME NEW c \in Moving, Insert(c) \/ Delete(c)
         PROVE  FALSE
      BY <1>17 DEF Insert, Delete
  <1>18. ASSUME NEW v \in Vault, Invalidate(v)
         PROVE  FALSE
      BY <1>18 DEF Invalidate
  <1>19. ASSUME NEW q \in Requests, Begin(q)
         PROVE  FALSE
      BY <1>19 DEF Begin, Idle
  <1>20. ~AskCited
      BY DEF AskCited, Idle
  <1>21. ASSUME NEW names, NEW n, NEW f, CrossVault(names, n, f)
         PROVE  FALSE
      BY <1>21 DEF CrossVault, Idle
  <1>22. ASSUME NEW n, NEW limit, Batch(n, limit)
         PROVE  FALSE
      BY <1>22 DEF Batch, Idle
  <1>23. CASE Progress
      BY <1>7, <1>8, <1>9, <1>10, <1>11, <1>12, <1>13, <1>14, <1>15, <1>16, <1>23 DEF Progress
  <1> QED  BY <1>1, <1>17, <1>18, <1>19, <1>20, <1>21, <1>22, <1>23 DEF Next

LEMMA NextAgreed == Inv /\ Agreed /\ [Next]_vars => Agreed'
  <1> SUFFICES ASSUME Inv, Agreed, [Next]_vars PROVE Agreed'
      OBVIOUS
  <1>1. CASE r' = r
      BY <1>1 DEF Agreed
  <1>2. CASE r' # r /\ r'.pc = "fetch"
      BY <1>2, StepsTo, FetchAgrees
  <1> QED  BY <1>1, <1>2 DEF Agreed

LEMMA InitAgreed == Init => Agreed
  BY IdleFacts DEF Init, Agreed

LEMMA RankingSteps == Inv /\ Agreed /\ [Next]_vars => [FusionAgrees /\ RerankPermutes]_vars
  <1> SUFFICES ASSUME Inv, Agreed, [Next]_vars PROVE FusionAgrees /\ RerankPermutes
      OBVIOUS
  <1>1. r \in RequestType /\ r.out \in Seq(Entries)
      BY Steady DEF RequestType
  <1>2. FusionAgrees
      <2> SUFFICES ASSUME r.pc = "fetch", r'.pc = "rank" PROVE FusionAgrees
          BY DEF FusionAgrees
      <2> DEFINE out == Fetched(r.out)
                 P == {i \in 1 .. Len(r.out) :
                          r.out[i].id \in stored /\ Home[r.out[i].id] = r.vault}
      <2>1. recallByIDs
          <3>1. recallByIDs \/ FetchFails
              BY StepsFrom
          <3>2. ~FetchFails
              BY <1>1 DEF FetchFails, Fail, Step, RequestType
          <3> QED  BY <3>1, <3>2
      <2>2. r'.out = out
          BY <1>1, <2>1 DEF recallByIDs, Step, Ranked, RequestType
      <2>3. PICK p : /\ InOrder(p, P) /\ out \in Seq(Entries) /\ Len(out) = Len(p)
                     /\ \A i \in 1 .. Len(p) : out[i] = r.out[p[i]]
          BY FetchedTakes
      <2>4. \A i \in 1 .. Len(p) : p[i] \in 1 .. Len(r.out)
          <3>1. \A i \in 1 .. Len(p) : p[i] \in P
              <4> HIDE DEF P
              <4> QED  BY <2>3 DEF InOrder
          <3> QED  BY <3>1
      <2>5. \A i, j \in 1 .. Len(p) : i < j => p[i] < p[j]
          BY <2>3 DEF InOrder
      <2> HIDE DEF out
      <2>6. DOMAIN out = 1 .. Len(p)
          BY <2>3
      <2>7. \A a, b : Ahead(a, b) <=> AheadIn(r.lists, a, b)
          BY DEF Ahead, AheadIn
      <2>8. \A i, j \in 1 .. Len(r.out) : i < j => ~AheadIn(r.lists, r.out[j].id, r.out[i].id)
          BY DEF Agreed, Agrees
      <2>9. \A i, j \in 1 .. Len(p) : i < j => ~Ahead(out[j].id, out[i].id)
          BY <2>3, <2>4, <2>5, <2>7, <2>8
      <2> QED  BY <2>2, <2>6, <2>9 DEF FusionAgrees
  <1>3. RerankPermutes
      <2> SUFFICES ASSUME r.pc = "rank", r'.pc \in {"use", "context"} PROVE RerankPermutes
          BY DEF RerankPermutes
      <2>1. RerankResults \/ KeepOrder
          BY StepsFrom
      <2>2. \A out : Respond(out) => r'.out = out
          BY <1>1 DEF Respond, Step, RequestType
      <2>3. CASE KeepOrder
          BY <2>2, <2>3 DEF KeepOrder, RerankPermutes
      <2>4. CASE RerankResults
          <3>1. PICK order \in BoundedSeq(DOMAIN r.out, Len(r.out)) :
                   Respond(Rerank(r.out, order))
              BY <2>4 DEF RerankResults
          <3>2. order \in Seq(1 .. Len(r.out))
              BY <1>1, <3>1 DEF BoundedSeq, SeqOf
          <3>3. /\ Len(Rerank(r.out, order)) = Len(r.out)
                /\ ToSet(Rerank(r.out, order)) = ToSet(r.out)
              BY <1>1, <3>2, RerankIsAPermutation
          <3> QED  BY <2>2, <3>1, <3>3 DEF RerankPermutes
      <2> QED  BY <2>1, <2>3, <2>4
  <1> QED  BY <1>2, <1>3

\* For any rankings, of any length, and any answers of the models: of two results
\* on whose order all fused rankings agree the better one comes first in what
\* recallByIDs hands on, whatever was deleted meanwhile, and re-ranking only
\* permutes (Fuse, recallByIDs, applyRerankOrder).
THEOREM RankingsAreKept == Spec => RankingIsKept
  <1>1. Init => Inv /\ Agreed
      BY InitInv, InitAgreed
  <1>2. (Inv /\ Agreed) /\ [Next]_vars => (Inv /\ Agreed)'
      BY NextInv, NextAgreed
  <1>3. (Inv /\ Agreed) /\ [Next]_vars => [FusionAgrees /\ RerankPermutes]_vars
      BY RankingSteps
  <1> QED  BY <1>1, <1>2, <1>3, PTL DEF Spec, RankingIsKept
=============================================================================
