-------------------------- MODULE CollectionLemmas ---------------------------
(***************************************************************************)
(* Lemmas about finite sets, sums and sorted sequences that the proofs of  *)
(* several components rest on.  Those about data of any size argue from a  *)
(* smallest counterexample.                                                *)
(***************************************************************************)
EXTENDS Integers, FiniteSets, Sequences, SequencesExt, FiniteSetTheorems, TLAPS

\* Among subsets of a finite set, one contains none of the others.
LEMMA SmallestSet ==
  ASSUME NEW S, IsFiniteSet(S), NEW Bad \in SUBSET SUBSET S, Bad # {}
  PROVE  \E T \in Bad : \A U \in Bad : U \subseteq T => U = T
  <1> DEFINE R == StrictSubsetOrdering(S)
             F == FiniteSubsetsOf(S)
  <1>1. IsWellFoundedOn(R, F)
      BY FS_StrictSubsetOrderingWellFounded
  <1>2. F = SUBSET S
      BY FS_FiniteSubsetsOfFinite
  <1>3. PICK T \in Bad : \A U \in Bad : <<U, T>> \notin R
      <2> HIDE DEF R, F
      <2> QED  BY <1>1, <1>2, WFMin
  <1>4. \A U \in Bad : U \subseteq T => U = T
      BY <1>3 DEF StrictSubsetOrdering
  <1> QED  BY <1>4

\* Numbers have a least one among them.
LEMMA LeastNumber ==
  ASSUME NEW N \in SUBSET Nat, N # {}
  PROVE  \E m \in N : \A n \in N : m <= n
  <1>1. PICK top \in N : TRUE
      OBVIOUS
  <1> DEFINE All == 0 .. top
             Bad == {0 .. n : n \in N \cap All}
  <1>2. IsFiniteSet(All)
      BY FS_Interval
  <1>3. Bad \in SUBSET SUBSET All /\ Bad # {}
      <2>1. top \in N \cap All
          BY <1>1
      <2>2. \A n \in N \cap All : 0 .. n \subseteq All
          OBVIOUS
      <2> QED  BY <2>1, <2>2
  <1>4. PICK X \in Bad : \A U \in Bad : U \subseteq X => U = X
      <2> HIDE DEF All, Bad
      <2> QED  BY <1>2, <1>3, SmallestSet
  <1>5. PICK m \in N \cap All : X = 0 .. m
      BY <1>4
  <1>6. ASSUME NEW n \in N, ~(m <= n)
        PROVE  FALSE
      <2>1. n \in N \cap All /\ n < m
          BY <1>5, <1>6
      <2>2. 0 .. n \in Bad /\ 0 .. n \subseteq X
          BY <1>5, <2>1
      <2>3. 0 .. n = X
          <3> HIDE DEF Bad
          <3> QED  BY <1>4, <2>2
      <2>4. m \in 0 .. m
          BY <1>5
      <2>5. m \in 0 .. n
          BY <1>5, <2>3, <2>4
      <2> QED  BY <2>1, <2>5
  <1> QED  BY <1>5, <1>6

-----------------------------------------------------------------------------
(* Sums.                                                                      *)

\* The recursion that defines a sum.
Sums(h, f, S) ==
    h = [T \in SUBSET S |->
            IF T = {} THEN 0
            ELSE f[CHOOSE x \in T : TRUE] + h[T \ {CHOOSE x \in T : TRUE}]]

\* It has a solution: the solution for the sets without x, extended by those
\* with it.  (The solutions in question are those of all the subsets of S.)
LEMMA SumsExist ==
  ASSUME NEW S, IsFiniteSet(S), NEW f \in [S -> Int]
  PROVE  \E h \in [SUBSET S -> Int] : Sums(h, f, S)
  <1> DEFINE Small(n) == {T \in SUBSET S : Cardinality(T) <= n}
             Part(h, n) == h = [T \in Small(n) |->
                  IF T = {} THEN 0
                  ELSE f[CHOOSE x \in T : TRUE] + h[T \ {CHOOSE x \in T : TRUE}]]
             Solvable(n) == \E h \in [Small(n) -> Int] : Part(h, n)
             Bad == {n \in Nat : ~ Solvable(n)}
  <1>1. \A T \in SUBSET S : /\ IsFiniteSet(T) /\ Cardinality(T) \in Nat
                            /\ Cardinality(T) <= Cardinality(S)
                            /\ Cardinality(T) = 0 <=> T = {}
      BY FS_Subset, FS_CardinalityType, FS_EmptySet
  <1>2. Bad = {}
      <2> SUFFICES ASSUME Bad # {} PROVE FALSE
          OBVIOUS
      <2>1. PICK n \in Bad : \A m \in Bad : n <= m
          <3> HIDE DEF Bad
          <3>1. Bad \in SUBSET Nat
              BY DEF Bad
          <3> QED  BY <3>1, LeastNumber
      <2>2. n # 0
          <3> DEFINE z == [T \in Small(0) |-> 0]
          <3>1. \A T \in Small(0) : T = {}
              BY <1>1
          <3>2. Part(z, 0) /\ z \in [Small(0) -> Int]
              BY <3>1
          <3>3. Solvable(0)
              BY <3>2
          <3> HIDE DEF Solvable
          <3> QED  BY <2>1, <3>3
      <2>3. n \in Nat /\ n - 1 \in Nat /\ Solvable(n - 1)
          <3> HIDE DEF Solvable
          <3> QED  BY <2>1, <2>2
      <2>4. PICK h \in [Small(n - 1) -> Int] : Part(h, n - 1)
          BY <2>3
      <2> DEFINE g == [T \in Small(n) |->
                  IF T = {} THEN 0
                  ELSE f[CHOOSE x \in T : TRUE] + h[T \ {CHOOSE x \in T : TRUE}]]
      <2>5. \A T \in Small(n) \ {{}} :
               /\ (CHOOSE x \in T : TRUE) \in T
               /\ T \ {CHOOSE x \in T : TRUE} \in Small(n - 1)
          <3> SUFFICES ASSUME NEW T \in Small(n) \ {{}}, NEW y, y = CHOOSE x \in T : TRUE
                       PROVE  y \in T /\ T \ {y} \in Small(n - 1)
              OBVIOUS
          <3>1. y \in T
              OBVIOUS
          <3>2. Cardinality(T \ {y}) = Cardinality(T) - 1
              BY <1>1, <3>1, FS_RemoveElement
          <3>3. Cardinality(T) \in Nat /\ Cardinality(T) <= n
              BY <1>1
          <3> QED  BY <2>3, <3>1, <3>2, <3>3
      <2>6. \A T \in Small(n - 1) : T \in Small(n) /\ g[T] = h[T]
          <3> SUFFICES ASSUME NEW T \in Small(n - 1)
                       PROVE  T \in Small(n) /\ g[T] = h[T]
              OBVIOUS
          <3>1. T \in Small(n)
              BY <1>1, <2>3
          <3>2. h[T] = IF T = {} THEN 0
                       ELSE f[CHOOSE x \in T : TRUE] + h[T \ {CHOOSE x \in T : TRUE}]
              BY <2>4
          <3> QED  BY <3>1, <3>2
      <2>7. g \in [Small(n) -> Int]
          <3> SUFFICES ASSUME NEW T \in Small(n)
                       PROVE  g[T] \in Int
              OBVIOUS
          <3>1. CASE T = {}
              BY <3>1
          <3>2. CASE T # {}
              <4>1. f[CHOOSE x \in T : TRUE] \in Int
                  BY <2>5, <3>2
              <4>2. h[T \ {CHOOSE x \in T : TRUE}] \in Int
                  BY <2>5, <3>2
              <4> QED  BY <3>2, <4>1, <4>2
          <3> QED  BY <3>1, <3>2
      <2>8. Part(g, n)
          <3>1. \A T \in Small(n) : T # {} =>
                   g[T \ {CHOOSE x \in T : TRUE}] = h[T \ {CHOOSE x \in T : TRUE}]
              <4> HIDE DEF g
              <4> QED  BY <2>5, <2>6
          <3>2. \A T \in Small(n) : g[T] =
                   IF T = {} THEN 0
                   ELSE f[CHOOSE x \in T : TRUE] + h[T \ {CHOOSE x \in T : TRUE}]
              OBVIOUS
          <3>3. g = [T \in Small(n) |-> g[T]]
              OBVIOUS
          <3> HIDE DEF g
          <3>4. \A T \in Small(n) : g[T] =
                   IF T = {} THEN 0
                   ELSE f[CHOOSE x \in T : TRUE] + g[T \ {CHOOSE x \in T : TRUE}]
              BY <3>1, <3>2
          <3> QED  BY <3>3, <3>4
      <2>9. Solvable(n)
          BY <2>7, <2>8
      <2> HIDE DEF Solvable
      <2> QED  BY <2>1, <2>9
  <1>3. PICK h \in [Small(Cardinality(S)) -> Int] : Part(h, Cardinality(S))
      <2>1. Cardinality(S) \in Nat
          BY FS_CardinalityType
      <2> QED  BY <1>2, <2>1
  <1>4. Small(Cardinality(S)) = SUBSET S
      BY <1>1
  <1> QED  BY <1>3, <1>4 DEF Sums

\* The library's sum is a solution.
LEMMA SumIsASolution ==
  ASSUME NEW S, IsFiniteSet(S), NEW f \in [S -> Int]
  PROVE  \E h : Sums(h, f, S) /\ SumFunction(f) = h[S]
  <1> DEFINE iter == CHOOSE h : Sums(h, f, S)
  <1>1. Sums(iter, f, S)
      BY SumsExist
  <1>2. SumFunction(f) = iter[S]
      BY DEF SumFunction, SumFunctionOnSet, FoldFunctionOnSet, MapThenFoldSet, Sums
  <1> QED  BY <1>1, <1>2

\* One step of it: which element comes first does not depend on the summands.
LEMMA SumsStep ==
  ASSUME NEW S, NEW f, NEW h, Sums(h, f, S), NEW g, NEW k, Sums(k, g, S),
         NEW T \in SUBSET S, T # {}
  PROVE  \E x \in T : h[T] = f[x] + h[T \ {x}] /\ k[T] = g[x] + k[T \ {x}]
  <1>1. h[T] = f[CHOOSE x \in T : TRUE] + h[T \ {CHOOSE x \in T : TRUE}]
      BY DEF Sums
  <1>2. k[T] = g[CHOOSE x \in T : TRUE] + k[T \ {CHOOSE x \in T : TRUE}]
      BY DEF Sums
  <1>3. (CHOOSE x \in T : TRUE) \in T
      OBVIOUS
  <1> QED  BY <1>1, <1>2, <1>3

LEMMA SumsBegin ==
  ASSUME NEW S, NEW f, NEW h, Sums(h, f, S)
  PROVE  h[{}] = 0
  BY DEF Sums

LEMMA SumsAreIntegers ==
  ASSUME NEW S, IsFiniteSet(S), NEW f \in [S -> Int], NEW h, Sums(h, f, S)
  PROVE  \A T \in SUBSET S : h[T] \in Int
  <1> DEFINE Bad == {T \in SUBSET S : h[T] \notin Int}
  <1> SUFFICES ASSUME Bad # {} PROVE FALSE
      OBVIOUS
  <1>1. PICK T \in Bad : \A U \in Bad : U \subseteq T => U = T
      <2>1. Bad \in SUBSET SUBSET S
          OBVIOUS
      <2> HIDE DEF Bad
      <2> QED  BY <2>1, SmallestSet
  <1>2. T # {}
      <2>1. h[{}] = 0
          BY SumsBegin
      <2>2. {} \notin Bad
          BY <2>1
      <2> HIDE DEF Bad
      <2> QED  BY <2>2
  <1>3. PICK x \in T : h[T] = f[x] + h[T \ {x}]
      <2>1. T \in SUBSET S
          BY <1>1
      <2> HIDE DEF Bad
      <2> QED  BY <1>2, <2>1, SumsStep
  <1>4. T \ {x} \in SUBSET S /\ T \ {x} \notin Bad
      BY <1>1, <1>3
  <1> QED  BY <1>1, <1>3, <1>4

\* A summand that changes changes the sum by as much.
LEMMA SumsChange ==
  ASSUME NEW S, IsFiniteSet(S), NEW f \in [S -> Int], NEW g \in [S -> Int],
         NEW p \in S, \A x \in S \ {p} : f[x] = g[x],
         NEW h, Sums(h, f, S), NEW k, Sums(k, g, S)
  PROVE  \A T \in SUBSET S : k[T] = h[T] + (IF p \in T THEN g[p] - f[p] ELSE 0)
  <1> DEFINE Good(T) == k[T] = h[T] + (IF p \in T THEN g[p] - f[p] ELSE 0)
             Bad == {T \in SUBSET S : ~ Good(T)}
  <1> SUFFICES ASSUME Bad # {} PROVE FALSE
      OBVIOUS
  <1>1. PICK T \in Bad : \A U \in Bad : U \subseteq T => U = T
      <2>1. Bad \in SUBSET SUBSET S
          OBVIOUS
      <2> HIDE DEF Bad
      <2> QED  BY <2>1, SmallestSet
  <1>2. T # {}
      <2>1. h[{}] = 0 /\ k[{}] = 0
          BY SumsBegin
      <2>2. Good({})
          BY <2>1
      <2> HIDE DEF Good
      <2> QED  BY <1>1, <2>2
  <1>4. PICK x \in T : h[T] = f[x] + h[T \ {x}] /\ k[T] = g[x] + k[T \ {x}]
      <2>1. T \in SUBSET S
          BY <1>1
      <2> HIDE DEF Bad, Good
      <2> QED  BY <1>2, <2>1, SumsStep
  <1>5. T \ {x} \in SUBSET S /\ Good(T \ {x})
      BY <1>1, <1>4
  <1>6. h[T \ {x}] \in Int /\ k[T \ {x}] \in Int /\ f[x] \in Int /\ g[x] \in Int
        /\ f[p] \in Int /\ g[p] \in Int
      BY <1>1, <1>4, <1>5, SumsAreIntegers
  <1>7. CASE x = p
      <2>1. k[T \ {x}] = h[T \ {x}] + 0
          BY <1>5, <1>7
      <2>2. Good(T)
          BY <1>4, <1>6, <1>7, <2>1
      <2> HIDE DEF Good
      <2> QED  BY <1>1, <2>2
  <1>8. CASE x # p
      <2>1. f[x] = g[x]
          BY <1>1, <1>4, <1>8
      <2>2. p \in T <=> p \in T \ {x}
          BY <1>8
      <2>3. Good(T)
          BY <1>4, <1>5, <1>6, <2>1, <2>2
      <2> HIDE DEF Good
      <2> QED  BY <1>1, <2>3
  <1> QED  BY <1>7, <1>8

\* Larger summands, a larger sum.
LEMMA SumsGrow ==
  ASSUME NEW S, IsFiniteSet(S), NEW f \in [S -> Int], NEW g \in [S -> Int],
         \A x \in S : f[x] <= g[x], NEW h, Sums(h, f, S), NEW k, Sums(k, g, S)
  PROVE  \A T \in SUBSET S : /\ h[T] <= k[T]
                             /\ (\E x \in T : f[x] < g[x]) => h[T] < k[T]
  <1> DEFINE Good(T) == /\ h[T] <= k[T]
                        /\ (\E x \in T : f[x] < g[x]) => h[T] < k[T]
             Bad == {T \in SUBSET S : ~ Good(T)}
  <1> SUFFICES ASSUME Bad # {} PROVE FALSE
      OBVIOUS
  <1>1. PICK T \in Bad : \A U \in Bad : U \subseteq T => U = T
      <2>1. Bad \in SUBSET SUBSET S
          OBVIOUS
      <2> HIDE DEF Bad
      <2> QED  BY <2>1, SmallestSet
  <1>2. T # {}
      <2>1. h[{}] = 0 /\ k[{}] = 0
          BY SumsBegin
      <2>2. Good({})
          BY <2>1
      <2> HIDE DEF Good
      <2> QED  BY <1>1, <2>2
  <1>4. PICK x \in T : h[T] = f[x] + h[T \ {x}] /\ k[T] = g[x] + k[T \ {x}]
      <2>1. T \in SUBSET S
          BY <1>1
      <2> HIDE DEF Bad, Good
      <2> QED  BY <1>2, <2>1, SumsStep
  <1>5. T \ {x} \in SUBSET S /\ Good(T \ {x})
      BY <1>1, <1>4
  <1>6. h[T \ {x}] \in Int /\ k[T \ {x}] \in Int /\ f[x] \in Int /\ g[x] \in Int
        /\ f[x] <= g[x]
      BY <1>1, <1>4, <1>5, SumsAreIntegers
  <1>7. h[T] <= k[T]
      BY <1>4, <1>5, <1>6
  <1>8. ASSUME NEW y \in T, f[y] < g[y]
        PROVE  h[T] < k[T]
      <2>1. y = x \/ y \in T \ {x}
          OBVIOUS
      <2>2. CASE y = x
          BY <1>4, <1>5, <1>6, <1>8, <2>2
      <2>3. CASE y \in T \ {x}
          <3>1. h[T \ {x}] < k[T \ {x}]
              BY <1>5, <1>8, <2>3
          <3> QED  BY <1>4, <1>6, <3>1
      <2> QED  BY <2>1, <2>2, <2>3
  <1> QED  BY <1>1, <1>7, <1>8

LEMMA SumType ==
  ASSUME NEW S, IsFiniteSet(S), NEW f \in [S -> Int]
  PROVE  SumFunction(f) \in Int
  BY SumIsASolution, SumsAreIntegers

LEMMA SumChange ==
  ASSUME NEW S, IsFiniteSet(S), NEW f \in [S -> Int], NEW g \in [S -> Int],
         NEW p \in S, \A x \in S \ {p} : f[x] = g[x]
  PROVE  SumFunction(g) = SumFunction(f) + g[p] - f[p]
  <1>1. PICK h : Sums(h, f, S) /\ SumFunction(f) = h[S]
      BY SumIsASolution
  <1>2. PICK k : Sums(k, g, S) /\ SumFunction(g) = k[S]
      BY SumIsASolution
  <1>3. k[S] = h[S] + (g[p] - f[p])
      BY <1>1, <1>2, SumsChange
  <1>4. h[S] \in Int /\ f[p] \in Int /\ g[p] \in Int
      BY <1>1, SumsAreIntegers
  <1> QED  BY <1>1, <1>2, <1>3, <1>4

LEMMA SumMonotone ==
  ASSUME NEW S, IsFiniteSet(S), NEW f \in [S -> Int], NEW g \in [S -> Int],
         \A x \in S : f[x] <= g[x]
  PROVE  /\ SumFunction(f) <= SumFunction(g)
         /\ (\E x \in S : f[x] < g[x]) => SumFunction(f) < SumFunction(g)
  <1>1. PICK h : Sums(h, f, S) /\ SumFunction(f) = h[S]
      BY SumIsASolution
  <1>2. PICK k : Sums(k, g, S) /\ SumFunction(g) = k[S]
      BY SumIsASolution
  <1> QED  BY <1>1, <1>2, SumsGrow

LEMMA SumOfZeros ==
  ASSUME NEW S, IsFiniteSet(S)
  PROVE  SumFunction([x \in S |-> 0]) = 0
  <1> DEFINE z == [x \in S |-> 0]
             k == [T \in SUBSET S |-> 0]
  <1>1. z \in [S -> Int]
      OBVIOUS
  <1>2. PICK h : Sums(h, z, S) /\ SumFunction(z) = h[S]
      <2> HIDE DEF z
      <2> QED  BY <1>1, SumIsASolution
  <1> DEFINE Bad == {T \in SUBSET S : h[T] # 0}
  <1> SUFFICES ASSUME Bad # {} PROVE FALSE
      BY <1>2
  <1>3. PICK T \in Bad : \A U \in Bad : U \subseteq T => U = T
      <2>1. Bad \in SUBSET SUBSET S
          OBVIOUS
      <2> HIDE DEF Bad
      <2> QED  BY <2>1, SmallestSet
  <1>4. T # {}
      BY <1>2, <1>3, SumsBegin
  <1>5. PICK x \in T : h[T] = z[x] + h[T \ {x}]
      <2>1. T \in SUBSET S
          BY <1>3
      <2> HIDE DEF Bad, z
      <2> QED  BY <1>2, <1>4, <2>1, SumsStep
  <1>6. T \ {x} \in SUBSET S /\ h[T \ {x}] = 0 /\ z[x] = 0
      BY <1>3, <1>5
  <1> QED  BY <1>3, <1>5, <1>6

\* No natural summand exceeds the sum.
LEMMA SumBounds ==
  ASSUME NEW S, IsFiniteSet(S), NEW f \in [S -> Nat]
  PROVE  SumFunction(f) \in Nat /\ \A x \in S : f[x] <= SumFunction(f)
  <1> DEFINE z == [x \in S |-> 0]
  <1>1. \A g \in [S -> Nat] : g \in [S -> Int] /\ SumFunction(g) \in Nat
      <2> SUFFICES ASSUME NEW g \in [S -> Nat]
                   PROVE  g \in [S -> Int] /\ SumFunction(g) \in Nat
          OBVIOUS
      <2>1. z \in [S -> Int] /\ g \in [S -> Int] /\ \A x \in S : z[x] <= g[x]
          OBVIOUS
      <2>2. SumFunction(z) = 0
          BY SumOfZeros
      <2> HIDE DEF z
      <2>3. SumFunction(z) <= SumFunction(g)
          BY <2>1, SumMonotone
      <2>4. SumFunction(g) \in Int
          BY <2>1, SumType
      <2> QED  BY <2>1, <2>2, <2>3, <2>4
  <1>2. ASSUME NEW p \in S
        PROVE  f[p] <= SumFunction(f)
      <2> DEFINE g == [f EXCEPT ![p] = 0]
      <2>1. g \in [S -> Nat] /\ g[p] = 0 /\ \A x \in S \ {p} : g[x] = f[x]
          OBVIOUS
      <2> HIDE DEF g
      <2>2. SumFunction(f) = SumFunction(g) + f[p] - g[p]
          BY <1>1, <2>1, SumChange
      <2>3. SumFunction(g) \in Nat /\ f[p] \in Nat
          BY <1>1, <2>1
      <2> QED  BY <2>1, <2>2, <2>3
  <1> QED  BY <1>1, <1>2

-----------------------------------------------------------------------------
(* The members of a set in a row.                                             *)

LEMMA RowOfAll ==
  ASSUME NEW S, IsFiniteSet(S), NEW q \in SetToSeqs(S)
  PROVE  /\ q \in Seq(S) /\ Len(q) = Cardinality(S) /\ Cardinality(S) \in Nat
         /\ DOMAIN q = 1 .. Cardinality(S)
         /\ \A i \in DOMAIN q : q[i] \in S
         /\ \A i, j \in DOMAIN q : q[i] = q[j] => i = j
         /\ \A x \in S : \E i \in DOMAIN q : q[i] = x
  <1> DEFINE D == 1 .. Cardinality(S)
  <1>1. Cardinality(S) \in Nat
      BY FS_CardinalityType
  <1>2. q \in [D -> S] /\ \A i, j \in D : i # j => q[i] # q[j]
      BY DEF SetToSeqs
  <1>3. q \in Injection(D, S)
      BY <1>2 DEF Injection, IsInjective
  <1>4. Cardinality(D) = Cardinality(S)
      BY <1>1, FS_Interval
  <1>5. q \in Surjection(D, S)
      <2> HIDE DEF D
      <2> QED  BY <1>3, <1>4, FS_Injection
  <1>6. q \in Seq(S) /\ Len(q) = Cardinality(S) /\ DOMAIN q = D
      BY <1>1, <1>2
  <1>7. \A x \in S : \E i \in D : q[i] = x
      BY <1>5 DEF Surjection
  <1> QED  BY <1>1, <1>2, <1>6, <1>7

\* Some order of the members.
LEMMA RowExists ==
  ASSUME NEW S, IsFiniteSet(S), NEW n \in Nat, Cardinality(S) = n,
         NEW q \in [1 .. n -> S], \A i, j \in 1 .. n : q[i] = q[j] => i = j
  PROVE  q \in SetToSeqs(S)
  BY DEF SetToSeqs

\* Rel ranks the members: any two, in one way or both.
Ranks(Rel, S) ==
    /\ \A a, b \in S : <<a, b>> \in Rel \/ <<b, a>> \in Rel
    /\ \A a, b, c \in S : <<a, b>> \in Rel /\ <<b, c>> \in Rel => <<a, c>> \in Rel

LEMMA BestMember ==
  ASSUME NEW S, IsFiniteSet(S), S # {}, NEW Rel, Ranks(Rel, S)
  PROVE  \E m \in S : \A x \in S : <<m, x>> \in Rel
  <1> DEFINE Good(T) == \E m \in T : \A x \in T : <<m, x>> \in Rel
             Bad == {T \in SUBSET S : T # {} /\ ~ Good(T)}
  <1>1. SUFFICES ASSUME Bad # {} PROVE FALSE
      OBVIOUS
  <1>2. PICK T \in Bad : \A U \in Bad : U \subseteq T => U = T
      <2>1. Bad \in SUBSET SUBSET S
          OBVIOUS
      <2> HIDE DEF Bad
      <2> QED  BY <1>1, <2>1, SmallestSet
  <1>3. T \in SUBSET S /\ T # {} /\ ~ Good(T)
      BY <1>2
  <1>4. PICK x \in T : TRUE
      BY <1>3
  <1>5. T \ {x} \notin Bad
      <2> HIDE DEF Bad
      <2> QED  BY <1>2, <1>4
  <1>6. <<x, x>> \in Rel
      BY <1>3, <1>4 DEF Ranks
  <1>7. CASE T \ {x} = {}
      BY <1>3, <1>4, <1>6, <1>7
  <1>8. CASE T \ {x} # {}
      <2>1. PICK m \in T \ {x} : \A y \in T \ {x} : <<m, y>> \in Rel
          BY <1>3, <1>5, <1>8
      <2>2. CASE <<m, x>> \in Rel
          BY <1>3, <1>4, <2>1, <2>2
      <2>3. CASE <<x, m>> \in Rel
          <3>1. \A y \in T \ {x} : <<x, y>> \in Rel
              BY <1>3, <1>4, <2>1, <2>3 DEF Ranks
          <3> QED  BY <1>3, <1>4, <1>6, <3>1
      <2> QED  BY <1>3, <1>4, <2>1, <2>2, <2>3 DEF Ranks
  <1> QED  BY <1>7, <1>8

\* The members can be sorted.
LEMMA SortedRow ==
  ASSUME NEW S, IsFiniteSet(S), NEW Rel, Ranks(Rel, S)
  PROVE  \E q \in SetToSeqs(S) : \A i, j \in DOMAIN q : i < j => <<q[i], q[j]>> \in Rel
  <1> DEFINE Good(T) == \E q \in SetToSeqs(T) :
                           \A i, j \in DOMAIN q : i < j => <<q[i], q[j]>> \in Rel
             Bad == {T \in SUBSET S : ~ Good(T)}
  <1>1. SUFFICES ASSUME Bad # {} PROVE FALSE
      OBVIOUS
  <1>2. PICK T \in Bad : \A U \in Bad : U \subseteq T => U = T
      <2>1. Bad \in SUBSET SUBSET S
          OBVIOUS
      <2> HIDE DEF Bad
      <2> QED  BY <1>1, <2>1, SmallestSet
  <1>3. T \in SUBSET S /\ ~ Good(T) /\ IsFiniteSet(T)
      BY <1>2, FS_Subset
  <1>4. T # {}
      <2> DEFINE e == [i \in 1 .. 0 |-> i]
      <2>1. e \in [1 .. 0 -> {}] /\ DOMAIN e = 1 .. 0
          OBVIOUS
      <2>2. IsFiniteSet({}) /\ Cardinality({}) = 0
          BY FS_EmptySet
      <2>3. \A i, j \in 1 .. 0 : e[i] = e[j] => i = j
          OBVIOUS
      <2> HIDE DEF e
      <2>4. e \in SetToSeqs({})
          BY <2>1, <2>2, <2>3 DEF SetToSeqs
      <2>5. Good({})
          BY <2>1, <2>4
      <2> QED  BY <1>3, <2>5
  <1>5. PICK m \in T : \A x \in T : <<m, x>> \in Rel
      <2>1. Ranks(Rel, T)
          BY <1>3 DEF Ranks
      <2> QED  BY <1>3, <1>4, <2>1, BestMember
  <1> DEFINE R == T \ {m}
             n == Cardinality(T)
  <1>6. R \in SUBSET S /\ R \notin Bad
      <2>1. R \in SUBSET S /\ R \subseteq T /\ R # T
          BY <1>3, <1>5
      <2> HIDE DEF Bad, R
      <2> QED  BY <1>2, <2>1
  <1>7. PICK q \in SetToSeqs(R) : \A i, j \in DOMAIN q : i < j => <<q[i], q[j]>> \in Rel
      BY <1>6
  <1>8. IsFiniteSet(R) /\ Cardinality(R) = n - 1 /\ n \in Nat \ {0}
      BY <1>3, <1>4, <1>5, FS_RemoveElement, FS_EmptySet, FS_CardinalityType
  <1>9. /\ DOMAIN q = 1 .. n - 1
        /\ \A i \in DOMAIN q : q[i] \in R
        /\ \A i, j \in DOMAIN q : q[i] = q[j] => i = j
      <2> HIDE DEF R
      <2> QED  BY <1>7, <1>8, RowOfAll
  <1> DEFINE w == [i \in 1 .. n |-> IF i = 1 THEN m ELSE q[i - 1]]
  <1> HIDE DEF n
  <1>10. \A i \in 1 .. n : i # 1 => i - 1 \in DOMAIN q
      BY <1>8, <1>9
  <1>11. w \in SetToSeqs(T)
      <2>1. w \in [1 .. n -> T]
          BY <1>5, <1>9, <1>10
      <2>2. ASSUME NEW i \in 1 .. n, NEW j \in 1 .. n, w[i] = w[j]
            PROVE  i = j
          <3>1. i # 1 /\ j # 1 => q[i - 1] = q[j - 1]
              BY <2>2
          <3>2. i # 1 /\ j # 1 => i - 1 = j - 1
              BY <1>9, <1>10, <3>1
          <3>3. \A k \in 1 .. n : k # 1 => q[k - 1] # m
              BY <1>9, <1>10
          <3> QED  BY <2>2, <3>2, <3>3
      <2> HIDE DEF w
      <2> QED  BY <1>3, <1>8, <2>1, <2>2, RowExists DEF n
  <1>12. ASSUME NEW i \in DOMAIN w, NEW j \in DOMAIN w, i < j
         PROVE  <<w[i], w[j]>> \in Rel
      <2>1. j # 1 /\ w[j] = q[j - 1] /\ j - 1 \in DOMAIN q
          BY <1>8, <1>10, <1>12
      <2>2. CASE i = 1
          BY <1>5, <1>9, <2>1, <2>2
      <2>3. CASE i # 1
          <3>1. w[i] = q[i - 1] /\ i - 1 \in DOMAIN q /\ i - 1 < j - 1
              BY <1>8, <1>10, <1>12, <2>3
          <3> QED  BY <1>7, <2>1, <3>1
      <2> QED  BY <2>2, <2>3
  <1>13. Good(T)
      <2> HIDE DEF w
      <2> QED  BY <1>11, <1>12
  <1> QED  BY <1>3, <1>13
=============================================================================
