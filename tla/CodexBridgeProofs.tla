-------------------------- MODULE CodexBridgeProofs --------------------------
(***************************************************************************)
(* Theorems about CodexBridge and the ContextIndex and ContextCompiler     *)
(* that it extends, for every set of records, queries, sessions and        *)
(* reports, any number of batches and of calls cut off.  First what the    *)
(* compiler computes: sums, the ranking, the search along relations and    *)
(* what is taken of the ranking; then the invariant of the bridge.         *)
(***************************************************************************)
EXTENDS CodexBridge, FiniteSetTheorems, WellFoundedInduction, TLAPS

-----------------------------------------------------------------------------
(* Numbers, and sums                                                       *)

\* Every set of numbers has a least one.
LEMMA LeastNumber ==
  ASSUME NEW S \in SUBSET Nat, S # {}
  PROVE  \E x \in S : \A y \in S : x <= y
<1>1. PICK x \in S : \A y \in S : ~(<<y, x>> \in OpToRel(<, Nat))
  BY NatLessThanWellFounded, WFMin, Zenon
<1>2. \A y \in S : ~(y < x)
  <2> SUFFICES ASSUME NEW y \in S, y < x PROVE FALSE
    OBVIOUS
  <2>1. x \in Nat /\ y \in Nat
    OBVIOUS
  <2>2. <<y, x>> \in OpToRel(<, Nat)
    BY <2>1 DEF OpToRel
  <2>3. QED
    BY <1>1, <2>2
<1>3. \A y \in S : x <= y
  BY <1>2
<1>4. QED
  BY <1>3

\* Induction, as a fact about sets of numbers.
LEMMA NumbersInduction ==
  ASSUME NEW S \in SUBSET Nat, 0 \in S, \A n \in S : n + 1 \in S
  PROVE  S = Nat
<1> SUFFICES ASSUME Nat \ S # {} PROVE FALSE
  OBVIOUS
<1>1. PICK x \in Nat \ S : \A y \in Nat \ S : x <= y
  BY LeastNumber
<1>2. x - 1 \in Nat /\ ~(x <= x - 1)
  BY <1>1
<1>3. x - 1 \in S /\ (x - 1) + 1 = x
  BY <1>1, <1>2
<1>4. QED
  BY <1>1, <1>3

\* A part of a finite set is finite, and smaller without one of its members.
LEMMA Parts ==
  ASSUME NEW S, IsFiniteSet(S), NEW T \in SUBSET S
  PROVE  /\ IsFiniteSet(T) /\ Cardinality(T) \in Nat /\ Cardinality(T) <= Cardinality(S)
         /\ Cardinality(T) = 0 => T = {}
         /\ \A x \in T : Cardinality(T \ {x}) = Cardinality(T) - 1
<1>1. IsFiniteSet(T) /\ Cardinality(T) <= Cardinality(S)
  BY FS_Subset
<1>2. QED
  BY <1>1, FS_CardinalityType, FS_EmptySet, FS_RemoveElement

\* The member that a sum takes first, and what the sums over parts of a set are.
Some(T) == CHOOSE x \in T : TRUE
Added(f, sum, T) == IF T = {} THEN 0 ELSE f[Some(T)] + sum[T \ {Some(T)}]
IsSum(f, S, sum) == sum = [T \in SUBSET S |-> Added(f, sum, T)]

\* The member taken first is a member.
LEMMA SomeIsIn == ASSUME NEW T, T # {} PROVE Some(T) \in T
  BY Zenon DEF Some

\* There is a function that sums over the parts of a finite set.
LEMMA SumExists ==
  ASSUME NEW f, NEW S, IsFiniteSet(S) PROVE \E sum : IsSum(f, S, sum)
<1> DEFINE Small(n) == {T \in SUBSET S : Cardinality(T) <= n}
           Solved == {n \in Nat : \E sum : sum = [T \in Small(n) |-> Added(f, sum, T)]}
<1>1. \A T \in SUBSET S :
        /\ IsFiniteSet(T) /\ Cardinality(T) \in Nat /\ Cardinality(T) <= Cardinality(S)
        /\ Cardinality(T) = 0 => T = {}
        /\ \A x \in T : Cardinality(T \ {x}) = Cardinality(T) - 1
  BY Parts
<1>2. 0 \in Solved
  <2> DEFINE sum == [T \in Small(0) |-> 0]
  <2>1. \A T \in Small(0) : T = {}
    BY <1>1
  <2>2. sum = [T \in Small(0) |-> Added(f, sum, T)]
    BY <2>1 DEF Added
  <2>3. QED
    BY <2>2
<1>3. ASSUME NEW n \in Solved PROVE n + 1 \in Solved
  <2>1. PICK sum : sum = [T \in Small(n) |-> Added(f, sum, T)]
    OBVIOUS
  <2> DEFINE more == [T \in Small(n + 1) |-> Added(f, sum, T)]
  <2>2. \A T \in Small(n) : T \in Small(n + 1)
    BY <1>1
  <2>3. \A T \in Small(n) : more[T] = sum[T]
    <3> SUFFICES ASSUME NEW T \in Small(n) PROVE more[T] = sum[T]
      OBVIOUS
    <3>1. sum[T] = Added(f, sum, T)
      BY <2>1, Zenon
    <3>2. QED
      BY <2>2, <3>1, Zenon
  <2>4. ASSUME NEW T \in Small(n + 1) PROVE Added(f, sum, T) = Added(f, more, T)
    <3>1. CASE T = {}
      BY <3>1 DEF Added
    <3>2. CASE T # {}
      <4>1. T \ {Some(T)} \in Small(n)
        BY <1>1, <3>2, SomeIsIn
      <4>2. more[T \ {Some(T)}] = sum[T \ {Some(T)}]
        BY <2>3, <4>1
      <4> HIDE DEF more
      <4>3. QED
        BY <3>2, <4>2, Zenon DEF Added
    <3>3. QED
      BY <3>1, <3>2
  <2>5. more = [T \in Small(n + 1) |-> Added(f, more, T)]
    BY <2>4, Zenon
  <2> HIDE DEF more, Small
  <2>6. n + 1 \in Nat /\ \E m : m = [T \in Small(n + 1) |-> Added(f, m, T)]
    BY <2>5
  <2>7. QED
    BY <2>6
<1>4. Solved = Nat
  <2> HIDE DEF Small
  <2>1. Solved \in SUBSET Nat
    OBVIOUS
  <2> HIDE DEF Solved
  <2>2. QED
    BY <1>2, <1>3, <2>1, NumbersInduction
<1>5. Cardinality(S) \in Solved
  BY <1>4, FS_CardinalityType
<1>6. Small(Cardinality(S)) = SUBSET S
  BY <1>1
<1>7. QED
  BY <1>5, <1>6 DEF IsSum

\* SumOver is the sum over the whole set of such a function.
LEMMA SumUnfolds ==
  ASSUME NEW f, NEW S, IsFiniteSet(S)
  PROVE  \E sum : IsSum(f, S, sum) /\ SumOver(f, S) = sum[S]
<1> DEFINE sum == CHOOSE g : g = [T \in SUBSET S |-> Added(f, g, T)]
<1>1. SumOver(f, S) = sum[S]
  BY Zenon DEF SumOver, F!FoldFunctionOnSet, F!MapThenFoldSet, Added, Some
<1>2. sum = [T \in SUBSET S |-> Added(f, sum, T)]
  BY SumExists, Zenon DEF IsSum
<1>3. QED
  BY <1>1, <1>2, Zenon DEF IsSum

\* A sum depends on the values that it adds alone.
LEMMA SumsAgree ==
  ASSUME NEW f, NEW S, IsFiniteSet(S), NEW sum, IsSum(f, S, sum),
         NEW g, NEW T, NEW other, IsSum(g, T, other),
         NEW U \in SUBSET S, U \subseteq T, \A x \in U : f[x] = g[x]
  PROVE  sum[U] = other[U]
<1> DEFINE Good == {n \in Nat : \A V \in SUBSET U : Cardinality(V) = n => sum[V] = other[V]}
<1>1. \A V \in SUBSET U :
        /\ sum[V] = Added(f, sum, V) /\ other[V] = Added(g, other, V)
        /\ Cardinality(V) \in Nat
        /\ Cardinality(V) = 0 => V = {}
        /\ \A x \in V : Cardinality(V \ {x}) = Cardinality(V) - 1
  BY Parts DEF IsSum
<1>2. 0 \in Good
  <2> SUFFICES ASSUME NEW V \in SUBSET U, Cardinality(V) = 0 PROVE sum[V] = other[V]
    OBVIOUS
  <2>1. QED
    BY <1>1 DEF Added
<1>3. ASSUME NEW n \in Good PROVE n + 1 \in Good
  <2> SUFFICES ASSUME NEW V \in SUBSET U, Cardinality(V) = n + 1 PROVE sum[V] = other[V]
    OBVIOUS
  <2>1. CASE V = {}
    BY <1>1, <2>1 DEF Added
  <2>2. CASE V # {}
    <3> DEFINE W == V \ {Some(V)}
    <3>1. Some(V) \in V /\ f[Some(V)] = g[Some(V)]
      BY <2>2, SomeIsIn
    <3>2. W \in SUBSET U /\ Cardinality(W) = n
      BY <1>1, <3>1
    <3>3. sum[W] = other[W]
      BY <3>2
    <3>4. QED
      BY <1>1, <2>2, <3>1, <3>3 DEF Added
  <2>3. QED
    BY <2>1, <2>2
<1>4. Good = Nat
  <2>1. Good \in SUBSET Nat
    OBVIOUS
  <2> HIDE DEF Good
  <2>2. QED
    BY <1>2, <1>3, <2>1, NumbersInduction
<1>5. Cardinality(U) \in Good
  BY <1>1, <1>4
<1>6. QED
  BY <1>5

\* A sum of numbers is a number, and any member may be taken first.
LEMMA SumTakesAny ==
  ASSUME NEW f, NEW S, IsFiniteSet(S), NEW sum, IsSum(f, S, sum), \A x \in S : f[x] \in Nat
  PROVE  \A T \in SUBSET S :
           /\ sum[T] \in Nat
           /\ \A x \in T : sum[T] = f[x] + sum[T \ {x}]
<1> DEFINE Fine(T) == sum[T] \in Nat /\ \A x \in T : sum[T] = f[x] + sum[T \ {x}]
           Good == {n \in Nat : \A T \in SUBSET S : Cardinality(T) <= n => Fine(T)}
<1>1. \A T \in SUBSET S :
        /\ sum[T] = Added(f, sum, T)
        /\ Cardinality(T) \in Nat
        /\ Cardinality(T) = 0 => T = {}
        /\ \A x \in T : Cardinality(T \ {x}) = Cardinality(T) - 1
  BY Parts DEF IsSum
<1>2. Fine({})
  <2>1. {} \in SUBSET S
    OBVIOUS
  <2>2. sum[{}] = Added(f, sum, {})
    BY <1>1, <2>1
  <2>3. sum[{}] = 0
    BY <2>2, Zenon DEF Added
  <2>4. QED
    BY <2>3
<1>3. 0 \in Good
  <2> SUFFICES ASSUME NEW T \in SUBSET S, Cardinality(T) <= 0 PROVE Fine(T)
    OBVIOUS
  <2>1. T = {}
    BY <1>1
  <2>2. QED
    BY <1>2, <2>1, Zenon
<1>4. ASSUME NEW n \in Good PROVE n + 1 \in Good
  <2>1. n \in Nat /\ \A T \in SUBSET S : Cardinality(T) <= n => Fine(T)
    OBVIOUS
  <2> HIDE DEF Fine
  <2> SUFFICES ASSUME NEW T \in SUBSET S, Cardinality(T) <= n + 1, T # {} PROVE Fine(T)
    <3>1. \A T \in SUBSET S : Cardinality(T) <= n + 1 => Fine(T)
      BY <1>2, Zenon
    <3>2. QED
      BY <2>1, <3>1
  <2> DEFINE first == Some(T)
  <2>2. first \in T /\ sum[T] = f[first] + sum[T \ {first}]
    BY <1>1, SomeIsIn DEF Added
  <2> HIDE DEF first
  <2>3. \A x \in T : T \ {x} \in SUBSET S /\ Cardinality(T \ {x}) <= n
    BY <1>1, <2>1
  <2>4. \A x \in T : Fine(T \ {x})
    BY <2>1, <2>3
  <2>5. ASSUME NEW x \in T PROVE sum[T] = f[x] + sum[T \ {x}]
    <3>1. CASE x = first
      BY <2>2, <3>1
    <3>2. CASE x # first
      <4> DEFINE U == (T \ {first}) \ {x}
      <4>1. sum[T \ {first}] = f[x] + sum[U]
        BY <2>2, <2>4, <3>2 DEF Fine
      <4>2. (T \ {x}) \ {first} = U
        OBVIOUS
      <4>3. sum[T \ {x}] = f[first] + sum[U]
        BY <2>2, <2>4, <3>2, <4>2 DEF Fine
      <4>4. sum[U] \in Nat
        <5>1. U \in SUBSET S /\ U = (T \ {first}) \ {x}
          OBVIOUS
        <5>2. x \in T \ {first} /\ T \ {first} \in SUBSET S
          BY <3>2
        <5>3. Cardinality(U) = Cardinality(T \ {first}) - 1
          BY <1>1, <5>2
        <5>4. Cardinality(U) <= n
          BY <1>1, <2>1, <2>2, <2>3, <5>2, <5>3
        <5>5. QED
          BY <2>1, <5>1, <5>4 DEF Fine
      <4>5. f[x] \in Nat /\ f[first] \in Nat
        BY <2>2
      <4> HIDE DEF U
      <4>6. QED
        BY <2>2, <4>1, <4>3, <4>4, <4>5
    <3>3. QED
      BY <3>1, <3>2
  <2>6. sum[T] \in Nat
    <3>1. sum[T \ {first}] \in Nat /\ f[first] \in Nat
      BY <2>2, <2>4 DEF Fine
    <3>2. QED
      BY <2>2, <3>1
  <2>7. QED
    BY <2>5, <2>6 DEF Fine
<1> HIDE DEF Fine
<1>5. Good = Nat
  <2>1. Good \in SUBSET Nat
    OBVIOUS
  <2> HIDE DEF Good
  <2>2. QED
    BY <1>3, <1>4, <2>1, NumbersInduction
<1>6. \A T \in SUBSET S : Fine(T)
  BY <1>1, <1>5
<1>7. QED
  BY <1>6 DEF Fine

\* Nothing adds up to 0.
LEMMA SumOfNothing == \A f : SumOver(f, {}) = 0
<1> SUFFICES ASSUME NEW f PROVE SumOver(f, {}) = 0
  OBVIOUS
<1>1. PICK sum : IsSum(f, {}, sum) /\ SumOver(f, {}) = sum[{}]
  BY SumUnfolds, FS_EmptySet
<1>2. QED
  BY <1>1 DEF IsSum, Added

\* Natural numbers add up to one.
LEMMA SumIsNatural ==
  ASSUME NEW f, NEW S, IsFiniteSet(S), \A x \in S : f[x] \in Nat
  PROVE  SumOver(f, S) \in Nat
<1>1. PICK sum : IsSum(f, S, sum) /\ SumOver(f, S) = sum[S]
  BY SumUnfolds
<1>2. QED
  BY <1>1, SumTakesAny

\* One member more adds its value.
Extended(S, x, f, g) ==
  /\ IsFiniteSet(S) /\ x \notin S
  /\ \A y \in S : f[y] = g[y]
  /\ \A y \in S \cup {x} : g[y] \in Nat

\* A sum over one member more is larger by what the member adds.
LEMMA SumGrows ==
  ASSUME NEW S, NEW x, NEW f, NEW g, Extended(S, x, f, g)
  PROVE  SumOver(g, S \cup {x}) = SumOver(f, S) + g[x]
<1> SUFFICES ASSUME IsFiniteSet(S), x \notin S, \A y \in S : f[y] = g[y],
                    \A y \in S \cup {x} : g[y] \in Nat
             PROVE  SumOver(g, S \cup {x}) = SumOver(f, S) + g[x]
  BY DEF Extended
<1>1. PICK sum : IsSum(f, S, sum) /\ SumOver(f, S) = sum[S]
  BY SumUnfolds
<1>2. IsFiniteSet(S \cup {x})
  BY FS_AddElement
<1>3. PICK more : IsSum(g, S \cup {x}, more) /\ SumOver(g, S \cup {x}) = more[S \cup {x}]
  BY <1>2, SumUnfolds
<1>4. sum[S] = more[S]
  <2>1. S \in SUBSET S /\ S \subseteq S \cup {x}
    OBVIOUS
  <2>2. QED
    BY <1>1, <1>3, <2>1, SumsAgree
<1>5. (S \cup {x}) \ {x} = S
  OBVIOUS
<1>6. more[S \cup {x}] = g[x] + more[S] /\ more[S] \in Nat /\ g[x] \in Nat
  <2> DEFINE U == S \cup {x}
  <2>1. S \in SUBSET U /\ U \in SUBSET U /\ x \in U
    OBVIOUS
  <2>2. \A T \in SUBSET U :
          /\ more[T] \in Nat
          /\ \A y \in T : more[T] = g[y] + more[T \ {y}]
    BY <1>2, <1>3, SumTakesAny
  <2>3. QED
    BY <1>5, <2>1, <2>2
<1>7. QED
  BY <1>1, <1>3, <1>4, <1>6

-----------------------------------------------------------------------------
(* The order of ids, and of records by their scores                        *)

\* The order of the ids has each record once.
LEMMA OrderIsTotal ==
  LET n == Cardinality(Records) IN
  /\ n \in Nat /\ Order \in [1..n -> Records]
  /\ \A r \in Records : \E i \in 1..n : Order[i] = r
  /\ \A i, j \in 1..n : Order[i] = Order[j] => i = j
<1> DEFINE n == Cardinality(Records)
<1>1. n \in Nat /\ Surjection(1..n, Records) # {}
  BY AuditAssumption, FS_CardinalityType DEF ExistsBijection, Bijection
<1>2. PICK q \in [1..n -> Records] : \A r \in Records : \E i \in 1..n : q[i] = r
  BY <1>1 DEF Surjection
<1>3. /\ Order \in [1..n -> Records]
      /\ \A r \in Records : \E i \in 1..n : Order[i] = r
  BY <1>2, Zenon DEF Order, Listed
<1>4. IsFiniteSet(1..n) /\ Cardinality(1..n) = n
  <2>1. 1 \in Int /\ n \in Int
    BY <1>1
  <2>2. QED
    BY <1>1, <2>1, FS_Interval
<1>5. Order \in Surjection(1..n, Records)
  BY <1>3 DEF Surjection
<1>6. Order \in Injection(1..n, Records)
  BY <1>4, <1>5, FS_SurjSameCardinalityImpliesInj
<1>7. QED
  BY <1>1, <1>3, <1>6 DEF Injection, IsInjective

\* Each record has its place in the order.
LEMMA Positions ==
  \E at \in [Records -> Nat] :
    \A r, t \in Records : /\ at[r] = at[t] => r = t
                          /\ Before(r, t) <=> at[r] < at[t]
<1> DEFINE n == Cardinality(Records)
           at == [r \in Records |-> CHOOSE i \in 1..n : Order[i] = r]
<1>1. \A r \in Records : at[r] \in 1..n /\ Order[at[r]] = r
  BY OrderIsTotal
<1>2. DOMAIN Order = 1..n /\ n \in Nat
  BY OrderIsTotal
<1>3. at \in [Records -> 1..n]
  BY <1>1
<1> HIDE DEF at, n
<1>9. at \in [Records -> Nat]
  <2>1. \A i \in 1..n : i \in Nat
    BY <1>2
  <2>2. QED
    BY <1>3, <2>1
<1>4. ASSUME NEW r \in Records, NEW t \in Records PROVE Before(r, t) <=> at[r] < at[t]
  <2>1. ASSUME Before(r, t) PROVE at[r] < at[t]
    <3>1. PICK i, j \in 1..n : i < j /\ Order[i] = r /\ Order[j] = t
      BY <1>2, <2>1 DEF Before
    <3>2. at[r] = i /\ at[t] = j
      BY <1>1, <3>1, OrderIsTotal DEF n
    <3>3. QED
      BY <3>1, <3>2
  <2>2. ASSUME at[r] < at[t] PROVE Before(r, t)
    BY <1>1, <1>2, <2>2 DEF Before
  <2>3. QED
    BY <2>1, <2>2
<1>5. \A r, t \in Records : at[r] = at[t] => r = t
  BY <1>1
<1>6. QED
  BY <1>4, <1>5, <1>9

\* Of any two records, one is ahead.
LEMMA AheadIsTotal ==
  ASSUME NEW D \in SUBSET Records, NEW scores \in [D -> Int]
  PROVE  /\ \A r \in D : ~Ahead(scores, r, r)
         /\ \A r, t \in D : r = t \/ Ahead(scores, r, t) \/ Ahead(scores, t, r)
         /\ \A r, t, u \in D : Ahead(scores, r, t) /\ Ahead(scores, t, u) => Ahead(scores, r, u)
<1>1. PICK at \in [Records -> Nat] :
        \A r, t \in Records : /\ at[r] = at[t] => r = t
                              /\ Before(r, t) <=> at[r] < at[t]
  BY Positions
<1>2. \A r, t \in D : Ahead(scores, r, t) <=>
                        scores[r] > scores[t] \/ (scores[r] = scores[t] /\ at[r] < at[t])
  BY <1>1 DEF Ahead
<1>3. \A r \in D : scores[r] \in Int /\ at[r] \in Nat
  BY <1>1
<1>4. \A r, t \in D : at[r] = at[t] => r = t
  BY <1>1
<1>5. QED
  BY <1>2, <1>3, <1>4

\* What is ranked is each record once, in order.
IsRanking(scores, D, ranked) ==
  /\ ranked \in [1..Cardinality(D) -> D]
  /\ \A i, j \in 1..Cardinality(D) : i < j => Ahead(scores, ranked[i], ranked[j])

\* Records with scores can be ranked: each has its place by how many are ahead.
LEMMA RankingExists ==
  ASSUME NEW D \in SUBSET Records, NEW scores \in [D -> Int]
  PROVE  \E ranked : IsRanking(scores, D, ranked)
<1> DEFINE n == Cardinality(D)
           Ahead1(r) == {t \in D : Ahead(scores, t, r)}
           rank == [r \in D |-> Cardinality(Ahead1(r)) + 1]
           ranked == [i \in 1..n |-> CHOOSE r \in D : rank[r] = i]
<1>1. IsFiniteSet(D) /\ n \in Nat
  BY AuditAssumption, Parts
<1>2. \A r \in D : Cardinality(Ahead1(r)) \in Nat /\ Cardinality(Ahead1(r)) < n
  <2> SUFFICES ASSUME NEW r \in D
               PROVE  Cardinality(Ahead1(r)) \in Nat /\ Cardinality(Ahead1(r)) < n
    OBVIOUS
  <2>1. Ahead1(r) \in SUBSET D /\ r \notin Ahead1(r)
    BY AheadIsTotal
  <2> HIDE DEF Ahead1
  <2>2. /\ Cardinality(Ahead1(r)) \in Nat /\ Cardinality(Ahead1(r)) <= n
        /\ Cardinality(D) = Cardinality(Ahead1(r)) => D = Ahead1(r)
    BY <1>1, <2>1, Parts, FS_Subset
  <2>3. QED
    BY <1>1, <2>1, <2>2
<1>3. \A r, t \in D : Ahead(scores, r, t) => rank[r] < rank[t]
  <2> SUFFICES ASSUME NEW r \in D, NEW t \in D, Ahead(scores, r, t) PROVE rank[r] < rank[t]
    OBVIOUS
  <2>1. Ahead1(r) \in SUBSET Ahead1(t) /\ r \in Ahead1(t) /\ r \notin Ahead1(r)
    BY AheadIsTotal
  <2>2. Ahead1(t) \in SUBSET D
    OBVIOUS
  <2>3. IsFiniteSet(Ahead1(t))
    BY <1>1, <2>2, FS_Subset
  <2>4. /\ Cardinality(Ahead1(r)) <= Cardinality(Ahead1(t))
        /\ Cardinality(Ahead1(t)) = Cardinality(Ahead1(r)) => Ahead1(t) = Ahead1(r)
    BY <2>1, <2>3, FS_Subset
  <2>5. Cardinality(Ahead1(t)) # Cardinality(Ahead1(r))
    BY <2>1, <2>4
  <2> DEFINE a == Cardinality(Ahead1(r)) b == Cardinality(Ahead1(t))
  <2>6. rank[r] = a + 1 /\ rank[t] = b + 1 /\ a \in Nat /\ b \in Nat /\ a <= b /\ a # b
    BY <1>2, <2>4, <2>5
  <2> HIDE DEF a, b, rank
  <2>7. QED
    BY <2>6
<1>4. rank \in Injection(D, 1..n)
  <2>1. ASSUME NEW r \in D PROVE rank[r] \in 1..n
    <3> DEFINE a == Cardinality(Ahead1(r))
    <3>1. a \in Nat /\ a < n /\ rank[r] = a + 1
      BY <1>2
    <3> HIDE DEF a, rank
    <3>2. QED
      BY <1>1, <3>1
  <2>2. ASSUME NEW r \in D, NEW t \in D, rank[r] = rank[t] PROVE r = t
    <3>1. rank[r] \in Nat
      BY <2>1, <1>1
    <3> HIDE DEF rank
    <3>2. ~(rank[r] < rank[t]) /\ ~(rank[t] < rank[r])
      BY <3>1, <2>2
    <3>3. QED
      BY <1>3, <3>2, AheadIsTotal
  <2>3. rank \in [D -> 1..n]
    BY <2>1
  <2> HIDE DEF rank
  <2>4. QED
    BY <2>2, <2>3 DEF Injection, IsInjective
<1>5. IsFiniteSet(1..n) /\ Cardinality(1..n) = n
  <2>1. 1 \in Int /\ n \in Int
    BY <1>1
  <2>2. QED
    BY <1>1, <2>1, FS_Interval
<1>6. rank \in Surjection(D, 1..n)
  <2> HIDE DEF rank
  <2>1. QED
    BY <1>4, <1>5, FS_Injection
<1> HIDE DEF rank
<1>7. \A i \in 1..n : ranked[i] \in D /\ rank[ranked[i]] = i
  BY <1>6 DEF Surjection
<1>8. ASSUME NEW i \in 1..n, NEW j \in 1..n, i < j PROVE Ahead(scores, ranked[i], ranked[j])
  <2>1. ~(rank[ranked[j]] < rank[ranked[i]]) /\ rank[ranked[i]] # rank[ranked[j]]
    BY <1>7, <1>8
  <2>2. ranked[i] \in D /\ ranked[j] \in D
    BY <1>7
  <2> HIDE DEF ranked
  <2>3. QED
    BY <1>3, <2>1, <2>2, AheadIsTotal
<1>9. ranked \in [1..n -> D]
  BY <1>7
<1> HIDE DEF ranked
<1>10. IsRanking(scores, D, ranked)
  BY <1>8, <1>9 DEF IsRanking
<1>11. QED
  BY <1>10

\* Ranked ranks every record that has a score.
LEMMA RankedIs ==
  ASSUME NEW D \in SUBSET Records, NEW scores \in [D -> Int]
  PROVE  /\ Cardinality(D) \in Nat
         /\ IsRanking(scores, D, Ranked(scores))
         /\ \A r \in D : \E i \in 1..Cardinality(D) : Ranked(scores)[i] = r
<1> DEFINE n == Cardinality(D)
           ranked == Ranked(scores)
<1>1. IsFiniteSet(D) /\ n \in Nat
  BY AuditAssumption, Parts
<1>2. PICK some : IsRanking(scores, D, some)
  BY RankingExists
<1>3. DOMAIN scores = D
  OBVIOUS
<1>4. \E q \in [1..n -> D] : \A i, j \in DOMAIN q : i < j => Ahead(scores, q[i], q[j])
  BY <1>2 DEF IsRanking
<1>5. /\ ranked \in [1..n -> D]
      /\ \A i, j \in DOMAIN ranked : i < j => Ahead(scores, ranked[i], ranked[j])
  BY <1>3, <1>4, Zenon DEF Ranked
<1>6. IsRanking(scores, D, ranked)
  BY <1>5 DEF IsRanking
<1> HIDE DEF ranked
<1>7. ranked \in Injection(1..n, D)
  <2>1. ASSUME NEW i \in 1..n, NEW j \in 1..n, ranked[i] = ranked[j] PROVE i = j
    <3>1. ~(i < j) /\ ~(j < i)
      BY <1>6, <2>1, AheadIsTotal DEF IsRanking
    <3>2. QED
      BY <1>1, <3>1
  <2>2. QED
    BY <1>5, <2>1 DEF Injection, IsInjective
<1>8. IsFiniteSet(1..n) /\ Cardinality(1..n) = n
  <2>1. 1 \in Int /\ n \in Int
    BY <1>1
  <2>2. QED
    BY <1>1, <2>1, FS_Interval
<1>9. ranked \in Surjection(1..n, D)
  BY <1>1, <1>7, <1>8, FS_Injection
<1>10. QED
  BY <1>1, <1>6, <1>9 DEF Surjection, ranked

-----------------------------------------------------------------------------
(* What is computed step by step                                           *)

\* Induction over the numbers up to a bound.
LEMMA UpTo ==
  ASSUME NEW d \in Nat, NEW S, 0 \in S, \A n \in Nat : n < d /\ n \in S => n + 1 \in S
  PROVE  0..d \subseteq S
<1> DEFINE Good == {n \in Nat : n <= d => n \in S}
<1>1. Good \in SUBSET Nat /\ 0 \in Good
  OBVIOUS
<1>2. \A n \in Good : n + 1 \in Good
  OBVIOUS
<1>3. Good = Nat
  <2> HIDE DEF Good
  <2>1. QED
    BY <1>1, <1>2, NumbersInduction
<1>4. QED
  BY <1>3

\* d steps in X, each by its own function: there is a function of where they lead.
MayStep(d, X, first, next) == d \in Nat /\ first \in X /\ next \in [1..d -> [X -> X]]
Steps(d, X, first, next, g) ==
  /\ g \in [0..d -> X]
  /\ g[0] = first /\ \A i \in 1..d : g[i] = next[i][g[i - 1]]

\* Whatever the steps are, there is such a function.
LEMMA StepsExist ==
  ASSUME NEW d, NEW X, NEW first, NEW next, MayStep(d, X, first, next)
  PROVE  \E g : Steps(d, X, first, next, g)
<1>0. d \in Nat /\ first \in X /\ next \in [1..d -> [X -> X]]
  BY DEF MayStep
<1> DEFINE Good == {n \in Nat : \E g \in [0..n -> X] :
                      g[0] = first /\ \A i \in 1..n : g[i] = next[i][g[i - 1]]}
<1>1. 0 \in Good
  <2> DEFINE g == [i \in 0..0 |-> first]
  <2>1. g \in [0..0 -> X] /\ g[0] = first /\ 1..0 = {}
    BY <1>0
  <2>2. QED
    BY <2>1
<1>2. ASSUME NEW n \in Nat, n < d, n \in Good PROVE n + 1 \in Good
  <2>1. PICK g \in [0..n -> X] : g[0] = first /\ \A i \in 1..n : g[i] = next[i][g[i - 1]]
    BY <1>2
  <2> DEFINE more == [i \in 0..(n + 1) |-> IF i = n + 1 THEN next[n + 1][g[n]] ELSE g[i]]
  <2>2. next[n + 1][g[n]] \in X
    <3>1. n + 1 \in 1..d /\ n \in 0..n
      BY <1>0, <1>2
    <3>2. QED
      BY <1>0, <2>1, <3>1
  <2>3. more \in [0..(n + 1) -> X]
    BY <2>2
  <2>4. more[0] = first /\ \A i \in 0..n : more[i] = g[i]
    BY <2>1
  <2>5. more[n + 1] = next[n + 1][more[n]]
    BY <2>4
  <2> HIDE DEF more
  <2>6. ASSUME NEW i \in 1..(n + 1) PROVE more[i] = next[i][more[i - 1]]
    <3>1. CASE i = n + 1
      BY <2>5, <3>1
    <3>2. CASE i # n + 1
      <4>1. i \in 1..n /\ i \in 0..n /\ i - 1 \in 0..n
        BY <3>2
      <4>2. QED
        BY <2>1, <2>4, <4>1
    <3>3. QED
      BY <3>1, <3>2
  <2>7. QED
    BY <2>3, <2>4, <2>6
<1>3. 0..d \subseteq Good
  <2> HIDE DEF Good
  <2>1. QED
    BY <1>0, <1>1, <1>2, UpTo
<1>4. d \in 0..d
  BY <1>0
<1>5. QED
  BY <1>3, <1>4 DEF Steps

-----------------------------------------------------------------------------
(* Scores                                                                  *)

\* The score of a direct match is a number.
LEMMA PointsAreNumbers ==
  ASSUME NEW v \in Values, NEW q \in Queries
  PROVE  DirectScore(v, q) \in Int
<1>1. Text[v] \in TextType /\ q.terms \in SUBSET Terms /\ q.objective \in Objectives
  BY CompilerAssumption DEF QueryType
<1>2. IsFiniteSet(QueryTerms(q))
  <2>1. QueryTerms(q) \in SUBSET Terms
    BY <1>1, CompilerAssumption DEF QueryTerms
  <2>2. QED
    BY <2>1, CompilerAssumption, FS_Subset
<1>3. StatusPoints(Data[v]) \in Int
  <2>1. \A x \in DOMAIN StatusScore : StatusScore[x] \in Int
    BY DEF StatusScore
  <2>2. QED
    BY <2>1 DEF StatusPoints
<1>4. SumOver([t \in QueryTerms(q) |-> Weight(Text[v], t)], QueryTerms(q)) \in Nat
  <2>1. \A t \in QueryTerms(q) : Weight(Text[v], t) \in Nat
    BY DEF Weight
  <2> DEFINE w == [t \in QueryTerms(q) |-> Weight(Text[v], t)]
  <2>2. \A t \in QueryTerms(q) : w[t] \in Nat
    BY <2>1
  <2> HIDE DEF w
  <2>3. SumOver(w, QueryTerms(q)) \in Nat
    BY <1>2, <2>2, SumIsNatural
  <2>4. QED
    BY <2>3 DEF w
<1>5. QED
  BY <1>3, <1>4 DEF DirectScore

\* The records at the end of a path of n links, and of at most n.
OnPath(s, q, n) ==
  {t \in Eligible(s, q) :
     \E path \in [0..n -> Eligible(s, q)] :
       /\ Matches(s[path[0]], q) /\ path[n] = t
       /\ \A i \in 1..n : Related(s, path[i - 1], path[i])}
Reach(s, q, n) == UNION {OnPath(s, q, k) : k \in 0..n}

\* What Within asks for is what paths of up to depth links reach.
LEMMA WithinIsReach ==
  ASSUME NEW s \in Stores, NEW q \in Queries PROVE Within(s, q) = Reach(s, q, q.depth)
<1> DEFINE X == Eligible(s, q)
           links == {l \in X \X X : Related(s, l[1], l[2])}
<1>1. q.depth \in Nat
  BY CompilerAssumption DEF QueryType
<1>2. \A n \in Nat : \A path \in [0..n -> X] : \A i \in 1..n :
        <<path[i - 1], path[i]>> \in links <=> Related(s, path[i - 1], path[i])
  <2> SUFFICES ASSUME NEW n \in Nat, NEW path \in [0..n -> X], NEW i \in 1..n
               PROVE  <<path[i - 1], path[i]>> \in links <=> Related(s, path[i - 1], path[i])
    OBVIOUS
  <2>1. path[i - 1] \in X /\ path[i] \in X
    OBVIOUS
  <2> HIDE DEF X
  <2>2. QED
    BY <2>1
<1>3. ASSUME NEW t \in X, NEW n \in 0..q.depth
      PROVE  (\E path \in [0..n -> X] : /\ Matches(s[path[0]], q) /\ path[n] = t
                                       /\ \A i \in 1..n : <<path[i - 1], path[i]>> \in links)
             <=> t \in OnPath(s, q, n)
  <2>1. n \in Nat
    BY <1>1
  <2>2. QED
    BY <1>2, <2>1, Zenon DEF OnPath
<1>4. Within(s, q) = {t \in X : \E n \in 0..q.depth : \E path \in [0..n -> X] :
                        /\ Matches(s[path[0]], q) /\ path[n] = t
                        /\ \A i \in 1..n : <<path[i - 1], path[i]>> \in links}
  BY Zenon DEF Within
<1>5. \A n : OnPath(s, q, n) \subseteq X
  BY DEF OnPath
<1> HIDE DEF X, links
<1>6. QED
  BY <1>3, <1>4, <1>5 DEF Reach

\* A path of no links ends where it begins, at a direct match.
LEMMA PathsBegin ==
  ASSUME NEW s, NEW q
  PROVE  OnPath(s, q, 0) = {r \in Eligible(s, q) : Matches(s[r], q)}
<1> DEFINE X == Eligible(s, q)
<1> HIDE DEF X
<1>1. ASSUME NEW t \in X, Matches(s[t], q) PROVE t \in OnPath(s, q, 0)
  <2> DEFINE path == [i \in 0..0 |-> t]
  <2>1. path \in [0..0 -> X] /\ path[0] = t /\ 1..0 = {}
    OBVIOUS
  <2> HIDE DEF path
  <2>2. QED
    BY <1>1, <2>1, Zenon DEF OnPath, X
<1>2. ASSUME NEW t \in OnPath(s, q, 0) PROVE t \in X /\ Matches(s[t], q)
  BY Zenon DEF OnPath, X
<1>3. QED
  BY <1>1, <1>2 DEF X

\* A path is one link longer than another.
LEMMA PathsGrow ==
  ASSUME NEW s, NEW q, NEW n \in Nat
  PROVE  OnPath(s, q, n + 1) =
           {t \in Eligible(s, q) : \E r \in OnPath(s, q, n) : Related(s, r, t)}
<1> DEFINE X == Eligible(s, q)
           Along(path, m) == \A i \in 1..m : Related(s, path[i - 1], path[i])
<1>1. \A m \in Nat : OnPath(s, q, m) =
        {t \in X : \E path \in [0..m -> X] : Matches(s[path[0]], q) /\ path[m] = t /\ Along(path, m)}
  BY DEF OnPath
<1> HIDE DEF X
<1>2. ASSUME NEW t \in OnPath(s, q, n + 1)
      PROVE  t \in X /\ \E r \in OnPath(s, q, n) : Related(s, r, t)
  <2>1. PICK path \in [0..(n + 1) -> X] :
          Matches(s[path[0]], q) /\ path[n + 1] = t /\ Along(path, n + 1)
    <3>1. n + 1 \in Nat
      OBVIOUS
    <3>2. QED
      BY <1>1, <1>2, <3>1
  <2> DEFINE short == [i \in 0..n |-> path[i]]
  <2>2. short \in [0..n -> X] /\ \A i \in 0..n : short[i] = path[i]
    OBVIOUS
  <2> HIDE DEF short
  <2>3. short[0] = path[0] /\ short[n] = path[n] /\ short[n] \in X
    BY <2>2
  <2>4. Along(short, n)
    <3> SUFFICES ASSUME NEW i \in 1..n PROVE Related(s, short[i - 1], short[i])
      OBVIOUS
    <3>1. i - 1 \in 0..n /\ i \in 0..n /\ i \in 1..(n + 1)
      OBVIOUS
    <3>2. Related(s, path[i - 1], path[i])
      BY <2>1, <3>1
    <3>3. QED
      BY <2>2, <3>1, <3>2
  <2>5. Related(s, short[n], t)
    <3>1. n + 1 \in 1..(n + 1) /\ (n + 1) - 1 = n
      OBVIOUS
    <3>2. Related(s, path[n], path[n + 1])
      BY <2>1, <3>1
    <3>3. QED
      BY <2>1, <2>3, <3>2
  <2> HIDE DEF Along
  <2>6. short[n] \in OnPath(s, q, n)
    BY <1>1, <2>1, <2>2, <2>3, <2>4
  <2>7. t \in X
    BY <1>2 DEF OnPath, X
  <2>8. QED
    BY <2>5, <2>6, <2>7
<1>3. ASSUME NEW t \in X, NEW r \in OnPath(s, q, n), Related(s, r, t)
      PROVE  t \in OnPath(s, q, n + 1)
  <2>1. PICK path \in [0..n -> X] : Matches(s[path[0]], q) /\ path[n] = r /\ Along(path, n)
    BY <1>1
  <2> DEFINE long == [i \in 0..(n + 1) |-> IF i = n + 1 THEN t ELSE path[i]]
  <2>2. /\ long \in [0..(n + 1) -> X] /\ \A i \in 0..n : long[i] = path[i]
        /\ long[n + 1] = t
    OBVIOUS
  <2> HIDE DEF long
  <2>3. long[0] = path[0] /\ long[n] = r
    BY <2>1, <2>2
  <2>4. Along(long, n + 1)
    <3> SUFFICES ASSUME NEW i \in 1..(n + 1) PROVE Related(s, long[i - 1], long[i])
      OBVIOUS
    <3>1. CASE i = n + 1
      BY <1>3, <2>2, <2>3, <3>1
    <3>2. CASE i # n + 1
      <4>1. i - 1 \in 0..n /\ i \in 0..n /\ i \in 1..n
        BY <3>2
      <4>2. Related(s, path[i - 1], path[i])
        BY <2>1, <4>1
      <4>3. QED
        BY <2>2, <4>1, <4>2
    <3>3. QED
      BY <3>1, <3>2
  <2> HIDE DEF Along
  <2>5. n + 1 \in Nat
    OBVIOUS
  <2>6. QED
    BY <1>1, <2>1, <2>2, <2>3, <2>4, <2>5
<1>4. QED
  BY <1>2, <1>3 DEF X

\* What is within one link more is what was, and the ends of the longer paths.
LEMMA ReachGrows ==
  ASSUME NEW s, NEW q, NEW n \in Nat
  PROVE  /\ Reach(s, q, 0) = OnPath(s, q, 0)
         /\ Reach(s, q, n + 1) = Reach(s, q, n) \cup OnPath(s, q, n + 1)
         /\ OnPath(s, q, n) \subseteq Reach(s, q, n)
         /\ Reach(s, q, n) \subseteq Eligible(s, q)
         /\ \A r \in Reach(s, q, n) : \E k \in 0..n : r \in OnPath(s, q, k)
         /\ \A k \in 0..n : OnPath(s, q, k) \subseteq Reach(s, q, n)
<1>1. 0..0 = {0} /\ 0..(n + 1) = 0..n \cup {n + 1} /\ n \in 0..n
  OBVIOUS
<1>2. \A k : OnPath(s, q, k) \subseteq Eligible(s, q)
  BY DEF OnPath
<1>3. QED
  BY <1>1, <1>2, Zenon DEF Reach

\* What is found so far, and where the search goes on.
Searches(s, q) ==
  {e \in [frontier : SUBSET Eligible(s, q),
          scores : UNION {[D -> Int] : D \in SUBSET Eligible(s, q)}] :
     e.frontier \subseteq DOMAIN e.scores}

\* An eligible record is present and has a value.
LEMMA EligibleIs ==
  ASSUME NEW s \in Stores, NEW q
  PROVE  \A r \in Eligible(s, q) : r \in Present(s) /\ r \in Records /\ s[r] \in Values
  BY DEF Eligible, Present, Stores, Contents

\* The search begins with the direct matches.
LEMMA DirectIs ==
  ASSUME NEW s \in Stores, NEW q \in Queries
  PROVE  /\ Direct(s, q) \in Searches(s, q)
         /\ DOMAIN Direct(s, q).scores = OnPath(s, q, 0)
         /\ Direct(s, q).frontier = OnPath(s, q, 0)
<1> DEFINE hits == {r \in Eligible(s, q) : Matches(s[r], q)}
           points == [r \in hits |-> DirectScore(s[r], q)]
<1>1. hits \in SUBSET Eligible(s, q)
  OBVIOUS
<1>2. \A r \in hits : DirectScore(s[r], q) \in Int
  BY EligibleIs, PointsAreNumbers
<1>3. Direct(s, q) = [frontier |-> hits, scores |-> points] /\ hits = OnPath(s, q, 0)
  BY PathsBegin DEF Direct
<1> HIDE DEF hits
<1>4. points \in [hits -> Int] /\ DOMAIN points = hits
  BY <1>2
<1> HIDE DEF points
<1>5. points \in UNION {[D -> Int] : D \in SUBSET Eligible(s, q)}
  BY <1>1, <1>4
<1>6. QED
  BY <1>1, <1>3, <1>4, <1>5 DEF Searches

\* The record that a score is taken from is in the frontier.
LEMMA SourceExists ==
  ASSUME NEW s, NEW Fr \in SUBSET Records, NEW t, \E r \in Fr : Related(s, r, t)
  PROVE  \E r \in Fr : Related(s, r, t) /\ \A u \in Fr : Related(s, u, t) => ~Before(u, r)
<1>1. PICK at \in [Records -> Nat] :
        \A r, u \in Records : /\ at[r] = at[u] => r = u
                              /\ Before(r, u) <=> at[r] < at[u]
  BY Positions
<1> DEFINE places == {at[r] : r \in {u \in Fr : Related(s, u, t)}}
<1>2. places \in SUBSET Nat /\ places # {}
  BY <1>1
<1>3. PICK x \in places : \A y \in places : x <= y
  BY <1>2, LeastNumber
<1>4. PICK r \in Fr : Related(s, r, t) /\ at[r] = x
  OBVIOUS
<1>5. ASSUME NEW u \in Fr, Related(s, u, t) PROVE ~Before(u, r)
  <2>1. x <= at[u] /\ at[u] \in Nat /\ x \in Nat
    BY <1>1, <1>3, <1>5
  <2>2. ~(at[u] < at[r])
    BY <1>4, <2>1
  <2>3. QED
    BY <1>1, <2>2
<1>6. QED
  BY <1>4, <1>5

Found(s, q, e) ==
  {t \in Eligible(s, q) \ DOMAIN e.scores : \E r \in e.frontier : Related(s, r, t)}

\* A step of the search scores what it finds and goes on from there.
LEMMA WidenIs ==
  ASSUME NEW s \in Stores, NEW q \in Queries, NEW e \in Searches(s, q)
  PROVE  /\ Widen(s, q, e) \in Searches(s, q)
         /\ Widen(s, q, e).frontier = Found(s, q, e)
         /\ DOMAIN Widen(s, q, e).scores = DOMAIN e.scores \cup Found(s, q, e)
<1> DEFINE found == Found(s, q, e)
           source(t) == CHOOSE r \in e.frontier :
                          /\ Related(s, r, t)
                          /\ \A u \in e.frontier : Related(s, u, t) => ~Before(u, r)
           points == [t \in DOMAIN e.scores \cup found |->
                        IF t \in found THEN Larger(1, e.scores[source(t)] - 20) ELSE e.scores[t]]
<1>1. Widen(s, q, e) = [frontier |-> found, scores |-> points]
  BY Zenon DEF Widen, Found
<1>2. e.frontier \in SUBSET Records /\ e.frontier \subseteq DOMAIN e.scores
  BY EligibleIs DEF Searches
<1>3. DOMAIN e.scores \in SUBSET Eligible(s, q) /\ \A r \in DOMAIN e.scores : e.scores[r] \in Int
  <2>1. PICK D \in SUBSET Eligible(s, q) : e.scores \in [D -> Int]
    BY DEF Searches
  <2>2. QED
    BY <2>1
<1>4. found \in SUBSET Eligible(s, q) /\ \A t \in found : \E r \in e.frontier : Related(s, r, t)
  BY DEF Found
<1>5. \A t \in found : source(t) \in e.frontier
  <2> SUFFICES ASSUME NEW t \in found PROVE source(t) \in e.frontier
    OBVIOUS
  <2>1. \E r \in e.frontier : /\ Related(s, r, t)
                              /\ \A u \in e.frontier : Related(s, u, t) => ~Before(u, r)
    BY <1>2, <1>4, SourceExists
  <2>2. QED
    BY <2>1
<1> HIDE DEF source
<1>6. \A t \in found : Larger(1, e.scores[source(t)] - 20) \in Int
  BY <1>2, <1>3, <1>5 DEF Larger
<1> HIDE DEF found
<1>7. points \in [DOMAIN e.scores \cup found -> Int]
  BY <1>3, <1>6
<1> HIDE DEF points
<1>8. DOMAIN points = DOMAIN e.scores \cup found
  BY <1>7
<1>9. points \in UNION {[D -> Int] : D \in SUBSET Eligible(s, q)}
  BY <1>3, <1>4, <1>7
<1>10. QED
  BY <1>1, <1>4, <1>8, <1>9 DEF Searches, found

\* What the search does: each step is in Searches, and finds what is one link
\* further.
LEMMA ScoresUnfold ==
  ASSUME NEW s \in Stores, NEW q \in Queries
  PROVE  \E after : /\ Scores(s, q) = after[q.depth].scores
                    /\ after[0] = Direct(s, q)
                    /\ \A i \in 1..q.depth : after[i] = Widen(s, q, after[i - 1])
<1> DEFINE d == q.depth
           X == Searches(s, q)
           next == [i \in 1..d |-> [e \in X |-> Widen(s, q, e)]]
           after == CHOOSE f : f = [n \in 0..d |-> IF n = 0 THEN Direct(s, q)
                                                            ELSE Widen(s, q, f[n - 1])]
<1>1. d \in Nat
  BY CompilerAssumption DEF QueryType
<1>2. \E f : f = [n \in 0..d |-> IF n = 0 THEN Direct(s, q) ELSE Widen(s, q, f[n - 1])]
  <2>1. \A e \in X : Widen(s, q, e) \in X
    BY WidenIs
  <2>2. Direct(s, q) \in X
    BY DirectIs
  <2>3. next \in [1..d -> [X -> X]]
    BY <2>1
  <2> HIDE DEF next
  <2>4. PICK g : Steps(d, X, Direct(s, q), next, g)
    <3>1. MayStep(d, X, Direct(s, q), next)
      BY <1>1, <2>2, <2>3 DEF MayStep
    <3>2. QED
      BY <3>1, StepsExist, Zenon
  <2>5. ASSUME NEW i \in 1..d PROVE g[i] = Widen(s, q, g[i - 1])
    <3>1. i - 1 \in 0..d
      BY <1>1
    <3>2. g[i - 1] \in X
      BY <2>4, <3>1 DEF Steps
    <3>3. QED
      BY <2>4, <3>2 DEF Steps, next
  <2>6. ASSUME NEW n \in 0..d
        PROVE  g[n] = IF n = 0 THEN Direct(s, q) ELSE Widen(s, q, g[n - 1])
    <3>1. n # 0 => n \in 1..d
      BY <1>1
    <3>2. QED
      BY <2>4, <2>5, <3>1, Zenon DEF Steps
  <2>7. g = [n \in 0..d |-> g[n]]
    BY <2>4 DEF Steps
  <2>8. g = [n \in 0..d |-> IF n = 0 THEN Direct(s, q) ELSE Widen(s, q, g[n - 1])]
    BY <2>6, <2>7, Zenon
  <2>9. QED
    BY <2>8, Zenon
<1>3. after = [n \in 0..d |-> IF n = 0 THEN Direct(s, q) ELSE Widen(s, q, after[n - 1])]
  BY <1>2, Zenon
<1>4. Scores(s, q) = after[d].scores
  BY Zenon DEF Scores
<1> HIDE DEF after, d
<1>5. 0 \in 0..d /\ \A i \in 1..d : i \in 0..d /\ i # 0
  BY <1>1
<1>6. after[0] = Direct(s, q) /\ \A i \in 1..d : after[i] = Widen(s, q, after[i - 1])
  BY <1>3, <1>5, Zenon
<1>7. QED
  BY <1>4, <1>6 DEF d

\* A search has found what is within its number of links, and has left nothing
\* behind the frontier.
Searched(s, q, n, e) ==
  /\ e \in Searches(s, q)
  /\ DOMAIN e.scores = Reach(s, q, n)
  /\ \A r \in Reach(s, q, n) \ e.frontier : \A t \in Eligible(s, q) :
       Related(s, r, t) => t \in Reach(s, q, n)

\* A step of the search finds all that is one link further, and no more.
LEMMA WidenSearches ==
  ASSUME NEW s \in Stores, NEW q \in Queries, NEW n \in Nat, NEW e, Searched(s, q, n, e)
  PROVE  Searched(s, q, n + 1, Widen(s, q, e))
<1> DEFINE found == Found(s, q, e)
<1>1. /\ Widen(s, q, e) \in Searches(s, q)
      /\ Widen(s, q, e).frontier = found
      /\ DOMAIN Widen(s, q, e).scores = Reach(s, q, n) \cup found
  BY WidenIs DEF Searched
<1>2. e.frontier \subseteq Reach(s, q, n) /\ Reach(s, q, n) \subseteq Eligible(s, q)
  BY ReachGrows DEF Searched, Searches
<1>3. found = {t \in Eligible(s, q) \ Reach(s, q, n) : \E r \in e.frontier : Related(s, r, t)}
  BY DEF Searched, Found
<1>4. Reach(s, q, n + 1) = Reach(s, q, n) \cup found
  <2>1. ASSUME NEW t \in OnPath(s, q, n + 1) PROVE t \in Reach(s, q, n) \cup found
    <3>1. PICK r \in OnPath(s, q, n) : Related(s, r, t)
      BY <2>1, PathsGrow
    <3>2. r \in Reach(s, q, n) /\ t \in Eligible(s, q)
      BY <2>1, ReachGrows DEF OnPath
    <3>3. QED
      BY <1>3, <3>1, <3>2 DEF Searched
  <2>2. ASSUME NEW t \in found PROVE t \in Reach(s, q, n + 1)
    <3>1. PICK r \in e.frontier : Related(s, r, t)
      BY <1>3
    <3>2. PICK k \in 0..n : r \in OnPath(s, q, k)
      BY <1>2, ReachGrows
    <3>3. t \in OnPath(s, q, k + 1)
      BY <1>3, <3>1, <3>2, PathsGrow
    <3>4. k + 1 \in 0..(n + 1) /\ n + 1 \in Nat
      OBVIOUS
    <3>5. QED
      BY <3>3, <3>4, ReachGrows
  <2>3. Reach(s, q, n + 1) = Reach(s, q, n) \cup OnPath(s, q, n + 1)
    BY ReachGrows
  <2> HIDE DEF found
  <2>4. QED
    BY <2>1, <2>2, <2>3
<1> HIDE DEF found
<1>5. ASSUME NEW r \in Reach(s, q, n + 1) \ found, NEW t \in Eligible(s, q), Related(s, r, t)
      PROVE  t \in Reach(s, q, n + 1)
  BY <1>3, <1>4, <1>5 DEF Searched
<1>6. QED
  BY <1>1, <1>4, <1>5 DEF Searched

\* The records with a score are those within reach, and the scores are numbers.
LEMMA ScoresAre ==
  ASSUME NEW s \in Stores, NEW q \in Queries
  PROVE  /\ Scores(s, q) \in [Within(s, q) -> Int]
         /\ Within(s, q) \subseteq Eligible(s, q)
<1>1. q.depth \in Nat
  BY CompilerAssumption DEF QueryType
<1>2. PICK after : /\ Scores(s, q) = after[q.depth].scores
                   /\ after[0] = Direct(s, q)
                   /\ \A i \in 1..q.depth : after[i] = Widen(s, q, after[i - 1])
  BY ScoresUnfold
<1> DEFINE Good == {n \in Nat : Searched(s, q, n, after[n])}
<1>3. Searched(s, q, 0, after[0])
  BY <1>2, DirectIs, ReachGrows DEF Searched
<1>4. ASSUME NEW n \in Nat, n < q.depth, n \in Good PROVE n + 1 \in Good
  <2>1. after[n + 1] = Widen(s, q, after[n])
    <3>1. n + 1 \in 1..q.depth /\ (n + 1) - 1 = n
      BY <1>1, <1>4
    <3>2. QED
      BY <1>2, <3>1
  <2>2. Searched(s, q, n + 1, after[n + 1])
    BY <1>4, <2>1, WidenSearches
  <2>3. QED
    BY <2>2
<1>5. 0..q.depth \subseteq Good
  <2>1. 0 \in Good
    BY <1>3
  <2> HIDE DEF Good
  <2>2. QED
    BY <1>1, <1>4, <2>1, UpTo
<1>6. Searched(s, q, q.depth, after[q.depth])
  BY <1>1, <1>5
<1>7. Scores(s, q) \in UNION {[D -> Int] : D \in SUBSET Eligible(s, q)}
  BY <1>2, <1>6 DEF Searched, Searches
<1>8. DOMAIN Scores(s, q) = Within(s, q)
  BY <1>2, <1>6, WithinIsReach DEF Searched
<1>9. QED
  BY <1>7, <1>8

-----------------------------------------------------------------------------
(* What is chosen of a ranking                                             *)

\* What a bundle may have taken at any point.
Heaps ==
  [items : Seq(Records), bytes : Nat, warned : SUBSET Records,
   item_limit : Nat, policy : Nat, budget : Nat]

\* Whatever record comes next, what is taken so far is of its type.
LEMMA TakeIs ==
  ASSUME NEW s \in Stores, NEW q \in Queries, NEW c \in Heaps, NEW r \in Eligible(s, q)
  PROVE  Take(s, q, c, r) \in Heaps
<1>1. r \in Records /\ s[r] \in Values
  BY EligibleIs
<1>2. Text[s[r]].size \in Nat
  BY <1>1, CompilerAssumption DEF TextType
<1>3. {t \in {r} : Text[s[t]].finding = "warning"} \in SUBSET Records
  BY <1>1
<1> DEFINE i == Inspected(s, c, r)
<1>4. i \in Heaps /\ i.items = c.items /\ i.bytes = c.bytes
  BY <1>3 DEF Inspected, Heaps
<1>5. /\ [c EXCEPT !.item_limit = @ + 1] \in Heaps
      /\ [c EXCEPT !.policy = @ + 1] \in Heaps
  BY DEF Heaps
<1> HIDE DEF i
<1>6. [i EXCEPT !.budget = @ + 1] \in Heaps
  BY <1>4 DEF Heaps
<1>7. Append(i.items, r) \in Seq(Records) /\ i.bytes + Text[s[r]].size \in Nat
  BY <1>1, <1>2, <1>4 DEF Heaps
<1>8. [i EXCEPT !.items = Append(@, r), !.bytes = @ + Text[s[r]].size] \in Heaps
  BY <1>4, <1>7 DEF Heaps
<1>9. QED
  BY <1>5, <1>6, <1>8, Zenon DEF Take, i

\* Chosen takes the ranking record by record.
LEMMA ChosenUnfold ==
  ASSUME NEW s \in Stores, NEW q \in Queries, NEW m \in Nat,
         NEW ranked \in [1..m -> Eligible(s, q)]
  PROVE  \E after : /\ Chosen(s, q, ranked) = after[m]
                    /\ after[0] = NothingYet
                    /\ \A i \in 1..m : after[i] = Take(s, q, after[i - 1], ranked[i])
<1> DEFINE X == Heaps
           next == [i \in 1..m |-> [c \in X |-> Take(s, q, c, ranked[i])]]
           after == CHOOSE f : f = [n \in 0..Len(ranked) |->
                                      IF n = 0 THEN NothingYet
                                      ELSE Take(s, q, f[n - 1], ranked[n])]
<1>1. Len(ranked) = m
  OBVIOUS
<1>2. \E f : f = [n \in 0..m |-> IF n = 0 THEN NothingYet ELSE Take(s, q, f[n - 1], ranked[n])]
  <2>1. \A i \in 1..m : \A c \in X : Take(s, q, c, ranked[i]) \in X
    BY TakeIs
  <2>2. NothingYet \in X
    BY DEF NothingYet, Heaps
  <2>3. next \in [1..m -> [X -> X]]
    BY <2>1
  <2> HIDE DEF next
  <2>4. PICK g : Steps(m, X, NothingYet, next, g)
    <3>1. MayStep(m, X, NothingYet, next)
      BY <2>2, <2>3 DEF MayStep
    <3>2. QED
      BY <3>1, StepsExist, Zenon
  <2>5. ASSUME NEW i \in 1..m PROVE g[i] = Take(s, q, g[i - 1], ranked[i])
    <3>1. i - 1 \in 0..m
      OBVIOUS
    <3>2. g[i - 1] \in X
      BY <2>4, <3>1 DEF Steps
    <3>3. QED
      BY <2>4, <3>2 DEF Steps, next
  <2>6. ASSUME NEW n \in 0..m
        PROVE  g[n] = IF n = 0 THEN NothingYet ELSE Take(s, q, g[n - 1], ranked[n])
    <3>1. n # 0 => n \in 1..m
      OBVIOUS
    <3>2. QED
      BY <2>4, <2>5, <3>1, Zenon DEF Steps
  <2>7. g = [n \in 0..m |-> g[n]]
    BY <2>4 DEF Steps
  <2>8. g = [n \in 0..m |-> IF n = 0 THEN NothingYet ELSE Take(s, q, g[n - 1], ranked[n])]
    BY <2>6, <2>7, Zenon
  <2>9. QED
    BY <2>8, Zenon
<1>3. after = [n \in 0..m |-> IF n = 0 THEN NothingYet ELSE Take(s, q, after[n - 1], ranked[n])]
  BY <1>1, <1>2, Zenon
<1>4. Chosen(s, q, ranked) = after[m]
  BY <1>1, Zenon DEF Chosen
<1> HIDE DEF after
<1>5. 0 \in 0..m /\ \A i \in 1..m : i \in 0..m /\ i # 0
  OBVIOUS
<1>6. after[0] = NothingYet /\ \A i \in 1..m : after[i] = Take(s, q, after[i - 1], ranked[i])
  BY <1>3, <1>5, Zenon
<1>7. QED
  BY <1>4, <1>6

Picked(c) == {c.items[i] : i \in DOMAIN c.items}
Sizes(s, R) == [r \in R |-> Text[s[r]].size]

\* Of the first n records of a ranking, c has taken those that it could, in their
\* order, within the budget.
Taken(s, q, ranked, n, c) ==
  /\ c \in Heaps
  /\ Len(c.items) + c.item_limit + c.policy + c.budget = n
  /\ \E at \in [DOMAIN c.items -> 1..n] :
       /\ \A i \in DOMAIN c.items : c.items[i] = ranked[at[i]]
       /\ \A i, j \in DOMAIN c.items : i < j => at[i] < at[j]
  /\ c.bytes = SumOver(Sizes(s, Picked(c)), Picked(c))
  /\ c.bytes <= q.max_bytes /\ Len(c.items) <= q.max_items
  /\ \A r \in Picked(c) : ~IsBlocked(s[r])
  /\ \A j \in 1..n : \/ ranked[j] \in Picked(c) \/ IsBlocked(s[ranked[j]])
                     \/ IsFull(q, c) \/ ~Fits(q, c, s[ranked[j]])

\* Where nothing is taken, only the counts and the warnings change.
LEMMA SkipTaken ==
  ASSUME NEW s \in Stores, NEW q \in Queries, NEW m \in Nat,
         NEW ranked \in [1..m -> Eligible(s, q)], NEW n \in 0..(m - 1),
         NEW c, Taken(s, q, ranked, n, c), NEW d \in Heaps,
         d.items = c.items, d.bytes = c.bytes,
         d.item_limit + d.policy + d.budget = c.item_limit + c.policy + c.budget + 1,
         \/ IsBlocked(s[ranked[n + 1]]) \/ IsFull(q, c) \/ ~Fits(q, c, s[ranked[n + 1]])
  PROVE  Taken(s, q, ranked, n + 1, d)
<1>1. Picked(d) = Picked(c)
  BY DEF Picked
<1>2. PICK at \in [DOMAIN c.items -> 1..n] :
        /\ \A i \in DOMAIN c.items : c.items[i] = ranked[at[i]]
        /\ \A i, j \in DOMAIN c.items : i < j => at[i] < at[j]
  BY DEF Taken
<1>3. at \in [DOMAIN d.items -> 1..(n + 1)]
  BY <1>2
<1>4. \A x : (IsFull(q, d) <=> IsFull(q, c)) /\ (Fits(q, d, x) <=> Fits(q, c, x))
  BY DEF IsFull, Fits
<1>5. \A j \in 1..(n + 1) : \/ ranked[j] \in Picked(d) \/ IsBlocked(s[ranked[j]])
                            \/ IsFull(q, d) \/ ~Fits(q, d, s[ranked[j]])
  <2> SUFFICES ASSUME NEW j \in 1..(n + 1)
               PROVE  \/ ranked[j] \in Picked(d) \/ IsBlocked(s[ranked[j]])
                      \/ IsFull(q, d) \/ ~Fits(q, d, s[ranked[j]])
    OBVIOUS
  <2>1. CASE j = n + 1
    BY <1>4, <2>1
  <2>2. CASE j # n + 1
    <3>1. j \in 1..n
      BY <2>2
    <3>2. QED
      BY <1>1, <1>4, <3>1 DEF Taken
  <2>3. QED
    BY <2>1, <2>2
<1>6. Len(d.items) + d.item_limit + d.policy + d.budget = n + 1
  <2>1. Len(c.items) + c.item_limit + c.policy + c.budget = n
    BY DEF Taken
  <2>2. /\ Len(c.items) \in Nat /\ c.item_limit \in Nat /\ c.policy \in Nat /\ c.budget \in Nat
        /\ d.item_limit \in Nat /\ d.policy \in Nat /\ d.budget \in Nat
    BY DEF Taken, Heaps
  <2>3. Len(d.items) = Len(c.items)
    OBVIOUS
  <2>4. d.item_limit + d.policy + d.budget = c.item_limit + c.policy + c.budget + 1
    OBVIOUS
  <2> DEFINE l == Len(c.items)
             a == c.item_limit  b == c.policy  e == c.budget
             x == d.item_limit  y == d.policy  z == d.budget
  <2>5. /\ l \in Nat /\ a \in Nat /\ b \in Nat /\ e \in Nat /\ x \in Nat /\ y \in Nat /\ z \in Nat
        /\ l + a + b + e = n /\ x + y + z = a + b + e + 1
    BY <2>1, <2>2, <2>4, Zenon
  <2> HIDE DEF l, a, b, e, x, y, z
  <2>6. l + x + y + z = n + 1
    BY <2>5
  <2>7. QED
    BY <2>3, <2>6, Zenon DEF l, x, y, z
<1>7. \E to \in [DOMAIN d.items -> 1..(n + 1)] :
        /\ \A i \in DOMAIN d.items : d.items[i] = ranked[to[i]]
        /\ \A i, j \in DOMAIN d.items : i < j => to[i] < to[j]
  BY <1>2, <1>3
<1>8. /\ d.bytes = SumOver(Sizes(s, Picked(d)), Picked(d))
      /\ d.bytes <= q.max_bytes /\ Len(d.items) <= q.max_items
      /\ \A r \in Picked(d) : ~IsBlocked(s[r])
  BY <1>1 DEF Taken
<1>9. QED
  BY <1>5, <1>6, <1>7, <1>8 DEF Taken

\* One record more adds its size.
LEMMA SizesGrow ==
  ASSUME NEW s, NEW S, IsFiniteSet(S), NEW r, r \notin S, \A y \in S \cup {r} : s[y] \in Values
  PROVE  SumOver(Sizes(s, S \cup {r}), S \cup {r}) = SumOver(Sizes(s, S), S) + Text[s[r]].size
<1> DEFINE f == Sizes(s, S)
           g == Sizes(s, S \cup {r})
<1>1. \A y \in S : f[y] = g[y]
  BY DEF Sizes
<1>2. \A y \in S \cup {r} : g[y] \in Nat
  <2> SUFFICES ASSUME NEW y \in S \cup {r} PROVE g[y] \in Nat
    OBVIOUS
  <2>1. Text[s[y]].size \in Nat
    BY CompilerAssumption DEF TextType
  <2>2. QED
    BY <2>1 DEF Sizes
<1>3. g[r] = Text[s[r]].size
  BY DEF Sizes
<1> HIDE DEF f, g
<1>4. Extended(S, r, f, g)
  BY <1>1, <1>2 DEF Extended
<1>5. SumOver(g, S \cup {r}) = SumOver(f, S) + g[r]
  BY <1>4, SumGrows, Zenon
<1>6. QED
  BY <1>3, <1>5 DEF f, g

\* A record that is taken was not taken before, and adds its size.
LEMMA PickTaken ==
  ASSUME NEW s \in Stores, NEW q \in Queries, NEW m \in Nat,
         NEW ranked \in [1..m -> Eligible(s, q)],
         \A i, j \in 1..m : ranked[i] = ranked[j] => i = j,
         NEW n \in 0..(m - 1), NEW c, Taken(s, q, ranked, n, c), NEW d \in Heaps,
         d.items = Append(c.items, ranked[n + 1]),
         d.bytes = c.bytes + Text[s[ranked[n + 1]]].size,
         d.item_limit = c.item_limit, d.policy = c.policy, d.budget = c.budget,
         ~IsBlocked(s[ranked[n + 1]]), ~IsFull(q, c), Fits(q, c, s[ranked[n + 1]])
  PROVE  Taken(s, q, ranked, n + 1, d)
<1> DEFINE r == ranked[n + 1]
           l == Len(c.items)
<1>1. n + 1 \in 1..m /\ r \in Eligible(s, q) /\ r \in Records /\ s[r] \in Values
  <2>1. n + 1 \in 1..m
    OBVIOUS
  <2>2. r \in Eligible(s, q)
    BY <2>1
  <2>3. QED
    BY <2>1, <2>2, EligibleIs
<1>2. c \in Heaps /\ c.items \in Seq(Records) /\ l \in Nat /\ DOMAIN c.items = 1..l
  BY DEF Taken, Heaps
<1>3. /\ Len(d.items) = l + 1 /\ DOMAIN d.items = 1..(l + 1)
      /\ d.items[l + 1] = r /\ \A i \in 1..l : d.items[i] = c.items[i]
  BY <1>1, <1>2
<1>4. PICK at \in [1..l -> 1..n] :
        /\ \A i \in 1..l : c.items[i] = ranked[at[i]]
        /\ \A i, j \in 1..l : i < j => at[i] < at[j]
  BY <1>2 DEF Taken
<1>5. r \notin Picked(c)
  <2> SUFFICES ASSUME NEW i \in 1..l, c.items[i] = r PROVE FALSE
    BY <1>2 DEF Picked
  <2>1. at[i] \in 1..n /\ ranked[at[i]] = ranked[n + 1]
    BY <1>4
  <2>2. at[i] \in 1..m /\ at[i] # n + 1
    BY <2>1
  <2>3. QED
    BY <1>1, <2>1, <2>2
<1>6. Picked(d) = Picked(c) \cup {r}
  <2>1. \A i \in 1..(l + 1) : i \in 1..l \/ i = l + 1
    BY <1>2
  <2>2. \A i \in 1..l : i \in 1..(l + 1)
    BY <1>2
  <2>3. l + 1 \in 1..(l + 1)
    BY <1>2
  <2>4. Picked(c) = {c.items[i] : i \in 1..l} /\ Picked(d) = {d.items[i] : i \in 1..(l + 1)}
    BY <1>2, <1>3 DEF Picked
  <2> HIDE DEF l, r
  <2>5. QED
    BY <1>3, <2>1, <2>2, <2>3, <2>4
<1>7. Picked(c) \in SUBSET Records /\ IsFiniteSet(Picked(c))
  <2>1. Picked(c) \in SUBSET Records
    BY <1>2 DEF Picked
  <2>2. QED
    BY <2>1, AuditAssumption, FS_Subset
<1>8. d.bytes = SumOver(Sizes(s, Picked(d)), Picked(d))
  <2> DEFINE S == Picked(c)
  <2>1. ASSUME NEW y \in S \cup {r} PROVE s[y] \in Values
    <3>1. CASE y = r
      BY <1>1, <3>1
    <3>2. CASE y \in S
      <4>1. PICK i \in 1..l : y = c.items[i]
        BY <1>2, <3>2 DEF Picked
      <4>2. at[i] \in 1..m
        BY <1>4
      <4>3. y \in Eligible(s, q)
        BY <1>4, <4>1, <4>2
      <4>4. QED
        BY <4>3, EligibleIs
    <3>3. QED
      BY <3>1, <3>2
  <2>2. c.bytes = SumOver(Sizes(s, S), S) /\ IsFiniteSet(S) /\ r \notin S
    BY <1>5, <1>7 DEF Taken
  <2>3. d.bytes = c.bytes + Text[s[r]].size
    OBVIOUS
  <2>4. SumOver(Sizes(s, S \cup {r}), S \cup {r}) = SumOver(Sizes(s, S), S) + Text[s[r]].size
    BY <2>1, <2>2, SizesGrow
  <2> HIDE DEF S, r
  <2>5. QED
    BY <1>6, <2>2, <2>3, <2>4 DEF S
<1>9. \E to \in [DOMAIN d.items -> 1..(n + 1)] :
        /\ \A i \in DOMAIN d.items : d.items[i] = ranked[to[i]]
        /\ \A i, j \in DOMAIN d.items : i < j => to[i] < to[j]
  <2> DEFINE to == [i \in 1..(l + 1) |-> IF i = l + 1 THEN n + 1 ELSE at[i]]
  <2> HIDE DEF l
  <2>1. \A i \in 1..(l + 1) : i # l + 1 => i \in 1..l
    BY <1>2
  <2>2. \A i \in 1..l : at[i] \in 1..(n + 1) /\ at[i] < n + 1
    BY <1>4
  <2>3. to \in [1..(l + 1) -> 1..(n + 1)]
    BY <2>1, <2>2
  <2>4. \A i \in 1..(l + 1) : d.items[i] = ranked[to[i]]
    BY <1>3, <1>4, <2>1
  <2>5. ASSUME NEW i \in 1..(l + 1), NEW j \in 1..(l + 1), i < j PROVE to[i] < to[j]
    <3>1. i # l + 1 /\ i \in 1..l
      BY <1>2, <2>5
    <3>2. CASE j = l + 1
      BY <2>2, <3>1, <3>2
    <3>3. CASE j # l + 1
      BY <1>4, <2>1, <2>5, <3>1, <3>3
    <3>4. QED
      BY <3>2, <3>3
  <2> HIDE DEF to
  <2>6. QED
    BY <1>3, <2>3, <2>4, <2>5
<1>10. d.bytes <= q.max_bytes /\ Len(d.items) <= q.max_items
  <2>1. q.max_items \in Nat /\ q.max_bytes \in Nat
    BY CompilerAssumption DEF QueryType
  <2>2. QED
    BY <1>2, <1>3, <2>1 DEF IsFull, Fits
<1>11. \A x \in Picked(d) : ~IsBlocked(s[x])
  BY <1>6 DEF Taken
<1>12. \A j \in 1..(n + 1) : \/ ranked[j] \in Picked(d) \/ IsBlocked(s[ranked[j]])
                             \/ IsFull(q, d) \/ ~Fits(q, d, s[ranked[j]])
  <2> SUFFICES ASSUME NEW j \in 1..(n + 1)
               PROVE  \/ ranked[j] \in Picked(d) \/ IsBlocked(s[ranked[j]])
                      \/ IsFull(q, d) \/ ~Fits(q, d, s[ranked[j]])
    OBVIOUS
  <2>1. CASE j = n + 1
    BY <1>6, <2>1
  <2>2. CASE j # n + 1
    <3>1. j \in 1..n /\ j \in 1..m
      BY <2>2
    <3>2. s[ranked[j]] \in Values
      BY <3>1, EligibleIs
    <3>3. \/ ranked[j] \in Picked(c) \/ IsBlocked(s[ranked[j]]) \/ ~Fits(q, c, s[ranked[j]])
      BY <3>1 DEF Taken
    <3>4. /\ Text[s[ranked[j]]].size \in Nat /\ Text[s[r]].size \in Nat
          /\ c.bytes \in Nat /\ q.max_bytes \in Nat
      BY <1>1, <1>2, <3>2, CompilerAssumption DEF TextType, QueryType, Heaps
    <3>5. ~Fits(q, c, s[ranked[j]]) => ~Fits(q, d, s[ranked[j]])
      <4> DEFINE x == Text[s[ranked[j]]].size  y == Text[s[r]].size
                 b == c.bytes  max == q.max_bytes
      <4>1. /\ x \in Nat /\ y \in Nat /\ b \in Nat /\ max \in Nat /\ d.bytes = b + y
        BY <3>4
      <4>2. /\ Fits(q, c, s[ranked[j]]) <=> b + x <= max
            /\ Fits(q, d, s[ranked[j]]) <=> d.bytes + x <= max
        BY DEF Fits
      <4> HIDE DEF x, y, b, max
      <4>3. QED
        BY <4>1, <4>2
    <3>6. QED
      BY <1>6, <3>3, <3>5
  <2>3. QED
    BY <2>1, <2>2
<1>13. Len(d.items) + d.item_limit + d.policy + d.budget = n + 1
  <2> DEFINE a == c.item_limit  b == c.policy  e == c.budget
  <2>1. l + a + b + e = n /\ l \in Nat /\ a \in Nat /\ b \in Nat /\ e \in Nat
    BY <1>2 DEF Taken, Heaps
  <2>2. /\ Len(d.items) = l + 1
        /\ d.item_limit = a /\ d.policy = b /\ d.budget = e
    BY <1>3
  <2> HIDE DEF a, b, e, l
  <2>3. (l + 1) + a + b + e = n + 1
    BY <2>1
  <2>4. QED
    BY <2>2, <2>3
<1>14. QED
  BY <1>8, <1>9, <1>10, <1>11, <1>12, <1>13, Zenon DEF Taken

\* Each record of the ranking is taken, if it can be.
LEMMA TakeTaken ==
  ASSUME NEW s \in Stores, NEW q \in Queries, NEW m \in Nat,
         NEW ranked \in [1..m -> Eligible(s, q)],
         \A i, j \in 1..m : ranked[i] = ranked[j] => i = j,
         NEW n \in 0..(m - 1), NEW c, Taken(s, q, ranked, n, c)
  PROVE  Taken(s, q, ranked, n + 1, Take(s, q, c, ranked[n + 1]))
<1> DEFINE r == ranked[n + 1]
           d == Take(s, q, c, r)
           i == Inspected(s, c, r)
<1>1. c \in Heaps /\ r \in Eligible(s, q) /\ n + 1 \in 1..m
  BY DEF Taken
<1>2. d \in Heaps
  BY <1>1, TakeIs
<1>3. /\ c.item_limit \in Nat /\ c.policy \in Nat /\ c.budget \in Nat
  BY <1>1 DEF Heaps
<1>4. /\ i.items = c.items /\ i.bytes = c.bytes /\ i.item_limit = c.item_limit
      /\ i.policy = c.policy /\ i.budget = c.budget /\ i \in Heaps
  BY <1>1, EligibleIs DEF Inspected, Heaps
<1>5. CASE IsFull(q, c)
  <2>1. d = [c EXCEPT !.item_limit = @ + 1]
    BY <1>5 DEF Take
  <2> HIDE DEF d
  <2>2. /\ d.items = c.items /\ d.bytes = c.bytes /\ d.item_limit = c.item_limit + 1
        /\ d.policy = c.policy /\ d.budget = c.budget
    BY <1>1, <2>1 DEF Heaps
  <2>3. d.item_limit + d.policy + d.budget = c.item_limit + c.policy + c.budget + 1
    BY <1>3, <2>2
  <2>4. QED
    BY <1>2, <1>5, <2>2, <2>3, SkipTaken DEF d
<1>6. CASE ~IsFull(q, c) /\ IsBlocked(s[r])
  <2>1. d = [c EXCEPT !.policy = @ + 1]
    BY <1>6 DEF Take
  <2> HIDE DEF d
  <2>2. /\ d.items = c.items /\ d.bytes = c.bytes /\ d.item_limit = c.item_limit
        /\ d.policy = c.policy + 1 /\ d.budget = c.budget
    BY <1>1, <2>1 DEF Heaps
  <2>3. d.item_limit + d.policy + d.budget = c.item_limit + c.policy + c.budget + 1
    BY <1>3, <2>2
  <2>4. QED
    BY <1>2, <1>6, <2>2, <2>3, SkipTaken DEF d
<1>7. CASE ~IsFull(q, c) /\ ~IsBlocked(s[r]) /\ ~Fits(q, c, s[r])
  <2>1. d = [i EXCEPT !.budget = @ + 1]
    BY <1>7 DEF Take
  <2> HIDE DEF d, i
  <2>2. /\ d.items = c.items /\ d.bytes = c.bytes /\ d.item_limit = c.item_limit
        /\ d.policy = c.policy /\ d.budget = c.budget + 1
    BY <1>4, <2>1 DEF Heaps
  <2>3. d.item_limit + d.policy + d.budget = c.item_limit + c.policy + c.budget + 1
    BY <1>3, <2>2
  <2>4. QED
    BY <1>2, <1>7, <2>2, <2>3, SkipTaken DEF d
<1>8. CASE ~IsFull(q, c) /\ ~IsBlocked(s[r]) /\ Fits(q, c, s[r])
  <2>1. d = [i EXCEPT !.items = Append(@, r), !.bytes = @ + Text[s[r]].size]
    BY <1>8 DEF Take
  <2> HIDE DEF d, i
  <2>2. /\ d.items = Append(c.items, r) /\ d.bytes = c.bytes + Text[s[r]].size
        /\ d.item_limit = c.item_limit /\ d.policy = c.policy /\ d.budget = c.budget
    BY <1>4, <2>1 DEF Heaps
  <2>3. QED
    BY <1>2, <1>8, <2>2, PickTaken DEF d
<1>9. QED
  BY <1>5, <1>6, <1>7, <1>8

\* At the end of the ranking, all that could be taken was.
LEMMA ChosenIs ==
  ASSUME NEW s \in Stores, NEW q \in Queries, NEW m \in Nat,
         NEW ranked \in [1..m -> Eligible(s, q)],
         \A i, j \in 1..m : ranked[i] = ranked[j] => i = j
  PROVE  Taken(s, q, ranked, m, Chosen(s, q, ranked))
<1>1. PICK after : /\ Chosen(s, q, ranked) = after[m]
                   /\ after[0] = NothingYet
                   /\ \A i \in 1..m : after[i] = Take(s, q, after[i - 1], ranked[i])
  BY ChosenUnfold
<1> DEFINE Good == {n \in Nat : Taken(s, q, ranked, n, after[n])}
<1>2. Taken(s, q, ranked, 0, NothingYet)
  <2> DEFINE c == NothingYet
  <2>1. /\ c \in Heaps /\ c.items = <<>> /\ c.bytes = 0
        /\ c.item_limit = 0 /\ c.policy = 0 /\ c.budget = 0
    BY DEF NothingYet, Heaps
  <2> HIDE DEF c
  <2>2. DOMAIN c.items = {} /\ Len(c.items) = 0
    BY <2>1
  <2>3. Picked(c) = {}
    BY <2>2 DEF Picked
  <2>4. q.max_bytes \in Nat /\ q.max_items \in Nat
    BY CompilerAssumption DEF QueryType
  <2>5. \E at \in [DOMAIN c.items -> 1..0] :
          /\ \A i \in DOMAIN c.items : c.items[i] = ranked[at[i]]
          /\ \A i, j \in DOMAIN c.items : i < j => at[i] < at[j]
    <3> DEFINE at == [i \in {} |-> 0]
    <3>1. at \in [DOMAIN c.items -> 1..0]
      BY <2>2
    <3>2. QED
      BY <2>2, <3>1
  <2>6. c.bytes = SumOver(Sizes(s, Picked(c)), Picked(c))
    BY <2>1, <2>3, SumOfNothing
  <2>7. c.bytes <= q.max_bytes /\ Len(c.items) <= q.max_items
    BY <2>1, <2>2, <2>4
  <2>8. Len(c.items) + c.item_limit + c.policy + c.budget = 0
    BY <2>1, <2>2
  <2>9. 1..0 = {}
    OBVIOUS
  <2>10. Taken(s, q, ranked, 0, c)
    BY <2>1, <2>3, <2>5, <2>6, <2>7, <2>8, <2>9 DEF Taken
  <2>11. QED
    BY <2>10 DEF c
<1>3. ASSUME NEW n \in Nat, n < m, n \in Good PROVE n + 1 \in Good
  <2>1. n \in 0..(m - 1) /\ n + 1 \in 1..m /\ (n + 1) - 1 = n
    BY <1>3
  <2>2. after[n + 1] = Take(s, q, after[n], ranked[n + 1])
    BY <1>1, <2>1
  <2>3. Taken(s, q, ranked, n + 1, after[n + 1])
    BY <1>3, <2>1, <2>2, TakeTaken
  <2>4. QED
    BY <2>3
<1>4. 0..m \subseteq Good
  <2>1. 0 \in Good
    BY <1>1, <1>2
  <2> HIDE DEF Good
  <2>2. QED
    BY <1>3, <2>1, UpTo
<1>5. QED
  BY <1>1, <1>4

-----------------------------------------------------------------------------
(* Bundles                                                                 *)

\* The parts of a bundle, and what is known of them.
RankedBundle(s, q, m, ranked, c) ==
  /\ m = Cardinality(Within(s, q)) /\ m \in Nat
  /\ Scores(s, q) \in [Within(s, q) -> Int]
  /\ Within(s, q) \subseteq Eligible(s, q)
  /\ ranked = Ranked(Scores(s, q)) /\ ranked \in [1..m -> Within(s, q)]
  /\ \A i, j \in 1..m : i < j => Ahead(Scores(s, q), ranked[i], ranked[j])
  /\ \A i, j \in 1..m : ranked[i] = ranked[j] => i = j
  /\ \A r \in Within(s, q) : \E i \in 1..m : ranked[i] = r
  /\ c = Chosen(s, q, ranked) /\ Taken(s, q, ranked, m, c)

\* Every query of a store has its scores, its ranking and what is chosen of it.
LEMMA BundleParts ==
  ASSUME NEW s \in Stores, NEW q \in Queries
  PROVE  \E m, ranked, c : RankedBundle(s, q, m, ranked, c)
<1> DEFINE W == Within(s, q)
           scores == Scores(s, q)
           m == Cardinality(W)
           ranked == Ranked(scores)
<1>1. scores \in [W -> Int] /\ W \subseteq Eligible(s, q) /\ W \in SUBSET Records
  BY ScoresAre, EligibleIs
<1>2. /\ m \in Nat /\ IsRanking(scores, W, ranked)
      /\ \A r \in W : \E i \in 1..m : ranked[i] = r
  BY <1>1, RankedIs
<1>3. /\ ranked \in [1..m -> W]
      /\ \A i, j \in 1..m : i < j => Ahead(scores, ranked[i], ranked[j])
  BY <1>2 DEF IsRanking
<1>4. ASSUME NEW i \in 1..m, NEW j \in 1..m, ranked[i] = ranked[j] PROVE i = j
  <2>1. ~Ahead(scores, ranked[i], ranked[i])
    BY <1>1, <1>3, AheadIsTotal
  <2>2. ~(i < j) /\ ~(j < i)
    BY <1>3, <1>4, <2>1
  <2>3. QED
    BY <1>2, <2>2
<1>5. ranked \in [1..m -> Eligible(s, q)]
  BY <1>1, <1>3
<1>6. Taken(s, q, ranked, m, Chosen(s, q, ranked))
  BY <1>2, <1>4, <1>5, ChosenIs
<1>7. RankedBundle(s, q, m, ranked, Chosen(s, q, ranked))
  BY <1>1, <1>2, <1>3, <1>4, <1>6, Zenon DEF RankedBundle
<1>8. QED
  BY <1>7

MadeOf(b, snapshot, q, c) ==
  LET s == snapshot.store IN
  /\ b.query = q /\ b.snapshot = s /\ b.bytes = c.bytes
  /\ DOMAIN b.items = DOMAIN c.items /\ Len(b.items) = Len(c.items)
  /\ \A i \in DOMAIN c.items :
       b.items[i] = [id |-> c.items[i], score |-> Scores(s, q)[c.items[i]]]
  /\ Selected(b) = Picked(c)
  /\ b.excluded = [filtered |-> Cardinality(Present(s) \ Eligible(s, q)),
                   no_match |-> Cardinality(Eligible(s, q) \ Within(s, q)),
                   item_limit |-> c.item_limit, content_policy |-> c.policy,
                   content_budget |-> c.budget]
  /\ b.warnings = Warnings(s, Picked(c), snapshot.reviews)
                    \cup {[code |-> "content", id |-> r] : r \in c.warned}
  /\ b.conflicts = snapshot.conflicts

\* A bundle is made of these parts.
LEMMA BundleIs ==
  ASSUME NEW snapshot, snapshot.store \in Stores, NEW q \in Queries,
         NEW m, NEW ranked, NEW c, RankedBundle(snapshot.store, q, m, ranked, c)
  PROVE  MadeOf(Bundle(snapshot, q), snapshot, q, c)
<1> DEFINE s == snapshot.store
           b == Bundle(snapshot, q)
           scores == Scores(s, q)
           items == [i \in DOMAIN c.items |-> [id |-> c.items[i], score |-> scores[c.items[i]]]]
<1>1. c = Chosen(s, q, Ranked(scores)) /\ DOMAIN scores = Within(s, q)
  BY DEF RankedBundle
<1>2. b = [query |-> q, snapshot |-> s, items |-> items, bytes |-> c.bytes,
           excluded |-> [filtered |-> Cardinality(Present(s) \ Eligible(s, q)),
                         no_match |-> Cardinality(Eligible(s, q) \ DOMAIN scores),
                         item_limit |-> c.item_limit, content_policy |-> c.policy,
                         content_budget |-> c.budget],
           warnings |-> Warnings(s, Picked(c), snapshot.reviews)
                          \cup {[code |-> "content", id |-> r] : r \in c.warned},
           conflicts |-> snapshot.conflicts]
  BY <1>1, Zenon DEF Bundle, Picked
<1> HIDE DEF b, items
<1>3. b.items = items /\ DOMAIN items = DOMAIN c.items
  BY <1>2 DEF items
<1>4. \A i \in DOMAIN c.items : items[i] = [id |-> c.items[i], score |-> scores[c.items[i]]]
  BY DEF items
<1>5. Len(b.items) = Len(c.items)
  <2>1. c.items \in Seq(Records)
    BY DEF RankedBundle, Taken, Heaps
  <2>2. PICK l \in Nat : DOMAIN c.items = 1..l /\ Len(c.items) = l
    BY <2>1
  <2>3. items = [i \in 1..l |-> items[i]]
    BY <2>2 DEF items
  <2>4. Len(items) = l
    BY <2>2, <2>3
  <2>5. QED
    BY <1>3, <2>2, <2>4
<1>6. Selected(b) = Picked(c)
  <2>1. ASSUME NEW i \in DOMAIN c.items PROVE b.items[i].id = c.items[i]
    <3> DEFINE x == c.items[i]  y == scores[c.items[i]]
    <3>1. b.items[i] = [id |-> x, score |-> y]
      BY <1>3, <1>4, Zenon
    <3> HIDE DEF x, y
    <3>2. b.items[i].id = x
      BY <3>1
    <3>3. QED
      BY <3>2 DEF x
  <2>2. DOMAIN b.items = DOMAIN c.items
    BY <1>3
  <2>3. QED
    BY <2>1, <2>2, Zenon DEF Selected, Picked
<1>7. /\ b.query = q /\ b.snapshot = s /\ b.bytes = c.bytes
      /\ b.excluded = [filtered |-> Cardinality(Present(s) \ Eligible(s, q)),
                       no_match |-> Cardinality(Eligible(s, q) \ Within(s, q)),
                       item_limit |-> c.item_limit, content_policy |-> c.policy,
                       content_budget |-> c.budget]
      /\ b.warnings = Warnings(s, Picked(c), snapshot.reviews)
                        \cup {[code |-> "content", id |-> r] : r \in c.warned}
      /\ b.conflicts = snapshot.conflicts
  BY <1>1, <1>2
<1>8. QED
  BY <1>3, <1>4, <1>5, <1>6, <1>7, Zenon DEF b, MadeOf

\* A bundle has as many records as items.
LEMMA PickedOnce ==
  ASSUME NEW s \in Stores, NEW q \in Queries, NEW m, NEW ranked, NEW c,
         RankedBundle(s, q, m, ranked, c)
  PROVE  /\ Cardinality(Picked(c)) = Len(c.items)
         /\ Picked(c) \subseteq Within(s, q)
         /\ \A i, j \in DOMAIN c.items : i < j =>
              Scores(s, q)[c.items[i]] >= Scores(s, q)[c.items[j]]
<1> DEFINE l == Len(c.items)
<1>1. m \in Nat /\ l \in Nat /\ DOMAIN c.items = 1..l
  BY DEF RankedBundle, Taken, Heaps
<1>2. PICK at \in [1..l -> 1..m] :
        /\ \A i \in 1..l : c.items[i] = ranked[at[i]]
        /\ \A i, j \in 1..l : i < j => at[i] < at[j]
  <2>1. Taken(s, q, ranked, m, c)
    BY DEF RankedBundle
  <2>2. QED
    BY <1>1, <2>1, Zenon DEF Taken
<1>3. \A i \in 1..l : c.items[i] \in Within(s, q)
  BY <1>2 DEF RankedBundle
<1>4. \A i, j \in 1..l : i < j => Scores(s, q)[c.items[i]] >= Scores(s, q)[c.items[j]]
  <2> SUFFICES ASSUME NEW i \in 1..l, NEW j \in 1..l, i < j
               PROVE  Scores(s, q)[c.items[i]] >= Scores(s, q)[c.items[j]]
    OBVIOUS
  <2>1. at[i] < at[j] /\ at[i] \in 1..m /\ at[j] \in 1..m
    BY <1>2
  <2>2. Ahead(Scores(s, q), c.items[i], c.items[j])
    BY <1>2, <2>1 DEF RankedBundle
  <2>3. Scores(s, q)[c.items[i]] \in Int /\ Scores(s, q)[c.items[j]] \in Int
    BY <1>3 DEF RankedBundle
  <2>4. QED
    BY <2>2, <2>3 DEF Ahead
<1>5. Picked(c) = {c.items[i] : i \in 1..l}
  BY <1>1 DEF Picked
<1>6. Cardinality(Picked(c)) = l
  <2> DEFINE f == [i \in 1..l |-> c.items[i]]
  <2>1. f \in Surjection(1..l, Picked(c))
    BY <1>5 DEF Surjection
  <2>2. ASSUME NEW i \in 1..l, NEW j \in 1..l, f[i] = f[j] PROVE i = j
    <3>1. ranked[at[i]] = ranked[at[j]] /\ at[i] \in 1..m /\ at[j] \in 1..m
      BY <1>2, <2>2
    <3>2. at[i] = at[j]
      BY <3>1 DEF RankedBundle
    <3>3. ~(i < j) /\ ~(j < i)
      BY <1>1, <1>2, <3>1, <3>2
    <3>4. QED
      BY <1>1, <3>3
  <2>3. f \in Injection(1..l, Picked(c))
    BY <1>5, <2>2 DEF Injection, IsInjective
  <2> HIDE DEF f
  <2>4. f \in Bijection(1..l, Picked(c))
    BY <2>1, <2>3 DEF Bijection
  <2>5. ExistsBijection(1..l, Picked(c))
    BY <2>4 DEF ExistsBijection
  <2>6. QED
    BY <1>1, <2>5, FS_CountingElements
<1>7. QED
  BY <1>1, <1>3, <1>4, <1>5, <1>6

\* Any bundle keeps to its budget.
LEMMA BundleKeepsBudget ==
  ASSUME NEW snapshot, snapshot.store \in Stores, NEW q \in Queries
  PROVE  KeepsBudget(Bundle(snapshot, q))
<1> DEFINE s == snapshot.store
           b == Bundle(snapshot, q)
           W == Within(s, q)
<1>1. PICK m, ranked, c : RankedBundle(s, q, m, ranked, c)
  BY BundleParts
<1>2. /\ b.query = q /\ b.snapshot = s /\ b.bytes = c.bytes
      /\ Len(b.items) = Len(c.items) /\ Selected(b) = Picked(c)
      /\ b.excluded = [filtered |-> Cardinality(Present(s) \ Eligible(s, q)),
                       no_match |-> Cardinality(Eligible(s, q) \ W),
                       item_limit |-> c.item_limit, content_policy |-> c.policy,
                       content_budget |-> c.budget]
  <2>1. MadeOf(b, snapshot, q, c)
    BY <1>1, BundleIs, Zenon
  <2> HIDE DEF b
  <2>2. QED
    BY <2>1 DEF MadeOf
<1> HIDE DEF b
<1>3. Taken(s, q, ranked, m, c) /\ c \in Heaps
  BY <1>1 DEF RankedBundle, Taken
<1>4. b.bytes = SumOver([r \in Selected(b) |-> Text[s[r]].size], Selected(b))
  BY <1>2, <1>3 DEF Taken, Sizes
<1>5. b.bytes <= q.max_bytes /\ Len(b.items) <= q.max_items
      /\ \A r \in Selected(b) : ~IsBlocked(s[r])
  BY <1>2, <1>3 DEF Taken
<1>6. Cardinality(Selected(b)) + b.excluded.filtered + b.excluded.no_match
        + b.excluded.item_limit + b.excluded.content_policy + b.excluded.content_budget
      = Cardinality(Present(s))
  <2> DEFINE E1 == Eligible(s, q)  P == Present(s)
  <2>1. W \subseteq E1 /\ E1 \subseteq P /\ P \subseteq Records
    BY <1>1 DEF RankedBundle, Eligible, Present
  <2> HIDE DEF E1, P, W
  <2>2. IsFiniteSet(P) /\ IsFiniteSet(E1) /\ IsFiniteSet(W)
    <3>1. IsFiniteSet(P)
      BY <2>1, AuditAssumption, FS_Subset
    <3>2. IsFiniteSet(E1)
      BY <2>1, <3>1, FS_Subset
    <3>3. IsFiniteSet(W)
      BY <2>1, <3>2, FS_Subset
    <3>4. QED
      BY <3>1, <3>2, <3>3
  <2>3. Cardinality(P) \in Nat /\ Cardinality(E1) \in Nat /\ Cardinality(W) \in Nat
    BY <2>2, FS_CardinalityType
  <2>4. /\ Cardinality(P \ E1) = Cardinality(P) - Cardinality(E1)
        /\ Cardinality(E1 \ W) = Cardinality(E1) - Cardinality(W)
    <3>1. P \cap E1 = E1 /\ E1 \cap W = W
      BY <2>1
    <3>2. QED
      BY <2>2, <3>1, FS_Difference
  <2>5. Cardinality(Selected(b)) = Len(c.items)
    BY <1>1, <1>2, PickedOnce
  <2>6. Len(c.items) + c.item_limit + c.policy + c.budget = Cardinality(W)
    BY <1>1, <1>3 DEF RankedBundle, Taken, W
  <2>7. /\ Len(c.items) \in Nat /\ c.item_limit \in Nat /\ c.policy \in Nat /\ c.budget \in Nat
    BY <1>3 DEF Heaps
  <2>8. /\ b.excluded.filtered = Cardinality(P) - Cardinality(E1)
        /\ b.excluded.no_match = Cardinality(E1) - Cardinality(W)
        /\ b.excluded.item_limit = c.item_limit /\ b.excluded.content_policy = c.policy
        /\ b.excluded.content_budget = c.budget
    BY <1>2, <2>4 DEF P, E1, W
  <2> DEFINE l == Len(c.items)  x == c.item_limit  y == c.policy  z == c.budget
             p == Cardinality(P)  e == Cardinality(E1)  w == Cardinality(W)
  <2>9. /\ l \in Nat /\ x \in Nat /\ y \in Nat /\ z \in Nat
        /\ p \in Nat /\ e \in Nat /\ w \in Nat /\ l + x + y + z = w
    BY <2>3, <2>6, <2>7
  <2>10. /\ Cardinality(Selected(b)) = l
         /\ b.excluded.filtered = p - e /\ b.excluded.no_match = e - w
         /\ b.excluded.item_limit = x /\ b.excluded.content_policy = y
         /\ b.excluded.content_budget = z
    BY <2>5, <2>8
  <2> HIDE DEF l, x, y, z, p, e, w
  <2>11. l + (p - e) + (e - w) + x + y + z = p
    BY <2>9
  <2>12. QED
    BY <2>10, <2>11 DEF p, P
<1>7. ASSUME Len(b.items) < q.max_items, NEW r \in W \ Selected(b)
      PROVE  IsBlocked(s[r]) \/ b.bytes + Text[s[r]].size > q.max_bytes
  <2>1. PICK j \in 1..m : ranked[j] = r
    BY <1>1 DEF RankedBundle
  <2>2. \/ r \in Picked(c) \/ IsBlocked(s[r]) \/ IsFull(q, c) \/ ~Fits(q, c, s[r])
    BY <1>3, <2>1 DEF Taken
  <2>3. Len(c.items) \in Nat /\ q.max_items \in Nat /\ c.bytes \in Nat /\ q.max_bytes \in Nat
    BY <1>3, CompilerAssumption DEF Heaps, QueryType
  <2>4. ~IsFull(q, c)
    BY <1>2, <1>7, <2>3 DEF IsFull
  <2>5. Text[s[r]].size \in Nat
    <3>1. s[r] \in Values
      BY <1>1, EligibleIs DEF RankedBundle
    <3>2. QED
      BY <3>1, CompilerAssumption DEF TextType
  <2>6. QED
    BY <1>2, <1>7, <2>2, <2>3, <2>4, <2>5 DEF Fits
<1>8. QED
  <2>1. KeepsBudget(b)
    BY <1>2, <1>4, <1>5, <1>6, <1>7, Zenon DEF KeepsBudget
  <2>2. QED
    BY <2>1 DEF b

\* Any bundle is chosen, best first, from what its query reaches.
LEMMA BundleFollowsRelations ==
  ASSUME NEW snapshot, snapshot.store \in Stores, NEW q \in Queries
  PROVE  FollowsRelations(Bundle(snapshot, q))
<1> DEFINE s == snapshot.store
           b == Bundle(snapshot, q)
           W == Within(s, q)
<1>1. PICK m, ranked, c : RankedBundle(s, q, m, ranked, c)
  BY BundleParts
<1>2. /\ b.query = q /\ b.snapshot = s
      /\ DOMAIN b.items = DOMAIN c.items
      /\ \A i \in DOMAIN c.items :
           b.items[i] = [id |-> c.items[i], score |-> Scores(s, q)[c.items[i]]]
      /\ Selected(b) = Picked(c)
      /\ b.excluded.no_match = Cardinality(Eligible(s, q) \ W)
  <2>1. MadeOf(b, snapshot, q, c)
    BY <1>1, BundleIs, Zenon
  <2> HIDE DEF b
  <2>2. QED
    BY <2>1 DEF MadeOf
<1> HIDE DEF b
<1>3. ASSUME NEW i \in DOMAIN c.items PROVE b.items[i].score = Scores(s, q)[c.items[i]]
  <2> DEFINE x == c.items[i]  y == Scores(s, q)[c.items[i]]
  <2>1. b.items[i] = [id |-> x, score |-> y]
    BY <1>2, Zenon
  <2> HIDE DEF x, y
  <2>2. b.items[i].score = y
    BY <2>1
  <2>3. QED
    BY <2>2 DEF y
<1>4. \A i, j \in DOMAIN b.items : i < j => b.items[i].score >= b.items[j].score
  BY <1>1, <1>2, <1>3, PickedOnce
<1>5. Selected(b) \subseteq W
  BY <1>1, <1>2, PickedOnce
<1>6. QED
  <2>1. FollowsRelations(b)
    BY <1>2, <1>4, <1>5, Zenon DEF FollowsRelations
  <2>2. QED
    BY <2>1 DEF b

-----------------------------------------------------------------------------
(* The invariant of the bridge                                             *)

\* The records on disk are a committed store, or the batch that replaces some of
\* them has one to go back to.
RepositoryInv ==
  /\ store \in Stores /\ batch \in Stores \cup {NoBatch} /\ config \in Configs
  /\ committed \subseteq Stores
  /\ IF batch = NoBatch THEN store \in committed ELSE batch \in committed

\* The index is what a scan gave when it was built.
IndexInv ==
  index # NoIndex =>
    LET s == index.snapshot.store IN
    /\ index.config \in Configs
    /\ s \in committed
    /\ s \in Retrievable[index.day, index.config]
    /\ index.snapshot = SnapshotOf(s, index.day, index.config)

CallsInv ==
  /\ pc \in [Preparers \cup Hosts -> Stages]
  /\ compiled = [p \in Preparers |-> compiled[p]]
  /\ call = [h \in Hosts |-> call[h]]

\* What a preparer holds is a valid request and a bundle of committed records,
\* which is stored before the session is written.
PreparedInv ==
  \A p \in Preparers :
    /\ pc[p] \in {"compiled", "stored"} =>
         /\ RequestIsValid(compiled[p].request)
         /\ compiled[p].bundle.snapshot \in committed
    /\ pc[p] = "stored" => compiled[p].bundle \in contexts

SessionsInv == \A s \in sessions : SessionIsValid(s) /\ s.context \in contexts

LedgerInv ==
  /\ episodes = [l \in E!Ledgers |-> episodes[l]]
  /\ E!Unique(E!Stored("orchestration"))

Agrees(c) == c.session \in sessions /\ ReportIsValid(c.session, c.receipt, c.evaluation)
Evidenced(c) == {c.receipt, c.evaluation} \subseteq E!Stored("orchestration")

\* A call that has loaded its session goes on with a report that agrees with it,
\* and from its append on with one that is in the ledger.
ReportedInv ==
  \A h \in Hosts :
    /\ pc[h] \in {"loaded", "appended", "calling"} => Agrees(call[h])
    /\ pc[h] = "appended" => Evidenced(call[h])

ObservedInv ==
  /\ \A o \in observations : Agrees(o) /\ Evidenced(o)
  /\ \A o, p \in observations : o # p => o.receipt.id # p.receipt.id

RetrievalInv == RepositoryInv /\ IndexInv

IInv ==
  /\ RetrievalInv /\ CallsInv
  /\ PreparedInv /\ SessionsInv /\ ContextsAreCommitted
  /\ LedgerInv /\ ReportedInv /\ ObservedInv

-----------------------------------------------------------------------------
(* Snapshots                                                               *)

\* A scan that answers saw a committed store, and all of it.
LEMMA ScanIs ==
  ASSUME RepositoryInv, NEW day, Scan(day) # NoSnapshot
  PROVE  /\ Scan(day) = SnapshotOf(store, day, config)
         /\ store \in Retrievable[day, config] /\ store \in committed
  BY DEF RepositoryInv, Scan

\* A verified index is of the store on disk: the records it has are as they are on
\* disk, and it has all.
LEMMA VerifiedIs ==
  ASSUME RetrievalInv, NEW day, IndexIsVerified(day)
  PROVE  /\ index # NoIndex /\ batch = NoBatch
         /\ index.snapshot.store = store
         /\ index.day = day /\ index.config = config
<1> DEFINE s == index.snapshot.store
<1>1. s \in [Records -> Contents] /\ store \in [Records -> Contents]
  BY DEF RetrievalInv, RepositoryInv, IndexInv, IndexIsVerified, Stores
<1>2. \A r \in Records : s[r] = store[r]
  BY DEF IndexIsVerified, Present
<1>3. s = store
  BY <1>1, <1>2
<1>4. QED
  BY <1>3 DEF IndexIsVerified

\* A snapshot, by index or by scan, is of a committed store.
LEMMA LoadedIsCommitted ==
  ASSUME RetrievalInv, NEW day, LoadSnapshot(day) # NoSnapshot
  PROVE  LoadSnapshot(day).store \in committed
<1>1. CASE IndexIsVerified(day)
  BY <1>1 DEF LoadSnapshot, IndexIsVerified, RetrievalInv, IndexInv
<1>2. CASE ~IndexIsVerified(day)
  <2>1. Scan(day) # NoSnapshot /\ LoadSnapshot(day) = Scan(day)
    BY <1>2 DEF LoadSnapshot
  <2>2. Scan(day) = SnapshotOf(store, day, config) /\ store \in committed
    BY <2>1, ScanIs DEF RetrievalInv
  <2>3. QED
    BY <2>1, <2>2 DEF SnapshotOf
<1>3. QED
  BY <1>1, <1>2

\* A bundle is of its snapshot's store.
LEMMA BundleOf == \A snapshot, q : Bundle(snapshot, q).snapshot = snapshot.store
  BY DEF Bundle

\* What happens to the records and the configuration, and the building of an index,
\* keep the invariant of retrieval; no commit is forgotten.
LEMMA RepositoryStep ==
  ASSUME RetrievalInv, RepositoryNext
  PROVE  RetrievalInv' /\ committed \subseteq committed'
<1> USE DEF RetrievalInv
<1>1. ASSUME NEW s \in Versions, CommitBatch(s) PROVE RetrievalInv' /\ committed \subseteq committed'
  <2>1. s \in Stores
    BY IndexAssumption
  <2>2. RepositoryInv' /\ committed \subseteq committed'
    BY <1>1, <2>1 DEF CommitBatch, RepositoryInv
  <2>3. IndexInv'
    BY <1>1 DEF CommitBatch, IndexInv, SnapshotOf
  <2>4. QED
    BY <2>2, <2>3
<1>2. ASSUME NEW s \in Versions, NEW replaced \in SUBSET Records, LeaveBatchOpen(s, replaced)
      PROVE  RetrievalInv' /\ committed \subseteq committed'
  <2>1. s \in Stores
    BY IndexAssumption
  <2>2. store' \in Stores
    BY <1>2, <2>1 DEF LeaveBatchOpen, RepositoryInv, Stores
  <2>3. RepositoryInv'
    BY <1>2, <2>2, IndexAssumption DEF LeaveBatchOpen, RepositoryInv
  <2>4. QED
    BY <1>2, <2>3 DEF LeaveBatchOpen, IndexInv, SnapshotOf
<1>3. CASE RecoverBatch
  <2>1. RepositoryInv' /\ committed \subseteq committed'
    BY <1>3, IndexAssumption DEF RecoverBatch, RepositoryInv
  <2>2. QED
    BY <1>3, <2>1 DEF RecoverBatch, IndexInv, SnapshotOf
<1>4. ASSUME NEW c \in Configs, Configure(c) PROVE RetrievalInv' /\ committed \subseteq committed'
  BY <1>4 DEF Configure, RepositoryInv, IndexInv, SnapshotOf
<1>5. ASSUME NEW day \in IndexDays, BuildIndex(day)
      PROVE  RetrievalInv' /\ committed \subseteq committed'
  <2>1. RepositoryInv' /\ committed \subseteq committed'
    BY <1>5 DEF BuildIndex, repository, RepositoryInv
  <2>2. index'.snapshot = SnapshotOf(store, day, config) /\ index'.snapshot.store = store
    <3>1. index'.snapshot = Scan(day)
      BY <1>5 DEF BuildIndex
    <3>2. Scan(day) = SnapshotOf(store, day, config)
      BY <1>5, ScanIs DEF BuildIndex
    <3>3. QED
      BY <3>1, <3>2 DEF SnapshotOf
  <2>3. IndexInv'
    BY <1>5, <2>2, ScanIs DEF BuildIndex, repository, RepositoryInv, IndexInv, SnapshotOf
  <2>4. QED
    BY <2>1, <2>3
<1>6. QED
  BY <1>1, <1>2, <1>3, <1>4, <1>5 DEF RepositoryNext

-----------------------------------------------------------------------------
(* Sessions and observations                                               *)

\* The session of a valid request is in order.
LEMMA SessionsAreValid ==
  ASSUME NEW rq, RequestIsValid(rq), NEW bundle
  PROVE  SessionIsValid(Session(rq, bundle)) /\ Session(rq, bundle).context = bundle
  BY DEF SessionIsValid, Session, RequestIsValid

\* An append keeps ids unique, and everything that the ledger has.
LEMMA AppendKeeps ==
  ASSUME LedgerInv, NEW new, E!AppendEpisode("orchestration", new)
  PROVE  LedgerInv' /\ E!Stored("orchestration")' = E!Stored("orchestration") \cup new
<1>1. "orchestration" \in E!Ledgers
  BY DEF E!Ledgers
<1>2. episodes' = [episodes EXCEPT !["orchestration"] = @ \cup {new \ E!Stored("orchestration")}]
  BY DEF E!AppendEpisode
<1>3. /\ episodes'["orchestration"] = episodes["orchestration"] \cup {new \ E!Stored("orchestration")}
      /\ episodes' = [l \in E!Ledgers |-> episodes'[l]]
  BY <1>1, <1>2 DEF LedgerInv
<1>4. E!Stored("orchestration")' = E!Stored("orchestration") \cup new
  <2>1. \A S : UNION (S \cup {new \ UNION S}) = (UNION S) \cup new
    OBVIOUS
  <2>2. QED
    BY <1>3, <2>1, Zenon DEF E!Stored
<1>5. E!Unique(E!Stored("orchestration") \cup new)
  BY DEF E!AppendEpisode
<1>6. E!Unique(E!Stored("orchestration"))'
  BY <1>4, <1>5 DEF E!Unique
<1>7. QED
  BY <1>3, <1>4, <1>6 DEF LedgerInv

\* At first nothing is prepared, stored or observed.
LEMMA InvInit == Init => IInv
<1> SUFFICES ASSUME Init PROVE IInv
  OBVIOUS
<1>1. RetrievalInv
  BY IndexAssumption DEF Init, IndexInit, RetrievalInv, RepositoryInv, IndexInv
<1>2. CallsInv /\ PreparedInv /\ ReportedInv
  <2>1. \A c \in Preparers \cup Hosts : pc[c] = "idle"
    BY DEF Init
  <2>2. CallsInv
    BY DEF Init, CallsInv, Stages
  <2>3. QED
    BY <2>1, <2>2 DEF PreparedInv, ReportedInv
<1>3. SessionsInv /\ ContextsAreCommitted /\ ObservedInv
  BY DEF Init, E!EvidenceInit, SessionsInv, ContextsAreCommitted, ObservedInv
<1>4. LedgerInv
  BY DEF Init, E!EvidenceInit, LedgerInv, E!Stored, E!Unique, E!Ledgers
<1>5. QED
  BY <1>1, <1>2, <1>3, <1>4 DEF IInv

\* Whatever happens to the repository, the calls and what they have written are as
\* they were, and all that was committed still is.
LEMMA RepositoryKeeps ==
  ASSUME IInv, RepositoryNext, UNCHANGED <<evidence, calls, crashes>>
  PROVE  IInv'
<1>1. RetrievalInv' /\ committed \subseteq committed'
  BY RepositoryStep DEF IInv
<1>2. UNCHANGED <<contexts, episodes, sessions, observations, pc, compiled, call>>
  BY DEF evidence, calls
<1>3. CallsInv' /\ PreparedInv' /\ SessionsInv' /\ ContextsAreCommitted'
  BY <1>1, <1>2 DEF IInv, CallsInv, PreparedInv, SessionsInv, ContextsAreCommitted
<1>4. LedgerInv' /\ ReportedInv' /\ ObservedInv'
  BY <1>2 DEF IInv, LedgerInv, ReportedInv, ObservedInv, Agrees, Evidenced, E!Stored, E!Unique
<1>5. QED
  BY <1>1, <1>3, <1>4 DEF IInv

\* A preparation compiles from a committed store, stores its bundle and writes a
\* session in order.
LEMMA PrepareKeeps ==
  ASSUME IInv, NEW p \in Preparers, Prepare(p)
  PROVE  IInv'
<1> USE DEF IInv
<1>1. ASSUME NEW rq \in SessionAsks[p], Compile(p, rq) PROVE IInv'
  <2> DEFINE snapshot == LoadSnapshot(rq.query.as_of)
             held == [request |-> rq, bundle |-> Bundle(snapshot, rq.query)]
  <2>1. /\ RequestIsValid(rq) /\ snapshot # NoSnapshot
        /\ pc[p] = "idle" /\ pc' = [pc EXCEPT ![p] = "compiled"]
        /\ compiled' = [compiled EXCEPT ![p] = held]
        /\ UNCHANGED <<indexVars, evidence, call, crashes>>
    BY <1>1 DEF Compile, Step
  <2>2. held.bundle.snapshot \in committed
    BY <2>1, LoadedIsCommitted, BundleOf
  <2>3. UNCHANGED <<store, batch, config, committed, index, contexts, episodes, sessions,
                    observations, call>>
    BY <2>1 DEF indexVars, repository, evidence
  <2> HIDE DEF held, snapshot
  <2>4. CallsInv'
    BY <2>1, <2>3 DEF CallsInv, Stages
  <2>5. compiled'[p] = held /\ held.request = rq
    BY <2>1 DEF CallsInv, held
  <2>6. PreparedInv'
    <3> SUFFICES ASSUME NEW q \in Preparers
                 PROVE  /\ pc'[q] \in {"compiled", "stored"} =>
                             /\ RequestIsValid(compiled'[q].request)
                             /\ compiled'[q].bundle.snapshot \in committed
                        /\ pc'[q] = "stored" => compiled'[q].bundle \in contexts
      BY <2>3 DEF PreparedInv
    <3>1. CASE q = p
      BY <3>1, <2>1, <2>2, <2>5 DEF CallsInv
    <3>2. CASE q # p
      BY <3>2, <2>1 DEF PreparedInv, CallsInv
    <3>3. QED
      BY <3>1, <3>2
  <2>7. ReportedInv'
    BY <2>1, <2>3, BridgeAssumption DEF ReportedInv, CallsInv, Agrees, Evidenced, E!Stored
  <2>8. QED
    BY <2>3, <2>4, <2>6, <2>7 DEF RetrievalInv, RepositoryInv, IndexInv, SessionsInv, SnapshotOf,
         ContextsAreCommitted, LedgerInv, ObservedInv, Agrees, Evidenced, E!Stored, E!Unique
<1>2. CASE StoreBundle(p)
  <2>1. /\ pc[p] = "compiled" /\ pc' = [pc EXCEPT ![p] = "stored"]
        /\ contexts' = contexts \cup {compiled[p].bundle}
        /\ UNCHANGED <<store, batch, config, committed, index, episodes, sessions,
                       observations, compiled, call>>
    BY <1>2 DEF StoreBundle, Step, E!StoreContext, indexVars, repository
  <2>2. CallsInv'
    BY <2>1 DEF CallsInv, Stages
  <2>3. PreparedInv'
    BY <2>1 DEF PreparedInv, CallsInv
  <2>4. ContextsAreCommitted' /\ SessionsInv'
    BY <2>1 DEF PreparedInv, ContextsAreCommitted, SessionsInv
  <2>5. ReportedInv'
    BY <2>1, BridgeAssumption DEF ReportedInv, CallsInv, Agrees, Evidenced, E!Stored
  <2>6. QED
    BY <2>1, <2>2, <2>3, <2>4, <2>5 DEF RetrievalInv, RepositoryInv, IndexInv, SnapshotOf,
         LedgerInv, ObservedInv, Agrees, Evidenced, E!Stored, E!Unique
<1>3. CASE WriteSession(p)
  <2> DEFINE s == Session(compiled[p].request, compiled[p].bundle)
  <2>1. /\ pc[p] = "stored" /\ pc' = [pc EXCEPT ![p] = "done"]
        /\ sessions' = sessions \cup {s}
        /\ compiled' = [compiled EXCEPT ![p] = NoBundle]
        /\ UNCHANGED <<store, batch, config, committed, index, contexts, episodes,
                       observations, call>>
    BY <1>3 DEF WriteSession, Step, indexVars, repository
  <2>2. CallsInv'
    BY <2>1 DEF CallsInv, Stages
  <2>3. PreparedInv'
    BY <2>1 DEF PreparedInv, CallsInv
  <2>4. SessionsInv'
    BY <2>1, SessionsAreValid DEF PreparedInv, SessionsInv
  <2>5. ReportedInv' /\ ObservedInv'
    BY <2>1, BridgeAssumption DEF ReportedInv, ObservedInv, CallsInv, Agrees, Evidenced, E!Stored
  <2>6. QED
    BY <2>1, <2>2, <2>3, <2>4, <2>5 DEF RetrievalInv, RepositoryInv, IndexInv, SnapshotOf,
         ContextsAreCommitted, LedgerInv, E!Stored, E!Unique
<1>4. QED
  BY <1>1, <1>2, <1>3 DEF Prepare

\* A call that is loaded agrees with a session that is there.
LEMMA LoadKeeps ==
  ASSUME IInv, NEW h \in Hosts, NEW c, LoadSession(h, c)
  PROVE  IInv'
<1> USE DEF IInv
<1>1. /\ Agrees(c) /\ pc' = [pc EXCEPT ![h] = "loaded"]
      /\ call' = [call EXCEPT ![h] = c]
      /\ UNCHANGED <<store, batch, config, committed, index, contexts, episodes, sessions,
                     observations, compiled>>
  BY DEF LoadSession, Agrees, indexVars, repository, evidence
<1>2. CallsInv'
  BY <1>1 DEF CallsInv, Stages
<1>3. ReportedInv'
  BY <1>1 DEF ReportedInv, CallsInv, Agrees, Evidenced, E!Stored
<1>4. PreparedInv'
  BY <1>1, BridgeAssumption DEF PreparedInv, CallsInv
<1>5. QED
  BY <1>1, <1>2, <1>3, <1>4 DEF RetrievalInv, RepositoryInv, IndexInv, SnapshotOf,
     SessionsInv, ContextsAreCommitted, LedgerInv, ObservedInv, Agrees, Evidenced,
     E!Stored, E!Unique

\* A report is appended before it is observed, and a receipt that has an observation
\* gets no other.
LEMMA ObserveKeeps ==
  ASSUME IInv, NEW h \in Hosts, Observe(h)
  PROVE  IInv'
<1> USE DEF IInv
<1>1. CASE pc[h] = "calling" /\ LoadSession(h, call[h])
  BY <1>1, LoadKeeps
<1>2. CASE AppendEvidence(h)
  <2> DEFINE new == EvidenceIn(call[h])
  <2>1. /\ pc[h] = "loaded"
        /\ UNCHANGED <<store, batch, config, committed, index, contexts, sessions,
                       observations, compiled>>
    BY <1>2 DEF AppendEvidence, Step, Answer, E!AppendEpisode, indexVars, repository
  <2>2. LedgerInv' /\ E!Stored("orchestration") \subseteq E!Stored("orchestration")'
    <3>1. CASE E!AppendEpisode("orchestration", new)
      BY <3>1, AppendKeeps
    <3>2. CASE UNCHANGED episodes
      BY <3>2 DEF LedgerInv, E!Stored, E!Unique
    <3>3. QED
      BY <1>2, <3>1, <3>2 DEF AppendEvidence
  <2>3. CASE pc' = [pc EXCEPT ![h] = "appended"] /\ UNCHANGED call
             /\ new \subseteq E!Stored("orchestration")'
    <3>1. CallsInv'
      BY <2>1, <2>3 DEF CallsInv, Stages
    <3>2. Evidenced(call[h])'
      BY <2>3 DEF Evidenced, EvidenceIn
    <3>3. ReportedInv'
      BY <2>1, <2>2, <2>3, <3>2 DEF ReportedInv, CallsInv, Agrees, Evidenced
    <3>4. PreparedInv'
      BY <2>1, <2>3, BridgeAssumption DEF PreparedInv, CallsInv
    <3>5. QED
      BY <2>1, <2>2, <3>1, <3>3, <3>4 DEF RetrievalInv, RepositoryInv, IndexInv, SnapshotOf,
         SessionsInv, ContextsAreCommitted, ObservedInv, Agrees, Evidenced
  <2>4. CASE Answer(h, "loaded")
    <3>1. CallsInv' /\ pc' = [pc EXCEPT ![h] = "idle"] /\ call' = [call EXCEPT ![h] = NoCall]
      BY <2>1, <2>4 DEF Answer, Step, CallsInv, Stages
    <3>2. ReportedInv'
      BY <2>1, <2>2, <3>1 DEF ReportedInv, CallsInv, Agrees, Evidenced
    <3>3. PreparedInv'
      BY <2>1, <3>1, BridgeAssumption DEF PreparedInv, CallsInv
    <3>4. QED
      BY <2>1, <2>2, <3>1, <3>2, <3>3 DEF RetrievalInv, RepositoryInv, IndexInv, SnapshotOf,
         SessionsInv, ContextsAreCommitted, ObservedInv, Agrees, Evidenced
  <2>5. QED
    <3>1. CASE Step(h, "loaded", "appended") /\ UNCHANGED call
               /\ E!AppendEpisode("orchestration", new)
      BY <2>3, <3>1, AppendKeeps DEF Step
    <3>2. CASE Step(h, "loaded", "appended") /\ UNCHANGED call
               /\ new \subseteq E!Stored("orchestration") /\ UNCHANGED episodes
      BY <2>2, <2>3, <3>2 DEF Step
    <3>3. QED
      BY <1>2, <2>4, <3>1, <3>2 DEF AppendEvidence
<1>3. CASE WriteObservation(h)
  <2> DEFINE rivals == {o \in observations \ {call[h]} : o.receipt.id = call[h].receipt.id}
  <2>1. /\ pc[h] = "appended" /\ pc' = [pc EXCEPT ![h] = "idle"]
        /\ call' = [call EXCEPT ![h] = NoCall]
        /\ observations' = observations \cup (IF rivals = {} THEN {call[h]} ELSE {})
        /\ UNCHANGED <<store, batch, config, committed, index, contexts, episodes, sessions,
                       compiled>>
    BY <1>3 DEF WriteObservation, Answer, Step, indexVars, repository
  <2>2. CallsInv'
    BY <2>1 DEF CallsInv, Stages
  <2>3. ReportedInv'
    BY <2>1 DEF ReportedInv, CallsInv, Agrees, Evidenced, E!Stored
  <2>4. PreparedInv'
    BY <2>1, BridgeAssumption DEF PreparedInv, CallsInv
  <2>5. ObservedInv'
    <3>1. Agrees(call[h]) /\ Evidenced(call[h])
      BY <2>1 DEF ReportedInv
    <3>2. \A o \in observations' : Agrees(o)' /\ Evidenced(o)'
      BY <2>1, <3>1 DEF ObservedInv, Agrees, Evidenced, E!Stored
    <3>3. \A o, p \in observations' : o # p => o.receipt.id # p.receipt.id
      BY <2>1 DEF ObservedInv
    <3>4. QED
      BY <3>2, <3>3 DEF ObservedInv
  <2>6. QED
    BY <2>1, <2>2, <2>3, <2>4, <2>5 DEF RetrievalInv, RepositoryInv, IndexInv, SnapshotOf,
       SessionsInv, ContextsAreCommitted, LedgerInv, E!Stored, E!Unique
<1>4. QED
  BY <1>1, <1>2, <1>3 DEF Observe

\* A call that is cut off goes on with the report that it had.
LEMMA CutKeeps ==
  ASSUME IInv, NEW h \in Hosts, Cut(h)
  PROVE  IInv'
<1> USE DEF IInv
<1>1. /\ pc[h] \in {"loaded", "appended"} /\ pc' = [pc EXCEPT ![h] = "calling"]
      /\ UNCHANGED <<store, batch, config, committed, index, contexts, episodes, sessions,
                     observations, compiled, call>>
  BY DEF Cut, Step, indexVars, repository, evidence
<1>2. CallsInv'
  BY <1>1 DEF CallsInv, Stages
<1>3. ReportedInv'
  BY <1>1 DEF ReportedInv, CallsInv, Agrees, Evidenced, E!Stored
<1>4. PreparedInv'
  BY <1>1, BridgeAssumption DEF PreparedInv, CallsInv
<1>5. QED
  BY <1>1, <1>2, <1>3, <1>4 DEF RetrievalInv, RepositoryInv, IndexInv, SnapshotOf,
     SessionsInv, ContextsAreCommitted, LedgerInv, ObservedInv, Agrees, Evidenced,
     E!Stored, E!Unique

\* Every step keeps the invariant.
LEMMA InvStep == IInv /\ [Next]_vars => IInv'
<1> SUFFICES ASSUME IInv, [Next]_vars PROVE IInv'
  OBVIOUS
<1>1. CASE RepositoryNext /\ UNCHANGED <<evidence, calls, crashes>>
  BY <1>1, RepositoryKeeps
<1>2. ASSUME NEW p \in Preparers, Prepare(p) PROVE IInv'
  BY <1>2, PrepareKeeps
<1>3. ASSUME NEW h \in Hosts, NEW c, LoadSession(h, c) PROVE IInv'
  BY <1>3, LoadKeeps
<1>4. ASSUME NEW h \in Hosts, Observe(h) PROVE IInv'
  BY <1>4, ObserveKeeps
<1>5. ASSUME NEW h \in Hosts, Cut(h) PROVE IInv'
  BY <1>5, CutKeeps
<1>6. CASE UNCHANGED vars
  BY <1>6 DEF vars, indexVars, repository, evidence, calls, IInv, RetrievalInv, RepositoryInv,
     IndexInv, SnapshotOf, CallsInv, PreparedInv, SessionsInv, ContextsAreCommitted,
     LedgerInv, ReportedInv, ObservedInv, Agrees, Evidenced, E!Stored, E!Unique
<1>7. QED
  BY <1>1, <1>2, <1>3, <1>4, <1>5, <1>6 DEF Next

\* The invariant holds of every behaviour.
LEMMA Inductive == Spec => []IInv
  BY InvInit, InvStep, PTL DEF Spec

-----------------------------------------------------------------------------
(* Types, and what bundles are                                             *)

\* A bundle of a typed snapshot is of its type.
LEMMA BundleIsTyped ==
  ASSUME NEW snapshot, snapshot.store \in Stores, NEW q \in Queries,
         snapshot.conflicts \subseteq {c.key : c \in Claims},
         \A w \in snapshot.reviews : w.reason \in WarningCodes
  PROVE  Bundle(snapshot, q) \in BundleType
<1> DEFINE s == snapshot.store
           b == Bundle(snapshot, q)
           W == Within(s, q)
           scores == Scores(s, q)
           n1 == Cardinality(Present(s) \ Eligible(s, q))
           n2 == Cardinality(Eligible(s, q) \ Within(s, q))
<1>1. PICK m, ranked, c : RankedBundle(s, q, m, ranked, c)
  BY BundleParts
<1>2. MadeOf(b, snapshot, q, c)
  BY <1>1, BundleIs, Zenon
<1>3. c \in Heaps /\ scores \in [W -> Int] /\ W \subseteq Records /\ Picked(c) \subseteq W
  <2>1. Taken(s, q, ranked, m, c) /\ scores \in [W -> Int] /\ W \subseteq Eligible(s, q)
    BY <1>1 DEF RankedBundle
  <2>2. c \in Heaps
    BY <2>1 DEF Taken
  <2>3. Picked(c) \subseteq W
    BY <1>1, PickedOnce
  <2>4. W \subseteq Records
    BY <2>1, EligibleIs
  <2>5. QED
    BY <2>1, <2>2, <2>3, <2>4
<1> DEFINE items == [i \in DOMAIN c.items |-> [id |-> c.items[i], score |-> scores[c.items[i]]]]
<1>4. items \in Seq([id : Records, score : Int])
  <2>1. PICK l \in Nat : c.items \in [1..l -> Records]
    BY <1>3 DEF Heaps
  <2>2. DOMAIN c.items = 1..l
    BY <2>1
  <2>3. \A i \in 1..l : c.items[i] \in W
    BY <1>3, <2>2 DEF Picked
  <2>4. \A i \in 1..l : [id |-> c.items[i], score |-> scores[c.items[i]]] \in [id : Records, score : Int]
    BY <1>3, <2>3
  <2>5. items \in [1..l -> [id : Records, score : Int]]
    BY <2>2, <2>4
  <2> HIDE DEF items
  <2>6. \A P : items \in [1..l -> P] => items \in Seq(P)
    OBVIOUS
  <2>7. QED
    BY <2>5, <2>6, Zenon
<1>5. n1 \in Nat /\ n2 \in Nat
  <2>1. /\ Present(s) \ Eligible(s, q) \in SUBSET Records
        /\ Eligible(s, q) \ W \in SUBSET Records
    BY DEF Present, Eligible
  <2>2. QED
    BY <2>1, AuditAssumption, Parts
<1>6. Warnings(s, Picked(c), snapshot.reviews)
        \cup {[code |-> "content", id |-> r] : r \in c.warned} \in SUBSET [code : WarningCodes, id : Records]
  <2>1. Picked(c) \subseteq Records
    BY <1>3
  <2>2. c.warned \in SUBSET Records
    BY <1>3 DEF Heaps
  <2>3. Warnings(s, Picked(c), snapshot.reviews) \in SUBSET [code : WarningCodes, id : Records]
    BY <2>1 DEF Warnings, WarningCodes
  <2>4. {[code |-> "content", id |-> r] : r \in c.warned} \in SUBSET [code : WarningCodes, id : Records]
    <3>1. ASSUME NEW r \in c.warned
          PROVE  [code |-> "content", id |-> r] \in [code : WarningCodes, id : Records]
      <4>1. r \in Records
        BY <2>2, Zenon
      <4>2. "content" \in WarningCodes
        BY DEF WarningCodes
      <4>3. QED
        BY <4>1, <4>2, Zenon
    <3>2. QED
      BY <3>1, Zenon
  <2>5. QED
    BY <2>3, <2>4, Zenon
<1>7. c.bytes \in Nat /\ c.item_limit \in Nat /\ c.policy \in Nat /\ c.budget \in Nat
  BY <1>3 DEF Heaps
<1>8. b = [query |-> q, snapshot |-> s, items |-> items, bytes |-> c.bytes,
           excluded |-> [filtered |-> n1, no_match |-> n2, item_limit |-> c.item_limit,
                         content_policy |-> c.policy, content_budget |-> c.budget],
           warnings |-> Warnings(s, Picked(c), snapshot.reviews)
                          \cup {[code |-> "content", id |-> r] : r \in c.warned},
           conflicts |-> snapshot.conflicts]
  <2>1. c = Chosen(s, q, Ranked(scores)) /\ DOMAIN scores = Within(s, q)
    BY <1>1 DEF RankedBundle
  <2>2. QED
    BY <2>1, Zenon DEF Bundle, Picked
<1> HIDE DEF b, items, n1, n2
<1>9. b \in BundleType
  BY <1>4, <1>5, <1>6, <1>7, <1>8 DEF BundleType
<1>10. QED
  BY <1>9 DEF b

\* What retrieval loads is a snapshot of a store.
LEMMA SnapshotIs ==
  ASSUME NEW s \in Stores, NEW day, NEW c
  PROVE  LET snapshot == SnapshotOf(s, day, c) IN
         /\ snapshot.store = s
         /\ snapshot.conflicts \subseteq {k.key : k \in Claims}
         /\ \A w \in snapshot.reviews : w.reason \in WarningCodes
<1> DEFINE facts == {r \in Present(s) : Data[s[r]].kind = "fact"}
<1>2. ASSUME NEW w \in ReviewQueue(s, day) PROVE w.reason \in WarningCodes
  <2>1. \/ \E r \in Present(s) : /\ w = [id |-> r, reason |-> Data[s[r]].status]
                                 /\ Data[s[r]].status \in {"provisional", "disputed"}
        \/ \E r \in Present(s) : w = [id |-> r, reason |-> "stale"]
        \/ \E r \in Present(s) : w = [id |-> r, reason |-> "due_soon"]
    BY <1>2, Zenon DEF ReviewQueue
  <2>2. CASE \E r \in Present(s) : /\ w = [id |-> r, reason |-> Data[s[r]].status]
                                   /\ Data[s[r]].status \in {"provisional", "disputed"}
    BY <2>2 DEF WarningCodes
  <2>3. CASE \E r \in Present(s) : w = [id |-> r, reason |-> "stale"]
    BY <2>3 DEF WarningCodes
  <2>4. CASE \E r \in Present(s) : w = [id |-> r, reason |-> "due_soon"]
    BY <2>4 DEF WarningCodes
  <2>5. QED
    BY <2>1, <2>2, <2>3, <2>4
<1>3. ConflictsOf(s) \subseteq {k.key : k \in Claims}
  BY DEF ConflictsOf
<1>4. QED
  BY <1>2, <1>3 DEF SnapshotOf

\* A bundle that is as it should be.
WellCompiled(b) == b \in BundleType /\ KeepsBudget(b) /\ FollowsRelations(b)

Prepared == [request : SessionRequest, bundle : BundleType]

\* Bundles are well compiled when they are stored and before; sessions, reports and
\* documents are of their types.
TypedInv ==
  /\ \A b \in contexts : WellCompiled(b)
  /\ \A p \in Preparers :
       /\ compiled[p] \in {NoBundle} \cup Prepared
       /\ pc[p] \in {"compiled", "stored"} =>
            compiled[p] \in Prepared /\ WellCompiled(compiled[p].bundle)
  /\ sessions \subseteq SessionType
  /\ \A h \in Hosts : pc[h] \in {"loaded", "appended", "calling"} =>
       call[h].receipt.id \in DocIds /\ call[h].evaluation.id \in DocIds
  /\ \A l \in E!Ledgers : \A d \in E!Stored(l) : d.id \in DocIds
  /\ changes \in 0..MaxChanges /\ crashes \in 0..MaxCrashes

\* What is loaded for a session compiles well.
LEMMA LoadedCompilesWell ==
  ASSUME RetrievalInv, NEW day, LoadSnapshot(day) # NoSnapshot, NEW q \in Queries
  PROVE  WellCompiled(Bundle(LoadSnapshot(day), q))
<1> DEFINE snapshot == LoadSnapshot(day)
<1>1. \E s \in Stores : \E d, c : snapshot = SnapshotOf(s, d, c)
  <2>1. CASE IndexIsVerified(day)
    <3>1. snapshot = index.snapshot /\ index # NoIndex
      BY <2>1 DEF LoadSnapshot, IndexIsVerified
    <3>2. index.snapshot.store \in Stores
      BY <3>1 DEF RetrievalInv, RepositoryInv, IndexInv
    <3>3. index.snapshot = SnapshotOf(index.snapshot.store, index.day, index.config)
      BY <3>1, Zenon DEF RetrievalInv, IndexInv
    <3> HIDE DEF snapshot
    <3>4. QED
      BY <3>1, <3>2, <3>3, Zenon
  <2>2. CASE ~IndexIsVerified(day)
    <3>1. Scan(day) # NoSnapshot /\ snapshot = Scan(day)
      BY <2>2 DEF LoadSnapshot
    <3>2. Scan(day) = SnapshotOf(store, day, config) /\ store \in Stores
      BY <3>1, ScanIs DEF RetrievalInv, RepositoryInv
    <3> HIDE DEF snapshot
    <3>3. QED
      BY <3>1, <3>2, Zenon
  <2>3. QED
    BY <2>1, <2>2
<1> HIDE DEF snapshot
<1>2. PICK s \in Stores : \E d, c : snapshot = SnapshotOf(s, d, c)
  BY <1>1
<1>3. /\ snapshot.store \in Stores
      /\ snapshot.conflicts \subseteq {k.key : k \in Claims}
      /\ \A w \in snapshot.reviews : w.reason \in WarningCodes
  BY <1>2, SnapshotIs
<1>4. Bundle(snapshot, q) \in BundleType
  BY <1>3, BundleIsTyped
<1>5. KeepsBudget(Bundle(snapshot, q)) /\ FollowsRelations(Bundle(snapshot, q))
  BY <1>3, BundleKeepsBudget, BundleFollowsRelations
<1>6. QED
  BY <1>4, <1>5 DEF WellCompiled, snapshot

\* The session of a request says for each effect whether it is allowed.
LEMMA SessionIsTyped ==
  ASSUME NEW rq \in SessionRequest, NEW bundle \in BundleType
  PROVE  Session(rq, bundle) \in SessionType
<1> DEFINE decisions == [e \in rq.effects |-> Decision(rq, e)]
           D == [allowed : BOOLEAN, requires_human : BOOLEAN, approval : Approvals \cup {None}]
<1>1. rq.effects \in SUBSET Effects
  BY DEF SessionRequest
<1>2. \A e \in DOMAIN rq.approvals : rq.approvals[e] \in Approvals
  BY DEF SessionRequest
<1>3. ASSUME NEW e \in rq.effects PROVE Decision(rq, e) \in D
  <2>1. (IF e \in DOMAIN rq.approvals THEN rq.approvals[e] ELSE None) \in Approvals \cup {None}
    BY <1>2
  <2> DEFINE granted == IF e \in DOMAIN rq.approvals THEN rq.approvals[e] ELSE None
             allowed == /\ rq.role \in DOMAIN Policy.allowed
                        /\ e \in Policy.allowed[rq.role]
                        /\ e \in Policy.human => e \in DOMAIN rq.approvals
             human == e \in Policy.human
  <2>2. allowed \in BOOLEAN /\ human \in BOOLEAN
    OBVIOUS
  <2>3. Decision(rq, e) = [allowed |-> allowed, requires_human |-> human, approval |-> granted]
    BY Zenon DEF Decision
  <2> HIDE DEF granted, allowed, human
  <2>4. granted \in Approvals \cup {None}
    BY <2>1 DEF granted
  <2>5. QED
    BY <2>2, <2>3, <2>4
<1> HIDE DEF D
<1>4. decisions \in [rq.effects -> D]
  BY <1>3
<1> HIDE DEF decisions
<1>5. decisions \in UNION {[A -> D] : A \in SUBSET Effects}
  BY <1>1, <1>4
<1> DEFINE allowed == {e \in rq.effects : decisions[e].allowed}
           ready == allowed = rq.effects
<1>6. allowed \in SUBSET Effects /\ ready \in BOOLEAN
  BY <1>1
<1>7. Session(rq, bundle) = [request |-> rq, context |-> bundle, decisions |-> decisions,
                             ready |-> ready, allowed_effects |-> allowed]
  BY Zenon DEF Session, decisions
<1> HIDE DEF allowed, ready
<1>8. [request |-> rq, context |-> bundle, decisions |-> decisions, ready |-> ready,
       allowed_effects |-> allowed] \in SessionType
  BY <1>5, <1>6 DEF SessionType, D
<1>9. QED
  BY <1>7, <1>8

\* At first nothing is stored, and no call is under way.
LEMMA TypedInit == Init => TypedInv
<1> SUFFICES ASSUME Init PROVE TypedInv
  OBVIOUS
<1>1. contexts = {} /\ sessions = {} /\ \A l \in E!Ledgers : E!Stored(l) = {}
  BY DEF Init, E!EvidenceInit, E!Stored
<1>2. \A c \in Preparers \cup Hosts : pc[c] = "idle"
  BY DEF Init
<1>3. \A p \in Preparers : compiled[p] = NoBundle
  BY DEF Init
<1>4. changes \in 0..MaxChanges /\ crashes \in 0..MaxCrashes
  <2>1. changes = 0 /\ crashes = 0
    BY DEF Init, IndexInit
  <2>2. MaxChanges \in Nat /\ MaxCrashes \in Nat
    BY IndexAssumption, BridgeAssumption
  <2>3. QED
    BY <2>1, <2>2
<1>5. QED
  BY <1>1, <1>2, <1>3, <1>4 DEF TypedInv

\* What happens to the repository leaves bundles, sessions and reports alone.
LEMMA TypedRepository ==
  ASSUME TypedInv, RepositoryNext, UNCHANGED <<evidence, calls, crashes>>
  PROVE  TypedInv'
<1>1. changes' \in 0..MaxChanges
  <2>1. changes \in 0..MaxChanges /\ MaxChanges \in Nat
    BY IndexAssumption DEF TypedInv
  <2>2. changes' = changes \/ Change
    BY DEF RepositoryNext, CommitBatch, LeaveBatchOpen, RecoverBatch, Configure, BuildIndex,
       repository
  <2>3. QED
    BY <2>1, <2>2 DEF Change
<1>2. UNCHANGED <<contexts, episodes, sessions, pc, compiled, call, crashes>>
  BY DEF evidence, calls
<1>3. QED
  BY <1>1, <1>2 DEF TypedInv, E!Stored

\* A preparation compiles, stores and writes what it should.
LEMMA TypedPrepare ==
  ASSUME IInv, TypedInv, NEW p \in Preparers, Prepare(p)
  PROVE  TypedInv'
<1> USE DEF TypedInv
<1>1. ASSUME NEW rq \in SessionAsks[p], Compile(p, rq) PROVE TypedInv'
  <2> DEFINE snapshot == LoadSnapshot(rq.query.as_of)
             held == [request |-> rq, bundle |-> Bundle(snapshot, rq.query)]
  <2>1. /\ snapshot # NoSnapshot
        /\ pc' = [pc EXCEPT ![p] = "compiled"]
        /\ compiled' = [compiled EXCEPT ![p] = held]
        /\ UNCHANGED <<indexVars, evidence, call, crashes>>
    BY <1>1 DEF Compile, Step
  <2>2. rq \in SessionRequest /\ rq.query \in Queries
    BY BridgeAssumption DEF SessionRequest
  <2>3. WellCompiled(Bundle(snapshot, rq.query))
    BY <2>1, <2>2, LoadedCompilesWell DEF IInv
  <2> HIDE DEF snapshot
  <2>4. held \in Prepared /\ WellCompiled(held.bundle)
    BY <2>2, <2>3 DEF Prepared, WellCompiled
  <2>5. UNCHANGED <<contexts, episodes, sessions, call, crashes, changes>>
    BY <2>1 DEF indexVars, repository, evidence
  <2> HIDE DEF held
  <2>6. \A x \in Preparers : /\ compiled'[x] \in {NoBundle} \cup Prepared
                             /\ pc'[x] \in {"compiled", "stored"} =>
                                  compiled'[x] \in Prepared /\ WellCompiled(compiled'[x].bundle)
    BY <2>1, <2>4 DEF IInv, CallsInv
  <2>7. \A h \in Hosts : pc'[h] = pc[h]
    BY <2>1, BridgeAssumption DEF IInv, CallsInv
  <2>8. QED
    BY <2>5, <2>6, <2>7 DEF E!Stored
<1>2. CASE StoreBundle(p)
  <2>1. /\ pc[p] = "compiled" /\ pc' = [pc EXCEPT ![p] = "stored"]
        /\ contexts' = contexts \cup {compiled[p].bundle}
        /\ UNCHANGED <<episodes, sessions, compiled, call, crashes, changes>>
    BY <1>2 DEF StoreBundle, Step, E!StoreContext, indexVars, repository
  <2>2. \A b \in contexts' : WellCompiled(b)
    BY <2>1
  <2>3. \A x \in Preparers : pc'[x] \in {"compiled", "stored"} => pc[x] \in {"compiled", "stored"}
    BY <2>1 DEF IInv, CallsInv
  <2>4. \A h \in Hosts : pc'[h] = pc[h]
    BY <2>1, BridgeAssumption DEF IInv, CallsInv
  <2>5. QED
    BY <2>1, <2>2, <2>3, <2>4 DEF E!Stored
<1>3. CASE WriteSession(p)
  <2> DEFINE s == Session(compiled[p].request, compiled[p].bundle)
  <2>1. /\ pc[p] = "stored" /\ pc' = [pc EXCEPT ![p] = "done"]
        /\ sessions' = sessions \cup {s}
        /\ compiled' = [compiled EXCEPT ![p] = NoBundle]
        /\ UNCHANGED <<contexts, episodes, call, crashes, changes>>
    BY <1>3 DEF WriteSession, Step, indexVars, repository
  <2>2. s \in SessionType
    <3>1. compiled[p].request \in SessionRequest /\ compiled[p].bundle \in BundleType
      BY <2>1 DEF Prepared
    <3>2. QED
      BY <3>1, SessionIsTyped
  <2> HIDE DEF s
  <2>3. \A x \in Preparers : /\ compiled'[x] \in {NoBundle} \cup Prepared
                             /\ pc'[x] \in {"compiled", "stored"} =>
                                  compiled'[x] \in Prepared /\ WellCompiled(compiled'[x].bundle)
    BY <2>1 DEF IInv, CallsInv
  <2>4. \A h \in Hosts : pc'[h] = pc[h]
    BY <2>1, BridgeAssumption DEF IInv, CallsInv
  <2>5. QED
    BY <2>1, <2>2, <2>3, <2>4 DEF E!Stored
<1>4. QED
  BY <1>1, <1>2, <1>3 DEF Prepare

\* A host takes a step that changes its place, and what it holds is of its type.
LEMMA TypedHosts ==
  ASSUME IInv, TypedInv, NEW h \in Hosts, NEW to, pc' = [pc EXCEPT ![h] = to],
         to \in {"loaded", "appended", "calling"} =>
           call'[h].receipt.id \in DocIds /\ call'[h].evaluation.id \in DocIds,
         \A x \in Hosts : x # h => call'[x] = call[x],
         \A l \in E!Ledgers : \A d \in E!Stored(l)' : d.id \in DocIds,
         UNCHANGED <<contexts, sessions, compiled, changes>>, crashes' \in 0..MaxCrashes
  PROVE  TypedInv'
<1>1. \A p \in Preparers : pc'[p] = pc[p]
  BY BridgeAssumption DEF IInv, CallsInv
<1>2. \A x \in Hosts : pc'[x] = IF x = h THEN to ELSE pc[x]
  BY DEF IInv, CallsInv
<1>3. \A x \in Hosts : pc'[x] \in {"loaded", "appended", "calling"} =>
        call'[x].receipt.id \in DocIds /\ call'[x].evaluation.id \in DocIds
  BY <1>2 DEF TypedInv
<1>4. QED
  BY <1>1, <1>3 DEF TypedInv

\* A report of a typed session carries document ids.
LEMMA TypedLoad ==
  ASSUME IInv, TypedInv, NEW h \in Hosts, NEW c, LoadSession(h, c),
         c.receipt.id \in DocIds /\ c.evaluation.id \in DocIds
  PROVE  TypedInv'
<1>1. /\ pc' = [pc EXCEPT ![h] = "loaded"] /\ call' = [call EXCEPT ![h] = c]
      /\ UNCHANGED <<contexts, episodes, sessions, compiled, changes, crashes>>
  BY DEF LoadSession, indexVars, repository, evidence
<1>2. call'[h] = c /\ \A x \in Hosts : x # h => call'[x] = call[x]
  BY <1>1 DEF IInv, CallsInv
<1>3. \A l \in E!Ledgers : E!Stored(l)' = E!Stored(l)
  BY <1>1 DEF E!Stored
<1>4. QED
  BY <1>1, <1>2, <1>3, TypedHosts DEF TypedInv

\* What is appended for a call has document ids.
LEMMA EvidenceIsTyped ==
  ASSUME IInv, TypedInv, NEW h \in Hosts, pc[h] = "loaded"
  PROVE  \A d \in EvidenceIn(call[h]) : d.id \in DocIds
<1> DEFINE rq == call[h].session.request
<1>1. call[h].receipt.id \in DocIds /\ call[h].evaluation.id \in DocIds
  BY DEF TypedInv
<1>2. call[h].session \in SessionType
  BY DEF IInv, ReportedInv, Agrees, TypedInv
<1>3. rq \in SessionRequest
  BY <1>2 DEF SessionType
<1> HIDE DEF rq
<1>4. rq.task.id \in DocIds /\ rq.manifest.id \in DocIds /\ rq.worker.id \in DocIds
  BY <1>3 DEF SessionRequest, E!ManifestType
<1>5. QED
  BY <1>1, <1>4 DEF EvidenceIn, rq

\* A report appends documents of their types.
LEMMA TypedObserve ==
  ASSUME IInv, TypedInv, NEW h \in Hosts, Observe(h)
  PROVE  TypedInv'
<1> USE DEF IInv
<1>1. CASE pc[h] = "calling" /\ LoadSession(h, call[h])
  BY <1>1, TypedLoad DEF TypedInv
<1>2. CASE AppendEvidence(h)
  <2> DEFINE new == EvidenceIn(call[h])
  <2>1. pc[h] = "loaded" /\ UNCHANGED <<contexts, sessions, compiled, changes, crashes>>
    BY <1>2 DEF AppendEvidence, Step, Answer, E!AppendEpisode, indexVars, repository
  <2>2. \A l \in E!Ledgers : \A d \in E!Stored(l)' : d.id \in DocIds
    <3>1. CASE E!AppendEpisode("orchestration", new)
      <4>1. E!Stored("orchestration")' = E!Stored("orchestration") \cup new
        BY <3>1, AppendKeeps
      <4>2. E!Stored("workflow")' = E!Stored("workflow")
        <5>1. episodes' = [episodes EXCEPT !["orchestration"] = @ \cup {new \ E!Stored("orchestration")}]
          BY <3>1 DEF E!AppendEpisode
        <5>2. "workflow" \in E!Ledgers /\ "workflow" # "orchestration"
          BY DEF E!Ledgers
        <5>3. episodes'["workflow"] = episodes["workflow"]
          BY <5>1, <5>2 DEF LedgerInv
        <5>4. QED
          BY <5>3 DEF E!Stored
      <4>3. \A d \in new : d.id \in DocIds
        BY <2>1, EvidenceIsTyped
      <4> HIDE DEF new
      <4>4. ASSUME NEW l \in E!Ledgers, NEW d \in E!Stored(l)' PROVE d.id \in DocIds
        <5>1. CASE l = "orchestration"
          BY <4>1, <4>3, <4>4, <5>1 DEF TypedInv
        <5>2. CASE l = "workflow"
          BY <4>2, <4>4, <5>2 DEF TypedInv
        <5>3. QED
          BY <5>1, <5>2 DEF E!Ledgers
      <4>5. QED
        BY <4>4
    <3>2. CASE UNCHANGED episodes
      BY <3>2 DEF TypedInv, E!Stored
    <3>3. QED
      BY <1>2, <3>1, <3>2 DEF AppendEvidence
  <2>3. CASE pc' = [pc EXCEPT ![h] = "appended"] /\ UNCHANGED call
    BY <2>1, <2>2, <2>3, TypedHosts DEF TypedInv
  <2>4. CASE Answer(h, "loaded")
    <3>1. pc' = [pc EXCEPT ![h] = "idle"] /\ \A x \in Hosts : x # h => call'[x] = call[x]
      BY <2>4 DEF Answer, Step, CallsInv
    <3>2. QED
      BY <2>1, <2>2, <3>1, TypedHosts DEF TypedInv
  <2>5. QED
    BY <1>2, <2>3, <2>4 DEF AppendEvidence, Step
<1>3. CASE WriteObservation(h)
  <2>1. /\ pc' = [pc EXCEPT ![h] = "idle"] /\ \A x \in Hosts : x # h => call'[x] = call[x]
        /\ UNCHANGED <<contexts, episodes, sessions, compiled, changes, crashes>>
    BY <1>3 DEF WriteObservation, Answer, Step, CallsInv, indexVars, repository
  <2>2. \A l \in E!Ledgers : E!Stored(l)' = E!Stored(l)
    BY <2>1 DEF E!Stored
  <2>3. QED
    BY <2>1, <2>2, TypedHosts DEF TypedInv
<1>4. QED
  BY <1>1, <1>2, <1>3 DEF Observe

\* A call that is cut off keeps the report that it had.
LEMMA TypedCut ==
  ASSUME IInv, TypedInv, NEW h \in Hosts, Cut(h)
  PROVE  TypedInv'
<1>1. /\ pc[h] \in {"loaded", "appended"} /\ pc' = [pc EXCEPT ![h] = "calling"]
      /\ UNCHANGED <<contexts, episodes, sessions, compiled, call, changes>>
  BY DEF Cut, Step, indexVars, repository, evidence
<1>2. crashes' \in 0..MaxCrashes
  <2>1. crashes \in 0..MaxCrashes /\ MaxCrashes \in Nat
    BY BridgeAssumption DEF TypedInv
  <2>2. crashes < MaxCrashes /\ crashes' = crashes + 1
    BY DEF Cut
  <2>3. QED
    BY <2>1, <2>2
<1>3. \A l \in E!Ledgers : E!Stored(l)' = E!Stored(l)
  BY <1>1 DEF E!Stored
<1>4. QED
  BY <1>1, <1>2, <1>3, TypedHosts DEF TypedInv

\* Every step keeps types and what bundles are.
LEMMA TypedStep == IInv /\ TypedInv /\ [Next]_vars => TypedInv'
<1> SUFFICES ASSUME IInv, TypedInv, [Next]_vars PROVE TypedInv'
  OBVIOUS
<1>1. CASE RepositoryNext /\ UNCHANGED <<evidence, calls, crashes>>
  BY <1>1, TypedRepository
<1>2. ASSUME NEW p \in Preparers, Prepare(p) PROVE TypedInv'
  BY <1>2, TypedPrepare
<1>3. ASSUME NEW h \in Hosts, NEW s, NEW executed, NEW t \in Reports[h],
             LoadSession(h, Report(s, executed, t))
      PROVE  TypedInv'
  <2>1. t.id \in DocIds /\ t.evaluation \in DocIds
    BY BridgeAssumption DEF ReportType
  <2>2. /\ Report(s, executed, t).receipt.id = t.id
        /\ Report(s, executed, t).evaluation.id = t.evaluation
    BY DEF Report, ReceiptOf, EvaluationOf
  <2>3. QED
    BY <1>3, <2>1, <2>2, TypedLoad
<1>4. ASSUME NEW h \in Hosts, Observe(h) PROVE TypedInv'
  BY <1>4, TypedObserve
<1>5. ASSUME NEW h \in Hosts, Cut(h) PROVE TypedInv'
  BY <1>5, TypedCut
<1>6. CASE UNCHANGED vars
  BY <1>6 DEF vars, indexVars, repository, evidence, calls, TypedInv, E!Stored
<1>7. QED
  BY <1>1, <1>2, <1>3, <1>4, <1>5, <1>6 DEF Next

\* Both invariants hold of every behaviour.
LEMMA TypedInductive == Spec => [](IInv /\ TypedInv)
<1>1. Init => IInv /\ TypedInv
  BY InvInit, TypedInit
<1>2. (IInv /\ TypedInv) /\ [Next]_vars => (IInv /\ TypedInv)'
  BY InvStep, TypedStep
<1>3. QED
  BY <1>1, <1>2, PTL DEF Spec

-----------------------------------------------------------------------------
(* What the runs check, for every value of the constants                   *)

\* An index that is used gives what an audited scan would give.
THEOREM IndexAlwaysAgrees == Spec => []IndexAgreesWithScan
<1>1. ASSUME IInv, NEW q \in Queries, IndexIsVerified(q.as_of)
      PROVE  index.snapshot = Scan(q.as_of)
  <2>1. /\ index # NoIndex /\ batch = NoBatch
        /\ index.snapshot.store = store /\ index.day = q.as_of /\ index.config = config
    BY <1>1, VerifiedIs DEF IInv
  <2>2. /\ store \in Retrievable[q.as_of, config]
        /\ index.snapshot = SnapshotOf(store, q.as_of, config)
    BY <1>1, <2>1, Zenon DEF IInv, RetrievalInv, IndexInv
  <2>3. QED
    BY <2>1, <2>2 DEF Scan
<1>2. IInv => IndexAgreesWithScan
  BY <1>1 DEF IndexAgreesWithScan
<1>3. QED
  BY <1>2, Inductive, PTL

\* No context is stored that was compiled from anything but a committed store.
THEOREM ContextsStayCommitted == Spec => []ContextsAreCommitted
<1>1. IInv => ContextsAreCommitted
  BY DEF IInv
<1>2. QED
  BY <1>1, Inductive, PTL

\* The audit of the bridge passes after every step.
THEOREM BridgeAlwaysPasses == Spec => []BridgeAuditPasses
<1>1. ASSUME IInv PROVE BridgeAuditPasses
  <2> DEFINE ledger == E!Stored("orchestration")
  <2>1. \A s \in sessions : SessionIsValid(s) /\ s.context \in contexts
    BY <1>1 DEF IInv, SessionsInv
  <2>2. ASSUME NEW o \in observations
        PROVE  /\ o.session \in sessions
               /\ {d \in ledger : d.id = o.receipt.id} = {o.receipt}
               /\ {d \in ledger : d.id = o.evaluation.id} = {o.evaluation}
               /\ ReportIsValid(o.session, o.receipt, o.evaluation)
               /\ \A p \in observations \ {o} : p.receipt.id # o.receipt.id
    <3>1. Agrees(o) /\ Evidenced(o) /\ E!Unique(ledger)
      BY <1>1 DEF IInv, ObservedInv, LedgerInv
    <3>2. ASSUME NEW d \in ledger PROVE {e \in ledger : e.id = d.id} = {d}
      BY <3>1 DEF E!Unique
    <3>3. \A p \in observations \ {o} : p.receipt.id # o.receipt.id
      BY <1>1 DEF IInv, ObservedInv
    <3>4. o.receipt \in ledger /\ o.evaluation \in ledger
      BY <3>1 DEF Evidenced
    <3>5. QED
      BY <3>1, <3>2, <3>3, <3>4, Zenon DEF Agrees
  <2>3. QED
    BY <2>1, <2>2, Zenon DEF BridgeAuditPasses
<1>2. QED
  BY <1>1, Inductive, PTL

\* Every variable keeps to its type: in particular every bundle that a preparation
\* compiles is a bundle, with scores and sizes that are numbers.
THEOREM TypesHold == Spec => []TypeOK
<1>1. ASSUME IInv, TypedInv PROVE TypeOK
  <2>1. /\ store \in Stores /\ batch \in Stores \cup {NoBatch} /\ config \in Configs
        /\ committed \subseteq Stores
        /\ index # NoIndex => index.config \in Configs /\ index.snapshot.store \in Stores
    BY <1>1 DEF IInv, RetrievalInv, RepositoryInv, IndexInv
  <2>2. contexts \subseteq BundleType
    BY <1>1 DEF TypedInv, WellCompiled
  <2>3. DOMAIN episodes = E!Ledgers
    BY <1>1 DEF IInv, LedgerInv
  <2>4. pc \in [Preparers \cup Hosts -> Stages]
    BY <1>1 DEF IInv, CallsInv
  <2>5. compiled \in [Preparers -> {NoBundle} \cup [request : SessionRequest, bundle : BundleType]]
    BY <1>1 DEF IInv, CallsInv, TypedInv, Prepared
  <2>6. QED
    BY <1>1, <2>1, <2>2, <2>3, <2>4, <2>5 DEF TypeOK, TypedInv
<1>2. QED
  BY <1>1, TypedInductive, PTL

\* Whatever was in the store and whatever was asked, a stored bundle keeps to its
\* budget, accounts for every record and leaves out nothing that would fit.
THEOREM BudgetsAreKept == Spec => []BundlesKeepBudget
<1>1. IInv /\ TypedInv => BundlesKeepBudget
  BY DEF TypedInv, WellCompiled, BundlesKeepBudget
<1>2. QED
  BY <1>1, TypedInductive, PTL

\* Whatever was in the store and whatever was asked, a stored bundle is chosen, best
\* first, from exactly the records that its query reaches.
THEOREM RelationsStayFollowed == Spec => []RelationsAreFollowed
<1>1. IInv /\ TypedInv => RelationsAreFollowed
  BY DEF TypedInv, WellCompiled, RelationsAreFollowed
<1>2. QED
  BY <1>1, TypedInductive, PTL
=============================================================================
