----------------------------- MODULE FoldProofs -----------------------------
(***************************************************************************)
(* Induction and recursion for the proofs of this project.  The induction  *)
(* theorems of the library take a predicate as an operator; here it is a   *)
(* set of numbers, or of sets, and what a recursive function computes is    *)
(* the value of a function that is known to exist.                         *)
(***************************************************************************)
EXTENDS Naturals, FiniteSets, FiniteSetsExt, FiniteSetTheorems, WellFoundedInduction, TLAPS

\* A non-empty set of natural numbers has a least element.
LEMMA LeastNumber ==
  ASSUME NEW S \in SUBSET Nat, S # {}
  PROVE  \E n \in S : \A m \in S : n <= m
<1>1. PICK n \in S : \A m \in Nat : <<m, n>> \in OpToRel(<, Nat) => m \notin S
  BY WFMin, NatLessThanWellFounded
<1>2. \A m \in S : ~ (m < n)
  BY <1>1 DEF OpToRel
<1> QED BY <1>2

\* Induction up to n: P is the set of the numbers for which it holds.
LEMMA UpTo ==
  ASSUME NEW n \in Nat, NEW P, 0 \in P, \A i \in 0..(n - 1) : i \in P => i + 1 \in P
  PROVE  \A i \in 0..n : i \in P
<1> DEFINE Left == {i \in 0..n : i \notin P}
<1>1. SUFFICES ASSUME Left # {} PROVE FALSE
  OBVIOUS
<1>0. Left \in SUBSET Nat
  OBVIOUS
<1>2. PICK i \in Left : \A m \in Left : i <= m
  <2> HIDE DEF Left
  <2> QED BY <1>0, <1>1, LeastNumber
<1>3. i # 0 /\ i - 1 \in 0..(n - 1)
  BY <1>2
<1>4. i - 1 \in P
  BY <1>2, <1>3
<1>5. (i - 1) + 1 \in P
  BY <1>3, <1>4
<1>6. (i - 1) + 1 = i
  BY <1>2
<1> QED BY <1>2, <1>5, <1>6

\* Induction over finite sets: P has the empty set, and with a set the larger ones.
LEMMA BySize ==
  ASSUME NEW S, IsFiniteSet(S), NEW P,
         {} \in P, \A T \in SUBSET S, x \in S : T \in P /\ x \notin T => T \cup {x} \in P
  PROVE  \A T \in SUBSET S : T \in P
<1> DEFINE Sizes == {Cardinality(T) : T \in {T \in SUBSET S : T \notin P}}
<1>1. \A T \in SUBSET S : IsFiniteSet(T) /\ Cardinality(T) \in Nat
  BY FS_Subset, FS_CardinalityType
<1>2. SUFFICES ASSUME Sizes # {} PROVE FALSE
  OBVIOUS
<1>3. Sizes \in SUBSET Nat
  BY <1>1
<1>4. PICK n \in Sizes : \A m \in Sizes : n <= m
  BY <1>2, <1>3, LeastNumber
<1>5. PICK T \in SUBSET S : T \notin P /\ n = Cardinality(T)
  BY <1>4
<1>6. PICK x \in T : TRUE
  BY <1>5
<1>7. T \ {x} \in SUBSET S /\ Cardinality(T \ {x}) = Cardinality(T) - 1
  BY <1>1, <1>5, <1>6, FS_RemoveElement
<1>8. Cardinality(T \ {x}) \in Nat /\ Cardinality(T) \in Nat
  BY <1>1, <1>7
<1>9. T \ {x} \in P
  <2>1. SUFFICES ASSUME T \ {x} \notin P PROVE FALSE
    OBVIOUS
  <2>2. Cardinality(T \ {x}) \in Sizes
    BY <1>7, <2>1
  <2> HIDE DEF Sizes
  <2> QED BY <1>4, <1>5, <1>7, <1>8, <2>2
<1>10. (T \ {x}) \cup {x} = T
  OBVIOUS
<1> QED BY <1>5, <1>6, <1>7, <1>9, <1>10

\* A recursion over 0..n has a value at each place.
Steps(f, n, V, base, step) ==
  f \in [0..n -> V] /\ f[0] = base /\ \A i \in 1..n : f[i] = step[<<i, f[i - 1]>>]
LEMMA CountedRecursion ==
  ASSUME NEW n \in Nat, NEW V, NEW base \in V, NEW step \in [(1..n) \X V -> V]
  PROVE  \E f : Steps(f, n, V, base, step)
<1> DEFINE Solves(f, k) == f[0] = base /\ \A i \in 1..k : f[i] = step[<<i, f[i - 1]>>]
           P == {k \in 0..n : \E f \in [0..n -> V] : Solves(f, k)}
<1>1. 0 \in P
  <2> DEFINE f == [i \in 0..n |-> base]
  <2>1. f \in [0..n -> V] /\ f[0] = base
    OBVIOUS
  <2>2. 1..0 = {} /\ 0 \in 0..n
    OBVIOUS
  <2> HIDE DEF f
  <2>3. Solves(f, 0)
    BY <2>1, <2>2
  <2> QED BY <2>1, <2>2, <2>3
<1>2. ASSUME NEW k \in 0..(n - 1), k \in P PROVE k + 1 \in P
  <2>1. PICK f \in [0..n -> V] : Solves(f, k)
    BY <1>2
  <2> DEFINE next == step[<<k + 1, f[k]>>]
             g == [f EXCEPT ![k + 1] = next]
  <2>2. k + 1 \in 1..n /\ k + 1 \in 0..n /\ k \in 0..k /\ f[k] \in V /\ next \in V
    OBVIOUS
  <2>3. g \in [0..n -> V] /\ \A i \in 0..k : g[i] = f[i]
    <3> HIDE DEF next
    <3> QED BY <2>2
  <2>4. g[k + 1] = next
    <3> HIDE DEF next
    <3> QED BY <2>2
  <2>5. g[k + 1] = step[<<k + 1, g[k]>>]
    <3> HIDE DEF g
    <3> QED BY <2>2, <2>3, <2>4
  <2> HIDE DEF g
  <2>6. Solves(g, k + 1)
    <3>1. g[0] = base
      BY <2>1, <2>3
    <3>2. ASSUME NEW i \in 1..(k + 1) PROVE g[i] = step[<<i, g[i - 1]>>]
      <4>1. CASE i = k + 1
        BY <2>5, <4>1
      <4>2. CASE i # k + 1
        <5>1. i \in 1..k /\ i \in 0..k /\ i - 1 \in 0..k
          BY <4>2
        <5> QED BY <2>1, <2>3, <5>1
      <4> QED BY <4>1, <4>2
    <3> QED BY <3>1, <3>2
  <2> QED BY <2>2, <2>3, <2>6
<1> HIDE DEF P
<1>3. \A i \in 0..n : i \in P
  BY <1>1, <1>2, UpTo
<1>4. n \in P
  BY <1>3
<1> QED BY <1>4 DEF P, Steps

\* So has one that takes the elements out of a finite set, in any order.
Picks(pick, S) ==
  pick \in [(SUBSET S) \ {{}} -> S] /\ \A T \in (SUBSET S) \ {{}} : pick[T] \in T
Recurses(f, S, base, pick, step) ==
  \A T \in SUBSET S : f[T] = IF T = {} THEN base ELSE step[<<pick[T], f[T \ {pick[T]}]>>]
LEMMA SetRecursion ==
  ASSUME NEW S, IsFiniteSet(S), NEW V, NEW base \in V, NEW pick, Picks(pick, S),
         NEW step \in [S \X V -> V]
  PROVE  \E f \in [SUBSET S -> V] : Recurses(f, S, base, pick, step)
<1> USE DEF Picks, Recurses
<1> DEFINE n == Cardinality(S)
           Turn(f) == [T \in SUBSET S |-> IF T = {} THEN base ELSE step[<<pick[T], f[T \ {pick[T]}]>>]]
           Small(k) == {T \in SUBSET S : Cardinality(T) <= k}
           P == {k \in 0..n : \E f \in [SUBSET S -> V] : \A T \in Small(k) : f[T] = Turn(f)[T]}
<1>1. n \in Nat /\ \A T \in SUBSET S : IsFiniteSet(T) /\ Cardinality(T) \in Nat /\ Cardinality(T) <= n
  BY FS_Subset, FS_CardinalityType
<1>2. \A T \in (SUBSET S) \ {{}} : /\ pick[T] \in T /\ T \ {pick[T]} \in SUBSET S
                                  /\ Cardinality(T \ {pick[T]}) = Cardinality(T) - 1
  BY <1>1, FS_RemoveElement
<1>3. \A f \in [SUBSET S -> V] : Turn(f) \in [SUBSET S -> V]
  BY <1>2
<1>4. 0 \in P
  <2>1. [T \in SUBSET S |-> base] \in [SUBSET S -> V]
    OBVIOUS
  <2>2. \A T \in Small(0) : T = {}
    BY <1>1, FS_EmptySet
  <2> DEFINE f == [T \in SUBSET S |-> base]
  <2>3. \A T \in Small(0) : f[T] = Turn(f)[T]
    BY <2>2
  <2> HIDE DEF f, Small, Turn
  <2>4. 0 \in 0..n /\ f \in [SUBSET S -> V]
    BY <1>1, <2>1 DEF f
  <2> QED BY <2>3, <2>4
<1>5. ASSUME NEW k \in 0..(n - 1), k \in P PROVE k + 1 \in P
  <2>1. PICK f \in [SUBSET S -> V] : \A T \in Small(k) : f[T] = Turn(f)[T]
    BY <1>5
  <2>2. Turn(f) \in [SUBSET S -> V]
    BY <1>3
  <2>3. ASSUME NEW T \in Small(k + 1) PROVE Turn(f)[T] = Turn(Turn(f))[T]
    <3>1. CASE T = {}
      BY <3>1
    <3>2. CASE T # {}
      <4>1. T \ {pick[T]} \in Small(k)
        BY <1>1, <1>2, <3>2
      <4>2. f[T \ {pick[T]}] = Turn(f)[T \ {pick[T]}]
        BY <2>1, <4>1
      <4> QED BY <3>2, <4>2
    <3> QED BY <3>1, <3>2
  <2> HIDE DEF Turn, Small
  <2>4. k + 1 \in 0..n
    BY <1>1
  <2> QED BY <2>2, <2>3, <2>4
<1> HIDE DEF P
<1>6. \A i \in 0..n : i \in P
  BY <1>1, <1>4, <1>5, UpTo
<1>7. n \in P
  BY <1>1, <1>6
<1>8. PICK f \in [SUBSET S -> V] : \A T \in Small(n) : f[T] = Turn(f)[T]
  BY <1>7 DEF P
<1>9. \A T \in SUBSET S : T \in Small(n)
  BY <1>1
<1> QED BY <1>8, <1>9

-----------------------------------------------------------------------------
(* Sums over finite sets.                                                  *)

Counts(g, key, S) == \A x \in S : g[key[x]] \in Nat
\* The sum of g[key[s]] over the elements s of S.
SumOf(g, key, S) == MapThenSumSet(LAMBDA s : g[key[s]], S)

AnyOf(T) == CHOOSE x \in T : TRUE
SumTurn(g, key, S, f) ==
  [T \in SUBSET S |-> IF T = {} THEN 0 ELSE g[key[AnyOf(T)]] + f[T \ {AnyOf(T)}]]

Solves(f, g, key, S) == f \in [SUBSET S -> Nat] /\ f = SumTurn(g, key, S, f)

\* Whatever satisfies the recursion of a sum has numbers as values.
LEMMA SumTurns ==
  ASSUME NEW S, IsFiniteSet(S), NEW g, NEW key, Counts(g, key, S)
  PROVE  /\ \E f : Solves(f, g, key, S)
         /\ \A iter : iter = SumTurn(g, key, S, iter) => Solves(iter, g, key, S)
<1> DEFINE pick == [T \in (SUBSET S) \ {{}} |-> AnyOf(T)]
           step == [x \in S \X Nat |-> g[key[x[1]]] + x[2]]
<1>1. \A T \in (SUBSET S) \ {{}} : AnyOf(T) \in T
  BY DEF AnyOf
<1>2. Picks(pick, S)
  BY <1>1 DEF Picks
<1>3. step \in [S \X Nat -> Nat]
  BY DEF Counts
<1>4. PICK f \in [SUBSET S -> Nat] : Recurses(f, S, 0, pick, step)
  <2> HIDE DEF pick, step
  <2>1. 0 \in Nat
    OBVIOUS
  <2> QED BY <1>2, <1>3, <2>1, SetRecursion
<1>5. f = SumTurn(g, key, S, f)
  <2>1. ASSUME NEW T \in SUBSET S PROVE f[T] = SumTurn(g, key, S, f)[T]
    <3>1. CASE T = {}
      BY <1>4, <3>1 DEF SumTurn, Recurses
    <3>2. CASE T # {}
      <4>1. /\ pick[T] = AnyOf(T) /\ AnyOf(T) \in S
            /\ T \ {AnyOf(T)} \in SUBSET S /\ f[T \ {AnyOf(T)}] \in Nat
        BY <1>1, <3>2
      <4>2. step[<<AnyOf(T), f[T \ {AnyOf(T)}]>>] = g[key[AnyOf(T)]] + f[T \ {AnyOf(T)}]
        BY <4>1
      <4> QED BY <1>4, <3>2, <4>1, <4>2 DEF SumTurn, Recurses
    <3> QED BY <3>1, <3>2
  <2> QED BY <2>1 DEF SumTurn
<1>6. ASSUME NEW iter, iter = SumTurn(g, key, S, iter) PROVE Solves(iter, g, key, S)
  <2>1. DOMAIN iter = SUBSET S /\ iter = [T \in SUBSET S |-> iter[T]]
    BY <1>6 DEF SumTurn
  <2>2. \A T \in SUBSET S : iter[T] = IF T = {} THEN 0 ELSE g[key[AnyOf(T)]] + iter[T \ {AnyOf(T)}]
    BY <1>6 DEF SumTurn
  <2>3. \A T \in SUBSET S : iter[T] = f[T]
    <3> DEFINE Sizes == {k \in Nat : \A T \in SUBSET S : Cardinality(T) <= k => iter[T] = f[T]}
    <3>1. \A T \in SUBSET S : IsFiniteSet(T) /\ Cardinality(T) \in Nat /\ Cardinality(T) <= Cardinality(S)
      BY FS_Subset, FS_CardinalityType
    <3>2. 0 \in Sizes
      <4>1. ASSUME NEW T \in SUBSET S, Cardinality(T) <= 0 PROVE iter[T] = f[T]
        <5>1. T = {}
          BY <3>1, <4>1, FS_EmptySet
        <5> QED BY <1>4, <2>2, <5>1 DEF Recurses
      <4> QED BY <4>1
    <3>3. ASSUME NEW k \in 0..(Cardinality(S) - 1), k \in Sizes PROVE k + 1 \in Sizes
      <4>1. ASSUME NEW T \in SUBSET S, Cardinality(T) <= k + 1 PROVE iter[T] = f[T]
        <5>1. CASE T = {}
          BY <1>4, <2>2, <5>1 DEF Recurses
        <5>2. CASE T # {}
          <6>1. AnyOf(T) \in T /\ T \ {AnyOf(T)} \in SUBSET S
            BY <1>1, <5>2
          <6>2. Cardinality(T \ {AnyOf(T)}) = Cardinality(T) - 1
            BY <3>1, <6>1, FS_RemoveElement
          <6>3. Cardinality(T \ {AnyOf(T)}) <= k
            BY <3>1, <4>1, <6>1, <6>2
          <6>4. iter[T \ {AnyOf(T)}] = f[T \ {AnyOf(T)}]
            BY <3>3, <6>1, <6>3
          <6>5. f[T] = g[key[AnyOf(T)]] + f[T \ {AnyOf(T)}]
            <7> HIDE DEF pick, step
            <7> QED BY <1>5, <5>2 DEF SumTurn
          <6> QED BY <2>2, <5>2, <6>4, <6>5
        <5> QED BY <5>1, <5>2
      <4> QED BY <4>1
    <3> HIDE DEF Sizes
    <3>4. Cardinality(S) \in Nat
      BY <3>1
    <3>5. Cardinality(S) \in Sizes
      BY <3>2, <3>3, <3>4, UpTo
    <3> QED BY <3>1, <3>5 DEF Sizes
  <2>4. iter \in [SUBSET S -> Nat]
    BY <2>1, <2>3
  <2> QED BY <1>6, <2>4 DEF Solves
<1> QED BY <1>5, <1>6 DEF Solves

\* A sum is the value of its recursion, in which the subsets have theirs.
SumSolved(g, key, S) == \E f : Solves(f, g, key, S) /\ SumOf(g, key, S) = f[S]
LEMMA SumRecursion ==
  ASSUME NEW S, IsFiniteSet(S), NEW g, NEW key, Counts(g, key, S)
  PROVE  SumSolved(g, key, S)
<1> DEFINE iter == CHOOSE f : f = SumTurn(g, key, S, f)
<1>1. SumOf(g, key, S) = iter[S]
  BY DEF SumOf, MapThenSumSet, MapThenFoldSet, SumTurn, AnyOf
<1>2. iter = SumTurn(g, key, S, iter)
  BY SumTurns DEF Solves
<1> HIDE DEF iter
<1> QED BY <1>1, <1>2, SumTurns DEF SumSolved

\* Two such recursions agree where their terms do.
LEMMA SameTurns ==
  ASSUME NEW S, IsFiniteSet(S), NEW R, NEW Q, S \subseteq R, S \subseteq Q,
         NEW g, NEW key, NEW h, NEW lock, \A x \in S : g[key[x]] = h[lock[x]],
         NEW f, NEW e, Solves(f, g, key, R), Solves(e, h, lock, Q)
  PROVE  \A T \in SUBSET S : f[T] = e[T]
<1> DEFINE n == Cardinality(S)
           P == {k \in Nat : \A T \in SUBSET S : Cardinality(T) <= k => f[T] = e[T]}
<1>1. \A T \in SUBSET S : IsFiniteSet(T) /\ Cardinality(T) \in Nat /\ Cardinality(T) <= n
  BY FS_Subset, FS_CardinalityType
<1>2. ASSUME NEW T \in SUBSET S
      PROVE  /\ f[T] = IF T = {} THEN 0 ELSE g[key[AnyOf(T)]] + f[T \ {AnyOf(T)}]
             /\ e[T] = IF T = {} THEN 0 ELSE h[lock[AnyOf(T)]] + e[T \ {AnyOf(T)}]
             /\ T # {} => AnyOf(T) \in T
  <2>1. T \in SUBSET R /\ T \in SUBSET Q
    OBVIOUS
  <2> QED BY <2>1 DEF Solves, SumTurn, AnyOf
<1>3. 0 \in P
  <2>1. ASSUME NEW T \in SUBSET S, Cardinality(T) <= 0 PROVE f[T] = e[T]
    <3>1. T = {}
      BY <1>1, <2>1, FS_EmptySet
    <3> QED BY <1>2, <3>1
  <2> QED BY <2>1
<1>4. ASSUME NEW k \in 0..(n - 1), k \in P PROVE k + 1 \in P
  <2>1. ASSUME NEW T \in SUBSET S, Cardinality(T) <= k + 1 PROVE f[T] = e[T]
    <3>1. CASE T = {}
      BY <1>2, <3>1
    <3>2. CASE T # {}
      <4>1. AnyOf(T) \in T /\ T \ {AnyOf(T)} \in SUBSET S
        BY <1>2, <3>2
      <4>2. Cardinality(T \ {AnyOf(T)}) = Cardinality(T) - 1
        BY <1>1, <4>1, FS_RemoveElement
      <4>3. Cardinality(T \ {AnyOf(T)}) <= k
        BY <1>1, <2>1, <4>1, <4>2
      <4>4. f[T \ {AnyOf(T)}] = e[T \ {AnyOf(T)}]
        BY <1>4, <4>1, <4>3
      <4> QED BY <1>2, <3>2, <4>1, <4>4
    <3> QED BY <3>1, <3>2
  <2> QED BY <2>1
<1> HIDE DEF P
<1>5. n \in Nat
  BY <1>1
<1>6. n \in P
  BY <1>3, <1>4, <1>5, UpTo
<1> QED BY <1>1, <1>6 DEF P

\* Sums are the same when their terms are.
LEMMA SameSums ==
  ASSUME NEW S, IsFiniteSet(S), NEW g, NEW key, NEW h, NEW lock,
         Counts(g, key, S), \A x \in S : g[key[x]] = h[lock[x]]
  PROVE  SumOf(g, key, S) = SumOf(h, lock, S)
<1>1. PICK f : Solves(f, g, key, S) /\ SumOf(g, key, S) = f[S]
  BY SumRecursion DEF SumSolved
<1>2. PICK e : Solves(e, h, lock, S) /\ SumOf(h, lock, S) = e[S]
  <2>1. Counts(h, lock, S)
    BY DEF Counts
  <2> QED BY <2>1, SumRecursion DEF SumSolved
<1>3. \A T \in SUBSET S : f[T] = e[T]
  BY <1>1, <1>2, SameTurns
<1> QED BY <1>1, <1>2, <1>3

LEMMA SumType ==
  ASSUME NEW S, IsFiniteSet(S), NEW g, NEW key, Counts(g, key, S)
  PROVE  SumOf(g, key, S) \in Nat
<1>1. PICK f : Solves(f, g, key, S) /\ SumOf(g, key, S) = f[S]
  BY SumRecursion DEF SumSolved
<1>2. S \in SUBSET S /\ f \in [SUBSET S -> Nat]
  BY <1>1 DEF Solves
<1> QED BY <1>1, <1>2

LEMMA SumEmpty ==
  ASSUME NEW g, NEW key
  PROVE  SumOf(g, key, {}) = 0
<1>1. PICK f : Solves(f, g, key, {}) /\ SumOf(g, key, {}) = f[{}]
  BY SumRecursion, FS_EmptySet DEF Counts, SumSolved
<1>2. f[{}] = 0
  BY <1>1 DEF Solves, SumTurn
<1> QED BY <1>1, <1>2

\* The sum of a subset is what the recursion of the whole set has there.
SumsSolved(f, g, key, S) == Solves(f, g, key, S) /\ \A T \in SUBSET S : SumOf(g, key, T) = f[T]
LEMMA SubsetSums ==
  ASSUME NEW S, IsFiniteSet(S), NEW g, NEW key, Counts(g, key, S)
  PROVE  \E f : SumsSolved(f, g, key, S)
<1>1. PICK f : Solves(f, g, key, S) /\ SumOf(g, key, S) = f[S]
  BY SumRecursion DEF SumSolved
<1>2. ASSUME NEW T \in SUBSET S PROVE SumOf(g, key, T) = f[T]
  <2>1. IsFiniteSet(T) /\ Counts(g, key, T)
    BY FS_Subset DEF Counts
  <2>2. PICK e : Solves(e, g, key, T) /\ SumOf(g, key, T) = e[T]
    BY <2>1, SumRecursion DEF SumSolved
  <2>3. \A R \in SUBSET T : e[R] = f[R]
    BY <1>1, <2>1, <2>2, SameTurns
  <2> QED BY <2>2, <2>3
<1> QED BY <1>1, <1>2 DEF SumsSolved

\* Any element can be taken out of a sum.
LEMMA SumRemove ==
  ASSUME NEW S, IsFiniteSet(S), NEW g, NEW key, Counts(g, key, S), NEW x \in S
  PROVE  SumOf(g, key, S) = g[key[x]] + SumOf(g, key, S \ {x})
<1>1. PICK f : SumsSolved(f, g, key, S)
  BY SubsetSums
<1> DEFINE n == Cardinality(S)
           Any(T) == \A y \in T : f[T] = g[key[y]] + f[T \ {y}]
           P == {k \in Nat : \A T \in SUBSET S : Cardinality(T) <= k => Any(T)}
<1>2. \A T \in SUBSET S : IsFiniteSet(T) /\ Cardinality(T) \in Nat /\ Cardinality(T) <= n
  BY FS_Subset, FS_CardinalityType
<1>3. 0 \in P
  <2>1. \A T \in SUBSET S : Cardinality(T) <= 0 => T = {}
    BY <1>2, FS_EmptySet
  <2> QED BY <2>1
<1>4. ASSUME NEW k \in 0..(n - 1), k \in P PROVE k + 1 \in P
  <2>1. ASSUME NEW T \in SUBSET S, NEW y \in T, Cardinality(T) <= k + 1
        PROVE  f[T] = g[key[y]] + f[T \ {y}]
    <3> DEFINE z == AnyOf(T)
    <3>1. z \in T /\ f[T] = g[key[z]] + f[T \ {z}]
      BY <1>1 DEF SumsSolved, Solves, SumTurn, AnyOf
    <3> HIDE DEF z
    <3>2. CASE z = y
      BY <3>1, <3>2
    <3>3. CASE z # y
      <4> DEFINE Y == T \ {y}  Z == T \ {z}
      <4>1. Y \in SUBSET S /\ Z \in SUBSET S /\ z \in Y /\ y \in Z
        BY <3>1, <3>3
      <4>2. Cardinality(Y) = Cardinality(T) - 1 /\ Cardinality(Z) = Cardinality(T) - 1
        BY <1>2, <3>1, FS_RemoveElement
      <4>3. Cardinality(Y) <= k /\ Cardinality(Z) <= k
        BY <1>2, <2>1, <4>1, <4>2
      <4>4. Y \ {z} = Z \ {y}
        OBVIOUS
      <4> HIDE DEF Y, Z
      <4>5. f[Y] = g[key[z]] + f[Y \ {z}] /\ f[Z] = g[key[y]] + f[Z \ {y}]
        BY <1>4, <4>1, <4>3
      <4>6. g[key[z]] \in Nat /\ g[key[y]] \in Nat
        BY <3>1 DEF Counts
      <4>8. f[Y \ {z}] \in Nat
        BY <1>1, <4>1 DEF SumsSolved, Solves
      <4>7. f[T] = g[key[z]] + f[Z]
        BY <3>1 DEF Z
      <4>9. f[Y] = g[key[z]] + f[Y \ {z}] /\ f[Z] = g[key[y]] + f[Y \ {z}]
        BY <4>4, <4>5
      <4>10. f[T] = g[key[y]] + f[Y]
        BY <4>6, <4>7, <4>8, <4>9
      <4> QED BY <4>10 DEF Y
    <3> QED BY <3>2, <3>3
  <2>2. \A T \in SUBSET S : Cardinality(T) <= k + 1 => Any(T)
    BY <2>1
  <2> HIDE DEF Any
  <2> QED BY <2>2
<1> HIDE DEF P
<1>5. n \in Nat
  BY <1>2
<1>6. n \in P
  BY <1>3, <1>4, <1>5, UpTo
<1>7. f[S] = g[key[x]] + f[S \ {x}]
  BY <1>2, <1>6 DEF P
<1> QED BY <1>1, <1>7 DEF SumsSolved

\* A sum is that of a part and that of the rest.
LEMMA SumSplit ==
  ASSUME NEW S, IsFiniteSet(S), NEW g, NEW key, Counts(g, key, S), NEW R \in SUBSET S
  PROVE  SumOf(g, key, S) = SumOf(g, key, R) + SumOf(g, key, S \ R)
<1> DEFINE P == {T \in SUBSET R : SumOf(g, key, T \cup (S \ R)) = SumOf(g, key, T) + SumOf(g, key, S \ R)}
<1>1. IsFiniteSet(R) /\ \A T \in SUBSET S : IsFiniteSet(T) /\ Counts(g, key, T)
  BY FS_Subset DEF Counts
<1>2. {} \in P
  <2>1. SumOf(g, key, S \ R) \in Nat
    BY <1>1, SumType
  <2>2. {} \cup (S \ R) = S \ R
    OBVIOUS
  <2> QED BY <2>1, <2>2, SumEmpty
<1>3. ASSUME NEW T \in SUBSET R, NEW x \in R, T \in P, x \notin T PROVE T \cup {x} \in P
  <2> DEFINE X == T \cup {x}  U == T \cup (S \ R)  Y == U \cup {x}
  <2>1. X \in SUBSET S /\ Y \in SUBSET S /\ x \in X /\ x \in Y /\ X \cup (S \ R) = Y
    OBVIOUS
  <2>2. X \ {x} = T /\ Y \ {x} = U
    BY <1>3
  <2>3. SumOf(g, key, X) = g[key[x]] + SumOf(g, key, T)
    <3> HIDE DEF X
    <3>1. IsFiniteSet(X) /\ Counts(g, key, X)
      BY <1>1, <2>1
    <3>2. SumOf(g, key, X) = g[key[x]] + SumOf(g, key, X \ {x})
      BY <2>1, <3>1, SumRemove
    <3> QED BY <2>2, <3>2
  <2>4. SumOf(g, key, Y) = g[key[x]] + SumOf(g, key, U)
    <3> HIDE DEF Y
    <3>1. IsFiniteSet(Y) /\ Counts(g, key, Y)
      BY <1>1, <2>1
    <3>2. SumOf(g, key, Y) = g[key[x]] + SumOf(g, key, Y \ {x})
      BY <2>1, <3>1, SumRemove
    <3> QED BY <2>2, <3>2
  <2>5. SumOf(g, key, U) = SumOf(g, key, T) + SumOf(g, key, S \ R)
    BY <1>3
  <2>6. /\ g[key[x]] \in Nat /\ SumOf(g, key, T) \in Nat /\ SumOf(g, key, S \ R) \in Nat
    <3>1. T \in SUBSET S /\ S \ R \in SUBSET S /\ x \in S
      OBVIOUS
    <3> QED BY <1>1, <3>1, SumType DEF Counts
  <2> HIDE DEF U, X
  <2>7. SumOf(g, key, Y) = SumOf(g, key, X) + SumOf(g, key, S \ R)
    <3> HIDE DEF Y
    <3> QED BY <2>3, <2>4, <2>5, <2>6
  <2> QED BY <2>1, <2>7 DEF X
<1>4. \A T \in SUBSET R : T \in P
  <2> HIDE DEF P
  <2> QED BY <1>1, <1>2, <1>3, BySize
<1>5. R \cup (S \ R) = S
  OBVIOUS
<1> QED BY <1>4, <1>5
=============================================================================
