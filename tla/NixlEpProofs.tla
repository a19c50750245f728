----------------------------- MODULE NixlEpProofs -----------------------------
(***************************************************************************)
(* Proofs about NixlEp, for every plan, number of nodes and processes per  *)
(* node: what passes the validation can be packed, phases start in order,  *)
(* and the verdict is what happened.                                       *)
(***************************************************************************)
EXTENDS NixlEp, TLAPS, FiniteSetTheorems, WellFoundedInduction

-----------------------------------------------------------------------------
(* Natural numbers. A set of them has a least element, so that a set that  *)
(* holds 0 and with every number the next one holds them all; and what is  *)
(* defined from number to number exists.                                   *)

Less == {ss \in Nat \X Nat : ss[1] < ss[2]}

LEMMA LeastElement ==
  ASSUME NEW S \in SUBSET Nat, S # {}
  PROVE  \E x \in S : \A y \in S : x <= y
  <1>1. IsWellFoundedOn(Less, Nat)
    BY NatLessThanWellFounded DEF OpToRel, Less
  <1>2. PICK x \in S : \A y \in S : <<y, x>> \notin Less
    BY <1>1, WFMin
  <1>3. ASSUME NEW y \in S PROVE x <= y
    <2>1. x \in Nat /\ y \in Nat /\ <<y, x>> \notin Less
      BY <1>2
    <2> QED
      BY <2>1 DEF Less
  <1> QED
    BY <1>3

LEMMA Upto ==
  ASSUME NEW N \in Nat, NEW P, 0 \in P, \A n \in 0 .. N - 1 : n \in P => n + 1 \in P
  PROVE  \A n \in 0 .. N : n \in P
  <1> SUFFICES ASSUME (0 .. N) \ P # {} PROVE FALSE
    OBVIOUS
  <1> DEFINE S == (0 .. N) \ P
  <1>0. S \in SUBSET Nat /\ S # {}
    OBVIOUS
  <1>1. PICK x \in S : \A y \in S : x <= y
    <2> HIDE DEF S
    <2> QED
      BY <1>0, LeastElement
  <1>2. x # 0 /\ x - 1 \in 0 .. N - 1 /\ x - 1 \in P
    BY <1>1
  <1> QED
    BY <1>1, <1>2

Steps(N, V, F) == F \in [(1 .. N) \X V -> V]
Course(N, V, v0, F, g) ==
  g \in [0 .. N -> V] /\ g[0] = v0 /\ \A n \in 1 .. N : g[n] = F[<<n, g[n - 1]>>]

LEMMA Recursion ==
  ASSUME NEW N \in Nat, NEW V, NEW v0 \in V, NEW F, Steps(N, V, F)
  PROVE  \E g : Course(N, V, v0, F, g)
  <1> DEFINE P == {n \in 0 .. N : \E g \in [0 .. n -> V] :
                     g[0] = v0 /\ \A i \in 1 .. n : g[i] = F[<<i, g[i - 1]>>]}
  <1>0. F \in [(1 .. N) \X V -> V]
    BY DEF Steps
  <1>1. 0 \in P
    <2> DEFINE h == [n \in 0 .. 0 |-> v0]
    <2>1. h \in [0 .. 0 -> V] /\ h[0] = v0 /\ \A i \in 1 .. 0 : h[i] = F[<<i, h[i - 1]>>]
      OBVIOUS
    <2>2. 0 \in 0 .. N
      OBVIOUS
    <2> HIDE DEF h
    <2> QED
      BY <2>1, <2>2
  <1>2. ASSUME NEW n \in 0 .. N - 1, n \in P PROVE n + 1 \in P
    <2>1. PICK g \in [0 .. n -> V] : g[0] = v0 /\ \A i \in 1 .. n : g[i] = F[<<i, g[i - 1]>>]
      BY <1>2
    <2> DEFINE h == [i \in 0 .. n + 1 |-> IF i = n + 1 THEN F[<<n + 1, g[n]>>] ELSE g[i]]
    <2>2. h \in [0 .. n + 1 -> V]
      BY <1>0, <2>1
    <2>3. ASSUME NEW i \in 1 .. n + 1 PROVE h[i] = F[<<i, h[i - 1]>>]
      <3>1. i - 1 \in 0 .. n /\ h[i - 1] = g[i - 1]
        BY <2>1
      <3>2. CASE i = n + 1
        <4>1. h[i] = F[<<n + 1, g[n]>>] /\ h[i - 1] = g[n]
          BY <3>1, <3>2
        <4> HIDE DEF h
        <4> QED
          BY <3>2, <4>1
      <3>3. CASE i # n + 1
        BY <2>1, <3>1, <3>3
      <3> QED
        BY <3>2, <3>3
    <2>4. h[0] = v0 /\ n + 1 \in 0 .. N
      BY <2>1
    <2> HIDE DEF h
    <2> QED
      BY <2>2, <2>3, <2>4
  <1> HIDE DEF P
  <1>3. N \in P
    BY <1>1, <1>2, Upto
  <1> QED
    BY <1>3 DEF P, Course

-----------------------------------------------------------------------------
(* Sums. SumFunctionOnSet takes one element after the other, as CHOOSE has *)
(* it; the sum is the same whichever is taken first.                       *)

SumOn(f, S) == SumFunctionOnSet(f, S)
First(S)  == CHOOSE x \in S : TRUE
Iterates(f, S, iter) ==
  iter = [s \in SUBSET S |-> IF s = {} THEN 0 ELSE f[First(s)] + iter[s \ {First(s)}]]

LEMMA SumIsIterated ==
  ASSUME NEW f, NEW S
  PROVE  SumOn(f, S) = (CHOOSE iter : Iterates(f, S, iter))[S]
  BY DEF SumOn, SumFunctionOnSet, FoldFunctionOnSet, MapThenFoldSet, Iterates, First

LEMMA FirstIn ==
  ASSUME NEW S, S # {}
  PROVE  First(S) \in S
  BY DEF First

LEMMA Smaller ==
  ASSUME NEW S, IsFiniteSet(S), NEW x \in S
  PROVE  /\ IsFiniteSet(S \ {x})
         /\ Cardinality(S) \in Nat \ {0}
         /\ Cardinality(S \ {x}) = Cardinality(S) - 1
  <1>1. Cardinality(S) \in Nat /\ Cardinality(S) # 0
    BY FS_CardinalityType, FS_EmptySet
  <1> QED
    BY <1>1, FS_RemoveElement

LEMMA IterationExists ==
  ASSUME NEW S, IsFiniteSet(S), NEW f, \A x \in S : f[x] \in Int
  PROVE  \E iter \in [SUBSET S -> Int] : Iterates(f, S, iter)
  <1> DEFINE N == Cardinality(S)
             Upper(n) == {s \in SUBSET S : Cardinality(s) <= n}
             P == {n \in 0 .. N : \E g \in [Upper(n) -> Int] :
                     g = [s \in Upper(n) |-> IF s = {} THEN 0 ELSE f[First(s)] + g[s \ {First(s)}]]}
  <1>1. N \in Nat
    BY FS_CardinalityType
  <1>2. \A s \in SUBSET S : /\ IsFiniteSet(s) /\ Cardinality(s) \in Nat /\ Cardinality(s) <= N
                            /\ Cardinality(s) = 0 <=> s = {}
    BY FS_Subset, FS_CardinalityType, FS_EmptySet
  <1>3. \A s \in SUBSET S : s # {} =>
          /\ First(s) \in s /\ f[First(s)] \in Int
          /\ s \ {First(s)} \in SUBSET S /\ Cardinality(s \ {First(s)}) = Cardinality(s) - 1
    BY <1>2, FirstIn, Smaller
  <1>4. 0 \in P
    <2>1. \A s \in Upper(0) : s = {}
      BY <1>2
    <2> DEFINE h == [s \in Upper(0) |-> 0]
    <2>2. h \in [Upper(0) -> Int]
      OBVIOUS
    <2>3. h = [s \in Upper(0) |-> IF s = {} THEN 0 ELSE f[First(s)] + h[s \ {First(s)}]]
      BY <2>1
    <2>4. 0 \in 0 .. N
      BY <1>1
    <2> HIDE DEF h, Upper
    <2> QED
      BY <2>2, <2>3, <2>4
  <1>5. ASSUME NEW n \in 0 .. N - 1, n \in P PROVE n + 1 \in P
    <2>1. PICK g \in [Upper(n) -> Int] :
            g = [s \in Upper(n) |-> IF s = {} THEN 0 ELSE f[First(s)] + g[s \ {First(s)}]]
      BY <1>5
    <2> DEFINE h == [s \in Upper(n + 1) |-> IF s = {} THEN 0 ELSE f[First(s)] + g[s \ {First(s)}]]
    <2>2. \A s \in Upper(n + 1) : s # {} => s \ {First(s)} \in Upper(n)
      BY <1>1, <1>2, <1>3
    <2>3. h \in [Upper(n + 1) -> Int]
      <3>1. \A s \in Upper(n + 1) : s # {} => f[First(s)] \in Int /\ g[s \ {First(s)}] \in Int
        BY <1>3, <2>1, <2>2
      <3>2. ASSUME NEW s \in Upper(n + 1)
            PROVE  (IF s = {} THEN 0 ELSE f[First(s)] + g[s \ {First(s)}]) \in Int
        <4>1. CASE s = {}
          BY <4>1
        <4>2. CASE s # {}
          <5>1. f[First(s)] \in Int /\ g[s \ {First(s)}] \in Int
            BY <3>1, <4>2
          <5> QED
            BY <4>2, <5>1
        <4> QED
          BY <4>1, <4>2
      <3> HIDE DEF Upper
      <3> QED
        BY <3>2
    <2>4. \A s \in Upper(n) : s \in Upper(n + 1) /\ h[s] = g[s]
      <3>1. TAKE s \in Upper(n)
      <3>2. s \in Upper(n + 1)
        BY <1>1, <1>2
      <3>3. g[s] = IF s = {} THEN 0 ELSE f[First(s)] + g[s \ {First(s)}]
        BY <2>1
      <3> QED
        BY <3>2, <3>3
    <2>5. h = [s \in Upper(n + 1) |-> IF s = {} THEN 0 ELSE f[First(s)] + h[s \ {First(s)}]]
      BY <2>2, <2>4
    <2>6. n + 1 \in 0 .. N
      BY <1>1
    <2> HIDE DEF h, Upper
    <2> QED
      BY <2>3, <2>5, <2>6
  <1>6. \A n \in 0 .. N : n \in P
    <2> HIDE DEF P
    <2> QED
      BY <1>1, <1>4, <1>5, Upto
  <1>7. Upper(N) = SUBSET S
    BY <1>1, <1>2
  <1>8. \E g \in [Upper(N) -> Int] :
          g = [s \in Upper(N) |-> IF s = {} THEN 0 ELSE f[First(s)] + g[s \ {First(s)}]]
    <2>1. N \in P
      <3> HIDE DEF P, Upper
      <3> QED
        BY <1>1, <1>6
    <2> HIDE DEF Upper
    <2> QED
      BY <2>1
  <1> HIDE DEF Upper
  <1> QED
    BY <1>7, <1>8 DEF Iterates

(* The iteration over a subset is part of that over the set.               *)
LEMMA IterationsAgree ==
  ASSUME NEW S, IsFiniteSet(S), NEW T \in SUBSET S, NEW f, NEW g, NEW h,
         Iterates(f, S, g), Iterates(f, T, h)
  PROVE  g[T] = h[T]
  <1> DEFINE N == Cardinality(T)
             P == {n \in 0 .. N : \A s \in SUBSET T : Cardinality(s) = n => g[s] = h[s]}
  <1>1. IsFiniteSet(T) /\ N \in Nat
    BY FS_Subset, FS_CardinalityType
  <1>2. \A s \in SUBSET T : IsFiniteSet(s) /\ (Cardinality(s) = 0 <=> s = {})
    BY <1>1, FS_Subset, FS_EmptySet
  <1>3. \A s \in SUBSET T : /\ g[s] = IF s = {} THEN 0 ELSE f[First(s)] + g[s \ {First(s)}]
                            /\ h[s] = IF s = {} THEN 0 ELSE f[First(s)] + h[s \ {First(s)}]
    BY DEF Iterates
  <1>4. 0 \in P
    BY <1>1, <1>2, <1>3
  <1>5. ASSUME NEW n \in 0 .. N - 1, n \in P PROVE n + 1 \in P
    <2>1. ASSUME NEW s \in SUBSET T, Cardinality(s) = n + 1 PROVE g[s] = h[s]
      <3>1. s # {} /\ First(s) \in s
        BY <1>2, <2>1, FirstIn
      <3>2. Cardinality(s \ {First(s)}) = n
        BY <1>2, <2>1, <3>1, Smaller
      <3>3. g[s \ {First(s)}] = h[s \ {First(s)}]
        BY <1>5, <3>2
      <3> QED
        BY <1>3, <3>1, <3>3
    <2> QED
      BY <1>1, <2>1
  <1>6. N \in P
    <2> HIDE DEF P
    <2> QED
      BY <1>1, <1>4, <1>5, Upto
  <1> QED
    BY <1>6

LEMMA SumFacts ==
  ASSUME NEW S, IsFiniteSet(S), NEW f, \A x \in S : f[x] \in Int
  PROVE  /\ SumOn(f, {}) = 0
         /\ \A s \in SUBSET S : SumOn(f, s) \in Int
         /\ \A s \in SUBSET S : \A x \in s : SumOn(f, s) = f[x] + SumOn(f, s \ {x})
  <1>1. PICK iter \in [SUBSET S -> Int] : Iterates(f, S, iter)
    BY IterationExists
  <1>2. ASSUME NEW s \in SUBSET S PROVE SumOn(f, s) = iter[s]
    <2>1. IsFiniteSet(s) /\ \A x \in s : f[x] \in Int
      BY FS_Subset
    <2>2. PICK h : Iterates(f, s, h)
      BY <2>1, IterationExists
    <2>3. Iterates(f, s, CHOOSE i : Iterates(f, s, i))
      BY <2>2
    <2> QED
      BY <1>1, <2>3, IterationsAgree, SumIsIterated
  <1>3. \A s \in SUBSET S : iter[s] = IF s = {} THEN 0 ELSE f[First(s)] + iter[s \ {First(s)}]
    BY <1>1 DEF Iterates
  <1> DEFINE N == Cardinality(S)
             P == {n \in 0 .. N : \A s \in SUBSET S : Cardinality(s) = n =>
                                    \A x \in s : iter[s] = f[x] + iter[s \ {x}]}
  <1>4. N \in Nat
    BY FS_CardinalityType
  <1>5. \A s \in SUBSET S : /\ IsFiniteSet(s) /\ (Cardinality(s) = 0 <=> s = {})
                            /\ Cardinality(s) \in Nat /\ Cardinality(s) <= N
    BY FS_Subset, FS_EmptySet, FS_CardinalityType
  <1>6. 0 \in P
    BY <1>4, <1>5
  <1>7. ASSUME NEW n \in 0 .. N - 1, n \in P PROVE n + 1 \in P
    <2>1. ASSUME NEW s \in SUBSET S, Cardinality(s) = n + 1, NEW x \in s
          PROVE  iter[s] = f[x] + iter[s \ {x}]
      <3> DEFINE y == First(s)
      <3>1. y \in s
        BY FirstIn
      <3>2. iter[s] = f[y] + iter[s \ {y}]
        BY <1>3, <2>1
      <3>3. CASE x = y
        BY <3>2, <3>3
      <3>4. CASE x # y
        <4>1. Cardinality(s \ {y}) = n /\ Cardinality(s \ {x}) = n
          BY <1>5, <2>1, <3>1, Smaller
        <4>2. iter[s \ {y}] = f[x] + iter[(s \ {y}) \ {x}]
          BY <1>7, <3>4, <4>1
        <4>3. iter[s \ {x}] = f[y] + iter[(s \ {x}) \ {y}]
          BY <1>7, <3>1, <3>4, <4>1
        <4>4. (s \ {y}) \ {x} = (s \ {x}) \ {y} /\ (s \ {x}) \ {y} \in SUBSET S
          OBVIOUS
        <4>5. f[x] \in Int /\ f[y] \in Int /\ iter[(s \ {x}) \ {y}] \in Int
          BY <3>1, <4>4
        <4> DEFINE c == iter[(s \ {x}) \ {y}]
        <4>6. iter[s \ {y}] = f[x] + c /\ iter[s \ {x}] = f[y] + c
          BY <4>2, <4>3, <4>4
        <4>7. iter[s] = f[y] + (f[x] + c)
          BY <3>2, <4>6
        <4>8. c \in Int
          BY <4>5
        <4> HIDE DEF c, y
        <4> QED
          BY <4>5, <4>6, <4>7, <4>8
      <3> QED
        BY <3>3, <3>4
    <2> QED
      BY <1>4, <2>1
  <1>8. \A n \in 0 .. N : n \in P
    <2> HIDE DEF P
    <2> QED
      BY <1>4, <1>6, <1>7, Upto
  <1>9. ASSUME NEW s \in SUBSET S, NEW x \in s PROVE iter[s] = f[x] + iter[s \ {x}]
    <2>1. Cardinality(s) \in 0 .. N
      BY <1>4, <1>5
    <2> QED
      BY <1>8, <2>1
  <1>10. \A s \in SUBSET S : \A x \in s : s \ {x} \in SUBSET S
    OBVIOUS
  <1>11. SumOn(f, {}) = 0
    BY <1>2, <1>3
  <1>12. \A s \in SUBSET S : SumOn(f, s) \in Int
    BY <1>1, <1>2
  <1>13. ASSUME NEW s \in SUBSET S, NEW x \in s PROVE SumOn(f, s) = f[x] + SumOn(f, s \ {x})
    BY <1>2, <1>9, <1>10
  <1> QED
    BY <1>11, <1>12, <1>13

(* Sums over the first n numbers.                                          *)
LEMMA SumOfFirst ==
  ASSUME NEW N \in Nat, NEW f, \A n \in 1 .. N : f[n] \in Int
  PROVE  /\ SumOn(f, 1 .. 0) = 0
         /\ \A n \in 0 .. N : SumOn(f, 1 .. n) \in Int
         /\ \A n \in 1 .. N : SumOn(f, 1 .. n) = SumOn(f, 1 .. n - 1) + f[n]
  <1> DEFINE S == 1 .. N
  <1>1. IsFiniteSet(S) /\ \A n \in S : f[n] \in Int
    BY FS_Interval
  <1>2. /\ (1 .. 0) = {}
        /\ \A n \in 0 .. N : 1 .. n \in SUBSET S
        /\ \A n \in 1 .. N : (1 .. n) \ {n} = 1 .. n - 1 /\ n \in 1 .. n /\ n \in 0 .. N /\ n - 1 \in 0 .. N
    OBVIOUS
  <1> HIDE DEF S
  <1>3. SumOn(f, {}) = 0
    BY <1>1, SumFacts
  <1>4. \A s \in SUBSET S : SumOn(f, s) \in Int
    BY <1>1, SumFacts
  <1>5. ASSUME NEW s \in SUBSET S, NEW x \in s PROVE SumOn(f, s) = f[x] + SumOn(f, s \ {x})
    BY <1>1, SumFacts
  <1>6. SumOn(f, 1 .. 0) = 0 /\ \A n \in 0 .. N : SumOn(f, 1 .. n) \in Int
    BY <1>2, <1>3, <1>4
  <1>7. ASSUME NEW n \in 1 .. N PROVE SumOn(f, 1 .. n) = SumOn(f, 1 .. n - 1) + f[n]
    <2> DEFINE s == 1 .. n
    <2>0. s \in SUBSET S /\ n \in s /\ s \ {n} = 1 .. n - 1
      BY <1>2
    <2>1. SumOn(f, s) = f[n] + SumOn(f, s \ {n})
      <3> HIDE DEF s
      <3> QED
        BY <2>0, <1>5
    <2>2. f[n] \in Int /\ SumOn(f, 1 .. n - 1) \in Int
      BY <1>1, <1>2, <1>6 DEF S
    <2> DEFINE t == SumOn(f, 1 .. n - 1)
    <2>3. SumOn(f, s) = f[n] + t
      BY <2>0, <2>1
    <2> HIDE DEF t, s
    <2>4. SumOn(f, s) = t + f[n]
      BY <2>2, <2>3 DEF t
    <2> QED
      BY <2>4 DEF s, t
  <1> QED
    BY <1>6, <1>7

LEMMA SumOfWhole ==
  ASSUME NEW N \in Nat, NEW f, DOMAIN f = 1 .. N
  PROVE  SumFunction(f) = SumOn(f, 1 .. N)
  BY DEF SumOn, SumFunction, SumFunctionOnSet, FoldFunction

Difference(N, f, g, h) == \A n \in 1 .. N : f[n] \in Int /\ g[n] \in Int /\ h[n] = f[n] - g[n]

LEMMA SumOfDifference ==
  ASSUME NEW N \in Nat, NEW f, NEW g, NEW h, Difference(N, f, g, h)
  PROVE  SumOn(h, 1 .. N) = SumOn(f, 1 .. N) - SumOn(g, 1 .. N)
  <1> DEFINE F(n) == SumOn(f, 1 .. n)
             G(n) == SumOn(g, 1 .. n)
             H(n) == SumOn(h, 1 .. n)
             P == {n \in 0 .. N : H(n) = F(n) - G(n)}
  <1>1. \A n \in 1 .. N : f[n] \in Int /\ g[n] \in Int /\ h[n] \in Int /\ h[n] = f[n] - g[n]
    BY DEF Difference
  <1>2. /\ F(0) = 0 /\ G(0) = 0 /\ H(0) = 0
        /\ \A n \in 0 .. N : F(n) \in Int /\ G(n) \in Int /\ H(n) \in Int
    BY <1>1, SumOfFirst
  <1>3. \A n \in 1 .. N : F(n) = F(n - 1) + f[n] /\ G(n) = G(n - 1) + g[n] /\ H(n) = H(n - 1) + h[n]
    BY <1>1, SumOfFirst
  <1> HIDE DEF F, G, H
  <1>4. 0 \in P
    BY <1>2
  <1>5. ASSUME NEW n \in 0 .. N - 1, n \in P PROVE n + 1 \in P
    <2>1. n \in 0 .. N /\ n + 1 \in 1 .. N /\ n + 1 \in 0 .. N /\ (n + 1) - 1 = n
      OBVIOUS
    <2>2. /\ F(n + 1) = F(n) + f[n + 1] /\ G(n + 1) = G(n) + g[n + 1]
          /\ H(n + 1) = H(n) + h[n + 1] /\ H(n) = F(n) - G(n)
      BY <1>3, <1>5, <2>1
    <2>3. F(n) \in Int /\ G(n) \in Int /\ f[n + 1] \in Int /\ g[n + 1] \in Int /\ h[n + 1] = f[n + 1] - g[n + 1]
      BY <1>1, <1>2, <2>1
    <2>4. H(n + 1) = F(n + 1) - G(n + 1)
      BY <2>2, <2>3
    <2> QED
      BY <2>1, <2>4
  <1>6. \A n \in 0 .. N : n \in P
    <2> HIDE DEF P
    <2> QED
      BY <1>4, <1>5, Upto
  <1> QED
    BY <1>6 DEF F, G, H

(* Sums of natural numbers only grow.                                      *)
LEMMA SumOfNaturals ==
  ASSUME NEW N \in Nat, NEW f, \A n \in 1 .. N : f[n] \in Nat
  PROVE  \A n \in 0 .. N : /\ SumOn(f, 1 .. n) \in Nat
                           /\ \A i \in 0 .. n : SumOn(f, 1 .. i) <= SumOn(f, 1 .. n)
  <1> DEFINE F(n) == SumOn(f, 1 .. n)
             P == {n \in 0 .. N : F(n) \in Nat /\ \A i \in 0 .. n : F(i) <= F(n)}
  <1>1. F(0) = 0 /\ \A n \in 0 .. N : F(n) \in Int
    BY SumOfFirst
  <1>2. \A n \in 1 .. N : F(n) = F(n - 1) + f[n]
    BY SumOfFirst
  <1> HIDE DEF F
  <1>3. 0 \in P
    BY <1>1
  <1>4. ASSUME NEW n \in 0 .. N - 1, n \in P PROVE n + 1 \in P
    <2>1. n \in 0 .. N /\ n + 1 \in 1 .. N /\ n + 1 \in 0 .. N /\ (n + 1) - 1 = n
      OBVIOUS
    <2>2. F(n + 1) = F(n) + f[n + 1] /\ F(n) \in Nat /\ f[n + 1] \in Nat
      BY <1>2, <1>4, <2>1
    <2>3. F(n + 1) \in Nat /\ F(n) <= F(n + 1)
      BY <2>2
    <2>4. ASSUME NEW i \in 0 .. n + 1 PROVE F(i) <= F(n + 1)
      <3>1. CASE i = n + 1
        BY <2>3, <3>1
      <3>2. CASE i # n + 1
        <4>1. i \in 0 .. n /\ i \in 0 .. N
          BY <3>2
        <4>2. F(i) <= F(n) /\ F(i) \in Int
          BY <1>1, <1>4, <4>1
        <4> QED
          BY <2>2, <2>3, <4>2
      <3> QED
        BY <3>1, <3>2
    <2> QED
      BY <2>1, <2>3, <2>4
  <1>5. \A n \in 0 .. N : n \in P
    <2> HIDE DEF P
    <2> QED
      BY <1>3, <1>4, Upto
  <1> QED
    BY <1>5 DEF F

LEMMA SumOfSame ==
  ASSUME NEW N \in Nat, NEW p \in Nat, NEW f, \A n \in 1 .. N : f[n] = p
  PROVE  SumOn(f, 1 .. N) = N * p
  <1> DEFINE F(n) == SumOn(f, 1 .. n)
             P == {n \in 0 .. N : F(n) = n * p}
  <1>1. \A n \in 1 .. N : f[n] \in Int
    OBVIOUS
  <1>2. F(0) = 0
    BY <1>1, SumOfFirst
  <1>3. \A n \in 1 .. N : F(n) = F(n - 1) + f[n]
    BY <1>1, SumOfFirst
  <1> HIDE DEF F
  <1>4. 0 \in P
    BY <1>2
  <1>5. ASSUME NEW n \in 0 .. N - 1, n \in P PROVE n + 1 \in P
    <2>1. n + 1 \in 1 .. N /\ n + 1 \in 0 .. N /\ (n + 1) - 1 = n /\ (n + 1) * p = n * p + p
      OBVIOUS
    <2>2. F(n + 1) = F(n) + f[n + 1] /\ F(n) = n * p /\ f[n + 1] = p
      BY <1>3, <1>5, <2>1
    <2> QED
      BY <2>1, <2>2
  <1>6. N \in P
    <2> HIDE DEF P
    <2> QED
      BY <1>4, <1>5, Upto
  <1> QED
    BY <1>6 DEF F

-----------------------------------------------------------------------------
(* Packing one phase.                                                      *)

LEMMA MinOfTwo ==
  ASSUME NEW a \in Nat, NEW b \in Nat
  PROVE  Min({a, b}) = IF a <= b THEN a ELSE b
  BY DEF Min

Leftover(N, cap, m, left) ==
  /\ left \in [0 .. N -> Nat] /\ left[0] = m
  /\ \A n \in 1 .. N : left[n] = IF cap[n] <= left[n - 1] THEN left[n - 1] - cap[n] ELSE 0

LEMMA RemainingFacts ==
  ASSUME NEW N \in Nat, NEW cap \in [1 .. N -> Nat], NEW m \in Nat
  PROVE  Leftover(N, cap, m, remaining_processes(cap, m))
  <1> DEFINE Step(n, v) == v - Min({cap[n], v})
             F == [x \in (1 .. N) \X Nat |-> Step(x[1], x[2])]
             IsLeft(left) == left = [n \in 0 .. Len(cap) |-> IF n = 0 THEN m ELSE left[n - 1] - Min({cap[n], left[n - 1]})]
  <1>1. Len(cap) = N
    OBVIOUS
  <1>2. \A n \in 1 .. N, v \in Nat : /\ Step(n, v) \in Nat
                                     /\ Step(n, v) = IF cap[n] <= v THEN v - cap[n] ELSE 0
    BY MinOfTwo
  <1>31. F \in [(1 .. N) \X Nat -> Nat]
    <2> HIDE DEF Step
    <2> QED
      BY <1>2
  <1>3. \A n \in 1 .. N, v \in Nat : F[<<n, v>>] = Step(n, v)
    <2> HIDE DEF Step
    <2> QED
      BY <1>2
  <1>32. Steps(N, Nat, F)
    BY <1>31 DEF Steps
  <1>33. PICK g : Course(N, Nat, m, F, g)
    <2> HIDE DEF F, Step
    <2> QED
      BY <1>32, Recursion
  <1>4. g \in [0 .. N -> Nat] /\ g[0] = m /\ \A n \in 1 .. N : g[n] = F[<<n, g[n - 1]>>]
    BY <1>33 DEF Course
  <1>5. \A n \in 1 .. N : n - 1 \in 0 .. N /\ g[n - 1] \in Nat /\ g[n] = Step(n, g[n - 1])
    <2> HIDE DEF F, Step
    <2>1. \A n \in 1 .. N : n - 1 \in 0 .. N /\ g[n - 1] \in Nat
      BY <1>4
    <2> QED
      BY <1>3, <1>4, <2>1
  <1>6. IsLeft(g)
    <2>1. \A n \in 0 .. N : g[n] = IF n = 0 THEN m ELSE g[n - 1] - Min({cap[n], g[n - 1]})
      <3>1. TAKE n \in 0 .. N
      <3>2. CASE n = 0
        BY <1>4, <3>2
      <3>3. CASE n # 0
        <4>1. n \in 1 .. N
          BY <3>3
        <4> QED
          BY <1>5, <3>3, <4>1
      <3> QED
        BY <3>2, <3>3
    <2>2. DOMAIN g = 0 .. Len(cap)
      BY <1>1, <1>4
    <2> QED
      BY <1>1, <1>4, <2>1, <2>2
  <1> DEFINE left == remaining_processes(cap, m)
  <1>7. left = CHOOSE l : IsLeft(l)
    BY DEF remaining_processes
  <1>8. IsLeft(left)
    <2> HIDE DEF IsLeft, left
    <2> QED
      BY <1>6, <1>7
  <1>9. left[0] = m /\ \A n \in 1 .. N : left[n] = Step(n, left[n - 1])
    <2>1. \A n \in 0 .. N : left[n] = IF n = 0 THEN m ELSE Step(n, left[n - 1])
      BY <1>1, <1>8
    <2> HIDE DEF left, Step
    <2> QED
      BY <2>1
  <1> DEFINE P == {n \in 0 .. N : left[n] \in Nat}
  <1>10. \A n \in 0 .. N : n \in P
    <2>1. 0 \in P
      BY <1>9
    <2>2. ASSUME NEW n \in 0 .. N - 1, n \in P PROVE n + 1 \in P
      <3>1. n + 1 \in 1 .. N /\ (n + 1) - 1 = n /\ left[n] \in Nat
        BY <2>2
      <3>2. left[n + 1] = Step(n + 1, left[n])
        BY <1>9, <3>1
      <3>3. left[n + 1] \in Nat
        <4> HIDE DEF left, Step
        <4> QED
          BY <1>2, <3>1, <3>2
      <3> HIDE DEF left
      <3> QED
        BY <3>3
    <2> HIDE DEF P
    <2> QED
      BY <2>1, <2>2, Upto
  <1>11. left \in [0 .. N -> Nat]
    BY <1>1, <1>8, <1>10
  <1>12. \A n \in 1 .. N : left[n - 1] \in Nat
    BY <1>10
  <1> HIDE DEF left, Step
  <1>13. \A n \in 1 .. N : left[n] = IF cap[n] <= left[n - 1] THEN left[n - 1] - cap[n] ELSE 0
    BY <1>2, <1>9, <1>12
  <1> QED
    BY <1>9, <1>11, <1>13 DEF left, Leftover

(* No node takes more than it may, and when there is room for all of the   *)
(* processes every one finds a node.                                       *)
LEMMA AllocateFacts ==
  ASSUME NEW N \in Nat, NEW cap \in [1 .. N -> Nat], NEW m \in Nat
  PROVE  /\ allocate_stage_launches(cap, m) \in [1 .. N -> Nat]
         /\ \A n \in 1 .. N : allocate_stage_launches(cap, m)[n] <= cap[n]
         /\ SumOn(cap, 1 .. N) >= m => SumOn(allocate_stage_launches(cap, m), 1 .. N) = m
  <1>0. PICK left : left = remaining_processes(cap, m)
    OBVIOUS
  <1>01. Leftover(N, cap, m, left)
    BY <1>0, RemainingFacts
  <1>1. left \in [0 .. N -> Nat] /\ left[0] = m
    BY <1>01 DEF Leftover
  <1>2. \A n \in 1 .. N : left[n] = IF cap[n] <= left[n - 1] THEN left[n - 1] - cap[n] ELSE 0
    BY <1>01 DEF Leftover
  <1> DEFINE a == allocate_stage_launches(cap, m)
  <1>3. a = [n \in 1 .. N |-> Min({cap[n], left[n - 1]})]
    BY <1>0 DEF allocate_stage_launches
  <1> HIDE DEF a
  <1>4. \A n \in 1 .. N : n - 1 \in 0 .. N /\ left[n - 1] \in Nat /\ left[n] \in Nat /\ cap[n] \in Nat
    BY <1>1
  <1>5. \A n \in 1 .. N : a[n] = IF cap[n] <= left[n - 1] THEN cap[n] ELSE left[n - 1]
    BY <1>3, <1>4, MinOfTwo
  <1>6. \A n \in 1 .. N : a[n] \in Nat /\ a[n] <= cap[n] /\ left[n] = left[n - 1] - a[n]
                          /\ (left[n] > 0 => a[n] = cap[n])
    BY <1>2, <1>4, <1>5
  <1>7. a \in [1 .. N -> Nat]
    BY <1>3, <1>6
  <1> DEFINE A(n) == SumOn(a, 1 .. n)
             C(n) == SumOn(cap, 1 .. n)
             P == {n \in 0 .. N : A(n) = m - left[n] /\ (left[n] > 0 => A(n) = C(n))}
  <1>81. (\A n \in 1 .. N : a[n] \in Int) /\ (\A n \in 1 .. N : cap[n] \in Int)
    BY <1>7
  <1>82. /\ A(0) = 0
         /\ \A n \in 0 .. N : A(n) \in Int
         /\ \A n \in 1 .. N : A(n) = A(n - 1) + a[n]
    BY <1>81, SumOfFirst
  <1>83. /\ C(0) = 0
         /\ \A n \in 0 .. N : C(n) \in Int
         /\ \A n \in 1 .. N : C(n) = C(n - 1) + cap[n]
    BY <1>81, SumOfFirst
  <1> HIDE DEF A, C
  <1>8. /\ A(0) = 0 /\ C(0) = 0
        /\ \A n \in 0 .. N : A(n) \in Int /\ C(n) \in Int
    BY <1>82, <1>83
  <1>9. \A n \in 1 .. N : A(n) = A(n - 1) + a[n] /\ C(n) = C(n - 1) + cap[n]
    BY <1>82, <1>83
  <1>10. 0 \in P
    BY <1>1, <1>8
  <1>11. ASSUME NEW n \in 0 .. N - 1, n \in P PROVE n + 1 \in P
    <2>1. n \in 0 .. N /\ n + 1 \in 1 .. N /\ n + 1 \in 0 .. N /\ (n + 1) - 1 = n
      OBVIOUS
    <2>2. /\ A(n + 1) = A(n) + a[n + 1] /\ C(n + 1) = C(n) + cap[n + 1]
          /\ A(n) = m - left[n] /\ (left[n] > 0 => A(n) = C(n))
      BY <1>9, <1>11, <2>1
    <2>5. left[n + 1] = left[n] - a[n + 1] /\ (left[n + 1] > 0 => a[n + 1] = cap[n + 1])
      BY <1>6, <2>1
    <2> DEFINE l0 == left[n]
               l1 == left[n + 1]
               x == a[n + 1]
               y == cap[n + 1]
               A0 == A(n)
               C0 == C(n)
    <2>3. /\ A(n) \in Int /\ C(n) \in Int /\ a[n + 1] \in Nat /\ cap[n + 1] \in Nat
          /\ left[n] \in Nat /\ left[n + 1] \in Nat
      BY <1>1, <1>4, <1>6, <1>8, <2>1
    <2>6. l1 = l0 - x /\ (l1 > 0 => x = y) /\ A0 = m - l0 /\ (l0 > 0 => A0 = C0)
      BY <2>2, <2>5
    <2>7. l0 \in Nat /\ l1 \in Nat /\ x \in Nat /\ y \in Nat /\ A0 \in Int /\ C0 \in Int
      BY <2>3
    <2>8. A0 + x = m - l1 /\ (l1 > 0 => A0 + x = C0 + y)
      <3> HIDE DEF l0, l1, x, y, A0, C0
      <3> QED
        BY <2>6, <2>7
    <2>4. A(n + 1) = m - left[n + 1] /\ (left[n + 1] > 0 => A(n + 1) = C(n + 1))
      BY <2>2, <2>8
    <2> QED
      BY <2>1, <2>4
  <1>12. \A n \in 0 .. N : n \in P
    <2> HIDE DEF P
    <2> QED
      BY <1>10, <1>11, Upto
  <1>13. C(N) >= m => A(N) = m
    <2>1. A(N) = m - left[N] /\ (left[N] > 0 => A(N) = C(N))
      BY <1>12
    <2>2. left[N] \in Nat /\ C(N) \in Int
      BY <1>1, <1>8
    <2> QED
      BY ONLY <2>1, <2>2, m \in Nat
  <1> QED
    BY <1>6, <1>7, <1>13 DEF a, A, C

-----------------------------------------------------------------------------
(* Packing the phases one after the other.                                 *)

LEMMA ConfigFacts ==
  ASSUME NEW c \in Configs
  PROVE  /\ c.nodes \in Nat \ {0} /\ c.per_node \in Nat \ {0} /\ Len(c.plan) \in Nat
         /\ \A k \in Phases(c) : c.plan[k] \in SUBSET Nat /\ IsFiniteSet(c.plan[k])
         /\ \A k \in Phases(c) : IsFiniteSet(new_ranks(c, k)) /\ Cardinality(new_ranks(c, k)) \in Nat
  <1>1. c \in Config /\ \A k \in DOMAIN c.plan : IsFiniteSet(c.plan[k])
    BY ConfigsAssumption
  <1>2. c.plan \in Seq(SUBSET Nat) /\ c.nodes \in Nat \ {0} /\ c.per_node \in Nat \ {0}
    BY <1>1 DEF Config
  <1>3. Len(c.plan) \in Nat /\ DOMAIN c.plan = Phases(c) /\ \A k \in Phases(c) : c.plan[k] \in SUBSET Nat
    BY <1>2 DEF Phases
  <1>4. ASSUME NEW k \in Phases(c)
        PROVE  IsFiniteSet(new_ranks(c, k)) /\ Cardinality(new_ranks(c, k)) \in Nat
    <2>1. IsFiniteSet(new_ranks(c, k))
      BY <1>1, <1>3, FS_Difference DEF new_ranks
    <2> QED
      BY <2>1, FS_CardinalityType
  <1> QED
    BY <1>1, <1>2, <1>3, <1>4

(* What one phase makes of the capacity that is left.                      *)
Packed(N, cap, m, a) ==
  /\ a \in [1 .. N -> Nat]
  /\ \A n \in 1 .. N : a[n] <= cap[n]
  /\ SumOn(cap, 1 .. N) >= m => SumOn(a, 1 .. N) = m

LEMMA StageFacts ==
  ASSUME NEW c \in Configs, NEW k \in Phases(c), NEW cap \in [Nodes(c) -> Nat]
  PROVE  Packed(c.nodes, cap, Cardinality(new_ranks(c, k)), stage_launches(c, k, cap))
  <1>1. c.nodes \in Nat /\ Cardinality(new_ranks(c, k)) \in Nat /\ Nodes(c) = 1 .. c.nodes
    BY ConfigFacts DEF Nodes
  <1> QED
    BY <1>1, AllocateFacts DEF stage_launches, Packed

Capacities(c, rest) ==
  /\ rest \in [0 .. Len(c.plan) -> [Nodes(c) -> Nat]]
  /\ rest[0] = [n \in Nodes(c) |-> c.per_node]
  /\ \A k \in Phases(c) :
       rest[k] = [n \in Nodes(c) |-> rest[k - 1][n] - stage_launches(c, k, rest[k - 1])[n]]

LEMMA CapacityFacts ==
  ASSUME NEW c \in Configs
  PROVE  Capacities(c, remaining_capacity(c))
  <1> DEFINE V == [Nodes(c) -> Nat]
             N == Len(c.plan)
             v0 == [n \in Nodes(c) |-> c.per_node]
             Step(k, v) == [n \in Nodes(c) |-> v[n] - stage_launches(c, k, v)[n]]
             F == [x \in (1 .. N) \X V |-> Step(x[1], x[2])]
             IsLeft(left) == left = [k \in 0 .. N |->
                IF k = 0 THEN [n \in Nodes(c) |-> c.per_node]
                ELSE [n \in Nodes(c) |-> left[k - 1][n] - stage_launches(c, k, left[k - 1])[n]]]
             rest == remaining_capacity(c)
  <1>1. N \in Nat /\ v0 \in V /\ Phases(c) = 1 .. N /\ Nodes(c) = 1 .. c.nodes
    BY ConfigFacts DEF Phases, Nodes
  <1>2. ASSUME NEW k \in 1 .. N, NEW v \in V PROVE Step(k, v) \in V
    <2>1. Packed(c.nodes, v, Cardinality(new_ranks(c, k)), stage_launches(c, k, v))
      BY <1>1, StageFacts
    <2>2. \A n \in Nodes(c) : v[n] - stage_launches(c, k, v)[n] \in Nat
      BY <1>1, <2>1 DEF Packed
    <2> QED
      BY <2>2
  <1>3. rest = CHOOSE left : IsLeft(left)
    BY DEF remaining_capacity
  <1> HIDE DEF V, N, v0, Step, rest
  <1>4. F \in [(1 .. N) \X V -> V] /\ \A k \in 1 .. N, v \in V : F[<<k, v>>] = Step(k, v)
    BY <1>2
  <1>5. Steps(N, V, F)
    BY <1>4 DEF Steps
  <1>6. PICK g : Course(N, V, v0, F, g)
    <2> HIDE DEF F
    <2> QED
      BY <1>1, <1>5, Recursion
  <1>7. g \in [0 .. N -> V] /\ g[0] = v0
    BY <1>6 DEF Course
  <1>8. \A k \in 1 .. N : k - 1 \in 0 .. N /\ g[k - 1] \in V /\ g[k] = Step(k, g[k - 1])
    <2>1. \A k \in 1 .. N : k - 1 \in 0 .. N
      BY <1>1
    <2>2. \A k \in 1 .. N : g[k] = F[<<k, g[k - 1]>>]
      BY <1>6 DEF Course
    <2> HIDE DEF F
    <2> QED
      BY <1>4, <1>7, <2>1, <2>2
  <1>9. IsLeft(g)
    <2>1. \A k \in 0 .. N : g[k] = IF k = 0 THEN v0 ELSE Step(k, g[k - 1])
      <3>1. TAKE k \in 0 .. N
      <3>2. k = 0 \/ k \in 1 .. N
        BY <1>1
      <3> QED
        BY <1>7, <1>8, <3>2
    <2>2. DOMAIN g = 0 .. N /\ g = [k \in 0 .. N |-> g[k]]
      BY <1>7
    <2>3. g = [k \in 0 .. N |-> IF k = 0 THEN v0 ELSE Step(k, g[k - 1])]
      BY <2>1, <2>2
    <2> QED
      BY <2>3 DEF v0, Step
  <1>10. IsLeft(rest)
    <2> HIDE DEF IsLeft
    <2> QED
      BY <1>3, <1>9
  <1>11. rest = [k \in 0 .. N |-> IF k = 0 THEN v0 ELSE Step(k, rest[k - 1])]
    BY <1>10 DEF v0, Step
  <1>12. rest[0] = v0 /\ \A k \in 1 .. N : rest[k] = Step(k, rest[k - 1])
    <2>1. \A k \in 0 .. N : rest[k] = IF k = 0 THEN v0 ELSE Step(k, rest[k - 1])
      BY <1>11
    <2>2. 0 \in 0 .. N /\ \A k \in 1 .. N : k \in 0 .. N /\ k # 0
      BY <1>1
    <2> QED
      BY <2>1, <2>2
  <1> DEFINE P == {k \in 0 .. N : rest[k] \in V}
  <1>13. \A k \in 0 .. N : k \in P
    <2>1. 0 \in P
      BY <1>1, <1>12
    <2>2. ASSUME NEW k \in 0 .. N - 1, k \in P PROVE k + 1 \in P
      <3>1. k + 1 \in 1 .. N /\ k + 1 \in 0 .. N /\ (k + 1) - 1 = k
        BY <1>1
      <3>2. rest[k + 1] = Step(k + 1, rest[k])
        BY <1>12, <3>1
      <3> QED
        BY <1>2, <2>2, <3>1, <3>2
    <2> HIDE DEF P
    <2> QED
      BY <1>1, <2>1, <2>2, Upto
  <1>14. rest \in [0 .. N -> V]
    BY <1>11, <1>13
  <1> QED
    BY <1>1, <1>12, <1>14 DEF Capacities, V, N, v0, Step, rest

(* Whatever passes the validation is packed: the phases take no more than  *)
(* the nodes have, so that at every phase there is room for its ranks.     *)
LEMMA Packing ==
  ASSUME NEW c \in Configs, validate_requested_processes(c)
  PROVE  /\ \A k \in Phases(c) : /\ plan_stages(c)[k] \in [Nodes(c) -> Nat]
                                 /\ SumFunction(plan_stages(c)[k]) = Cardinality(new_ranks(c, k))
         /\ \A n \in Nodes(c) : SumFunction([k \in Phases(c) |-> plan_stages(c)[k][n]]) <= c.per_node
  <1> DEFINE K == Len(c.plan)
             N == c.nodes
             m == [k \in Phases(c) |-> Cardinality(new_ranks(c, k))]
             M(k) == SumOn(m, 1 .. k)
  <1>1. PICK rest : rest = remaining_capacity(c)
    OBVIOUS
  <1>2. Capacities(c, rest)
    BY <1>1, CapacityFacts
  <1>3. /\ K \in Nat /\ N \in Nat \ {0} /\ c.per_node \in Nat \ {0}
        /\ Phases(c) = 1 .. K /\ Nodes(c) = 1 .. N
        /\ \A k \in 1 .. K : m[k] \in Nat /\ m[k] = Cardinality(new_ranks(c, k))
    BY ConfigFacts DEF Phases, Nodes
  <1>4. /\ \A k \in 0 .. K : rest[k] \in [1 .. N -> Nat]
        /\ rest[0] = [n \in 1 .. N |-> c.per_node]
    BY <1>2, <1>3 DEF Capacities
  <1> DEFINE a(k) == plan_stages(c)[k]
             L(k) == SumOn(rest[k], 1 .. N)
  <1>5. ASSUME NEW k \in 1 .. K
        PROVE  /\ k \in 0 .. K /\ k - 1 \in 0 .. K
               /\ Packed(N, rest[k - 1], m[k], a(k))
               /\ \A n \in 1 .. N : rest[k][n] = rest[k - 1][n] - a(k)[n]
    <2>1. k \in 0 .. K /\ k - 1 \in 0 .. K /\ rest[k - 1] \in [Nodes(c) -> Nat]
      BY <1>3, <1>4
    <2>2. a(k) = stage_launches(c, k, rest[k - 1])
      BY <1>1, <1>3 DEF plan_stages
    <2>3. Packed(N, rest[k - 1], m[k], a(k))
      BY <1>3, <2>1, <2>2, StageFacts
    <2>4. \A n \in 1 .. N : rest[k][n] = rest[k - 1][n] - a(k)[n]
      <3>1. rest[k] = [n \in 1 .. N |-> rest[k - 1][n] - stage_launches(c, k, rest[k - 1])[n]]
        BY <1>2, <1>3 DEF Capacities
      <3> HIDE DEF a
      <3> QED
        BY <2>2, <3>1
    <2> QED
      BY <2>1, <2>3, <2>4
  <1> HIDE DEF a, m
  <1>51. \A k \in 1 .. K : a(k) \in [1 .. N -> Nat]
    BY <1>5 DEF Packed
  <1>52. ASSUME NEW k \in 1 .. K, NEW n \in 1 .. N
         PROVE  /\ a(k)[n] \in Nat /\ rest[k - 1][n] \in Nat /\ rest[k][n] \in Nat
                /\ rest[k][n] = rest[k - 1][n] - a(k)[n]
    <2>1. k \in 0 .. K /\ k - 1 \in 0 .. K /\ rest[k][n] = rest[k - 1][n] - a(k)[n]
      BY <1>5
    <2>2. rest[k] \in [1 .. N -> Nat] /\ rest[k - 1] \in [1 .. N -> Nat]
      BY <1>4, <2>1
    <2> QED
      BY <1>51, <2>1, <2>2
  (* How much room is left before every phase.                             *)
  <1>6. M(0) = 0 /\ \A k \in 0 .. K : M(k) \in Nat /\ \A i \in 0 .. k : M(i) <= M(k)
    <2>1. \A k \in 1 .. K : m[k] \in Int
      BY <1>3
    <2>2. M(0) = 0
      BY <1>3, <2>1, SumOfFirst
    <2>3. \A k \in 0 .. K : M(k) \in Nat /\ \A i \in 0 .. k : M(i) <= M(k)
      BY <1>3, SumOfNaturals
    <2> QED
      BY <2>2, <2>3
  <1>7. \A k \in 1 .. K : M(k) = M(k - 1) + m[k]
    <2>1. \A k \in 1 .. K : m[k] \in Int
      BY <1>3
    <2> QED
      BY <1>3, <2>1, SumOfFirst
  <1>8. M(K) <= N * c.per_node
    <2>1. M(K) = total(c)
      <3>1. DOMAIN m = 1 .. K
        BY <1>3 DEF m
      <3> QED
        BY <1>3, <3>1, SumOfWhole DEF total, m
    <2>2. M(K) \in Nat
      BY <1>3, <1>6
    <2>3. N = 1 => N * c.per_node = c.per_node
      BY <1>3
    <2>4. N * c.per_node = c.per_node * N
      BY <1>3
    <2> QED
      BY <1>3, <2>1, <2>2, <2>3, <2>4 DEF validate_requested_processes
  <1>9. L(0) = N * c.per_node
    <2>1. \A n \in 1 .. N : rest[0][n] = c.per_node
      BY <1>4
    <2> QED
      BY <1>3, <2>1, SumOfSame
  <1> HIDE DEF L, M
  <1> DEFINE R == N * c.per_node
  <1>10. R \in Nat
    BY <1>3
  <1> HIDE DEF R
  <1>11. ASSUME NEW k \in 1 .. K, L(k - 1) = R - M(k - 1)
         PROVE  SumOn(a(k), 1 .. N) = m[k] /\ L(k) = R - M(k)
    <2>1. /\ M(k - 1) \in Nat /\ M(k) \in Nat /\ m[k] \in Nat /\ M(K) \in Nat
          /\ M(k) = M(k - 1) + m[k] /\ M(k) <= M(K) /\ M(K) <= R
      BY <1>3, <1>5, <1>6, <1>7, <1>8 DEF R
    <2>2. L(k - 1) >= m[k]
      BY <1>10, <1>11, <2>1
    <2>3. SumOn(a(k), 1 .. N) = m[k]
      BY <1>5, <2>2 DEF Packed, L
    <2>4. \A n \in 1 .. N : rest[k - 1][n] \in Int /\ a(k)[n] \in Int /\ rest[k][n] = rest[k - 1][n] - a(k)[n]
      BY <1>52
    <2>5. SumOn(rest[k], 1 .. N) = SumOn(rest[k - 1], 1 .. N) - SumOn(a(k), 1 .. N)
      <3>1. Difference(N, rest[k - 1], a(k), rest[k])
        BY <2>4 DEF Difference
      <3> QED
        BY <1>3, <3>1, SumOfDifference
    <2>6. L(k) = L(k - 1) - m[k]
      BY <2>3, <2>5 DEF L
    <2>7. L(k) = R - M(k)
      BY <1>10, <1>11, <2>1, <2>6
    <2> QED
      BY <2>3, <2>7
  <1> DEFINE P == {k \in 0 .. K : L(k) = R - M(k)}
  <1>12. \A k \in 0 .. K : k \in P
    <2>1. 0 \in P
      BY <1>3, <1>6, <1>9, <1>10 DEF R
    <2>2. ASSUME NEW k \in 0 .. K - 1, k \in P PROVE k + 1 \in P
      <3>1. k + 1 \in 1 .. K /\ k + 1 \in 0 .. K /\ (k + 1) - 1 = k
        BY <1>3
      <3> QED
        BY <1>11, <2>2, <3>1
    <2> HIDE DEF P
    <2> QED
      BY <1>3, <2>1, <2>2, Upto
  <1>13. ASSUME NEW k \in 1 .. K
         PROVE  a(k) \in [1 .. N -> Nat] /\ SumFunction(a(k)) = m[k]
    <2>1. a(k) \in [1 .. N -> Nat]
      BY <1>5 DEF Packed
    <2>2. SumOn(a(k), 1 .. N) = m[k]
      BY <1>5, <1>11, <1>12
    <2>3. DOMAIN a(k) = 1 .. N
      BY <2>1
    <2> QED
      BY <1>3, <2>1, <2>2, <2>3, SumOfWhole
  (* What a node has started is what it has lost.                          *)
  <1>14. ASSUME NEW n \in 1 .. N
         PROVE  SumFunction([k \in 1 .. K |-> a(k)[n]]) <= c.per_node
    <2> DEFINE f == [k \in 1 .. K |-> a(k)[n]]
               S(k) == SumOn(f, 1 .. k)
               Q == {k \in 0 .. K : S(k) = c.per_node - rest[k][n]}
    <2>1. \A k \in 1 .. K : f[k] \in Int /\ f[k] = a(k)[n]
      BY <1>52
    <2>2. DOMAIN f = 1 .. K
      OBVIOUS
    <2> HIDE DEF f
    <2>3. S(0) = 0 /\ \A k \in 0 .. K : S(k) \in Int
      BY <1>3, <2>1, SumOfFirst
    <2>4. \A k \in 1 .. K : S(k) = S(k - 1) + f[k]
      BY <1>3, <2>1, SumOfFirst
    <2>5. \A k \in 0 .. K : rest[k][n] \in Nat
      BY <1>4
    <2>6. rest[0][n] = c.per_node
      BY <1>4
    <2> HIDE DEF S
    <2>7. 0 \in Q
      BY <1>3, <2>3, <2>6
    <2>8. ASSUME NEW k \in 0 .. K - 1, k \in Q PROVE k + 1 \in Q
      <3>1. k \in 0 .. K /\ k + 1 \in 1 .. K /\ k + 1 \in 0 .. K /\ (k + 1) - 1 = k
        BY <1>3
      <3> DEFINE x == a(k + 1)[n]
                 r0 == rest[k][n]
                 r1 == rest[k + 1][n]
      <3>2. S(k + 1) = S(k) + x /\ S(k) = c.per_node - r0 /\ r1 = r0 - x
        BY <1>5, <2>1, <2>4, <2>8, <3>1
      <3>3. x \in Int /\ r0 \in Nat /\ r1 \in Nat
        BY <2>1, <2>5, <3>1
      <3>4. S(k + 1) = c.per_node - r1
        <4> HIDE DEF x, r0, r1
        <4> QED
          BY <1>3, <3>2, <3>3
      <3> QED
        BY <3>1, <3>4
    <2>9. \A k \in 0 .. K : k \in Q
      <3> HIDE DEF Q
      <3> QED
        BY <1>3, <2>7, <2>8, Upto
    <2>10. S(K) = c.per_node - rest[K][n] /\ rest[K][n] \in Nat
      BY <1>3, <2>5, <2>9
    <2>11. SumFunction(f) = S(K)
      BY <1>3, <2>2, SumOfWhole DEF S
    <2>12. SumFunction(f) <= c.per_node
      BY <1>3, <2>10, <2>11
    <2> QED
      BY <2>12 DEF f
  <1> QED
    BY <1>3, <1>13, <1>14 DEF a

-----------------------------------------------------------------------------
(* The inductive invariant. Its parts: the types; the launches that the    *)
(* script has started at each of its steps; the ranks and phases of a      *)
(* launch; what the logs keep of them; and what is known of an end.        *)

Pcs == {"generate", "refused", "primary", "services", "rest", "grep", "probe", "stage", "final",
        "exited", "judged"}

Types ==
  /\ config \in Configs
  /\ pc \in Pcs /\ stage \in Nat /\ checks \in Nat
  /\ launch \in [Launches -> {"none", "up", "done", "failed", "killed"}]
  /\ ranks \in [Launches -> SUBSET Nat]
  /\ at \in [Launches -> Nat]
  /\ log \in [Nodes(config) -> [exists : BOOLEAN, ended : SUBSET Nat, sample : BOOLEAN,
                                failure : {"none", "error", "no_phases"}]]
  /\ stdout \in BOOLEAN /\ rc \in {0, 1} /\ verdict \in {"none", "success", "failed"}

Ended == pc \in {"exited", "judged"}

Plan ==
  IF pc \in {"generate", "refused"} THEN procs = <<>>
  ELSE procs = plan_stages(config) /\ validate_requested_processes(config) /\ total(config) > 0

Launched == {l \in Launches : launch[l] # "none"}

Script_at ==
  /\ Launched \subseteq Planned
  /\ pc \in {"generate", "refused", "primary"} => Launched = {}
  /\ pc \in {"services", "rest"} => stage = primary[1] /\ Launched = {primary}
  /\ pc \in {"grep", "probe", "stage", "final"} =>
       stage >= primary[1] /\ Launched = {l \in Planned : l[1] <= stage}
  /\ pc \in {"grep", "probe", "stage"} => later_stages(stage) # {}
  /\ pc = "final" => later_stages(stage) = {}

RanksOf ==
  /\ \A l \in Launches :
       /\ launch[l] = "none" => ranks[l] = {} /\ at[l] = 0
       /\ launch[l] # "none" => at[l] >= l[1] - 1
       /\ ranks[l] # {} => ranks[l] \subseteq new_ranks(config, l[1])
                           /\ Cardinality(ranks[l]) = procs[l[1]][l[2]]
       /\ \A k \in l[1] .. at[l] : active(l, k) # {}
       /\ launch[l] = "up" /\ ranks[l] # {} => active(l, at[l] + 1) # {}
       /\ launch[l] = "done" => ranks[l] # {} /\ active(l, at[l] + 1) = {}
  /\ \A l, m \in Launches : l[1] = m[1] /\ l # m => ranks[l] \intersect ranks[m] = {}

Logs ==
  /\ \A n \in Nodes(config) : log[n].ended = {k \in Nat : \E l \in Launches : l[2] = n /\ k \in l[1] .. at[l]}
  /\ \A l \in Launches : /\ launch[l] # "none" => log[l[2]].exists
                         /\ launch[l] = "done" => log[l[2]].sample

Failed == \E l \in Launches : launch[l] = "failed"

Outcome ==
  /\ Failed => stdout
  /\ \A n \in Nodes(config) : log[n].failure # "none" => Failed
  /\ ~Ended => rc = 0 /\ (stdout => Failed) /\ \A l \in Launches : launch[l] # "killed"
  /\ Ended => Up = {}
  /\ Ended /\ rc = 0 => ~stdout /\ \A l \in Planned : launch[l] = "done"
  /\ verdict = IF pc # "judged" THEN "none" ELSE IF was_run_successful THEN "success" ELSE "failed"

Order ==
  /\ pc = "stage" => wait_phase \in log[1].ended
  /\ pc = "rest" /\ has_followers /\ ~include_tcp_server(primary) => ranks[primary] # {}
  /\ LaunchedInOrder

IInv == Types /\ Plan /\ Script_at /\ RanksOf /\ Logs /\ Outcome /\ Order

-----------------------------------------------------------------------------
(* The plan of a job that is under way.                                    *)

LEMMA SamePlan ==
  ASSUME UNCHANGED <<config, procs>>
  PROVE  /\ Launches' = Launches /\ Planned' = Planned /\ Nodes(config)' = Nodes(config)
         /\ primary' = primary /\ has_followers' = has_followers /\ StageIdxs' = StageIdxs
         /\ \A k : StageOf(k)' = StageOf(k) /\ later_stages(k)' = later_stages(k)
         /\ \A k : new_ranks(config, k)' = new_ranks(config, k)
  <1>1. Launches' = Launches /\ Nodes(config)' = Nodes(config)
    BY DEF Launches, Phases, Nodes
  <1>2. Planned' = Planned
    BY <1>1 DEF Planned
  <1>3. primary' = primary
    BY <1>2 DEF primary
  <1>4. has_followers' = has_followers /\ StageIdxs' = StageIdxs
    BY <1>2 DEF has_followers, StageIdxs
  <1>5. \A k : StageOf(k)' = StageOf(k) /\ later_stages(k)' = later_stages(k)
    BY <1>2, <1>4 DEF StageOf, later_stages
  <1>6. \A k : new_ranks(config, k)' = new_ranks(config, k)
    BY DEF new_ranks
  <1> QED
    BY <1>1, <1>2, <1>3, <1>4, <1>5, <1>6

LEMMA LaunchFacts ==
  ASSUME config \in Configs
  PROVE  /\ 1 \in Nodes(config)
         /\ \A l \in Launches : l = <<l[1], l[2]>> /\ l[1] \in Phases(config) /\ l[2] \in Nodes(config)
         /\ \A l \in Launches : l[1] \in Nat \ {0} /\ l[2] \in Nat \ {0}
         /\ \A k \in Phases(config), n \in Nodes(config) :
              <<k, n>> \in Launches /\ <<k, n>>[1] = k /\ <<k, n>>[2] = n
  <1>1. config.nodes \in Nat \ {0} /\ Len(config.plan) \in Nat
    BY ConfigFacts
  <1>2. Nodes(config) \subseteq Nat \ {0} /\ Phases(config) \subseteq Nat \ {0} /\ 1 \in Nodes(config)
    BY <1>1 DEF Nodes, Phases
  <1> QED
    BY <1>2 DEF Launches

(* A plan with ranks starts something, and the primary launch is the first *)
(* of what it starts.                                                      *)
LEMMA SomethingPlanned ==
  ASSUME NEW c \in Configs, validate_requested_processes(c), total(c) > 0
  PROVE  \E k \in Phases(c), n \in Nodes(c) : plan_stages(c)[k][n] > 0
  <1> SUFFICES ASSUME \A k \in Phases(c), n \in Nodes(c) : ~(plan_stages(c)[k][n] > 0) PROVE FALSE
    OBVIOUS
  <1> DEFINE N == c.nodes
             K == Len(c.plan)
             m == [k \in Phases(c) |-> Cardinality(new_ranks(c, k))]
  <1>1. N \in Nat /\ K \in Nat /\ Phases(c) = 1 .. K /\ Nodes(c) = 1 .. N
    BY ConfigFacts DEF Phases, Nodes
  <1>2. ASSUME NEW k \in 1 .. K PROVE m[k] = 0
    <2>1. PICK a : a = plan_stages(c)[k]
      OBVIOUS
    <2>2. a \in [1 .. N -> Nat]
      BY <1>1, <2>1, Packing
    <2>3. SumFunction(a) = m[k]
      BY <1>1, <2>1, Packing
    <2>4. \A n \in 1 .. N : a[n] = 0
      BY <1>1, <2>1, <2>2
    <2>5. SumOn(a, 1 .. N) = N * 0
      BY <1>1, <2>4, SumOfSame
    <2>6. SumFunction(a) = SumOn(a, 1 .. N)
      BY <1>1, <2>2, SumOfWhole
    <2> QED
      BY <1>1, <2>3, <2>5, <2>6
  <1>3. DOMAIN m = 1 .. K
    BY <1>1
  <1>4. total(c) = SumFunction(m)
    BY DEF total
  <1> HIDE DEF m, K, N
  <1>5. SumOn(m, 1 .. K) = K * 0
    BY <1>1, <1>2, SumOfSame
  <1>6. SumFunction(m) = SumOn(m, 1 .. K)
    BY <1>1, <1>3, SumOfWhole
  <1> QED
    BY <1>1, <1>4, <1>5, <1>6

Underway == Types /\ Plan /\ pc \notin {"generate", "refused"}

LEMMA PlannedFacts ==
  ASSUME Underway
  PROVE  /\ Planned # {} /\ Planned \subseteq Launches
         /\ \A l \in Launches : procs[l[1]][l[2]] \in Nat /\ (l \in Planned <=> procs[l[1]][l[2]] > 0)
         /\ \A k \in Phases(config) : /\ procs[k] \in [Nodes(config) -> Nat]
                                      /\ SumFunction(procs[k]) = Cardinality(new_ranks(config, k))
         /\ \A n \in Nodes(config) : SumFunction([k \in Phases(config) |-> procs[k][n]]) <= config.per_node
  <1>1. /\ config \in Configs /\ procs = plan_stages(config)
        /\ validate_requested_processes(config) /\ total(config) > 0
    BY DEF Underway, Types, Plan
  <1>2. \A k \in Phases(config) : /\ procs[k] \in [Nodes(config) -> Nat]
                                  /\ SumFunction(procs[k]) = Cardinality(new_ranks(config, k))
    BY <1>1, Packing
  <1>3. \A n \in Nodes(config) : SumFunction([k \in Phases(config) |-> procs[k][n]]) <= config.per_node
    BY <1>1, Packing
  <1>4. PICK k \in Phases(config), n \in Nodes(config) : procs[k][n] > 0
    BY <1>1, SomethingPlanned
  <1>5. procs # <<>>
    <2>1. DOMAIN procs = Phases(config)
      BY <1>1 DEF plan_stages
    <2> QED
      BY <1>4, <2>1
  <1>6. \A l \in Launches : procs[l[1]][l[2]] \in Nat /\ (l \in Planned <=> procs[l[1]][l[2]] > 0)
    BY <1>1, <1>2, <1>5, LaunchFacts DEF Planned
  <1>7. <<k, n>> \in Planned
    <2>1. <<k, n>> \in Launches /\ <<k, n>>[1] = k /\ <<k, n>>[2] = n
      BY <1>1, LaunchFacts
    <2> QED
      BY <1>4, <1>6, <2>1
  <1>8. Planned \subseteq Launches
    BY DEF Planned
  <1> QED
    BY <1>2, <1>3, <1>6, <1>7, <1>8

LEMMA PrimaryFacts ==
  ASSUME Underway
  PROVE  /\ primary \in Planned
         /\ \A m \in Planned : primary[1] < m[1] \/ (primary[1] = m[1] /\ primary[2] <= m[2])
  <1>1. Planned # {} /\ \A l \in Planned : l = <<l[1], l[2]>> /\ l[1] \in Nat /\ l[2] \in Nat
    BY PlannedFacts, LaunchFacts DEF Underway, Types
  <1>2. {l[1] : l \in Planned} \in SUBSET Nat /\ {l[1] : l \in Planned} # {}
    BY <1>1
  <1>3. PICK k \in {l[1] : l \in Planned} : \A j \in {l[1] : l \in Planned} : k <= j
    BY <1>2, LeastElement
  <1> DEFINE A == {l \in Planned : l[1] = k}
  <1>4. {l[2] : l \in A} \in SUBSET Nat /\ {l[2] : l \in A} # {}
    BY <1>1
  <1>5. PICK n \in {l[2] : l \in A} : \A j \in {l[2] : l \in A} : n <= j
    BY <1>4, LeastElement
  <1>6. PICK p \in Planned : p[1] = k /\ p[2] = n
    BY <1>5
  <1>7. ASSUME NEW m \in Planned PROVE p[1] < m[1] \/ (p[1] = m[1] /\ p[2] <= m[2])
    <2>1. k <= m[1] /\ k \in Nat /\ m[1] \in Nat
      BY <1>1, <1>3
    <2>2. CASE m[1] = k
      <3>1. n <= m[2]
        BY <1>5, <2>2
      <3> QED
        BY <1>6, <2>2, <3>1
    <2>3. CASE m[1] # k
      BY <1>6, <2>1, <2>3
    <2> QED
      BY <2>2, <2>3
  <1> QED
    BY <1>7 DEF primary

-----------------------------------------------------------------------------
(* Steps.                                                                  *)

(* A phase that a launch is active in was kept by every phase before.      *)
LEMMA ActiveFacts ==
  ASSUME NEW l \in Launches, NEW j \in Nat, NEW k \in Nat, j <= k, config \in Configs
  PROVE  /\ active(l, k) \subseteq active(l, j)
         /\ active(l, k) \subseteq ranks[l]
         /\ active(l, k) # {} => k <= Len(config.plan)
  <1>1. l[1] \in Nat /\ Len(config.plan) \in Nat
    BY LaunchFacts, ConfigFacts
  <1>2. l[1] .. j \subseteq l[1] .. k
    BY <1>1
  <1>3. CASE k > Len(config.plan)
    BY <1>3 DEF active
  <1>4. CASE ~(k > Len(config.plan))
    <2>1. ~(j > Len(config.plan)) /\ k <= Len(config.plan)
      BY <1>1, <1>4
    <2> QED
      BY <1>2, <1>4, <2>1 DEF active
  <1> QED
    BY <1>3, <1>4

LEMMA InitIInv == Init => IInv
  <1> SUFFICES ASSUME Init PROVE IInv
    OBVIOUS
  <1> USE DEF Init
  <1>0. config \in Configs
    OBVIOUS
  <1>1. Types
    BY DEF Types, Pcs, EmptyLog
  <1>2. Launched = {} /\ Up = {} /\ ~Failed /\ ~Ended
    BY DEF Launched, Up, Failed, Ended
  <1>3. Plan /\ Script_at
    BY <1>2 DEF Plan, Script_at
  <1>4. \A l \in Launches : l[1] .. at[l] = {}
    BY <1>0, LaunchFacts
  <1>5. RanksOf
    BY <1>4 DEF RanksOf
  <1>6. Logs
    BY <1>4 DEF Logs, EmptyLog
  <1>7. Outcome
    BY <1>2 DEF Outcome, EmptyLog
  <1>8. Order
    BY DEF Order, LaunchedInOrder
  <1> QED
    BY <1>1, <1>3, <1>5, <1>6, <1>7, <1>8 DEF IInv

(* What the benchmark and the logs say stays as it is when only the script *)
(* goes on.                                                                *)
LEMMA ScriptOnly ==
  ASSUME IInv, UNCHANGED <<config, procs, launch, ranks, at, log>>
  PROVE  RanksOf' /\ Logs' /\ Launched' = Launched /\ Up' = Up /\ Failed' = Failed
         /\ LaunchedInOrder' /\ was_run_successful' = (~stdout' /\ \A n \in Nodes(config) :
              log[n].exists /\ log[n].failure = "none" /\ log[n].sample)
  <1>1. Launches' = Launches /\ Nodes(config)' = Nodes(config) /\ primary' = primary
    BY SamePlan
  <1>2. Launched' = Launched /\ Up' = Up /\ Failed' = Failed
    BY <1>1 DEF Launched, Up, Failed
  <1>3. \A l, k : active(l, k)' = active(l, k)
    BY DEF active
  <1>4. RanksOf'
    BY <1>1, <1>3 DEF IInv, RanksOf, new_ranks
  <1>5. Logs'
    BY <1>1 DEF IInv, Logs
  <1>6. LaunchedInOrder'
    BY <1>1 DEF IInv, Order, LaunchedInOrder, include_tcp_server
  <1>7. was_run_successful' = (~stdout' /\ \A n \in Nodes(config) :
              log[n].exists /\ log[n].failure = "none" /\ log[n].sample)
    BY <1>1 DEF was_run_successful
  <1> QED
    BY <1>2, <1>4, <1>5, <1>6, <1>7

LEMMA GenerateKeeps == IInv /\ Generate => IInv'
  <1> SUFFICES ASSUME IInv, Generate PROVE IInv'
    OBVIOUS
  <1> USE DEF Generate, benchmark, outcome, Go
  <1>1. pc = "generate" /\ pc' \in {"primary", "refused"} /\ config' = config /\ checks' = 0
        /\ UNCHANGED <<stage, launch, ranks, at, log, stdout, rc, verdict>>
    OBVIOUS
  <1>2. Launches' = Launches /\ Nodes(config)' = Nodes(config)
    BY DEF Launches, Phases, Nodes
  <1>3. Types'
    BY <1>1, <1>2 DEF IInv, Types, Pcs
  <1>4. Plan'
    BY DEF IInv, Plan
  <1>5. Launched = {} /\ Launched' = {}
    BY <1>1, <1>2 DEF IInv, Script_at, Launched
  <1>6. \A l \in Launches : launch[l] = "none"
    BY <1>5 DEF Launched
  <1>7. Script_at'
    BY <1>1, <1>5 DEF Script_at
  <1>8. \A l, k : active(l, k)' = active(l, k)
    BY DEF active
  <1>9. \A l \in Launches : ranks[l] = {} /\ at[l] = 0
    BY <1>6 DEF IInv, RanksOf
  <1>10. RanksOf'
    BY <1>1, <1>2, <1>6, <1>8, <1>9 DEF IInv, RanksOf
  <1>11. Logs'
    BY <1>1, <1>2 DEF IInv, Logs
  <1>12. Outcome'
    <2>1. Failed' = Failed /\ ~Ended /\ ~Ended'
      BY <1>1, <1>2 DEF Failed, Ended
    <2>2. \A n \in Nodes(config) : log[n].failure # "none" => Failed
      BY DEF IInv, Outcome
    <2>3. verdict' = "none" /\ pc' # "judged"
      BY <1>1 DEF IInv, Outcome
    <2>4. \A l \in Launches : launch'[l] # "killed"
      BY <1>1, <1>6
    <2> QED
      BY <1>1, <1>2, <2>1, <2>2, <2>3, <2>4 DEF IInv, Outcome
  <1>13. Order'
    BY <1>1, <1>2, <1>6 DEF Order, LaunchedInOrder
  <1> QED
    BY <1>3, <1>4, <1>7, <1>10, <1>11, <1>12, <1>13 DEF IInv

(* The script goes from one wait to another, and nothing else happens.     *)
Moves(to) ==
  /\ pc' = to /\ pc \notin {"generate", "refused"} /\ checks' \in Nat
  /\ UNCHANGED <<config, procs, stage, benchmark, outcome>>

LEMMA MovesKeeps ==
  ASSUME IInv, NEW to \in Pcs \ {"generate", "refused"}, Moves(to), ~Ended, to \notin {"exited", "judged"},
         Script_at', Order'
  PROVE  IInv'
  <1> USE DEF Moves, benchmark, outcome
  <1>1. Launches' = Launches /\ Nodes(config)' = Nodes(config)
    BY SamePlan
  <1>2. Types'
    BY <1>1 DEF IInv, Types
  <1>3. Plan'
    BY DEF IInv, Plan
  <1>4. RanksOf' /\ Logs' /\ Up' = Up /\ Failed' = Failed
    BY ScriptOnly
  <1>5. Outcome'
    BY <1>1, <1>4 DEF IInv, Outcome, Ended
  <1> QED
    BY <1>2, <1>3, <1>4, <1>5 DEF IInv

LEMMA WaitsKeep ==
  IInv /\ (ServicesReady \/ ServicesTimeOut \/ GrepLog \/ ProbePrimary) /\ pc' # "exited" => IInv'
  <1> SUFFICES ASSUME IInv, ServicesReady \/ ServicesTimeOut \/ GrepLog \/ ProbePrimary, pc' # "exited"
               PROVE  IInv'
    OBVIOUS
  <1> USE DEF Moves, benchmark, outcome
  <1>0. checks \in Nat /\ Types
    BY DEF IInv, Types
  <1>1. ASSUME UNCHANGED <<config, procs, stage, launch, ranks, at, log>>, ~Ended, ~Ended'
        PROVE  /\ Launched' = Launched /\ Planned' = Planned /\ primary' = primary
               /\ later_stages(stage)' = later_stages(stage) /\ LaunchedInOrder'
               /\ has_followers' = has_followers
               /\ include_tcp_server(primary)' = include_tcp_server(primary) /\ ranks'[primary'] = ranks[primary]
    <2>1. Planned' = Planned /\ primary' = primary /\ StageIdxs' = StageIdxs /\ has_followers' = has_followers
      BY <1>1, SamePlan
    <2>2. later_stages(stage)' = later_stages(stage)
      BY <1>1, <2>1 DEF later_stages
    <2>3. Launched' = Launched /\ LaunchedInOrder'
      BY <1>1, ScriptOnly
    <2> QED
      BY <1>1, <2>1, <2>2, <2>3 DEF include_tcp_server
  <1>2. CASE ServicesReady
    <2>1. Moves("rest") /\ pc = "services" /\ pc' = "rest" /\ ranks[primary] # {}
      BY <1>2 DEF ServicesReady, Go
    <2>2. ~Ended /\ ~Ended'
      BY <2>1 DEF Ended
    <2>3. Script_at'
      BY <1>1, <2>1, <2>2 DEF IInv, Script_at
    <2>4. Order'
      BY <1>1, <2>1, <2>2 DEF Order
    <2> QED
      BY <2>1, <2>2, <2>3, <2>4, MovesKeeps DEF Pcs
  <1>3. CASE ServicesTimeOut
    <2>0. /\ pc = "services" /\ pc' = pc /\ checks' = checks + 1
          /\ UNCHANGED <<config, procs, stage, benchmark, outcome>>
      BY <1>3 DEF ServicesTimeOut, Exit
    <2>1. Moves("services") /\ pc = "services" /\ pc' = "services"
      BY <1>0, <2>0
    <2>2. ~Ended /\ ~Ended'
      BY <2>1 DEF Ended
    <2>3. Script_at'
      BY <1>1, <2>1, <2>2 DEF IInv, Script_at
    <2>4. Order'
      BY <1>1, <2>1, <2>2 DEF Order
    <2> QED
      BY <2>1, <2>2, <2>3, <2>4, MovesKeeps DEF Pcs
  <1>4. CASE GrepLog
    <2>1. /\ pc = "grep" /\ UNCHANGED <<config, procs, stage, benchmark, outcome>>
          /\ \/ wait_phase \in log[1].ended /\ pc' = "stage" /\ checks' = 0
             \/ pc' = "probe" /\ checks' = checks
      BY <1>4 DEF GrepLog, Go, Exit
    <2>2. ~Ended /\ ~Ended' /\ Moves(pc') /\ pc' \in Pcs \ {"generate", "refused"} /\ pc' \notin {"exited", "judged"}
      BY <1>0, <2>1 DEF Ended, Pcs
    <2>3. Script_at'
      BY <1>1, <2>1, <2>2 DEF IInv, Script_at
    <2>4. pc' = "stage" => wait_phase' \in log'[1].ended
      BY <1>1, <2>1, <2>2 DEF wait_phase
    <2>5. Order'
      BY <1>1, <2>1, <2>2, <2>4 DEF Order
    <2>6. PICK to : to = pc'
      OBVIOUS
    <2> QED
      BY <2>2, <2>3, <2>5, <2>6, MovesKeeps
  <1>5. CASE ProbePrimary
    <2>0. /\ pc = "probe" /\ pc' = "grep" /\ checks' = checks + 1
          /\ UNCHANGED <<config, procs, stage, benchmark, outcome>>
      BY <1>5 DEF ProbePrimary, Exit
    <2>1. Moves("grep") /\ pc = "probe" /\ pc' = "grep"
      BY <1>0, <2>0
    <2>2. ~Ended /\ ~Ended'
      BY <2>1 DEF Ended
    <2>3. Script_at'
      BY <1>1, <2>1, <2>2 DEF IInv, Script_at
    <2>4. Order'
      BY <1>1, <2>1, <2>2 DEF Order
    <2> QED
      BY <2>1, <2>2, <2>3, <2>4, MovesKeeps DEF Pcs
  <1> QED
    BY <1>2, <1>3, <1>4, <1>5

(* Every way out of the script. Only the last wait exits with 0, when all  *)
(* that was planned has been started and nothing has failed.               *)
LEMMA ExitKeeps ==
  ASSUME IInv, NEW code \in {0, 1}, NEW shown \in BOOLEAN, Exit(code, shown), stdout => shown,
         pc \notin {"generate", "refused"}, ~Ended,
         code = 0 => shown = stdout /\ Up = {} /\ ~Failed /\ Launched = Planned,
         checks' \in Nat
  PROVE  IInv'
  <1> USE DEF Exit
  <1>0. /\ pc' = "exited" /\ UNCHANGED <<config, procs, stage, ranks, at, log, verdict>>
        /\ launch' = [l \in Launches |-> IF launch[l] = "up" THEN "killed" ELSE launch[l]]
        /\ stdout' \in BOOLEAN /\ (stdout => stdout') /\ (Up = {} => stdout' = shown)
    OBVIOUS
  <1>1. /\ Launches' = Launches /\ Nodes(config)' = Nodes(config) /\ primary' = primary
        /\ Planned' = Planned /\ StageIdxs' = StageIdxs
    BY SamePlan
  <1>2. \A l \in Launches : /\ launch[l] = "none" <=> launch'[l] = "none"
                            /\ launch[l] = "failed" <=> launch'[l] = "failed"
                            /\ launch[l] = "done" <=> launch'[l] = "done"
                            /\ launch'[l] # "up"
    BY <1>0 DEF IInv, Types
  <1>3. Types'
    <2>1. launch' \in [Launches -> {"none", "up", "done", "failed", "killed"}]
      BY <1>0 DEF IInv, Types
    <2> QED
      BY <1>0, <1>1, <2>1 DEF IInv, Types, Pcs
  <1>4. Plan'
    BY <1>0 DEF IInv, Plan
  <1>5. Launched' = Launched /\ Up' = {} /\ Failed' = Failed
    BY <1>1, <1>2 DEF Launched, Up, Failed
  <1>6. Script_at'
    BY <1>0, <1>1, <1>5 DEF IInv, Script_at
  <1>7. \A l, k : active(l, k)' = active(l, k)
    BY <1>0 DEF active
  <1>8. RanksOf'
    <2>1. ASSUME NEW l \in Launches
          PROVE  /\ launch'[l] = "none" => ranks'[l] = {} /\ at'[l] = 0
                 /\ launch'[l] # "none" => at'[l] >= l[1] - 1
                 /\ ranks'[l] # {} => ranks'[l] \subseteq new_ranks(config', l[1])
                                      /\ Cardinality(ranks'[l]) = procs'[l[1]][l[2]]
                 /\ \A k \in l[1] .. at'[l] : active(l, k)' # {}
                 /\ launch'[l] # "up"
                 /\ launch'[l] = "done" => ranks'[l] # {} /\ active(l, at[l] + 1)' = {}
      BY <1>0, <1>2, <1>7 DEF IInv, RanksOf
    <2>2. \A l, m \in Launches : l[1] = m[1] /\ l # m => ranks'[l] \intersect ranks'[m] = {}
      BY <1>0 DEF IInv, RanksOf
    <2>3. at' = at
      BY <1>0
    <2> QED
      BY <1>1, <2>1, <2>2, <2>3 DEF RanksOf
  <1>9. Logs'
    BY <1>0, <1>1, <1>2 DEF IInv, Logs
  <1>10. Outcome'
    <2>1. Failed => stdout'
      BY <1>0 DEF IInv, Outcome
    <2>2. \A n \in Nodes(config) : log'[n].failure # "none" => Failed
      BY <1>0 DEF IInv, Outcome
    <2>3. ASSUME code = 0 PROVE ~stdout' /\ \A l \in Planned : launch'[l] = "done"
      <3>1. ~stdout'
        BY <1>0, <2>3 DEF IInv, Outcome
      <3>2. \A l \in Planned : launch[l] \notin {"none", "up", "failed", "killed"}
        BY <2>3 DEF IInv, Outcome, Up, Failed, Launched
      <3>3. \A l \in Planned : l \in Launches /\ launch[l] = "done"
        BY <3>2 DEF IInv, Types, Planned
      <3> QED
        BY <1>2, <3>1, <3>3
    <2>4. verdict' = "none"
      BY <1>0 DEF IInv, Outcome, Ended
    <2> QED
      BY <1>0, <1>1, <1>5, <2>1, <2>2, <2>3, <2>4 DEF Outcome, Ended
  <1>11. Order'
    <2>1. LaunchedInOrder'
      BY <1>0, <1>1, <1>2 DEF IInv, Order, LaunchedInOrder, include_tcp_server
    <2> QED
      BY <1>0, <2>1 DEF Order
  <1> QED
    BY <1>3, <1>4, <1>6, <1>8, <1>9, <1>10, <1>11 DEF IInv

LEMMA ExitsKeep ==
  IInv /\ (((ServicesTimeOut \/ GrepLog \/ ProbePrimary) /\ pc' = "exited") \/ WaitAll \/ JobKilled) => IInv'
  <1> SUFFICES ASSUME IInv, ((ServicesTimeOut \/ GrepLog \/ ProbePrimary) /\ pc' = "exited") \/ WaitAll \/ JobKilled
               PROVE  IInv'
    OBVIOUS
  <1>1. Types
    BY DEF IInv
  <1>2. pc \in {"primary", "services", "rest", "grep", "probe", "stage", "final"} =>
          pc \notin {"generate", "refused"} /\ ~Ended
    BY DEF Ended
  <1>3. \A code, shown : Exit(code, shown) => checks' \in Nat
    BY <1>1 DEF Exit, Types
  <1>4. CASE WaitAll
    <2>1. pc = "final" /\ Up = {}
      BY <1>4 DEF WaitAll
    <2>2. PICK code \in {0, 1} : Exit(code, stdout) /\ (code = 0 => ~Failed)
      BY <1>4 DEF WaitAll, Failed
    <2>3. Launched = Planned
      <3>1. later_stages(stage) = {} /\ Launched = {l \in Planned : l[1] <= stage} /\ stage \in Nat
        BY <1>1, <2>1 DEF IInv, Script_at, Types
      <3>2. \A l \in Planned : l[1] \in StageIdxs /\ l[1] \in Nat
        BY <1>1, LaunchFacts DEF StageIdxs, Planned, Types
      <3> QED
        BY <3>1, <3>2 DEF later_stages
    <2> QED
      BY <1>1, <1>2, <1>3, <2>1, <2>2, <2>3, ExitKeeps DEF Types
  <1>5. CASE JobKilled
    <2>1. Exit(1, stdout) /\ pc \in {"primary", "services", "rest", "grep", "probe", "stage", "final"}
      BY <1>5 DEF JobKilled
    <2> QED
      BY <1>1, <1>2, <1>3, <2>1, ExitKeeps DEF Types
  <1>6. CASE (ServicesTimeOut \/ GrepLog \/ ProbePrimary) /\ pc' = "exited"
    <2>1. PICK shown \in {stdout, TRUE} : Exit(1, shown)
      BY <1>6 DEF ServicesTimeOut, GrepLog, ProbePrimary, Go
    <2>2. pc \in {"services", "grep", "probe"}
      BY <1>6 DEF ServicesTimeOut, GrepLog, ProbePrimary
    <2>3. shown \in BOOLEAN /\ (stdout => shown)
      BY <1>1 DEF Types
    <2> QED
      BY <1>2, <1>3, <2>1, <2>2, <2>3, ExitKeeps
  <1> QED
    BY <1>4, <1>5, <1>6

LEMMA JudgeKeeps == IInv /\ Judge => IInv'
  <1> SUFFICES ASSUME IInv, Judge PROVE IInv'
    OBVIOUS
  <1> USE DEF Judge, Go, benchmark
  <1>0. pc = "exited" /\ pc' = "judged" /\ checks' = 0
        /\ UNCHANGED <<config, procs, stage, launch, ranks, at, log, stdout, rc>>
    OBVIOUS
  <1>1. /\ Launches' = Launches /\ Nodes(config)' = Nodes(config) /\ Planned' = Planned /\ primary' = primary
    BY SamePlan
  <1>2. RanksOf' /\ Logs' /\ Launched' = Launched /\ Up' = Up /\ Failed' = Failed /\ LaunchedInOrder'
    BY ScriptOnly
  <1>3. was_run_successful' = was_run_successful
    BY <1>1 DEF was_run_successful
  <1>4. Types'
    BY <1>0, <1>1 DEF IInv, Types, Pcs
  <1>5. Plan'
    BY <1>0 DEF IInv, Plan
  <1>6. Script_at'
    BY <1>0, <1>1, <1>2 DEF IInv, Script_at
  <1>7. Outcome'
    BY <1>0, <1>1, <1>2, <1>3 DEF IInv, Outcome, Ended
  <1>8. Order'
    BY <1>0, <1>2 DEF Order
  <1> QED
    BY <1>2, <1>4, <1>5, <1>6, <1>7, <1>8 DEF IInv

(* What starting launches does to the rest: they have no ranks yet, and a  *)
(* log that is emptied was not written by anybody.                         *)
LEMMA StartFacts ==
  ASSUME IInv, NEW S \in SUBSET Planned, Start(S), pc \in {"primary", "rest", "stage"},
         \A l \in S : launch[l] = "none"
  PROVE  /\ Launched' = Launched \union S
         /\ \A l \in Launches : at'[l] >= at[l] /\ (l \notin S => at'[l] = at[l] /\ launch'[l] = launch[l])
         /\ \A l \in S : launch'[l] = "up" /\ at'[l] = l[1] - 1 /\ ranks[l] = {} /\ at[l] = 0
         /\ \A l \in Launches : l[1] .. at'[l] = l[1] .. at[l]
  <1>0. S \subseteq Launches /\ config \in Configs
    BY DEF Planned, IInv, Types
  <1>1. Launches' = Launches
    BY SamePlan DEF Start
  <1>2. \A l \in Launches : /\ l \in S => launch'[l] = "up" /\ at'[l] = l[1] - 1
                            /\ l \notin S => launch'[l] = launch[l] /\ at'[l] = at[l]
    BY DEF Start
  <1>3. \A l \in S : ranks[l] = {} /\ at[l] = 0
    BY <1>0 DEF IInv, RanksOf
  <1>4. \A l \in Launches : l[1] \in Nat \ {0} /\ at[l] \in Nat
    BY <1>0, LaunchFacts DEF IInv, Types
  <1>5. Launched' = Launched \union S
    BY <1>0, <1>1, <1>2 DEF Launched
  <1>6. ASSUME NEW l \in Launches PROVE at'[l] >= at[l] /\ l[1] .. at'[l] = l[1] .. at[l]
    <2>1. CASE l \in S
      <3>1. at'[l] = l[1] - 1 /\ at[l] = 0 /\ l[1] \in Nat \ {0}
        BY <1>2, <1>3, <1>4, <2>1
      <3>2. l[1] .. (l[1] - 1) = {} /\ l[1] .. 0 = {}
        BY <3>1
      <3> QED
        BY <3>1, <3>2
    <2>2. CASE l \notin S
      BY <1>2, <1>4, <2>2
    <2> QED
      BY <2>1, <2>2
  <1> QED
    BY <1>0, <1>2, <1>3, <1>5, <1>6

LEMMA StartKeeps ==
  ASSUME IInv, NEW S \in SUBSET Planned, Start(S), pc \in {"primary", "rest", "stage"},
         pc' \in {"services", "rest", "grep", "final"}, stage' \in Nat, checks' \in Nat,
         \A l \in S : launch[l] = "none",
         \A l \in S, m \in Launches : l[1] = 1 /\ m[2] = l[2] => launch[m] = "none",
         Script_at', Order'
  PROVE  IInv'
  <1>0. /\ UNCHANGED <<config, procs, ranks, stdout, rc, verdict>> /\ config \in Configs /\ Types
        /\ S \subseteq Launches
    BY DEF Start, outcome, IInv, Types, Planned
  <1>1. /\ Launches' = Launches /\ Nodes(config)' = Nodes(config) /\ primary' = primary
        /\ Planned' = Planned
    BY <1>0, SamePlan
  <1>2. /\ \A l \in Launches : at'[l] >= at[l] /\ (l \notin S => at'[l] = at[l] /\ launch'[l] = launch[l])
        /\ \A l \in S : launch'[l] = "up" /\ at'[l] = l[1] - 1 /\ ranks[l] = {} /\ at[l] = 0
    BY StartFacts
  <1>3. \A l \in Launches : l[1] .. at'[l] = l[1] .. at[l]
    BY StartFacts
  <1>4. \A l \in Launches : l[1] \in Nat \ {0} /\ l[2] \in Nodes(config)
    BY <1>0, LaunchFacts
  <1>5. \A n \in Nodes(config) :
          \/ log'[n] = [EmptyLog EXCEPT !.exists = TRUE] /\ \E l \in S : l[2] = n /\ l[1] = 1
          \/ log'[n] = [log[n] EXCEPT !.exists = @ \/ \E l \in S : l[2] = n]
    BY DEF Start, append_output
  <1>6. \A n \in Nodes(config) :
          /\ log'[n] = [exists |-> log'[n].exists, ended |-> log'[n].ended, sample |-> log'[n].sample,
                        failure |-> log'[n].failure]
          /\ log'[n].exists \in BOOLEAN /\ (log[n].exists => log'[n].exists)
          /\ (\E l \in S : l[2] = n) => log'[n].exists
          /\ \/ log'[n].ended = log[n].ended /\ log'[n].sample = log[n].sample /\ log'[n].failure = log[n].failure
             \/ /\ log'[n].ended = {} /\ log'[n].sample = FALSE /\ log'[n].failure = "none"
                /\ \A m \in Launches : m[2] = n => launch[m] = "none"
    <2>1. TAKE n \in Nodes(config)
    <2>2. log[n] \in [exists : BOOLEAN, ended : SUBSET Nat, sample : BOOLEAN,
                      failure : {"none", "error", "no_phases"}]
      BY <1>0 DEF Types
    <2>3. CASE log'[n] = [EmptyLog EXCEPT !.exists = TRUE] /\ \E l \in S : l[2] = n /\ l[1] = 1
      <3>1. log'[n] = [exists |-> TRUE, ended |-> {}, sample |-> FALSE, failure |-> "none"]
        BY <2>3 DEF EmptyLog
      <3>2. \A m \in Launches : m[2] = n => launch[m] = "none"
        BY <2>3
      <3>3. /\ log'[n].exists = TRUE /\ log'[n].ended = {} /\ log'[n].sample = FALSE
            /\ log'[n].failure = "none"
        BY <3>1
      <3> QED
        BY <3>1, <3>2, <3>3
    <2>4. CASE log'[n] = [log[n] EXCEPT !.exists = @ \/ \E l \in S : l[2] = n]
      <3> DEFINE e == log[n].exists \/ \E l \in S : l[2] = n
      <3>1. log'[n] = [exists |-> e, ended |-> log[n].ended, sample |-> log[n].sample, failure |-> log[n].failure]
        BY <2>2, <2>4
      <3>2. e \in BOOLEAN /\ (log[n].exists => e) /\ ((\E l \in S : l[2] = n) => e)
        OBVIOUS
      <3> HIDE DEF e
      <3>3. /\ log'[n].exists = e /\ log'[n].ended = log[n].ended /\ log'[n].sample = log[n].sample
            /\ log'[n].failure = log[n].failure
        BY <3>1
      <3> QED
        BY <3>1, <3>2, <3>3
    <2> QED
      BY <1>5, <2>3, <2>4
  <1>7. Types'
    <2>1. log' \in [Nodes(config) -> [exists : BOOLEAN, ended : SUBSET Nat, sample : BOOLEAN,
                                      failure : {"none", "error", "no_phases"}]]
      <3>1. DOMAIN log' = Nodes(config) /\ log' = [n \in Nodes(config) |-> log'[n]]
        BY DEF Start
      <3>2. \A n \in Nodes(config) : /\ log[n].ended \in SUBSET Nat /\ log[n].sample \in BOOLEAN
                                     /\ log[n].failure \in {"none", "error", "no_phases"}
        BY <1>0 DEF Types
      <3>3. \A n \in Nodes(config) :
              log'[n] \in [exists : BOOLEAN, ended : SUBSET Nat, sample : BOOLEAN,
                           failure : {"none", "error", "no_phases"}]
        <4>1. TAKE n \in Nodes(config)
        <4>2. /\ log'[n].exists \in BOOLEAN /\ log'[n].ended \in SUBSET Nat /\ log'[n].sample \in BOOLEAN
              /\ log'[n].failure \in {"none", "error", "no_phases"}
          BY <1>6, <3>2
        <4>3. log'[n] = [exists |-> log'[n].exists, ended |-> log'[n].ended, sample |-> log'[n].sample,
                         failure |-> log'[n].failure]
          BY <1>6
        <4> QED
          BY <4>2, <4>3
      <3> QED
        BY <3>1, <3>3
    <2>2. launch' \in [Launches -> {"none", "up", "done", "failed", "killed"}]
      BY <1>0 DEF Start, Types
    <2>3. at' \in [Launches -> Nat]
      <3>1. \A l \in Launches : (IF l \in S THEN l[1] - 1 ELSE at[l]) \in Nat
        BY <1>0, <1>4 DEF Types
      <3> QED
        BY <3>1 DEF Start
    <2> QED
      BY <1>0, <1>1, <2>1, <2>2, <2>3 DEF Types, Pcs
  <1>8. Plan'
    BY <1>0 DEF IInv, Plan
  <1>9. \A l, k : active(l, k)' = active(l, k)
    BY <1>0 DEF active
  <1>10. RanksOf'
    <2>1. ASSUME NEW l \in Launches
          PROVE  /\ launch'[l] = "none" => ranks'[l] = {} /\ at'[l] = 0
                 /\ launch'[l] # "none" => at'[l] >= l[1] - 1
                 /\ ranks'[l] # {} => ranks'[l] \subseteq new_ranks(config', l[1])
                                      /\ Cardinality(ranks'[l]) = procs'[l[1]][l[2]]
                 /\ \A k \in l[1] .. at'[l] : active(l, k)' # {}
                 /\ launch'[l] = "up" /\ ranks'[l] # {} => active(l, at[l] + 1)' # {}
                 /\ launch'[l] = "done" => ranks'[l] # {} /\ active(l, at[l] + 1)' = {}
      <3>1. CASE l \in S
        <4>1. launch'[l] = "up" /\ at'[l] = l[1] - 1 /\ ranks'[l] = {} /\ l[1] \in Nat
          BY <1>0, <1>2, <1>4, <3>1
        <4>2. l[1] .. at'[l] = {}
          BY <4>1
        <4> QED
          BY <4>1, <4>2
      <3>2. CASE l \notin S
        <4>1. launch'[l] = launch[l] /\ at'[l] = at[l] /\ ranks'[l] = ranks[l] /\ config' = config /\ procs' = procs
          BY <1>0, <1>2, <3>2
        <4> QED
          BY <1>9, <4>1 DEF IInv, RanksOf
      <3> QED
        BY <3>1, <3>2
    <2>2. \A l, m \in Launches : l[1] = m[1] /\ l # m => ranks'[l] \intersect ranks'[m] = {}
      BY <1>0 DEF IInv, RanksOf
    <2> QED
      BY <1>1, <2>1, <2>2 DEF RanksOf
  <1>11. Logs'
    <2>1. ASSUME NEW n \in Nodes(config)
          PROVE  log'[n].ended = {k \in Nat : \E l \in Launches : l[2] = n /\ k \in l[1] .. at'[l]}
      <3>1. log[n].ended = {k \in Nat : \E l \in Launches : l[2] = n /\ k \in l[1] .. at[l]}
        BY DEF IInv, Logs
      <3>2. CASE log'[n].ended = log[n].ended
        BY <1>3, <3>1, <3>2
      <3>3. CASE log'[n].ended = {} /\ \A m \in Launches : m[2] = n => launch[m] = "none"
        <4>1. \A m \in Launches : m[2] = n => at[m] = 0 /\ m[1] \in Nat \ {0}
          BY <1>4, <3>3 DEF IInv, RanksOf
        <4>2. \A m \in Launches : m[2] = n => m[1] .. at[m] = {}
          BY <4>1
        <4>3. \A m \in Launches : m[2] = n => m[1] .. at'[m] = {}
          BY <1>3, <4>2
        <4> QED
          BY <3>3, <4>3
      <3> QED
        BY <1>6, <3>2, <3>3
    <2>2. ASSUME NEW l \in Launches
          PROVE  /\ launch'[l] # "none" => log'[l[2]].exists
                 /\ launch'[l] = "done" => log'[l[2]].sample
      <3>1. CASE l \in S
        BY <1>2, <1>4, <1>6, <3>1
      <3>2. CASE l \notin S
        <4>1. launch'[l] = launch[l] /\ l[2] \in Nodes(config)
          BY <1>2, <1>4, <3>2
        <4>2. launch[l] # "none" => log[l[2]].exists
          BY DEF IInv, Logs
        <4>3. launch[l] = "done" => log[l[2]].sample
          BY DEF IInv, Logs
        <4>4. launch[l] # "none" => log'[l[2]].exists /\ log'[l[2]].sample = log[l[2]].sample
          BY <1>6, <4>1, <4>2
        <4> QED
          BY <4>1, <4>2, <4>3, <4>4
      <3> QED
        BY <3>1, <3>2
    <2> QED
      BY <1>1, <2>1, <2>2 DEF Logs
  <1>12. Outcome'
    <2>1. ~Ended /\ ~Ended' /\ pc' # "judged" /\ pc # "judged"
      BY DEF Ended
    <2>2. Failed' <=> Failed
      <3>1. \A l \in Launches : launch'[l] = "failed" <=> launch[l] = "failed"
        BY <1>0, <1>2
      <3> QED
        BY <1>1, <3>1 DEF Failed
    <2>3. \A l \in Launches : launch'[l] # "killed"
      BY <1>0, <1>2, <2>1 DEF IInv, Outcome
    <2>4. \A n \in Nodes(config) : log'[n].failure # "none" => Failed
      BY <1>6 DEF IInv, Outcome
    <2> QED
      BY <1>0, <1>1, <2>1, <2>2, <2>3, <2>4 DEF IInv, Outcome
  <1> QED
    BY <1>7, <1>8, <1>10, <1>11, <1>12 DEF IInv

(* The phases on a node's log were ended by launches that have ranks.      *)
LEMMA EndedByRanks ==
  ASSUME IInv, NEW k \in log[1].ended
  PROVE  \E m \in Launches : m[2] = 1 /\ k \in Nat /\ m[1] <= k /\ k <= at[m] /\ ranks[m] # {} /\ launch[m] # "none"
  <1>1. config \in Configs /\ 1 \in Nodes(config)
    BY LaunchFacts DEF IInv, Types
  <1>2. PICK m \in Launches : m[2] = 1 /\ k \in m[1] .. at[m] /\ k \in Nat
    BY <1>1 DEF IInv, Logs
  <1>3. m[1] \in Nat /\ at[m] \in Nat
    BY <1>1, LaunchFacts DEF IInv, Types
  <1>4. active(m, k) # {}
    BY <1>2 DEF IInv, RanksOf
  <1>5. ranks[m] # {}
    BY <1>1, <1>2, <1>4, ActiveFacts
  <1>6. launch[m] # "none"
    BY <1>5 DEF IInv, RanksOf
  <1> QED
    BY <1>2, <1>3, <1>5, <1>6

LEMMA NextStage ==
  ASSUME config \in Configs, NEW i \in Nat, later_stages(i) # {}
  PROVE  /\ Min(later_stages(i)) \in later_stages(i) /\ Min(later_stages(i)) \in Nat
         /\ Min(later_stages(i)) > i
         /\ \A j \in later_stages(i) : Min(later_stages(i)) <= j
  <1>1. later_stages(i) \in SUBSET Nat /\ \A j \in later_stages(i) : j > i
    BY LaunchFacts DEF later_stages, StageIdxs, Planned
  <1>2. PICK k \in later_stages(i) : \A j \in later_stages(i) : k <= j
    BY <1>1, LeastElement
  <1> QED
    BY <1>1, <1>2 DEF Min

LEMMA PrimaryKeeps == IInv /\ StartPrimary => IInv'
  <1> SUFFICES ASSUME IInv, StartPrimary PROVE IInv'
    OBVIOUS
  <1>1. pc = "primary" /\ Start({primary}) /\ stage' = primary[1] /\ checks' = 0
        /\ pc' \in {"services", "rest"} /\ (has_followers <=> pc' = "services")
    BY DEF StartPrimary, Go
  <1>2. Underway /\ config \in Configs
    BY <1>1 DEF Underway, IInv, Types
  <1>3. primary \in Planned /\ primary \in Launches /\ primary[1] \in Nat
    BY <1>2, PrimaryFacts, PlannedFacts, LaunchFacts
  <1>4. Launched = {}
    BY <1>1 DEF IInv, Script_at
  <1>5. \A l \in Launches : launch[l] = "none"
    BY <1>4 DEF Launched
  <1>6. /\ Launches' = Launches /\ Planned' = Planned /\ primary' = primary
        /\ has_followers' = has_followers
    BY <1>1, SamePlan DEF Start
  <1>7. Launched' = {primary}
    BY <1>1, <1>3, <1>4, <1>5, StartFacts
  <1>8. Script_at'
    BY <1>1, <1>3, <1>6, <1>7 DEF Script_at
  <1>9. \A l \in Launches : launch'[l] # "none" => l = primary
    BY <1>6, <1>7 DEF Launched
  <1>10. Order'
    BY <1>1, <1>6, <1>9 DEF Order, LaunchedInOrder
  <1> QED
    BY <1>1, <1>3, <1>5, <1>8, <1>10, StartKeeps

LEMMA FollowersKeep == IInv /\ StartFollowers => IInv'
  <1> SUFFICES ASSUME IInv, StartFollowers PROVE IInv'
    OBVIOUS
  <1> DEFINE S == StageOf(stage) \ {primary}
  <1>1. pc = "rest" /\ Start(S) /\ stage' = stage /\ checks' = 0
        /\ pc' = IF later_stages(stage) = {} THEN "final" ELSE "grep"
    BY DEF StartFollowers, Go, NextWait
  <1>2. Underway /\ config \in Configs /\ stage \in Nat
    BY <1>1 DEF Underway, IInv, Types
  <1>3. /\ primary \in Planned /\ primary \in Launches
        /\ \A m \in Planned : primary[1] < m[1] \/ (primary[1] = m[1] /\ primary[2] <= m[2])
    BY <1>2, PrimaryFacts, PlannedFacts
  <1>4. stage = primary[1] /\ Launched = {primary}
    BY <1>1 DEF IInv, Script_at
  <1>5. S \subseteq Planned /\ \A l \in S : l[1] = primary[1] /\ l # primary /\ l \in Launches
    BY <1>4 DEF StageOf, Planned
  <1>6. \A l \in Launches : launch[l] # "none" => l = primary
    BY <1>4 DEF Launched
  <1>7. \A l \in S : launch[l] = "none"
    BY <1>5, <1>6
  <1>8. \A l \in S, m \in Launches : l[1] = 1 /\ m[2] = l[2] => launch[m] = "none"
    <2>1. \A l \in S : l[2] # primary[2]
      BY <1>2, <1>3, <1>5, LaunchFacts
    <2> QED
      BY <1>6, <2>1
  <1>9. /\ Launches' = Launches /\ Planned' = Planned /\ primary' = primary
        /\ StageIdxs' = StageIdxs /\ has_followers' = has_followers /\ ranks' = ranks
    BY <1>1, SamePlan DEF Start
  <1>10. later_stages(stage)' = later_stages(stage)
    BY <1>1, <1>9 DEF later_stages
  <1>11. Launched' = {l \in Planned : l[1] <= stage}
    <2>1. Launched' = {primary} \union S
      BY <1>1, <1>4, <1>5, <1>7, StartFacts
    <2>2. \A l \in Planned : l[1] \in Nat /\ (l[1] <= stage <=> l[1] = stage)
      BY <1>2, <1>3, <1>4, LaunchFacts DEF Planned
    <2>3. S \union {primary} = {l \in Planned : l[1] = stage}
      BY <1>3, <1>4 DEF StageOf
    <2> QED
      BY <2>1, <2>2, <2>3
  <1>12. stage >= primary[1]
    BY <1>2, <1>4
  <1>13. Script_at'
    BY <1>1, <1>9, <1>10, <1>11, <1>12 DEF Script_at
  <1>14. S # {} /\ ~include_tcp_server(primary) => ranks[primary] # {}
    <2> SUFFICES ASSUME NEW l \in S, ~include_tcp_server(primary) PROVE ranks[primary] # {}
      OBVIOUS
    <2>1. l[2] # 1
      BY <1>2, <1>3, <1>5, LaunchFacts DEF include_tcp_server
    <2>2. has_followers
      BY <1>5, <2>1 DEF has_followers
    <2> QED
      BY <1>1, <2>2 DEF IInv, Order
  <1>15. LaunchedInOrder'
    <2>1. ASSUME NEW l \in Launches, launch'[l] # "none" PROVE l = primary \/ l \in S
      BY <1>4, <1>1, <1>5, <1>6, <1>7, <2>1, StartFacts
    <2>2. \A l \in S : l[1] = primary[1]
      BY <1>5
    <2>3. include_tcp_server(primary)' = include_tcp_server(primary)
      BY <1>9 DEF include_tcp_server
    <2> QED
      BY <1>9, <1>14, <2>1, <2>2, <2>3 DEF LaunchedInOrder
  <1>16. Order'
    BY <1>1, <1>15 DEF Order
  <1> HIDE DEF S
  <1> QED
    BY <1>1, <1>2, <1>5, <1>7, <1>8, <1>13, <1>16, StartKeeps

LEMMA StageKeeps == IInv /\ StartStage => IInv'
  <1> SUFFICES ASSUME IInv, StartStage PROVE IInv'
    OBVIOUS
  <1>0. PICK k : k = Min(later_stages(stage))
    OBVIOUS
  <1>1. pc = "stage" /\ Start(StageOf(k)) /\ stage' = k /\ checks' = 0
        /\ pc' = IF later_stages(k) = {} THEN "final" ELSE "grep"
    BY <1>0 DEF StartStage, Go
  <1>2. Underway /\ config \in Configs /\ stage \in Nat /\ later_stages(stage) # {}
    BY <1>1 DEF Underway, IInv, Types, Script_at
  <1>3. k \in later_stages(stage) /\ k \in Nat /\ k > stage /\ \A j \in later_stages(stage) : k <= j
    BY <1>0, <1>2, NextStage
  <1>4. primary \in Planned /\ primary \in Launches /\ primary[1] \in Nat \ {0}
    BY <1>2, PrimaryFacts, PlannedFacts, LaunchFacts
  <1>5. stage >= primary[1] /\ Launched = {l \in Planned : l[1] <= stage} /\ wait_phase \in log[1].ended
    BY <1>1 DEF IInv, Script_at, Order
  <1>6. \A l \in Planned : l \in Launches /\ l[1] \in Nat /\ l[1] \in StageIdxs
    BY <1>2, LaunchFacts DEF Planned, StageIdxs
  <1>7. StageOf(k) \subseteq Planned /\ \A l \in StageOf(k) : l[1] = k /\ l \in Launches
    BY DEF StageOf, Planned
  <1>8. \A l \in StageOf(k) : launch[l] = "none"
    BY <1>2, <1>3, <1>5, <1>7 DEF Launched
  <1>9. \A l \in StageOf(k), m \in Launches : l[1] = 1 /\ m[2] = l[2] => launch[m] = "none"
    BY <1>2, <1>3, <1>4, <1>5, <1>7
  <1>10. /\ Launches' = Launches /\ Planned' = Planned /\ primary' = primary
         /\ StageIdxs' = StageIdxs /\ ranks' = ranks
    BY <1>1, SamePlan DEF Start
  <1>11. later_stages(stage)' = later_stages(k)
    BY <1>1, <1>10 DEF later_stages
  <1>12. Launched' = {l \in Planned : l[1] <= k}
    <2>1. Launched' = Launched \union StageOf(k)
      BY <1>1, <1>7, <1>8, StartFacts
    <2>2. \A l \in Planned : l[1] <= k <=> l[1] <= stage \/ l[1] = k
      <3>1. TAKE l \in Planned
      <3>2. l[1] > stage => l[1] \in later_stages(stage)
        BY <1>6 DEF later_stages
      <3> QED
        BY <1>2, <1>3, <1>6, <3>2
    <2> QED
      BY <1>5, <2>1, <2>2 DEF StageOf
  <1>13. Script_at'
    <2>1. k >= primary[1]
      BY <1>2, <1>3, <1>4, <1>5
    <2> QED
      BY <1>1, <1>10, <1>11, <1>12, <2>1 DEF Script_at
  <1>14. PICK m \in Launches : /\ m[2] = 1 /\ k - 1 <= at[m] /\ ranks[m] # {} /\ launch[m] # "none"
    <2>1. wait_phase = k - 1
      BY <1>0 DEF wait_phase
    <2> QED
      BY <1>5, <2>1, EndedByRanks
  <1>15. ~include_tcp_server(primary) => ranks[primary] # {}
    BY <1>14 DEF IInv, Order, LaunchedInOrder
  <1>16. LaunchedInOrder'
    <2> SUFFICES ASSUME NEW l \in Launches, launch'[l] # "none"
                 PROVE  /\ l[1] # primary[1] => \E j \in Launches : at'[j] >= l[1] - 1 /\ j[2] = 1
                        /\ l # primary /\ ~include_tcp_server(primary) => ranks[primary] # {}
      BY <1>10 DEF LaunchedInOrder, include_tcp_server
    <2>1. \A j \in Launches : at'[j] >= at[j] /\ at[j] \in Nat /\ at'[j] \in Int
      <3>1. \A j \in Launches : at'[j] >= at[j]
        BY <1>1, <1>7, <1>8, StartFacts
      <3>2. \A j \in Launches : at[j] \in Nat /\ j[1] \in Nat
        BY <1>2, LaunchFacts DEF Underway, Types
      <3>3. \A j \in Launches : at'[j] = j[1] - 1 \/ at'[j] = at[j]
        BY <1>1 DEF Start
      <3> QED
        BY <3>1, <3>2, <3>3
    <2>2. CASE l \in StageOf(k)
      <3>1. l[1] = k
        BY <1>7, <2>2
      <3>2. at'[m] >= k - 1
        BY <1>3, <1>14, <2>1
      <3> QED
        BY <1>14, <1>15, <3>1, <3>2
    <2>3. CASE l \notin StageOf(k)
      <3>1. launch[l] # "none" /\ l[1] \in Nat
        BY <1>1, <1>2, <1>7, <1>8, <2>3, StartFacts, LaunchFacts
      <3>2. l[1] # primary[1] => \E j \in Launches : at[j] >= l[1] - 1 /\ j[2] = 1
        BY <3>1 DEF IInv, Order, LaunchedInOrder
      <3>3. l[1] # primary[1] => \E j \in Launches : at'[j] >= l[1] - 1 /\ j[2] = 1
        BY <2>1, <3>1, <3>2
      <3> QED
        BY <1>15, <3>3
    <2> QED
      BY <2>2, <2>3
  <1>17. Order'
    BY <1>1, <1>16 DEF Order
  <1>18. PICK S : S = StageOf(k)
    OBVIOUS
  <1> QED
    BY <1>1, <1>3, <1>7, <1>8, <1>9, <1>13, <1>17, <1>18, StartKeeps

(* A launch that is up is one of the plan, and the script is still there.  *)
LEMMA UpFacts ==
  ASSUME IInv, NEW l \in Launches, launch[l] = "up"
  PROVE  /\ Underway /\ ~Ended /\ config \in Configs /\ l \in Planned
         /\ l[1] \in Phases(config) /\ l[1] \in Nat \ {0} /\ l[2] \in Nodes(config)
         /\ at[l] \in Nat /\ at[l] >= l[1] - 1
         /\ procs[l[1]][l[2]] \in Nat \ {0}
  <1>1. l \in Launched
    BY DEF Launched
  <1>2. l \in Planned /\ pc \notin {"generate", "refused", "primary"} /\ config \in Configs /\ at[l] \in Nat
    BY <1>1 DEF IInv, Script_at, Types
  <1>3. Underway
    BY <1>2 DEF IInv, Underway
  <1>4. ~Ended
    BY DEF IInv, Outcome, Up
  <1>5. at[l] >= l[1] - 1
    BY DEF IInv, RanksOf
  <1>6. procs[l[1]][l[2]] \in Nat \ {0}
    BY <1>2, <1>3, PlannedFacts
  <1> QED
    BY <1>2, <1>3, <1>4, <1>5, <1>6, LaunchFacts

(* What stays when one launch goes on.                                     *)
LEMMA WorkerFrame ==
  ASSUME IInv, UNCHANGED <<config, procs, script>>, Launched' = Launched,
         \A m \in Launches : at'[m] \in Nat /\ at'[m] >= at[m],
         \A m \in Launches : ranks[m] # {} => ranks'[m] # {},
         log[1].ended \subseteq log'[1].ended
  PROVE  Plan' /\ Script_at' /\ Order'
  <1> USE DEF script
  <1>1. /\ Launches' = Launches /\ Planned' = Planned /\ primary' = primary
        /\ StageIdxs' = StageIdxs /\ has_followers' = has_followers
    BY SamePlan
  <1>2. later_stages(stage)' = later_stages(stage)
    BY <1>1 DEF later_stages
  <1>3. Plan'
    BY DEF IInv, Plan
  <1>4. Script_at'
    BY <1>1, <1>2 DEF IInv, Script_at
  <1>5. include_tcp_server(primary)' = include_tcp_server(primary)
    BY <1>1 DEF include_tcp_server
  <1>6. LaunchedInOrder'
    <2>1. config \in Configs
      BY DEF IInv, Types
    <2> SUFFICES ASSUME NEW l \in Launches, launch'[l] # "none"
                 PROVE  /\ l[1] # primary[1] => \E m \in Launches : at'[m] >= l[1] - 1 /\ m[2] = 1
                        /\ l # primary /\ ~include_tcp_server(primary) => ranks'[primary] # {}
      BY <1>1, <1>5 DEF LaunchedInOrder
    <2>2. l \in Launched
      BY <1>1 DEF Launched
    <2>3. launch[l] # "none" /\ l[1] \in Nat
      BY <2>1, <2>2, LaunchFacts DEF Launched
    <2>4. ASSUME l[1] # primary[1] PROVE \E m \in Launches : at'[m] >= l[1] - 1 /\ m[2] = 1
      <3>1. PICK m \in Launches : at[m] >= l[1] - 1 /\ m[2] = 1
        BY <2>3, <2>4 DEF IInv, Order, LaunchedInOrder
      <3>2. at[m] \in Nat /\ at'[m] \in Nat /\ at'[m] >= at[m]
        BY DEF IInv, Types
      <3> QED
        BY <2>3, <3>1, <3>2
    <2>5. ASSUME l # primary, ~include_tcp_server(primary) PROVE ranks'[primary] # {}
      <3>1. ranks[primary] # {}
        BY <2>3, <2>5 DEF IInv, Order, LaunchedInOrder
      <3>2. primary \in Launches
        <4>1. pc \notin {"generate", "refused"}
          BY <2>2 DEF IInv, Script_at
        <4> QED
          BY <4>1, PrimaryFacts, PlannedFacts DEF IInv, Underway
      <3> QED
        BY <3>1, <3>2
    <2> QED
      BY <2>4, <2>5
  <1>7. ASSUME pc = "rest", has_followers, ~include_tcp_server(primary) PROVE ranks'[primary] # {}
    <2>1. ranks[primary] # {}
      BY <1>7 DEF IInv, Order
    <2>2. primary \in Launches
      BY <1>7, PrimaryFacts, PlannedFacts DEF IInv, Underway
    <2> QED
      BY <2>1, <2>2
  <1>8. pc = "stage" => wait_phase' \in log'[1].ended
    <2>1. wait_phase' = wait_phase
      BY <1>2 DEF wait_phase
    <2> QED
      BY <2>1 DEF IInv, Order
  <1> QED
    BY <1>1, <1>3, <1>4, <1>5, <1>6, <1>7, <1>8 DEF Order

LEMMA FailsKeeps ==
  ASSUME IInv, NEW l \in Launches, launch[l] = "up", Fails(l)
  PROVE  IInv'
  <1> USE DEF Fails, script
  <1>0. UNCHANGED <<config, procs, pc, stage, checks, ranks, at, rc, verdict>> /\ stdout' = TRUE
    OBVIOUS
  <1>1. /\ Launches' = Launches /\ Nodes(config)' = Nodes(config) /\ Planned' = Planned
    BY SamePlan
  <1>2. ~Ended /\ l[2] \in Nodes(config) /\ Types
    BY UpFacts DEF IInv
  <1>3. /\ launch' \in [Launches -> {"none", "up", "done", "failed", "killed"}]
        /\ launch'[l] = "failed" /\ \A m \in Launches \ {l} : launch'[m] = launch[m]
    BY <1>2 DEF Types
  <1>4. PICK f \in {"none", "error", "no_phases"} :
          log' = [log EXCEPT ![l[2]].failure = IF @ = "none" THEN f ELSE @]
    OBVIOUS
  <1>5. /\ \A n \in Nodes(config) : /\ log'[n].exists = log[n].exists
                                    /\ log'[n].ended = log[n].ended
                                    /\ log'[n].sample = log[n].sample
        /\ log' \in [Nodes(config) -> [exists : BOOLEAN, ended : SUBSET Nat, sample : BOOLEAN,
                                       failure : {"none", "error", "no_phases"}]]
    BY <1>2, <1>4 DEF Types
  <1>6. Types'
    BY <1>0, <1>1, <1>3, <1>5 DEF IInv, Types
  <1>7. Launched' = Launched
    BY <1>1, <1>3 DEF Launched
  <1>8. Plan' /\ Script_at' /\ Order'
    <2>1. \A m \in Launches : at'[m] \in Nat /\ at'[m] >= at[m]
      BY <1>0, <1>2 DEF Types
    <2>2. log[1].ended \subseteq log'[1].ended
      BY <1>2, <1>5, LaunchFacts DEF Types
    <2> QED
      BY <1>0, <1>7, <2>1, <2>2, WorkerFrame
  <1>9. RanksOf'
    <2>1. ASSUME NEW m \in Launches
          PROVE  /\ launch'[m] = "none" => ranks'[m] = {} /\ at'[m] = 0
                 /\ launch'[m] # "none" => at'[m] >= m[1] - 1
                 /\ ranks'[m] # {} => ranks'[m] \subseteq new_ranks(config', m[1])
                                      /\ Cardinality(ranks'[m]) = procs'[m[1]][m[2]]
                 /\ \A k \in m[1] .. at'[m] : active(m, k)' # {}
                 /\ launch'[m] = "up" /\ ranks'[m] # {} => active(m, at[m] + 1)' # {}
                 /\ launch'[m] = "done" => ranks'[m] # {} /\ active(m, at[m] + 1)' = {}
      BY <1>0, <1>3 DEF IInv, RanksOf, active
    <2>2. \A j, m \in Launches : j[1] = m[1] /\ j # m => ranks'[j] \intersect ranks'[m] = {}
      BY <1>0 DEF IInv, RanksOf
    <2> QED
      BY <1>1, <2>1, <2>2 DEF RanksOf
  <1>10. Logs'
    <2>1. \A m \in Launches : m[2] \in Nodes(config) /\ (launch[m] = "none" <=> launch'[m] = "none")
                              /\ (launch'[m] = "done" => launch[m] = "done")
      BY <1>2, <1>3, LaunchFacts DEF Types
    <2>2. \A n \in Nodes(config) : log'[n].ended = {k \in Nat : \E m \in Launches : m[2] = n /\ k \in m[1] .. at'[m]}
      BY <1>0, <1>5 DEF IInv, Logs
    <2>3. \A m \in Launches : /\ launch'[m] # "none" => log'[m[2]].exists
                              /\ launch'[m] = "done" => log'[m[2]].sample
      BY <1>5, <2>1 DEF IInv, Logs
    <2> QED
      BY <1>1, <2>2, <2>3 DEF Logs
  <1>11. Outcome'
    <2>1. Failed'
      BY <1>1, <1>3 DEF Failed
    <2>2. \A m \in Launches : launch'[m] # "killed"
      BY <1>2, <1>3 DEF IInv, Outcome
    <2>3. ~Ended' /\ verdict = "none" /\ pc # "judged"
      BY <1>0, <1>2 DEF Ended, IInv, Outcome
    <2> QED
      BY <1>0, <1>1, <1>2, <2>1, <2>2, <2>3 DEF IInv, Outcome
  <1> QED
    BY <1>6, <1>8, <1>9, <1>10, <1>11 DEF IInv

LEMMA GetRanksKeeps ==
  ASSUME IInv, NEW l \in Launches, GetRanks(l)
  PROVE  IInv'
  <1> USE DEF GetRanks, script, outcome
  <1>0. /\ UNCHANGED <<config, procs, pc, stage, checks, launch, at, log, stdout, rc, verdict>>
        /\ launch[l] = "up" /\ ranks[l] = {}
    OBVIOUS
  <1>1. /\ Launches' = Launches /\ Nodes(config)' = Nodes(config) /\ Planned' = Planned
    BY SamePlan
  <1>2. /\ ~Ended /\ Types /\ config \in Configs /\ l[1] \in Phases(config) /\ l[1] \in Nat \ {0}
        /\ at[l] \in Nat /\ at[l] >= l[1] - 1 /\ procs[l[1]][l[2]] \in Nat \ {0} /\ l \in Planned
    BY <1>0, UpFacts DEF IInv
  <1>3. PICK R : /\ R \subseteq new_ranks(config, l[1]) \ UNION {ranks[m] : m \in StageOf(l[1])}
                 /\ Cardinality(R) = procs[l[1]][l[2]]
                 /\ ranks' = [ranks EXCEPT ![l] = R]
    BY DEF kSubset
  <1>4. /\ ranks'[l] = R /\ \A m \in Launches \ {l} : ranks'[m] = ranks[m]
    BY <1>2, <1>3 DEF Types
  <1>5. R # {} /\ R \subseteq Nat /\ R \subseteq config.plan[l[1]]
    <2>1. Cardinality({}) = 0
      BY FS_EmptySet
    <2>2. new_ranks(config, l[1]) \subseteq config.plan[l[1]] /\ config.plan[l[1]] \subseteq Nat
      BY <1>2, ConfigFacts DEF new_ranks
    <2> QED
      BY <1>2, <1>3, <2>1, <2>2
  <1>6. Types'
    BY <1>0, <1>1, <1>2, <1>3, <1>5 DEF Types
  <1>7. Launched' = Launched /\ Failed' = Failed /\ Up' = Up
    BY <1>0, <1>1 DEF Launched, Failed, Up
  <1>8. Plan' /\ Script_at' /\ Order'
    <2>1. \A m \in Launches : at'[m] \in Nat /\ at'[m] >= at[m]
      BY <1>0, <1>2 DEF Types
    <2>2. \A m \in Launches : ranks[m] # {} => ranks'[m] # {}
      BY <1>0, <1>4
    <2> QED
      BY <1>0, <1>7, <2>1, <2>2, WorkerFrame
  <1>9. at[l] = l[1] - 1
    <2>1. ASSUME at[l] >= l[1] PROVE FALSE
      <3>1. l[1] \in l[1] .. at[l]
        BY <1>2, <2>1
      <3>2. active(l, l[1]) # {}
        BY <3>1 DEF IInv, RanksOf
      <3> QED
        BY <1>0, <1>2, <3>2, ActiveFacts
    <2> QED
      BY <1>2, <2>1
  <1>10. active(l, at[l] + 1)' = R
    <2>1. at'[l] + 1 = l[1] /\ config' = config /\ Len(config.plan) \in Nat /\ l[1] <= Len(config.plan)
      BY <1>0, <1>2, <1>9, ConfigFacts DEF Phases
    <2>2. \A r \in R : \A i \in l[1] .. l[1] : r \in config.plan[i]
      BY <1>2, <1>5
    <2> QED
      BY <1>2, <1>4, <2>1, <2>2 DEF active
  <1>11. RanksOf'
    <2>1. ASSUME NEW m \in Launches
          PROVE  /\ launch'[m] = "none" => ranks'[m] = {} /\ at'[m] = 0
                 /\ launch'[m] # "none" => at'[m] >= m[1] - 1
                 /\ ranks'[m] # {} => ranks'[m] \subseteq new_ranks(config', m[1])
                                      /\ Cardinality(ranks'[m]) = procs'[m[1]][m[2]]
                 /\ \A k \in m[1] .. at'[m] : active(m, k)' # {}
                 /\ launch'[m] = "up" /\ ranks'[m] # {} => active(m, at[m] + 1)' # {}
                 /\ launch'[m] = "done" => ranks'[m] # {} /\ active(m, at[m] + 1)' = {}
      <3>1. CASE m = l
        <4>1. l[1] .. at[l] = {}
          BY <1>2, <1>9
        <4>2. ranks'[l] \subseteq new_ranks(config', l[1]) /\ Cardinality(ranks'[l]) = procs'[l[1]][l[2]]
          BY <1>0, <1>3, <1>4
        <4> QED
          BY <1>0, <1>2, <1>5, <1>10, <3>1, <4>1, <4>2
      <3>2. CASE m # l
        <4>1. ranks'[m] = ranks[m]
          BY <1>4, <3>2
        <4> QED
          BY <1>0, <4>1 DEF IInv, RanksOf, active
      <3> QED
        BY <3>1, <3>2
    <2>2. ASSUME NEW m \in Launches, m[1] = l[1], m # l PROVE R \intersect ranks[m] = {}
      <3>1. CASE ranks[m] = {}
        BY <3>1
      <3>2. CASE ranks[m] # {}
        <4>1. m \in Launched
          BY <3>2 DEF IInv, RanksOf, Launched
        <4>2. m \in StageOf(l[1])
          BY <2>2, <4>1 DEF IInv, Script_at, StageOf
        <4> QED
          BY <1>3, <4>2
      <3> QED
        BY <3>1, <3>2
    <2>3. ASSUME NEW j \in Launches, NEW m \in Launches, j[1] = m[1], j # m
          PROVE  ranks'[j] \intersect ranks'[m] = {}
      <3>1. CASE j = l
        BY <1>4, <2>2, <2>3, <3>1
      <3>2. CASE m = l
        BY <1>4, <2>2, <2>3, <3>2
      <3>3. CASE j # l /\ m # l
        BY <1>4, <2>3, <3>3 DEF IInv, RanksOf
      <3> QED
        BY <3>1, <3>2, <3>3
    <2> QED
      BY <1>1, <2>1, <2>3 DEF RanksOf
  <1>12. Logs'
    BY <1>0, <1>1 DEF IInv, Logs
  <1>13. Outcome'
    <2>1. ~Ended' /\ verdict = "none" /\ pc # "judged"
      BY <1>0, <1>2 DEF Ended, IInv, Outcome
    <2> QED
      BY <1>0, <1>1, <1>2, <1>7, <2>1 DEF IInv, Outcome
  <1> QED
    BY <1>6, <1>8, <1>11, <1>12, <1>13 DEF IInv

LEMMA EndPhaseKeeps ==
  ASSUME IInv, NEW l \in Launches, EndPhase(l)
  PROVE  IInv'
  <1> USE DEF EndPhase, script, outcome
  <1> DEFINE k == at[l] + 1
  <1>0. /\ UNCHANGED <<config, procs, pc, stage, checks, ranks, stdout, rc, verdict>>
        /\ launch[l] = "up" /\ ranks[l] # {}
        /\ at' = [at EXCEPT ![l] = k]
        /\ launch' = [launch EXCEPT ![l] = IF active(l, k + 1) = {} THEN "done" ELSE @]
        /\ log' = [log EXCEPT ![l[2]].ended = @ \union {k},
                              ![l[2]].sample = @ \/ active(l, k) # active(l, k + 1)]
    OBVIOUS
  <1>1. /\ Launches' = Launches /\ Nodes(config)' = Nodes(config) /\ Planned' = Planned
    BY SamePlan
  <1>2. /\ ~Ended /\ Types /\ config \in Configs /\ l[1] \in Phases(config) /\ l[1] \in Nat \ {0}
        /\ l[2] \in Nodes(config) /\ at[l] \in Nat /\ at[l] >= l[1] - 1 /\ k \in Nat
    BY <1>0, UpFacts DEF IInv
  <1>3. active(l, k) # {}
    BY <1>0 DEF IInv, RanksOf
  <1>4. /\ at' \in [Launches -> Nat] /\ at'[l] = k /\ \A m \in Launches \ {l} : at'[m] = at[m]
    BY <1>0, <1>2 DEF Types
  <1>5. /\ launch' \in [Launches -> {"none", "up", "done", "failed", "killed"}]
        /\ launch'[l] = IF active(l, k + 1) = {} THEN "done" ELSE "up"
        /\ \A m \in Launches \ {l} : launch'[m] = launch[m]
    BY <1>0, <1>2, SMTT(40) DEF Types
  <1>6. /\ log' \in [Nodes(config) -> [exists : BOOLEAN, ended : SUBSET Nat, sample : BOOLEAN,
                                       failure : {"none", "error", "no_phases"}]]
        /\ \A n \in Nodes(config) : /\ log'[n].exists = log[n].exists
                                    /\ log'[n].failure = log[n].failure
                                    /\ log'[n].ended = IF n = l[2] THEN log[n].ended \union {k} ELSE log[n].ended
                                    /\ log[n].sample => log'[n].sample
        /\ active(l, k + 1) = {} => log'[l[2]].sample
    <2>1. PICK b \in BOOLEAN : b = (log[l[2]].sample \/ active(l, k) # active(l, k + 1))
      OBVIOUS
    <2>2. log' = [log EXCEPT ![l[2]].ended = log[l[2]].ended \union {k}, ![l[2]].sample = b]
      BY <1>0, <2>1
    <2>3. log \in [Nodes(config) -> [exists : BOOLEAN, ended : SUBSET Nat, sample : BOOLEAN,
                                     failure : {"none", "error", "no_phases"}]]
      BY <1>2 DEF Types
    <2> HIDE DEF k
    <2>4. /\ log' \in [Nodes(config) -> [exists : BOOLEAN, ended : SUBSET Nat, sample : BOOLEAN,
                                         failure : {"none", "error", "no_phases"}]]
          /\ log'[l[2]] = [log[l[2]] EXCEPT !.ended = log[l[2]].ended \union {k}, !.sample = b]
          /\ \A n \in Nodes(config) \ {l[2]} : log'[n] = log[n]
      BY ONLY <1>2, <2>2, <2>3, b \in BOOLEAN, ZenonT(60)
    <2>5. /\ log'[l[2]].exists = log[l[2]].exists /\ log'[l[2]].failure = log[l[2]].failure
          /\ log'[l[2]].ended = log[l[2]].ended \union {k} /\ log'[l[2]].sample = b
      BY ONLY <1>2, <2>3, <2>4
    <2>6. active(l, k + 1) = {} => b
      BY <1>3, <2>1
    <2> QED
      BY <1>2, <2>1, <2>4, <2>5, <2>6
  <1> HIDE DEF k
  <1>7. Types'
    BY <1>0, <1>1, <1>2, <1>4, <1>5, <1>6 DEF Types
  <1>8. \A m \in Launches : /\ launch'[m] = "none" <=> launch[m] = "none"
                            /\ launch'[m] = "failed" <=> launch[m] = "failed"
                            /\ launch'[m] = "killed" <=> launch[m] = "killed"
    BY <1>0, <1>5
  <1>9. Launched' = Launched /\ Failed' = Failed
    BY <1>1, <1>8 DEF Launched, Failed
  <1>10. \A m \in Launches : at'[m] \in Nat /\ at'[m] >= at[m]
    BY <1>2, <1>4 DEF k, Types
  <1>11. Plan' /\ Script_at' /\ Order'
    <2>1. log[1].ended \subseteq log'[1].ended
      BY <1>2, <1>6, LaunchFacts
    <2> QED
      BY <1>0, <1>9, <1>10, <2>1, WorkerFrame
  <1>12. l[1] .. k = (l[1] .. at[l]) \union {k}
    BY <1>2 DEF k
  <1>13. \A m, i : active(m, i)' = active(m, i)
    BY <1>0 DEF active
  <1>14. RanksOf'
    <2>1. ASSUME NEW m \in Launches
          PROVE  /\ launch'[m] = "none" => ranks'[m] = {} /\ at'[m] = 0
                 /\ launch'[m] # "none" => at'[m] >= m[1] - 1
                 /\ ranks'[m] # {} => ranks'[m] \subseteq new_ranks(config', m[1])
                                      /\ Cardinality(ranks'[m]) = procs'[m[1]][m[2]]
                 /\ \A i \in m[1] .. at'[m] : active(m, i)' # {}
                 /\ launch'[m] = "up" /\ ranks'[m] # {} => active(m, at[m] + 1)' # {}
                 /\ launch'[m] = "done" => ranks'[m] # {} /\ active(m, at[m] + 1)' = {}
      <3>1. CASE m = l
        <4>1. \A i \in l[1] .. k : active(l, i) # {}
          BY <1>3, <1>12 DEF IInv, RanksOf
        <4>2. active(l, at[l] + 1)' = active(l, k + 1)
          BY <1>0, <1>4 DEF active
        <4>3. at'[l] >= l[1] - 1 /\ launch'[l] # "none"
          BY <1>2, <1>4, <1>5 DEF k
        <4>4. ranks'[l] # {} /\ ranks'[l] \subseteq new_ranks(config', l[1])
              /\ Cardinality(ranks'[l]) = procs'[l[1]][l[2]]
          BY <1>0 DEF IInv, RanksOf
        <4> QED
          BY <1>4, <1>5, <1>13, <3>1, <4>1, <4>2, <4>3, <4>4
      <3>2. CASE m # l
        <4>1. launch'[m] = launch[m] /\ at'[m] = at[m] /\ ranks'[m] = ranks[m] /\ config' = config /\ procs' = procs
          BY <1>0, <1>4, <1>5, <3>2
        <4>2. active(m, at[m] + 1)' = active(m, at[m] + 1)
          BY <4>1 DEF active
        <4>3. \A i \in m[1] .. at'[m] : active(m, i)' # {}
          BY <1>13, <4>1 DEF IInv, RanksOf
        <4>4. /\ launch[m] = "none" => ranks[m] = {} /\ at[m] = 0
              /\ launch[m] # "none" => at[m] >= m[1] - 1
              /\ ranks[m] # {} => ranks[m] \subseteq new_ranks(config, m[1])
                                  /\ Cardinality(ranks[m]) = procs[m[1]][m[2]]
          BY DEF IInv, RanksOf
        <4>5. /\ launch[m] = "up" /\ ranks[m] # {} => active(m, at[m] + 1) # {}
              /\ launch[m] = "done" => ranks[m] # {} /\ active(m, at[m] + 1) = {}
          BY DEF IInv, RanksOf
        <4> QED
          BY <4>1, <4>2, <4>3, <4>4, <4>5
      <3> QED
        BY <3>1, <3>2
    <2>2. \A j, m \in Launches : j[1] = m[1] /\ j # m => ranks'[j] \intersect ranks'[m] = {}
      BY <1>0 DEF IInv, RanksOf
    <2> QED
      BY <1>1, <2>1, <2>2 DEF RanksOf
  <1>15. Logs'
    <2>1. ASSUME NEW n \in Nodes(config)
          PROVE  log'[n].ended = {i \in Nat : \E m \in Launches : m[2] = n /\ i \in m[1] .. at'[m]}
      <3>1. log[n].ended = {i \in Nat : \E m \in Launches : m[2] = n /\ i \in m[1] .. at[m]}
        BY DEF IInv, Logs
      <3>2. \A m \in Launches, i \in Nat : i \in m[1] .. at'[m] <=> i \in m[1] .. at[m] \/ (m = l /\ i = k)
        BY <1>4, <1>12, SMTT(40)
      <3>3. log'[n].ended = IF n = l[2] THEN log[n].ended \union {k} ELSE log[n].ended
        BY <1>6
      <3>4. CASE n = l[2]
        <4>1. \A i \in Nat : i \in log'[n].ended <=> i = k \/ \E m \in Launches : m[2] = n /\ i \in m[1] .. at[m]
          <5>1. log'[n].ended = log[n].ended \union {k}
            BY <3>3, <3>4
          <5>2. \A i \in Nat : i \in log[n].ended <=> \E m \in Launches : m[2] = n /\ i \in m[1] .. at[m]
            BY ONLY <3>1
          <5> QED
            BY ONLY <5>1, <5>2
        <4>2. \A i \in Nat : (i = k \/ \E m \in Launches : m[2] = n /\ i \in m[1] .. at[m])
                             <=> \E m \in Launches : m[2] = n /\ i \in m[1] .. at'[m]
          BY <1>2, <3>2, <3>4
        <4>3. log'[n].ended \subseteq Nat
          BY <1>2, <3>1, <3>3
        <4> QED
          BY <4>1, <4>2, <4>3
      <3>5. CASE n # l[2]
        BY <3>1, <3>2, <3>3, <3>5
      <3> QED
        BY <3>4, <3>5
    <2>2. ASSUME NEW m \in Launches
          PROVE  /\ launch'[m] # "none" => log'[m[2]].exists
                 /\ launch'[m] = "done" => log'[m[2]].sample
      <3>1. m[2] \in Nodes(config)
        BY <1>2, LaunchFacts
      <3>2. launch[m] # "none" => log[m[2]].exists
        BY DEF IInv, Logs
      <3>3. launch[m] = "done" => log[m[2]].sample
        BY DEF IInv, Logs
      <3>4. launch'[m] = "done" => launch[m] = "done" \/ (m = l /\ active(l, k + 1) = {})
        BY <1>5
      <3> QED
        BY <1>6, <1>8, <3>1, <3>2, <3>3, <3>4
    <2> QED
      BY <1>1, <2>1, <2>2 DEF Logs
  <1>16. Outcome'
    <2>1. ~Ended' /\ verdict = "none" /\ pc # "judged"
      BY <1>0, <1>2 DEF Ended, IInv, Outcome
    <2>2. \A m \in Launches : launch'[m] # "killed"
      BY <1>2, <1>8 DEF IInv, Outcome
    <2>3. \A n \in Nodes(config) : log'[n].failure # "none" => Failed
      BY <1>6 DEF IInv, Outcome
    <2>4. Failed => stdout
      BY DEF IInv, Outcome
    <2>5. rc = 0 /\ (stdout => Failed)
      BY <1>2 DEF IInv, Outcome
    <2> HIDE DEF EndPhase
    <2> QED
      BY <1>0, <1>1, <1>9, <2>1, <2>2, <2>3, <2>4, <2>5 DEF Outcome
  <1> QED
    BY <1>7, <1>11, <1>14, <1>15, <1>16 DEF IInv

(* Every step keeps the invariant.                                         *)
LEMMA WorkersKeep ==
  IInv /\ (\E l \in Launches : Worker(l) \/ Crash(l)) => IInv'
  <1> SUFFICES ASSUME IInv, NEW l \in Launches, Worker(l) \/ Crash(l) PROVE IInv'
    OBVIOUS
  <1>1. CASE GetRanks(l)
    BY <1>1, GetRanksKeeps
  <1>2. CASE EndPhase(l)
    BY <1>2, EndPhaseKeeps
  <1>3. CASE GiveUp(l) \/ Crash(l)
    BY <1>3, FailsKeeps DEF GiveUp, Crash
  <1> QED
    BY <1>1, <1>2, <1>3 DEF Worker

LEMMA StutterKeeps == IInv /\ UNCHANGED vars => IInv'
  <1> SUFFICES ASSUME IInv, UNCHANGED vars PROVE IInv'
    OBVIOUS
  <1> USE DEF vars
  <1>1. Types' /\ Plan'
    BY DEF IInv, Types, Plan, Launches, Phases, Nodes
  <1>2. RanksOf' /\ Logs' /\ Launched' = Launched /\ Up' = Up /\ Failed' = Failed /\ LaunchedInOrder'
        /\ was_run_successful' = was_run_successful
    BY ScriptOnly DEF was_run_successful
  <1>3. /\ Launches' = Launches /\ Nodes(config)' = Nodes(config) /\ Planned' = Planned /\ primary' = primary
        /\ has_followers' = has_followers /\ later_stages(stage)' = later_stages(stage)
    BY SamePlan DEF later_stages
  <1>4. Script_at'
    BY <1>2, <1>3 DEF IInv, Script_at
  <1>5. wait_phase' = wait_phase /\ include_tcp_server(primary)' = include_tcp_server(primary)
    BY <1>3 DEF wait_phase, include_tcp_server
  <1>6. Order'
    BY <1>2, <1>3, <1>5 DEF IInv, Order
  <1>7. Ended' = Ended
    BY DEF Ended
  <1>8. Outcome'
    BY <1>2, <1>3, <1>7 DEF IInv, Outcome
  <1> QED
    BY <1>1, <1>2, <1>4, <1>6, <1>8 DEF IInv

LEMMA NextIInv == IInv /\ [Next]_vars => IInv'
  <1> SUFFICES ASSUME IInv, [Next]_vars PROVE IInv'
    OBVIOUS
  <1>1. CASE Generate
    BY <1>1, GenerateKeeps
  <1>2. CASE StartPrimary
    BY <1>2, PrimaryKeeps
  <1>3. CASE ServicesReady \/ ServicesTimeOut \/ GrepLog \/ ProbePrimary
    <2>1. ServicesReady => pc' # "exited"
      BY DEF ServicesReady, Go
    <2> QED
      BY <1>3, <2>1, WaitsKeep, ExitsKeep
  <1>4. CASE StartFollowers
    BY <1>4, FollowersKeep
  <1>5. CASE StartStage
    BY <1>5, StageKeeps
  <1>6. CASE WaitAll \/ JobKilled
    BY <1>6, ExitsKeep
  <1>7. CASE Judge
    BY <1>7, JudgeKeeps
  <1>8. CASE \E l \in Launches : Worker(l) \/ Crash(l)
    BY <1>8, WorkersKeep
  <1>9. CASE Over \/ UNCHANGED vars
    BY <1>9, StutterKeeps DEF Over
  <1> QED
    BY <1>1, <1>2, <1>3, <1>4, <1>5, <1>6, <1>7, <1>8, <1>9 DEF Next, Script

(* The invariant holds in every behaviour, of any plan, however the script,*)
(* the launches and failures interleave.                                   *)
THEOREM Invariance == Spec => []IInv
  <1>1. Init => IInv
    BY InitIInv
  <1>2. IInv /\ [Next]_vars => IInv'
    BY NextIInv
  <1> QED
    BY <1>1, <1>2, PTL DEF Spec

-----------------------------------------------------------------------------
(* What holds in every behaviour.                                          *)

(* Every variable keeps to its type, for every plan and every number of    *)
(* nodes: of what a launch and a log can be, and the script's exit code.   *)
THEOREM TypeCorrect == Spec => []Types
  <1>1. IInv => Types
    BY DEF IInv
  <1> QED
    BY <1>1, Invariance, PTL

(* plan_stages packs every plan that passes validate_requested_processes:  *)
(* each rank that is new in a phase gets its process, and no node starts   *)
(* more than it may: the ValueError for a plan that cannot be packed is    *)
(* never raised.                                                           *)
THEOREM PlansPacked == Spec => []PlanPacked
  <1>1. ASSUME IInv PROVE PlanPacked
    <2>1. CASE pc \in {"generate", "refused"}
      BY <1>1, <2>1 DEF IInv, Plan, PlanPacked
    <2>2. CASE pc \notin {"generate", "refused"}
      BY <1>1, <2>2, PlannedFacts DEF IInv, Underway, PlanPacked
    <2> QED
      BY <2>1, <2>2
  <1> QED
    BY <1>1, Invariance, PTL

(* Whatever crashes, and however the waits and the workers interleave, the *)
(* script starts the ranks of a later phase only when the master node has  *)
(* ended the phase before, and those that look for the rank server only    *)
(* when it serves.                                                         *)
THEOREM PhasesInOrder == Spec => []LaunchedInOrder
  <1>1. IInv => LaunchedInOrder
    BY DEF IInv, Order
  <1> QED
    BY <1>1, Invariance, PTL

-----------------------------------------------------------------------------
(* Disjoint sets that together are as large as the set they are taken from *)
(* leave nothing of it out.                                                *)

Parts(N, S, R, f) ==
  /\ IsFiniteSet(S) /\ SumOn(f, 1 .. N) = Cardinality(S)
  /\ \A n \in 1 .. N : R[n] \subseteq S /\ Cardinality(R[n]) = f[n] /\ f[n] \in Nat
  /\ \A i, j \in 1 .. N : i # j => R[i] \intersect R[j] = {}

LEMMA PartsCover ==
  ASSUME NEW N \in Nat, NEW S, NEW R, NEW f, Parts(N, S, R, f)
  PROVE  \A x \in S : \E n \in 1 .. N : x \in R[n]
  <1> DEFINE U(n) == UNION {R[i] : i \in 1 .. n}
             F(n) == SumOn(f, 1 .. n)
             P == {n \in 0 .. N : Cardinality(U(n)) = F(n)}
  <1>1. /\ IsFiniteSet(S) /\ F(N) = Cardinality(S)
        /\ \A n \in 1 .. N : R[n] \subseteq S /\ Cardinality(R[n]) = f[n] /\ f[n] \in Nat
        /\ \A i, j \in 1 .. N : i # j => R[i] \intersect R[j] = {}
    BY DEF Parts
  <1>0. \A n \in 1 .. N : f[n] \in Int
    BY <1>1
  <1>2. F(0) = 0 /\ \A n \in 0 .. N : F(n) \in Int
    BY <1>0, SumOfFirst
  <1>3. \A n \in 1 .. N : F(n) = F(n - 1) + f[n]
    BY <1>0, SumOfFirst
  <1>4. \A n \in 0 .. N : U(n) \subseteq S
    BY <1>1
  <1>5. U(0) = {}
    OBVIOUS
  <1>6. \A n \in 1 .. N : U(n) = U(n - 1) \union R[n]
    <2> TAKE n \in 1 .. N
    <2>1. 1 .. n = (1 .. n - 1) \union {n}
      OBVIOUS
    <2> QED
      BY <2>1
  <1>7. \A n \in 1 .. N : U(n - 1) \intersect R[n] = {}
    <2> TAKE n \in 1 .. N
    <2>1. \A i \in 1 .. n - 1 : i \in 1 .. N /\ i # n
      OBVIOUS
    <2>2. \A i \in 1 .. n - 1 : R[i] \intersect R[n] = {}
      BY <1>1, <2>1
    <2> QED
      BY <2>2
  <1> HIDE DEF U, F
  <1>8. 0 \in P
    BY <1>2, <1>5, FS_EmptySet
  <1>9. ASSUME NEW n \in 0 .. N - 1, n \in P PROVE n + 1 \in P
    <2>1. n \in 0 .. N /\ n + 1 \in 1 .. N /\ n + 1 \in 0 .. N /\ (n + 1) - 1 = n
      OBVIOUS
    <2>2. IsFiniteSet(U(n)) /\ IsFiniteSet(R[n + 1])
      BY <1>1, <1>4, <2>1, FS_Subset
    <2>3. U(n + 1) = U(n) \union R[n + 1] /\ U(n) \intersect R[n + 1] = {}
      BY <1>6, <1>7, <2>1
    <2>4. Cardinality(U(n) \union R[n + 1])
            = Cardinality(U(n)) + Cardinality(R[n + 1]) - Cardinality(U(n) \intersect R[n + 1])
      BY <2>2, FS_Union
    <2>5. Cardinality({}) = 0
      BY FS_EmptySet
    <2>6. Cardinality(U(n)) = F(n) /\ Cardinality(R[n + 1]) = f[n + 1] /\ F(n + 1) = F(n) + f[n + 1]
          /\ F(n) \in Int /\ f[n + 1] \in Int
      BY <1>1, <1>2, <1>3, <1>9, <2>1
    <2>7. Cardinality(U(n + 1)) = F(n) + f[n + 1] - 0
      BY <2>3, <2>4, <2>5, <2>6
    <2>8. Cardinality(U(n + 1)) = F(n + 1)
      <3> DEFINE a == F(n)
                 b == f[n + 1]
      <3>1. a \in Int /\ b \in Int /\ F(n + 1) = a + b /\ Cardinality(U(n + 1)) = a + b - 0
        BY <2>6, <2>7
      <3> HIDE DEF a, b
      <3> QED
        BY ONLY <3>1
    <2> QED
      BY <2>1, <2>8
  <1>10. \A n \in 0 .. N : n \in P
    <2> HIDE DEF P
    <2> QED
      BY <1>8, <1>9, Upto
  <1>11. Cardinality(U(N)) = Cardinality(S) /\ U(N) \in SUBSET S
    BY <1>1, <1>4, <1>10
  <1>12. U(N) = S
    BY <1>1, <1>11, FS_Subset
  <1> QED
    BY <1>12 DEF U

(* Where a rank that is in phase k has come from.                          *)
LEMMA Arrival ==
  ASSUME NEW c \in Configs, NEW k \in Phases(c), NEW r \in c.plan[k]
  PROVE  \E j \in 1 .. k : r \in new_ranks(c, j) /\ \A i \in j .. k : r \in c.plan[i]
  <1> DEFINE J == {j \in 1 .. k : \A i \in j .. k : r \in c.plan[i]}
  <1>1. k \in Nat \ {0}
    BY DEF Phases
  <1>2. k \in J /\ J \in SUBSET Nat
    BY <1>1
  <1>3. PICK j \in J : \A i \in J : j <= i
    <2> HIDE DEF J
    <2> QED
      BY <1>2, LeastElement
  <1>4. j \in 1 .. k /\ r \in c.plan[j]
    BY <1>1
  <1>5. ASSUME j # 1, r \in c.plan[j - 1] PROVE FALSE
    <2>1. j - 1 \in 1 .. k /\ (j - 1) .. k = {j - 1} \union (j .. k)
      BY <1>1, <1>4, <1>5
    <2>2. j - 1 \in J
      BY <1>5, <2>1
    <2> QED
      BY <1>3, <1>4, <2>2
  <1> QED
    BY <1>4, <1>5 DEF new_ranks

(* The script has come through to its end.                                 *)
Finished == IInv /\ Ended /\ rc = 0

LEMMA FinishedFacts ==
  ASSUME Finished
  PROVE  /\ Underway /\ config \in Configs
         /\ \A l \in Launches : launch[l] # "none" => l \in Planned /\ launch[l] = "done"
         /\ \A l \in Launches : ranks[l] # {} => l \in Planned /\ launch[l] = "done"
         /\ \A l \in Launches, k \in Nat : active(l, k) # {} => at[l] >= k
  <1>1. Underway /\ config \in Configs
    BY DEF Finished, Underway, IInv, Types, Ended
  <1>2. \A l \in Launches : launch[l] # "none" => l \in Planned /\ launch[l] = "done"
    BY DEF Finished, IInv, Script_at, Launched, Outcome
  <1>3. \A l \in Launches : ranks[l] # {} => l \in Planned /\ launch[l] = "done"
    BY <1>2 DEF Finished, IInv, RanksOf
  <1>4. ASSUME NEW l \in Launches, NEW k \in Nat, active(l, k) # {}, ~(at[l] >= k) PROVE FALSE
    <2>1. at[l] \in Nat
      BY DEF Finished, IInv, Types
    <2>2. at[l] + 1 \in Nat /\ at[l] + 1 <= k
      BY <1>4, <2>1
    <2>3. active(l, k) \subseteq active(l, at[l] + 1) /\ active(l, k) \subseteq ranks[l]
      BY <1>1, <2>2, ActiveFacts
    <2>4. active(l, at[l] + 1) = {}
      BY <1>3, <1>4, <2>3 DEF Finished, IInv, RanksOf
    <2> QED
      BY <1>4, <2>3, <2>4
  <1> QED
    BY <1>1, <1>2, <1>3, <1>4

LEMMA EndedPhases ==
  ASSUME Finished, NEW l \in Launches, NEW k \in Phases(config), l[1] <= k, active(l, k) # {}
  PROVE  k \in log[l[2]].ended
  <1>1. k \in Nat /\ l[1] \in Nat /\ l[2] \in Nodes(config) /\ at[l] \in Nat
    BY FinishedFacts, LaunchFacts DEF Phases, Finished, IInv, Types
  <1>2. k \in l[1] .. at[l]
    BY <1>1, FinishedFacts
  <1> QED
    BY <1>1, <1>2 DEF Finished, IInv, Logs

(* Every rank of a phase has been given to one of its launches.            *)
LEMMA RanksGiven ==
  ASSUME Finished, NEW k \in Phases(config), NEW r \in new_ranks(config, k)
  PROVE  \E n \in Nodes(config) : r \in ranks[<<k, n>>]
  <1> DEFINE R == [n \in Nodes(config) |-> ranks[<<k, n>>]]
             N == config.nodes
             S == new_ranks(config, k)
  <1>1. Underway /\ config \in Configs
    BY FinishedFacts
  <1>2. N \in Nat /\ Nodes(config) = 1 .. N /\ IsFiniteSet(S)
    BY <1>1, ConfigFacts DEF Nodes
  <1>3. \A n \in Nodes(config) : <<k, n>> \in Launches /\ <<k, n>>[1] = k /\ <<k, n>>[2] = n
    BY <1>1, LaunchFacts
  <1>4. SumOn(procs[k], 1 .. N) = Cardinality(S) /\ procs[k] \in [Nodes(config) -> Nat]
    <2>1. procs[k] \in [Nodes(config) -> Nat] /\ SumFunction(procs[k]) = Cardinality(S)
      BY <1>1, PlannedFacts
    <2> QED
      BY <1>2, <2>1, SumOfWhole
  <1>5. ASSUME NEW n \in Nodes(config)
        PROVE  R[n] \subseteq S /\ Cardinality(R[n]) = procs[k][n] /\ procs[k][n] \in Nat
    <2> DEFINE l == <<k, n>>
    <2>1. l \in Launches /\ l[1] = k /\ l[2] = n
      BY <1>3
    <2>2. procs[k][n] \in Nat /\ (l \in Planned <=> procs[k][n] > 0)
      BY <1>1, <2>1, PlannedFacts
    <2> HIDE DEF l
    <2>3. CASE ranks[l] = {}
      <3>1. l \notin Planned
        BY <2>1, <2>3 DEF Finished, IInv, RanksOf, Outcome
      <3>2. procs[k][n] = 0 /\ Cardinality({}) = 0
        BY <2>2, <3>1, FS_EmptySet
      <3> QED
        BY <2>2, <2>3, <3>2 DEF l
    <2>4. CASE ranks[l] # {}
      <3>1. ranks[l] \subseteq new_ranks(config, k) /\ Cardinality(ranks[l]) = procs[k][n]
        BY <2>1, <2>4 DEF Finished, IInv, RanksOf
      <3> QED
        BY <2>2, <3>1 DEF l
    <2> QED
      BY <2>3, <2>4
  <1>6. ASSUME NEW i \in Nodes(config), NEW j \in Nodes(config), i # j PROVE R[i] \intersect R[j] = {}
    BY <1>3, <1>6 DEF Finished, IInv, RanksOf
  <1>7. Parts(N, S, R, procs[k])
    <2> HIDE DEF R, S
    <2> QED
      BY <1>2, <1>4, <1>5, <1>6 DEF Parts
  <1>8. \A x \in S : \E n \in 1 .. N : x \in R[n]
    <2> HIDE DEF R, S
    <2> QED
      BY <1>2, <1>7, PartsCover
  <1> QED
    BY <1>2, <1>8

LEMMA EveryPhaseEnded ==
  ASSUME Finished, NEW k \in Phases(config), config.plan[k] # {}
  PROVE  \E n \in Nodes(config) : k \in log[n].ended
  <1>1. config \in Configs /\ k \in Nat /\ k <= Len(config.plan) /\ Len(config.plan) \in Nat
    BY FinishedFacts, ConfigFacts DEF Phases
  <1>2. PICK r \in config.plan[k] : TRUE
    OBVIOUS
  <1>3. PICK j \in 1 .. k : r \in new_ranks(config, j) /\ \A i \in j .. k : r \in config.plan[i]
    BY <1>1, Arrival
  <1>4. j \in Phases(config)
    BY <1>1 DEF Phases
  <1>5. PICK n \in Nodes(config) : r \in ranks[<<j, n>>]
    BY <1>3, <1>4, RanksGiven
  <1>6. <<j, n>> \in Launches /\ <<j, n>>[1] = j /\ <<j, n>>[2] = n
    BY <1>1, <1>4, LaunchFacts
  <1>7. active(<<j, n>>, k) # {}
    BY <1>1, <1>3, <1>5, <1>6 DEF active
  <1>8. k \in log[n].ended
    <2> DEFINE l == <<j, n>>
    <2>1. l \in Launches /\ l[1] <= k /\ active(l, k) # {} /\ l[2] = n
      BY <1>1, <1>6, <1>7
    <2> HIDE DEF l
    <2>2. k \in log[l[2]].ended
      BY <2>1, EndedPhases
    <2> QED
      BY <2>1, <2>2
  <1> QED
    BY <1>8

LEMMA PassedPhases ==
  ASSUME Finished
  PROVE  passed = {k \in Phases(config) : \E j \in 1..k : active(<<j, 1>>, k) # {}}
  <1>1. config \in Configs /\ 1 \in Nodes(config) /\ Len(config.plan) \in Nat
    BY FinishedFacts, LaunchFacts, ConfigFacts
  <1>2. passed = {k \in Phases(config) : k \in log[1].ended}
    BY DEF passed, phase_cell
  <1>3. ASSUME NEW k \in Phases(config), k \in log[1].ended
        PROVE  \E j \in 1 .. k : active(<<j, 1>>, k) # {}
    <2>1. PICK m \in Launches : m[2] = 1 /\ k \in m[1] .. at[m]
      BY <1>1, <1>3 DEF Finished, IInv, Logs
    <2>2. m = <<m[1], 1>> /\ m[1] \in Nat \ {0} /\ k \in Nat /\ at[m] \in Nat
      BY <1>1, <2>1, LaunchFacts DEF Phases, Finished, IInv, Types
    <2>3. active(m, k) # {}
      BY <2>1 DEF Finished, IInv, RanksOf
    <2>4. m[1] \in 1 .. k
      BY <2>1, <2>2
    <2> QED
      BY <2>2, <2>3, <2>4
  <1>4. ASSUME NEW k \in Phases(config), NEW j \in 1 .. k, active(<<j, 1>>, k) # {}
        PROVE  k \in log[1].ended
    <2> DEFINE l == <<j, 1>>
    <2>1. k \in Nat /\ j \in Nat /\ j <= k /\ j \in Phases(config)
      BY <1>1 DEF Phases
    <2>2. l \in Launches /\ l[1] = j /\ l[2] = 1
      BY <1>1, <2>1, LaunchFacts
    <2>3. active(l, k) # {}
      BY <1>4
    <2> HIDE DEF l
    <2>4. k \in log[l[2]].ended
      BY <2>1, <2>2, <2>3, EndedPhases
    <2> QED
      BY <2>2, <2>4
  <1> QED
    BY <1>2, <1>3, <1>4

(* was_run_successful and the report say what happened: a success had no   *)
(* failed launch, ended every phase of its plan and shows the phases of    *)
(* the master node as passed; a run whose every launch ended well fails    *)
(* only when the plan leaves a node without a rank.                        *)
THEOREM VerdictHonest == Spec => []HonestVerdict
  <1>1. ASSUME IInv PROVE HonestVerdict
    <2>1. verdict = IF pc # "judged" THEN "none" ELSE IF was_run_successful THEN "success" ELSE "failed"
      BY <1>1 DEF IInv, Outcome
    <2>2. verdict # "none" => pc = "judged" /\ Ended
      BY <2>1 DEF Ended
    <2>3. config \in Configs /\ 1 \in Nodes(config)
      BY <1>1, LaunchFacts DEF IInv, Types
    <2>4. ASSUME verdict = "success"
          PROVE  get_metric = "number" /\ \A l \in Launches : launch[l] # "failed"
      <3>1. was_run_successful
        BY <2>1, <2>4
      <3>2. get_metric = "number"
        BY <2>3, <3>1 DEF was_run_successful, get_metric, can_handle_directory
      <3>3. ~Failed
        BY <1>1, <3>1 DEF was_run_successful, IInv, Outcome
      <3> QED
        BY <3>2, <3>3 DEF Failed
    <2>5. ASSUME verdict # "none", rc = 0
          PROVE  /\ \A k \in Phases(config) : config.plan[k] # {} => \E n \in Nodes(config) : k \in log[n].ended
                 /\ passed = {k \in Phases(config) : \E j \in 1..k : active(<<j, 1>>, k) # {}}
      <3>1. Finished
        BY <1>1, <2>2, <2>5 DEF Finished
      <3> QED
        BY <3>1, EveryPhaseEnded, PassedPhases
    <2>6. ASSUME verdict = "failed", rc = 0,
                 \A n \in Nodes(config) : \E l \in Launches : l[2] = n /\ l \in Planned
          PROVE  FALSE
      <3>1. Finished
        BY <1>1, <2>2, <2>6 DEF Finished
      <3>2. ~stdout /\ \A l \in Planned : launch[l] = "done"
        BY <1>1, <2>2, <2>6 DEF IInv, Outcome
      <3>3. ASSUME NEW n \in Nodes(config) PROVE log[n].exists /\ log[n].sample
        <4>1. PICK l \in Launches : l[2] = n /\ l \in Planned
          BY <2>6
        <4>2. launch[l] = "done"
          BY <3>2, <4>1
        <4> QED
          BY <1>1, <4>1, <4>2 DEF IInv, Logs
      <3>4. ~Failed
        BY <3>1, FinishedFacts DEF Failed
      <3>5. was_run_successful
        BY <1>1, <3>2, <3>3, <3>4 DEF was_run_successful, IInv, Outcome
      <3> QED
        BY <2>1, <2>2, <2>6, <3>5
    <2> QED
      BY <2>4, <2>5, <2>6 DEF HonestVerdict
  <1> QED
    BY <1>1, Invariance, PTL
=============================================================================
