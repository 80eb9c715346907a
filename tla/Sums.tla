-------------------------------- MODULE Sums --------------------------------
(***************************************************************************)
(* What the proofs need to know of sums and of induction: SumFunction, of  *)
(* the community module Functions, over the positions of a queue or over   *)
(* the workers of it, and the least element of a set of natural numbers,   *)
(* which is how the proofs do an induction.                                *)
(***************************************************************************)
EXTENDS Functions, Integers, Sequences, FiniteSets, FiniteSetTheorems,
        SequenceTheorems, WellFoundedInduction, TLAPS

\* A set of natural numbers that is not empty has a least element.
LEMMA LeastNatural ==
  ASSUME NEW S \in SUBSET Nat, S # {}
  PROVE  \E i \in S : \A j \in S : i <= j
  <1>1. \E i \in S : \A j \in S : ~ (<<j, i>> \in OpToRel(<, Nat))
    BY NatLessThanWellFounded, WFMin, Zenon
  <1>2. \A i, j \in Nat : <<j, i>> \in OpToRel(<, Nat) <=> j < i
    BY DEF OpToRel
  <1>3. PICK i \in S : \A j \in S : ~ (<<j, i>> \in OpToRel(<, Nat))
    BY <1>1
  <1>4. \A j \in S : ~ (j < i)
    BY <1>2, <1>3
  <1>5. \A j \in S : i <= j
    BY <1>4
  <1> QED
    BY <1>5

\* A set that has 0, and with a number also the next, has every number.
LEMMA SetInduction ==
  ASSUME NEW S, 0 \in S, \A n \in Nat : n \in S => n + 1 \in S
  PROVE  Nat \subseteq S
  <1> SUFFICES ASSUME Nat \ S # {} PROVE FALSE
    OBVIOUS
  <1>1. PICK n \in Nat \ S : \A m \in Nat \ S : n <= m
    BY LeastNatural
  <1>2. n # 0 /\ n - 1 \in Nat
    BY <1>1
  <1>3. n - 1 \in S
    BY <1>1, <1>2
  <1> QED
    BY <1>1, <1>2, <1>3

-----------------------------------------------------------------------------
\* Sums as cardinalities.

\* One unit for each of the f[x] of each x.
Units(f, S) == UNION {{x} \X (1 .. f[x]) : x \in S}

\* A singleton times an interval.
LEMMA FewUnits ==
  ASSUME NEW x, NEW n \in Nat
  PROVE  IsFiniteSet({x} \X (1 .. n)) /\ Cardinality({x} \X (1 .. n)) = n
  <1> DEFINE T == 1 .. n
             X == {x}
  <1>1. IsFiniteSet(T) /\ Cardinality(T) = n
    BY FS_Interval
  <1>2. IsFiniteSet(X) /\ Cardinality(X) = 1
    BY FS_Singleton, Zenon
  <1> HIDE DEF T, X
  <1>3. IsFiniteSet(X \X T) /\ Cardinality(X \X T) = 1 * n
    BY <1>1, <1>2, FS_Product
  <1> QED
    BY <1>3 DEF T, X

\* There are finitely many units, and Units is a union over S.
LEMMA UnitsFinite ==
  ASSUME NEW f, NEW S, IsFiniteSet(S), \A x \in S : f[x] \in Nat
  PROVE  IsFiniteSet(Units(f, S)) /\ Cardinality(Units(f, S)) \in Nat
  <1> DEFINE Of(x) == {x} \X (1 .. f[x])
             All == {Of(x) : x \in S}
             of == [x \in S |-> Of(x)]
  <1>1. IsFiniteSet(All)
    <2> HIDE DEF Of
    <2>1. of \in Surjection(S, All)
      BY DEF Surjection
    <2> HIDE DEF of, All
    <2> QED
      BY <2>1, FS_Surjection
  <1>2. ASSUME NEW x \in S PROVE IsFiniteSet(Of(x))
    BY FewUnits
  <1>3. IsFiniteSet(UNION {Of(x) : x \in S})
    <2> HIDE DEF Of
    <2>1. \A T \in All : IsFiniteSet(T)
      BY <1>2
    <2> HIDE DEF All
    <2>2. IsFiniteSet(UNION All)
      BY <1>1, <2>1, FS_UNION
    <2> QED
      BY <2>2 DEF All
  <1> QED
    BY <1>3, FS_CardinalityType DEF Units

\* The units of one element, and of the others.
LEMMA UnitsOfOne ==
  ASSUME NEW f, NEW S, IsFiniteSet(S), \A x \in S : f[x] \in Nat, NEW x \in S
  PROVE  Cardinality(Units(f, S))
           = f[x] + Cardinality(Units(f, S \ {x}))
  <1> DEFINE Of == {x} \X (1 .. f[x])
             Others == Units(f, S \ {x})
  <1>1. Units(f, S) = Of \cup Others /\ Of \cap Others = {}
    BY DEF Units
  <1>2. IsFiniteSet(Of) /\ Cardinality(Of) = f[x]
    BY FewUnits
  <1>3. IsFiniteSet(Others) /\ Cardinality(Others) \in Nat
    BY UnitsFinite, FS_RemoveElement
  <1>4. Cardinality(Of \cap Others) = 0
    BY <1>1, FS_EmptySet
  <1> HIDE DEF Of, Others
  <1>5. Cardinality(Of \cup Others) = f[x] + Cardinality(Others)
    <2>1. Cardinality(Of \cup Others)
            = Cardinality(Of) + Cardinality(Others)
              - Cardinality(Of \cap Others)
      BY <1>2, <1>3, FS_Union
    <2> QED
      BY <1>2, <1>3, <1>4, <2>1
  <1> QED
    BY <1>1, <1>5 DEF Others

\* What the fold computes, step by step.
Iterates(f, S, iter) ==
  iter = [s \in SUBSET S |->
            IF s = {} THEN 0
            ELSE LET x == CHOOSE x \in s : TRUE
                 IN  f[x] + iter[s \ {x}]]

\* SumFunctionOnSet is such an iteration, if there is one; ...
LEMMA SumIterates ==
  ASSUME NEW f, NEW S, NEW g, Iterates(f, S, g)
  PROVE  \E h : Iterates(f, S, h) /\ SumFunctionOnSet(f, S) = h[S]
  <1> DEFINE h == CHOOSE iter : Iterates(f, S, iter)
  <1>1. Iterates(f, S, h)
    BY Zenon
  <1>2. SumFunctionOnSet(f, S) = h[S]
    BY Zenon DEF SumFunctionOnSet, FoldFunctionOnSet, MapThenFoldSet, Iterates
  <1> QED
    BY <1>1, <1>2, Zenon

\* ... counting units is one; ...
LEMMA UnitsIterate ==
  ASSUME NEW f, NEW S, IsFiniteSet(S), \A x \in S : f[x] \in Nat
  PROVE  Iterates(f, S, [s \in SUBSET S |-> Cardinality(Units(f, s))])
  <1> DEFINE g == [s \in SUBSET S |-> Cardinality(Units(f, s))]
  <1>1. g[{}] = 0
    <2>1. Units(f, {}) = {}
      BY DEF Units
    <2> QED
      BY <2>1, FS_EmptySet
  <1>2. ASSUME NEW s \in SUBSET S, s # {}
        PROVE  LET x == CHOOSE x \in s : TRUE
               IN  g[s] = f[x] + g[s \ {x}]
    <2> DEFINE x == CHOOSE x \in s : TRUE
    <2>1. x \in s
      BY <1>2
    <2>2. IsFiniteSet(s)
      BY FS_Subset
    <2> HIDE DEF x
    <2>3. g[s] = f[x] + g[s \ {x}]
      BY <2>1, <2>2, UnitsOfOne
    <2> QED
      BY <2>3 DEF x
  <1>3. DOMAIN g = SUBSET S /\ g = [s \in SUBSET S |-> g[s]]
    OBVIOUS
  <1> HIDE DEF g
  <1>4. g = [s \in SUBSET S |->
              IF s = {} THEN 0
              ELSE LET x == CHOOSE x \in s : TRUE
                   IN  f[x] + g[s \ {x}]]
    BY <1>1, <1>2, <1>3
  <1> QED
    BY <1>4 DEF Iterates, g

\* ... and there is no other: a sum is the number of its units.
LEMMA SumIsUnits ==
  ASSUME NEW f, NEW S, IsFiniteSet(S), \A x \in S : f[x] \in Nat
  PROVE  SumFunctionOnSet(f, S) = Cardinality(Units(f, S))
  <1> DEFINE g == [s \in SUBSET S |-> Cardinality(Units(f, s))]
  <1>1. PICK h : Iterates(f, S, h) /\ SumFunctionOnSet(f, S) = h[S]
    BY SumIterates, UnitsIterate, Zenon
  <1>2. Iterates(f, S, g)
    BY UnitsIterate, Zenon
  <1> DEFINE Sizes == {n \in Nat : \A s \in SUBSET S :
                                     Cardinality(s) = n => h[s] = g[s]}
  <1> HIDE DEF g
  <1>3. \A s \in SUBSET S : IsFiniteSet(s) /\ Cardinality(s) \in Nat
    BY FS_Subset, FS_CardinalityType
  <1>4. 0 \in Sizes
    <2>1. \A s \in SUBSET S : Cardinality(s) = 0 => s = {}
      BY <1>3, FS_EmptySet
    <2>2. h[{}] = 0 /\ g[{}] = 0
      BY <1>1, <1>2 DEF Iterates
    <2> QED
      BY <2>1, <2>2
  <1>5. ASSUME NEW n \in Nat, n \in Sizes PROVE n + 1 \in Sizes
    <2> SUFFICES ASSUME NEW s \in SUBSET S, Cardinality(s) = n + 1
                 PROVE  h[s] = g[s]
      OBVIOUS
    <2> DEFINE x == CHOOSE x \in s : TRUE
    <2>1. s # {}
      BY FS_EmptySet
    <2>2. x \in s
      BY <2>1
    <2>3. h[s] = f[x] + h[s \ {x}] /\ g[s] = f[x] + g[s \ {x}]
      BY <1>1, <1>2, <2>1 DEF Iterates
    <2> HIDE DEF x
    <2>4. Cardinality(s \ {x}) = n
      <3>1. IsFiniteSet(s) /\ Cardinality(s) = n + 1
        BY <1>3
      <3>2. Cardinality(s \ {x}) = Cardinality(s) - 1
        BY <2>2, <3>1, FS_RemoveElement
      <3> QED
        BY <3>1, <3>2
    <2>5. h[s \ {x}] = g[s \ {x}]
      BY <1>5, <2>4
    <2> QED
      BY <2>3, <2>5
  <1>6. Nat \subseteq Sizes
    <2> HIDE DEF Sizes
    <2> QED
      BY <1>4, <1>5, SetInduction
  <1>7. h[S] = g[S]
    BY <1>3, <1>6
  <1> QED
    BY <1>1, <1>7 DEF g
-----------------------------------------------------------------------------
\* What a sum is.

\* A sum is a natural number, 0 over no elements, and the sum over the others
\* and one element.
LEMMA SumOfOne ==
  ASSUME NEW f, NEW S, IsFiniteSet(S), \A x \in S : f[x] \in Nat
  PROVE  /\ SumFunctionOnSet(f, S) \in Nat
         /\ S = {} => SumFunctionOnSet(f, S) = 0
         /\ \A x \in S : SumFunctionOnSet(f, S)
                           = f[x] + SumFunctionOnSet(f, S \ {x})
  <1>1. SumFunctionOnSet(f, S) \in Nat
    BY SumIsUnits, UnitsFinite
  <1>2. S = {} => SumFunctionOnSet(f, S) = 0
    <2>1. S = {} => Units(f, S) = {}
      BY DEF Units
    <2> QED
      BY <2>1, SumIsUnits, FS_EmptySet
  <1>3. ASSUME NEW x \in S
        PROVE  SumFunctionOnSet(f, S) = f[x] + SumFunctionOnSet(f, S \ {x})
    <2>1. IsFiniteSet(S \ {x})
      BY FS_RemoveElement
    <2>2. SumFunctionOnSet(f, S \ {x}) = Cardinality(Units(f, S \ {x}))
      BY <2>1, SumIsUnits
    <2> QED
      BY <2>2, SumIsUnits, UnitsOfOne
  <1> QED
    BY <1>1, <1>2, <1>3

\* A sum depends on the summands alone.
LEMMA SumSame ==
  ASSUME NEW f, NEW g, NEW S, IsFiniteSet(S),
         \A x \in S : f[x] = g[x] /\ f[x] \in Nat
  PROVE  SumFunctionOnSet(f, S) = SumFunctionOnSet(g, S)
  <1>1. Units(f, S) = Units(g, S)
    BY DEF Units
  <1>2. SumFunctionOnSet(f, S) = Cardinality(Units(f, S))
    BY SumIsUnits
  <1>3. SumFunctionOnSet(g, S) = Cardinality(Units(g, S))
    BY SumIsUnits
  <1> QED
    BY <1>1, <1>2, <1>3

\* Two sums that differ in one summand.
LEMMA SumChanged ==
  ASSUME NEW f, NEW g, NEW S, IsFiniteSet(S), NEW y \in S,
         \A x \in S : f[x] \in Nat /\ g[x] \in Nat,
         \A x \in S \ {y} : f[x] = g[x]
  PROVE  SumFunctionOnSet(g, S) + f[y] = SumFunctionOnSet(f, S) + g[y]
  <1> DEFINE Others == S \ {y}
  <1>1. IsFiniteSet(Others)
    BY FS_RemoveElement
  <1>2. SumFunctionOnSet(f, Others) = SumFunctionOnSet(g, Others)
    BY <1>1, SumSame
  <1>3. SumFunctionOnSet(f, Others) \in Nat
    BY <1>1, SumOfOne
  <1>4. SumFunctionOnSet(f, S) = f[y] + SumFunctionOnSet(f, Others)
    BY SumOfOne
  <1>5. SumFunctionOnSet(g, S) = g[y] + SumFunctionOnSet(g, Others)
    BY SumOfOne
  <1> QED
    BY <1>2, <1>3, <1>4, <1>5

\* A sum over two sets that have nothing in common.
LEMMA SumOfTwo ==
  ASSUME NEW f, NEW S, NEW T, IsFiniteSet(S), IsFiniteSet(T), S \cap T = {},
         \A x \in S \cup T : f[x] \in Nat
  PROVE  SumFunctionOnSet(f, S \cup T)
           = SumFunctionOnSet(f, S) + SumFunctionOnSet(f, T)
  <1>1. IsFiniteSet(S \cup T)
    BY FS_Union
  <1>2. Units(f, S \cup T) = Units(f, S) \cup Units(f, T)
    BY DEF Units
  <1>3. Units(f, S) \cap Units(f, T) = {}
    BY DEF Units
  <1>4. /\ IsFiniteSet(Units(f, S)) /\ Cardinality(Units(f, S)) \in Nat
        /\ IsFiniteSet(Units(f, T)) /\ Cardinality(Units(f, T)) \in Nat
    BY UnitsFinite
  <1>5. Cardinality(Units(f, S) \cup Units(f, T))
          = Cardinality(Units(f, S)) + Cardinality(Units(f, T))
    <2>1. Cardinality(Units(f, S) \cap Units(f, T)) = 0
      BY <1>3, FS_EmptySet
    <2>2. Cardinality(Units(f, S) \cup Units(f, T))
            = Cardinality(Units(f, S)) + Cardinality(Units(f, T))
              - Cardinality(Units(f, S) \cap Units(f, T))
      BY <1>4, FS_Union
    <2> QED
      BY <1>4, <2>1, <2>2
  <1>6. SumFunctionOnSet(f, S) = Cardinality(Units(f, S))
    BY SumIsUnits
  <1>7. SumFunctionOnSet(f, T) = Cardinality(Units(f, T))
    BY SumIsUnits
  <1>8. SumFunctionOnSet(f, S \cup T) = Cardinality(Units(f, S \cup T))
    BY <1>1, SumIsUnits
  <1> QED
    BY <1>2, <1>5, <1>6, <1>7, <1>8

\* The same summands in another order, or under other names.
LEMMA SumRenamed ==
  ASSUME NEW f, NEW g, NEW S, NEW T, IsFiniteSet(S), NEW h \in Bijection(S, T),
         \A x \in S : f[x] \in Nat /\ g[h[x]] = f[x]
  PROVE  SumFunctionOnSet(g, T) = SumFunctionOnSet(f, S)
  <1> DEFINE F == Units(f, S)
             G == Units(g, T)
             units == [u \in F |-> <<h[u[1]], u[2]>>]
  <1>1. h \in [S -> T] /\ \A t \in T : \E s \in S : h[s] = t
    BY DEF Bijection, Surjection
  <1>2. \A a, b \in S : h[a] = h[b] => a = b
    BY DEF Bijection, Injection, IsInjective
  <1>3. IsFiniteSet(T)
    BY FS_Bijection DEF ExistsBijection
  <1>4. \A t \in T : g[t] \in Nat
    BY <1>1
  <1>5. \A u : u \in F <=> \E x \in S : \E n \in 1 .. f[x] : u = <<x, n>>
    BY DEF Units
  <1>6. \A u : u \in G <=> \E t \in T : \E n \in 1 .. g[t] : u = <<t, n>>
    BY DEF Units
  <1> HIDE DEF F, G
  <1>7. units \in [F -> G]
    BY <1>1, <1>5, <1>6
  <1>8. \A u, v \in F : units[u] = units[v] => u = v
    BY <1>2, <1>5
  <1>9. \A v \in G : \E u \in F : units[u] = v
    <2> SUFFICES ASSUME NEW v \in G PROVE \E u \in F : units[u] = v
      OBVIOUS
    <2>1. PICK t \in T : \E n \in 1 .. g[t] : v = <<t, n>>
      BY <1>6
    <2>2. PICK n \in 1 .. g[t] : v = <<t, n>>
      BY <2>1
    <2>3. PICK x \in S : h[x] = t
      BY <1>1
    <2>4. <<x, n>> \in F /\ units[<<x, n>>] = v
      BY <1>5, <2>2, <2>3
    <2> QED
      BY <2>4
  <1>10. units \in Bijection(F, G)
    BY <1>7, <1>8, <1>9
      DEF Bijection, Injection, IsInjective, Surjection
  <1>11. IsFiniteSet(F)
    BY UnitsFinite DEF F
  <1>12. Cardinality(G) = Cardinality(F)
    <2> HIDE DEF units
    <2> QED
      BY <1>10, <1>11, FS_Bijection DEF ExistsBijection
  <1>13. SumFunctionOnSet(f, S) = Cardinality(F)
    BY SumIsUnits DEF F
  <1>14. SumFunctionOnSet(g, T) = Cardinality(G)
    BY <1>3, <1>4, SumIsUnits DEF G
  <1> QED
    BY <1>12, <1>13, <1>14

\* Each summand is at most the sum.
LEMMA SumBounds ==
  ASSUME NEW f, NEW S, IsFiniteSet(S), NEW x \in S,
         \A y \in S : f[y] \in Nat
  PROVE  f[x] <= SumFunctionOnSet(f, S)
  <1>1. IsFiniteSet(S \ {x})
    BY FS_RemoveElement
  <1>2. SumFunctionOnSet(f, S \ {x}) \in Nat
    BY <1>1, SumOfOne
  <1> QED
    BY <1>2, SumOfOne

\* A sum of ones and zeros counts the ones.
LEMMA SumCounts ==
  ASSUME NEW f, NEW S, IsFiniteSet(S), NEW T \in SUBSET S,
         \A x \in S : f[x] = IF x \in T THEN 1 ELSE 0
  PROVE  /\ SumFunctionOnSet(f, S) = Cardinality(T)
         /\ Cardinality(T) \in Nat
  <1> DEFINE one == 1 .. 1
  <1>1. \A x \in S : f[x] \in Nat
    OBVIOUS
  <1>2. Units(f, S) = T \X one
    <2>1. \A x \in S \ T : 1 .. f[x] = {}
      OBVIOUS
    <2>2. \A x \in T : x \in S /\ f[x] = 1
      OBVIOUS
    <2>3. \A x \in S : {x} \X (1 .. f[x]) = IF x \in T THEN {x} \X one ELSE {}
      BY <2>1, <2>2
    <2> QED
      BY <2>2, <2>3 DEF Units
  <1>3. IsFiniteSet(one) /\ Cardinality(one) = 1
    <2>1. one = {1} /\ 1 = 1
      OBVIOUS
    <2> QED
      BY <2>1, FS_Singleton
  <1>4. IsFiniteSet(T) /\ Cardinality(T) \in Nat
    BY FS_Subset, FS_CardinalityType
  <1> HIDE DEF one
  <1>5. Cardinality(T \X one) = Cardinality(T) * 1
    BY <1>3, <1>4, FS_Product
  <1>6. SumFunctionOnSet(f, S) = Cardinality(Units(f, S))
    BY <1>1, SumIsUnits
  <1> QED
    BY <1>2, <1>4, <1>5, <1>6

-----------------------------------------------------------------------------
\* The weight of a queue.

\* The sum of what its entries weigh.
Weights(queue, weight) == [k \in DOMAIN queue |-> weight[queue[k]]]
Weight(queue, weight) == SumFunction(Weights(queue, weight))

\* The weight as a sum over the positions.
LEMMA WeightIsSum ==
  ASSUME NEW Job, NEW weight \in [Job -> Nat], NEW queue \in Seq(Job)
  PROVE  /\ IsFiniteSet(1 .. Len(queue))
         /\ \A k \in 1 .. Len(queue) :
              /\ Weights(queue, weight)[k] = weight[queue[k]]
              /\ Weights(queue, weight)[k] \in Nat
         /\ Weight(queue, weight)
              = SumFunctionOnSet(Weights(queue, weight), 1 .. Len(queue))
  <1>1. DOMAIN queue = 1 .. Len(queue) /\ Len(queue) \in Nat
    OBVIOUS
  <1>2. IsFiniteSet(1 .. Len(queue))
    BY <1>1, FS_Interval
  <1>3. \A k \in 1 .. Len(queue) :
          /\ Weights(queue, weight)[k] = weight[queue[k]]
          /\ Weights(queue, weight)[k] \in Nat
    BY <1>1 DEF Weights
  <1>4. DOMAIN Weights(queue, weight) = 1 .. Len(queue)
    BY <1>1 DEF Weights
  <1> QED
    BY <1>2, <1>3, <1>4 DEF Weight, SumFunction

\* The weight of a queue is a natural number, 0 for an empty one.
LEMMA WeightType ==
  ASSUME NEW Job, NEW weight \in [Job -> Nat], NEW queue \in Seq(Job)
  PROVE  /\ Weight(queue, weight) \in Nat
         /\ queue = << >> => Weight(queue, weight) = 0
  <1>1. queue = << >> => 1 .. Len(queue) = {}
    OBVIOUS
  <1> QED
    BY <1>1, WeightIsSum, SumOfOne

\* One entry.
LEMMA WeightOfOne ==
  ASSUME NEW Job, NEW weight \in [Job -> Nat], NEW job \in Job
  PROVE  Weight(<<job>>, weight) = weight[job]
  <1> DEFINE f == Weights(<<job>>, weight)
             D == 1 .. Len(<<job>>)
  <1>1. <<job>> \in Seq(Job) /\ D = {1} /\ <<job>>[1] = job
    OBVIOUS
  <1>2. IsFiniteSet(D) /\ Weight(<<job>>, weight) = SumFunctionOnSet(f, D)
    BY <1>1, WeightIsSum
  <1>3. /\ \A k \in D : f[k] \in Nat
        /\ f[1] = weight[job]
    <2>1. \A k \in D : f[k] = weight[<<job>>[k]] /\ f[k] \in Nat
      BY <1>1, WeightIsSum
    <2> HIDE DEF f, D
    <2> QED
      BY <1>1, <2>1
  <1> HIDE DEF D
  <1>4. D \ {1} = {} /\ 1 \in D /\ IsFiniteSet(D \ {1})
    BY <1>1, <1>2, FS_RemoveElement
  <1> HIDE DEF f
  <1>5. SumFunctionOnSet(f, D) = f[1] + SumFunctionOnSet(f, D \ {1})
    BY <1>2, <1>3, <1>4, SumOfOne
  <1>6. SumFunctionOnSet(f, D \ {1}) = 0
    BY <1>3, <1>4, SumOfOne
  <1> QED
    BY <1>2, <1>3, <1>5, <1>6

\* The entries of one queue in another order.
LEMMA WeightReordered ==
  ASSUME NEW Job, NEW weight \in [Job -> Nat],
         NEW p \in Seq(Job), NEW q \in Seq(Job),
         NEW h \in Bijection(1 .. Len(p), 1 .. Len(q)),
         \A k \in 1 .. Len(p) : q[h[k]] = p[k]
  PROVE  Weight(q, weight) = Weight(p, weight)
  <1> DEFINE P == 1 .. Len(p)
             Q == 1 .. Len(q)
             f == Weights(p, weight)
             g == Weights(q, weight)
  <1>1. h \in Bijection(P, Q) /\ \A k \in P : h[k] \in Q
    BY DEF Bijection, Surjection
  <1>2. /\ IsFiniteSet(P) /\ Weight(p, weight) = SumFunctionOnSet(f, P)
        /\ \A k \in P : f[k] = weight[p[k]] /\ f[k] \in Nat
    BY WeightIsSum
  <1>3. /\ Weight(q, weight) = SumFunctionOnSet(g, Q)
        /\ \A k \in Q : g[k] = weight[q[k]]
    BY WeightIsSum
  <1>4. \A k \in P : g[h[k]] = f[k]
    BY <1>1, <1>2, <1>3
  <1> HIDE DEF P, Q, f, g
  <1>5. SumFunctionOnSet(g, Q) = SumFunctionOnSet(f, P)
    BY <1>1, <1>2, <1>4, SumRenamed
  <1> QED
    BY <1>2, <1>3, <1>5

\* Two queues, one after the other.
LEMMA WeightOfTwo ==
  ASSUME NEW Job, NEW weight \in [Job -> Nat],
         NEW p \in Seq(Job), NEW q \in Seq(Job)
  PROVE  Weight(p \o q, weight) = Weight(p, weight) + Weight(q, weight)
  <1> DEFINE m == Len(p)
             n == Len(q)
             f == Weights(p \o q, weight)
             e == Weights(p, weight)
             g == Weights(q, weight)
             P == 1 .. m
             Q == 1 .. n
             T == m + 1 .. m + n
             shift == [k \in Q |-> m + k]
  <1>1. /\ m \in Nat /\ n \in Nat
        /\ p \o q \in Seq(Job) /\ Len(p \o q) = m + n
        /\ \A k \in P : (p \o q)[k] = p[k]
        /\ \A k \in Q : (p \o q)[m + k] = q[k]
    OBVIOUS
  <1>2. P \cup T = 1 .. m + n /\ P \cap T = {} /\ Q \subseteq Nat
    BY <1>1
  <1>3. /\ \A k \in 1 .. m + n : f[k] = weight[(p \o q)[k]] /\ f[k] \in Nat
        /\ Weight(p \o q, weight) = SumFunctionOnSet(f, 1 .. m + n)
    BY <1>1, WeightIsSum
  <1>4. /\ \A k \in P : e[k] = weight[p[k]] /\ e[k] \in Nat
        /\ IsFiniteSet(P) /\ Weight(p, weight) = SumFunctionOnSet(e, P)
    BY WeightIsSum
  <1>5. /\ \A k \in Q : g[k] = weight[q[k]] /\ g[k] \in Nat
        /\ IsFiniteSet(Q) /\ Weight(q, weight) = SumFunctionOnSet(g, Q)
    BY WeightIsSum
  <1>6. shift \in Bijection(Q, T)
    <2>1. shift \in [Q -> T]
      BY <1>1
    <2>2. \A a, b \in Q : shift[a] = shift[b] => a = b
      BY <1>1
    <2>3. ASSUME NEW t \in T PROVE \E s \in Q : shift[s] = t
      <3>1. t - m \in Q /\ shift[t - m] = t
        BY <1>1
      <3> QED
        BY <3>1
    <2> QED
      BY <2>1, <2>2, <2>3 DEF Bijection, Injection, IsInjective, Surjection
  <1>7. \A k \in P : e[k] = f[k]
    BY <1>1, <1>2, <1>3, <1>4
  <1>8. \A k \in Q : f[shift[k]] = g[k]
    <2>1. \A k \in Q : shift[k] = m + k /\ m + k \in 1 .. m + n
      BY <1>1
    <2> HIDE DEF f, g, shift, m, Q
    <2>2. \A k \in Q : f[shift[k]] = weight[(p \o q)[m + k]]
      BY <1>3, <2>1
    <2>3. \A k \in Q : f[shift[k]] = weight[q[k]]
      BY <1>1, <2>2
    <2> QED
      BY <1>5, <2>3
  <1>9. IsFiniteSet(T)
    BY <1>1, FS_Interval
  <1>10. \A k \in P \cup T : f[k] \in Nat
    BY <1>2, <1>3
  <1> HIDE DEF e, f, g, shift, P, Q, T
  <1>11. SumFunctionOnSet(f, P) = SumFunctionOnSet(e, P)
    BY <1>4, <1>7, SumSame
  <1>12. SumFunctionOnSet(f, T) = SumFunctionOnSet(g, Q)
    BY <1>5, <1>6, <1>8, SumRenamed
  <1>13. SumFunctionOnSet(f, P \cup T)
           = SumFunctionOnSet(f, P) + SumFunctionOnSet(f, T)
    BY <1>2, <1>4, <1>9, <1>10, SumOfTwo
  <1> QED
    BY <1>2, <1>3, <1>4, <1>5, <1>11, <1>12, <1>13

\* One entry before the others.
LEMMA WeightOfHead ==
  ASSUME NEW Job, NEW weight \in [Job -> Nat],
         NEW job \in Job, NEW q \in Seq(Job)
  PROVE  Weight(<<job>> \o q, weight) = weight[job] + Weight(q, weight)
  <1>1. <<job>> \in Seq(Job)
    OBVIOUS
  <1> QED
    BY <1>1, WeightOfOne, WeightOfTwo

\* The entries of two queues, one after the other.
LEMMA EntriesOfTwo ==
  ASSUME NEW Job, NEW p \in Seq(Job), NEW q \in Seq(Job),
         NEW r, r = p \o q
  PROVE  /\ r \in Seq(Job) /\ Len(r) = Len(p) + Len(q)
         /\ \A k \in 1 .. Len(p) : r[k] = p[k]
         /\ \A k \in 1 .. Len(q) : r[Len(p) + k] = q[k]
  OBVIOUS

\* Three entries: the proceeds of a sale.
LEMMA WeightOfThree ==
  ASSUME NEW Job, NEW weight \in [Job -> Nat],
         NEW a \in Job, NEW b \in Job, NEW c \in Job
  PROVE  Weight(<<a, b, c>>, weight) = weight[a] + weight[b] + weight[c]
  <1>1. <<b, c>> \in Seq(Job) /\ <<c>> \in Seq(Job)
    OBVIOUS
  <1>2. <<a, b, c>> = <<a>> \o <<b, c>>
    OBVIOUS
  <1>3. <<b, c>> = <<b>> \o <<c>>
    <2>1. <<b>> \in Seq(Job) /\ <<b, c>> = Append(<<b>>, c)
      OBVIOUS
    <2> QED
      BY <2>1, AppendIsConcat, Zenon
  <1>4. Weight(<<a>> \o <<b, c>>, weight) = weight[a] + Weight(<<b, c>>, weight)
    BY <1>1, WeightOfHead
  <1>5. Weight(<<b>> \o <<c>>, weight) = weight[b] + Weight(<<c>>, weight)
    BY <1>1, WeightOfHead
  <1>6. Weight(<<c>>, weight) = weight[c]
    BY WeightOfOne
  <1>7. weight[a] \in Nat /\ weight[b] \in Nat /\ weight[c] \in Nat
    OBVIOUS
  <1>8. Weight(<<b, c>>, weight) = weight[b] + weight[c]
    BY <1>3, <1>5, <1>6, Zenon
  <1>9. Weight(<<a, b, c>>, weight) = weight[a] + (weight[b] + weight[c])
    BY <1>2, <1>4, <1>8, Zenon
  <1> QED
    BY <1>7, <1>9

\* A part of a queue, the entry after it and the rest of it.
LEMMA WeightOfParts ==
  ASSUME NEW Job, NEW weight \in [Job -> Nat], NEW queue \in Seq(Job),
         NEW n \in 0 .. Len(queue)
  PROVE  /\ SubSeq(queue, 1, n) \in Seq(Job)
         /\ n = Len(queue) => SubSeq(queue, 1, n) = queue
         /\ n # Len(queue) =>
              /\ queue[n + 1] \in Job
              /\ SubSeq(queue, n + 2, Len(queue)) \in Seq(Job)
              /\ Weight(queue, weight)
                   = Weight(SubSeq(queue, 1, n), weight)
                     + weight[queue[n + 1]]
                     + Weight(SubSeq(queue, n + 2, Len(queue)), weight)
  <1> DEFINE p == SubSeq(queue, 1, n)
             job == queue[n + 1]
             q == SubSeq(queue, n + 2, Len(queue))
  <1>1. /\ p \in Seq(Job) /\ Len(p) = n
        /\ \A k \in 1 .. n : p[k] = queue[k]
    OBVIOUS
  <1>2. n = Len(queue) => p = queue
    BY <1>1, SeqEqual
  <1>3. ASSUME n # Len(queue)
        PROVE  /\ job \in Job /\ q \in Seq(Job)
               /\ Weight(queue, weight)
                    = Weight(p, weight) + weight[job] + Weight(q, weight)
    <2>1. /\ job \in Job /\ q \in Seq(Job) /\ Len(q) = Len(queue) - (n + 1)
          /\ \A k \in 1 .. Len(q) : q[k] = queue[n + 1 + k]
      BY <1>3
    <2>2. weight[job] \in Nat
      BY <2>1
    <2> HIDE DEF p, q
    <2> DEFINE r == <<job>> \o q
    <2>3. /\ r \in Seq(Job) /\ Len(r) = Len(queue) - n
          /\ r[1] = job
          /\ \A k \in 1 .. Len(q) : r[k + 1] = q[k]
      BY <2>1
    <2>4. \A k \in 1 .. Len(r) : r[k] = queue[n + k]
      <3> SUFFICES ASSUME NEW k \in 1 .. Len(r) PROVE r[k] = queue[n + k]
        OBVIOUS
      <3>1. CASE k = 1
        BY <2>3, <3>1
      <3>2. CASE k # 1
        <4>1. k - 1 \in 1 .. Len(q)
          BY <2>1, <2>3, <3>2
        <4>2. r[(k - 1) + 1] = queue[n + 1 + (k - 1)]
          BY <2>1, <2>3, <4>1
        <4> QED
          BY <4>2
      <3> QED
        BY <3>1, <3>2
    <2>5. Weight(r, weight) = weight[job] + Weight(q, weight)
      BY <2>1, WeightOfHead
    <2> HIDE DEF r
    <2> DEFINE t == p \o r
    <2>6. /\ t \in Seq(Job) /\ Len(t) = Len(queue)
          /\ \A k \in 1 .. Len(p) : t[k] = p[k]
          /\ \A k \in 1 .. Len(r) : t[Len(p) + k] = r[k]
      <3>1. p \in Seq(Job) /\ r \in Seq(Job)
        BY <1>1, <2>3
      <3>2. t = p \o r
        OBVIOUS
      <3> HIDE DEF t
      <3>3. /\ t \in Seq(Job) /\ Len(t) = Len(p) + Len(r)
            /\ \A k \in 1 .. Len(p) : t[k] = p[k]
            /\ \A k \in 1 .. Len(r) : t[Len(p) + k] = r[k]
        BY <3>1, <3>2, EntriesOfTwo
      <3>4. Len(t) = Len(queue)
        BY <1>1, <2>3, <3>3
      <3> QED
        BY <3>3, <3>4
    <2>7. Weight(t, weight) = Weight(p, weight) + Weight(r, weight)
      BY <1>1, <2>3, WeightOfTwo
    <2> HIDE DEF t
    <2>8. \A k \in 1 .. Len(t) : t[k] = queue[k]
      <3> SUFFICES ASSUME NEW k \in 1 .. Len(t) PROVE t[k] = queue[k]
        OBVIOUS
      <3>1. CASE k <= n
        BY <1>1, <2>6, <3>1
      <3>2. CASE k > n
        <4>1. k - n \in 1 .. Len(r)
          BY <2>3, <2>6, <3>2
        <4>2. t[n + (k - n)] = queue[n + (k - n)]
          BY <1>1, <2>4, <2>6, <4>1
        <4> QED
          BY <4>2
      <3> QED
        BY <3>1, <3>2
    <2>9. t = queue
      BY <2>6, <2>8, SeqEqual
    <2>10. Weight(p, weight) \in Nat /\ Weight(q, weight) \in Nat
      BY <1>1, <2>1, WeightType
    <2> QED
      BY <2>1, <2>2, <2>5, <2>7, <2>9, <2>10
  <1> QED
    BY <1>1, <1>2, <1>3

\* Larger summands make a larger sum, ...
LEMMA SumGrows ==
  ASSUME NEW f, NEW g, NEW S, IsFiniteSet(S),
         \A x \in S : f[x] \in Nat /\ g[x] \in Nat /\ f[x] <= g[x]
  PROVE  SumFunctionOnSet(f, S) <= SumFunctionOnSet(g, S)
  <1>1. Units(f, S) \subseteq Units(g, S)
    <2>1. \A x \in S : \A n \in 1 .. f[x] : n \in 1 .. g[x]
      OBVIOUS
    <2> QED
      BY <2>1 DEF Units
  <1>2. IsFiniteSet(Units(g, S))
    BY UnitsFinite
  <1>3. Cardinality(Units(f, S)) <= Cardinality(Units(g, S))
    BY <1>1, <1>2, FS_Subset
  <1>4. SumFunctionOnSet(f, S) = Cardinality(Units(f, S))
    BY SumIsUnits
  <1>5. SumFunctionOnSet(g, S) = Cardinality(Units(g, S))
    BY SumIsUnits
  <1> QED
    BY <1>3, <1>4, <1>5

\* ... and heavier entries a heavier queue.
LEMMA WeightGrows ==
  ASSUME NEW Job, NEW light \in [Job -> Nat], NEW heavy \in [Job -> Nat],
         \A job \in Job : light[job] <= heavy[job], NEW queue \in Seq(Job)
  PROVE  Weight(queue, light) <= Weight(queue, heavy)
  <1> DEFINE D == 1 .. Len(queue)
             f == Weights(queue, light)
             g == Weights(queue, heavy)
  <1>1. /\ IsFiniteSet(D) /\ Weight(queue, light) = SumFunctionOnSet(f, D)
        /\ \A k \in D : f[k] = light[queue[k]] /\ f[k] \in Nat
    BY WeightIsSum
  <1>2. /\ Weight(queue, heavy) = SumFunctionOnSet(g, D)
        /\ \A k \in D : g[k] = heavy[queue[k]] /\ g[k] \in Nat
    BY WeightIsSum
  <1>3. \A k \in D : queue[k] \in Job
    OBVIOUS
  <1> HIDE DEF D, f, g
  <1>4. \A k \in D : f[k] <= g[k]
    BY <1>1, <1>2, <1>3
  <1>5. SumFunctionOnSet(f, D) <= SumFunctionOnSet(g, D)
    BY <1>1, <1>2, <1>4, SumGrows
  <1> QED
    BY <1>1, <1>2, <1>5
=============================================================================
