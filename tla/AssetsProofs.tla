---------------------------- MODULE AssetsProofs ----------------------------
(***************************************************************************)
(* Proofs about the asset store under careful use: its records and its     *)
(* index agree, and they implement one page per file (AssetStore), for any *)
(* files, tags, uploads and bounds.                                        *)
(*                                                                         *)
(* restore, assetsTag and filterSelf go through their records one by one;  *)
(* the first part turns these folds into steps, so that what each record   *)
(* does to the store carries over to all of them by induction.             *)
(***************************************************************************)
EXTENDS AssetsCareful, Sums

-----------------------------------------------------------------------------
\* Folds over a sequence, one step at a time.  FoldLeft goes down from the last
\* element of a set of positions; on the positions 1 .. k it does k steps.

\* A fold that goes on from a value with the element at a position.
Folded(n, base, step, iter) ==
  iter = [s \in SUBSET (1 .. n) |->
            IF s = {} THEN base
            ELSE LET x == Max(s) IN step[<<iter[s \ {x}], x>>]]

\* The greatest of the first positions.
LEMMA MaxOfFirst ==
  ASSUME NEW n \in Nat, NEW s \in SUBSET (1 .. n + 1), n + 1 \in s
  PROVE  Max(s) = n + 1
  <1>1. \A x \in s : x \in Nat /\ n + 1 >= x
    OBVIOUS
  <1>2. \A x \in s : (\A y \in s : x >= y) => x = n + 1
    BY <1>1
  <1> QED
    BY <1>1, <1>2 DEF Max

\* There is such a fold for every step.
LEMMA FoldExists ==
  ASSUME NEW V, NEW n \in Nat, NEW base \in V,
         NEW step \in [V \X (1 .. n) -> V]
  PROVE  \E g : Folded(n, base, step, g) /\ g \in [SUBSET (1 .. n) -> V]
  <1> DEFINE Good(m) == \E g : /\ Folded(m, base, step, g)
                               /\ g \in [SUBSET (1 .. m) -> V]
             S == {m \in Nat : m <= n => Good(m)}
  <1>1. 0 \in S
    <2> DEFINE g == [s \in SUBSET (1 .. 0) |-> base]
    <2>1. SUBSET (1 .. 0) = {{}}
      OBVIOUS
    <2>2. Folded(0, base, step, g) /\ g \in [SUBSET (1 .. 0) -> V]
      BY <2>1 DEF Folded
    <2> QED
      BY <2>2
  <1>2. ASSUME NEW m \in Nat, m \in S PROVE m + 1 \in S
    <2> SUFFICES ASSUME m + 1 <= n PROVE Good(m + 1)
      <3> HIDE DEF Good
      <3> QED
        OBVIOUS
    <2>0. Good(m)
      <3> HIDE DEF Good
      <3> QED
        BY <1>2
    <2>1. PICK g : Folded(m, base, step, g) /\ g \in [SUBSET (1 .. m) -> V]
      BY <2>0
    <2> DEFINE D == SUBSET (1 .. m + 1)
               h == [s \in D |-> IF m + 1 \in s
                                 THEN step[<<g[s \ {m + 1}], m + 1>>]
                                 ELSE g[s]]
    <2>2. ASSUME NEW s \in D, m + 1 \in s
          PROVE  /\ s # {} /\ Max(s) = m + 1
                 /\ s \ {m + 1} \in SUBSET (1 .. m) /\ s \ {m + 1} \in D
                 /\ h[s \ {m + 1}] = g[s \ {m + 1}]
                 /\ h[s] = step[<<h[s \ {m + 1}], m + 1>>]
      <3>1. s # {} /\ Max(s) = m + 1
        BY <2>2, MaxOfFirst
      <3>2. s \ {m + 1} \in SUBSET (1 .. m) /\ s \ {m + 1} \in D
        BY <2>2
      <3> QED
        BY <2>2, <3>1, <3>2
    <2>3. ASSUME NEW s \in D, m + 1 \notin s, s # {}
          PROVE  /\ s \in SUBSET (1 .. m)
                 /\ s \ {Max(s)} \in SUBSET (1 .. m) /\ s \ {Max(s)} \in D
                 /\ m + 1 \notin s \ {Max(s)}
                 /\ h[s] = step[<<h[s \ {Max(s)}], Max(s)>>]
      <3>1. s \in SUBSET (1 .. m)
        BY <2>3
      <3> DEFINE x == Max(s)
      <3> HIDE DEF x
      <3>2. /\ s \ {x} \in SUBSET (1 .. m) /\ s \ {x} \in D
            /\ m + 1 \notin s \ {x}
        BY <2>3, <3>1
      <3>3. g[s] = step[<<g[s \ {x}], x>>]
        BY <2>1, <2>3, <3>1 DEF Folded, x
      <3>4. h[s] = g[s] /\ h[s \ {x}] = g[s \ {x}]
        BY <2>3, <3>2
      <3> QED
        BY <3>1, <3>2, <3>3, <3>4 DEF x
    <2>4. \A s \in D : h[s] = IF s = {} THEN base
                              ELSE step[<<h[s \ {Max(s)}], Max(s)>>]
      <3>1. h[{}] = base
        BY <2>1 DEF Folded
      <3> HIDE DEF h, D
      <3> QED
        BY <2>2, <2>3, <3>1
    <2>5. Folded(m + 1, base, step, h)
      <3>1. h = [s \in D |-> h[s]]
        OBVIOUS
      <3> HIDE DEF h
      <3>2. h = [s \in D |-> IF s = {} THEN base
                             ELSE step[<<h[s \ {Max(s)}], Max(s)>>]]
        BY <2>4, <3>1
      <3> QED
        BY <3>2, Zenon DEF Folded
    <2>6. h \in [D -> V]
      <3>1. ASSUME NEW s \in D PROVE h[s] \in V
        <4>1. CASE m + 1 \in s
          <5>1. g[s \ {m + 1}] \in V /\ m + 1 \in 1 .. n
            BY <2>1, <2>2, <4>1
          <5> QED
            BY <4>1, <5>1
        <4>2. CASE m + 1 \notin s
          BY <2>1, <4>2
        <4> QED
          BY <4>1, <4>2
      <3> QED
        BY <3>1
    <2> QED
      BY <2>5, <2>6
  <1>3. Nat \subseteq S
    <2> HIDE DEF S
    <2> QED
      BY <1>1, <1>2, SetInduction
  <1>4. Good(n)
    <2> HIDE DEF Good
    <2> QED
      BY <1>3
  <1> QED
    BY <1>4

\* The greatest of some positions.
LEMMA MaxOfPositions ==
  ASSUME NEW n \in Nat, NEW s \in SUBSET (1 .. n), s # {}
  PROVE  Max(s) \in s /\ \A y \in s : y <= Max(s)
  <1> DEFINE T == {n - y : y \in s}
  <1>1. T \in SUBSET Nat /\ T # {}
    <2>1. \A y \in s : n - y \in Nat
      OBVIOUS
    <2>2. PICK y \in s : TRUE
      OBVIOUS
    <2> QED
      BY <2>1, <2>2
  <1>2. PICK i \in T : \A j \in T : i <= j
    <2> HIDE DEF T
    <2> QED
      BY <1>1, LeastNatural
  <1>3. PICK y \in s : i = n - y
    BY <1>2
  <1>4. \A z \in s : n - y <= n - z /\ z \in Nat /\ y \in Nat
    BY <1>2, <1>3
  <1>5. \A z \in s : y >= z
    BY <1>4
  <1>6. Max(s) \in s /\ \A z \in s : Max(s) >= z
    BY <1>5 DEF Max
  <1> QED
    BY <1>6

\* A fold goes on by its step, over any set of positions.
Stepwise(V, n, base, step, g) ==
  /\ g = [s \in SUBSET (1 .. n) |-> g[s]] /\ g[{}] = base
  /\ \A s \in SUBSET (1 .. n) : s # {} =>
       /\ Max(s) \in 1 .. n /\ g[s \ {Max(s)}] \in V
       /\ g[s] = step[<<g[s \ {Max(s)}], Max(s)>>]

\* What is folded so has a value at every set of positions.
LEMMA FoldValues ==
  ASSUME NEW V, NEW n \in Nat, NEW base \in V,
         NEW step \in [V \X (1 .. n) -> V]
  PROVE  \E g : Stepwise(V, n, base, step, g)
  <1>1. PICK g : Folded(n, base, step, g) /\ g \in [SUBSET (1 .. n) -> V]
    BY FoldExists
  <1>2. g = [s \in SUBSET (1 .. n) |-> g[s]]
    BY <1>1
  <1>3. g[{}] = base
    BY <1>1 DEF Folded
  <1>4. ASSUME NEW s \in SUBSET (1 .. n), s # {}
        PROVE  /\ Max(s) \in 1 .. n /\ g[s \ {Max(s)}] \in V
               /\ g[s] = step[<<g[s \ {Max(s)}], Max(s)>>]
    <2>1. PICK x : x = Max(s)
      OBVIOUS
    <2>2. x \in s
      BY <1>4, <2>1, MaxOfPositions
    <2>3. g[s] = step[<<g[s \ {x}], x>>]
      BY <1>1, <1>4, <2>1 DEF Folded
    <2>4. g[s \ {x}] \in V /\ x \in 1 .. n
      BY <1>1, <2>2
    <2> QED
      BY <2>1, <2>3, <2>4
  <1> QED
    BY <1>2, <1>3, <1>4 DEF Stepwise

\* The first k positions are the first k - 1 and the greatest of them.
LEMMA FirstPositions ==
  ASSUME NEW n \in Nat
  PROVE  /\ 1 .. 0 = {}
         /\ \A k \in 1 .. n :
              /\ 1 .. k \in SUBSET (1 .. n) /\ 1 .. k # {}
              /\ Max(1 .. k) = k /\ (1 .. k) \ {k} = 1 .. (k - 1)
  <1>1. 1 .. 0 = {}
    OBVIOUS
  <1>2. ASSUME NEW k \in 1 .. n
        PROVE  /\ 1 .. k \in SUBSET (1 .. n) /\ 1 .. k # {}
               /\ Max(1 .. k) = k /\ (1 .. k) \ {k} = 1 .. (k - 1)
    <2>1. PICK s \in SUBSET (1 .. k) : s = 1 .. k
      OBVIOUS
    <2>2. k - 1 \in Nat /\ (k - 1) + 1 = k /\ k \in s
      BY <2>1
    <2>3. Max(s) = k
      BY <2>1, <2>2, MaxOfFirst
    <2>4. s \in SUBSET (1 .. n) /\ s # {}
      <3>1. \A x \in s : x \in 1 .. n
        BY <2>1
      <3> QED
        BY <2>2, <3>1
    <2>5. s \ {k} = 1 .. (k - 1)
      BY <2>1, <2>2
    <2> QED
      BY <2>1, <2>3, <2>4, <2>5
  <1> QED
    BY <1>1, <1>2

-----------------------------------------------------------------------------
\* The types of a store.

Indexes == UNION {[D -> Nat \ {0}] : D \in SUBSET Files}

\* Positions of the index are within a bound, or within the records.
Stores ==
  {store \in [assets : Seq(Records), files : Indexes] :
     \A f \in DOMAIN store.files :
       store.files[f] <= MaxAssets \/ store.files[f] <= Len(store.assets)}

\* A sequence of which one entry is replaced, or none.
LEMMA EntryReplaced ==
  ASSUME NEW S, NEW q \in Seq(S), NEW p, NEW e \in S
  PROVE  /\ [q EXCEPT ![p] = e] \in Seq(S)
         /\ Len([q EXCEPT ![p] = e]) = Len(q)
         /\ \A k \in 1 .. Len(q) :
              [q EXCEPT ![p] = e][k] = IF k = p THEN e ELSE q[k]
  <1> DEFINE n == Len(q)
  <1>1. n \in Nat /\ DOMAIN q = 1 .. n /\ \A k \in 1 .. n : q[k] \in S
    OBVIOUS
  <1>2. PICK a : a = [q EXCEPT ![p] = e]
    OBVIOUS
  <1> HIDE DEF n
  <1>3. a = [k \in 1 .. n |-> IF k = p THEN e ELSE q[k]]
    BY <1>1, <1>2
  <1>4. a \in [1 .. n -> S]
    BY <1>1, <1>3
  <1>5. a \in Seq(S) /\ Len(a) = n
    BY <1>1, <1>4
  <1>6. \A k \in 1 .. n : a[k] = IF k = p THEN e ELSE q[k]
    BY <1>3
  <1> QED
    BY <1>2, <1>5, <1>6 DEF n

\* Putting a record gives a store.
LEMMA PutType ==
  ASSUME NEW store \in Stores, NEW r \in Records
  PROVE  Put(store, r) \in Stores /\ r.file \in Files
  <1>1. /\ store.assets \in Seq(Records) /\ Len(store.assets) \in Nat
        /\ MaxAssets \in Nat /\ r.file \in Files
    BY AssetsAssumption DEF Stores, Records
  <1>2. PICK D \in SUBSET Files : store.files \in [D -> Nat \ {0}]
    BY DEF Stores, Indexes
  <1>3. \A f \in D : store.files[f] <= MaxAssets
                     \/ store.files[f] <= Len(store.assets)
    BY <1>2 DEF Stores
  <1>4. store = [assets |-> store.assets, files |-> store.files]
    BY DEF Stores
  <1>5. CASE ~ Indexed(store, r.file)
    <2> DEFINE E == D \cup {r.file}
               i == [f \in E |-> IF f = r.file THEN Len(store.assets) + 1
                                 ELSE store.files[f]]
               a == Append(store.assets, r)
    <2>1. Put(store, r) = [assets |-> a, files |-> i]
      BY <1>2, <1>5 DEF Put, Indexed
    <2>2. a \in Seq(Records) /\ Len(a) = Len(store.assets) + 1
      BY <1>1
    <2>3. E \in SUBSET Files /\ i \in [E -> Nat \ {0}]
      BY <1>1, <1>2
    <2>4. \A f \in E : i[f] <= MaxAssets \/ i[f] <= Len(a)
      BY <1>1, <1>2, <1>3, <2>2
    <2>5. i \in Indexes /\ DOMAIN i = E
      BY <2>3 DEF Indexes
    <2> HIDE DEF a, i, E
    <2> QED
      BY <1>1, <2>1, <2>2, <2>4, <2>5 DEF Stores
  <1>6. CASE Indexed(store, r.file) /\ InRange(store, r.file)
    <2> DEFINE p == store.files[r.file]
               a == [store.assets EXCEPT ![p] = r]
    <2>1. Put(store, r) = [assets |-> a, files |-> store.files]
      BY <1>4, <1>6 DEF Put
    <2>2. a \in Seq(Records) /\ Len(a) = Len(store.assets)
      <3> HIDE DEF p
      <3> QED
        BY <1>1, EntryReplaced
    <2> HIDE DEF a
    <2>3. store.files \in Indexes
      BY DEF Stores
    <2> QED
      BY <1>1, <1>2, <1>3, <2>1, <2>2, <2>3 DEF Stores
  <1>7. CASE Indexed(store, r.file) /\ ~ InRange(store, r.file)
    BY <1>1, <1>7 DEF Put
  <1> QED
    BY <1>5, <1>6, <1>7

\* The store that a restore starts from.
LEMMA EmptyStoreType == EmptyStore \in Stores
  <1>1. << >> \in Seq(Records)
    OBVIOUS
  <1>2. << >> \in [{} -> Nat \ {0}] /\ DOMAIN << >> = {}
    OBVIOUS
  <1>3. << >> \in Indexes
    BY <1>2 DEF Indexes
  <1> QED
    BY <1>1, <1>2, <1>3 DEF EmptyStore, Stores

\* Setting the tags of a record gives a store, or nothing.
LEMMA RetaggedType ==
  ASSUME NEW store \in Stores \cup {None},
         NEW request \in [file : Files, tags : SUBSET Tags]
  PROVE  Retagged(store, request) \in Stores \cup {None}
  <1>1. CASE \/ store = None
             \/ Indexed(store, request.file) /\ ~ InRange(store, request.file)
    BY <1>1 DEF Retagged
  <1>2. CASE /\ store # None
             /\ Indexed(store, request.file) /\ InRange(store, request.file)
    <2> DEFINE p == store.files[request.file]
               r == [store.assets[p] EXCEPT !.tags = request.tags]
    <2>1. store \in Stores /\ store.assets \in Seq(Records)
      BY <1>2 DEF Stores
    <2>2. p \in 1 .. Len(store.assets)
      BY <1>2, <2>1 DEF Stores, Indexes, Indexed, InRange
    <2>3. store.assets[p] \in Records
      BY <2>1, <2>2
    <2>4. r \in Records
      BY <2>3 DEF Records
    <2>5. Retagged(store, request) = Put(store, r)
      BY <1>2 DEF Retagged
    <2> HIDE DEF r
    <2> QED
      BY <2>1, <2>4, <2>5, PutType
  <1>3. CASE store # None /\ ~ Indexed(store, request.file)
    BY <1>3 DEF Retagged
  <1> QED
    BY <1>1, <1>2, <1>3

-----------------------------------------------------------------------------
\* The three folds of the store, step by step.

\* h has the value of a fold after each step.
Putting(records, h) ==
  /\ h[0] = EmptyStore
  /\ \A k \in 1 .. Len(records) : h[k] = Put(h[k - 1], records[k])
Retagging(store, requests, h) ==
  /\ h[0] = store
  /\ \A k \in 1 .. Len(requests) : h[k] = Retagged(h[k - 1], requests[k])
Filtering(records, t, h) ==
  /\ h[0] = << >>
  /\ \A k \in 1 .. Len(records) :
       h[k] = IF t \in records[k].tags THEN h[k - 1]
              ELSE Append(h[k - 1], records[k])

\* restore.
PutFold(records, iter) ==
  iter = [s \in SUBSET DOMAIN records |->
            IF s = {} THEN EmptyStore
            ELSE LET x == Max(s) IN Put(iter[s \ {x}], records[x])]

\* restore is such a fold, once there is one.
LEMMA RestoredFolds ==
  ASSUME NEW records, NEW g, PutFold(records, g)
  PROVE  \E h : PutFold(records, h) /\ Restored(records) = h[DOMAIN records]
  <1> DEFINE h == CHOOSE iter : PutFold(records, iter)
  <1>1. PutFold(records, h)
    BY Zenon
  <1>2. Restored(records) = h[DOMAIN records]
    BY Zenon DEF Restored, FoldLeft, MapThenFoldSet, PutFold
  <1> QED
    BY <1>1, <1>2, Zenon

\* restore puts one record after the other.
LEMMA RestoredSteps ==
  ASSUME NEW records \in Seq(Records)
  PROVE  \E h : Putting(records, h) /\ Restored(records) = h[Len(records)]
  <1> DEFINE n == Len(records)
             step == [p \in Stores \X (1 .. n) |-> Put(p[1], records[p[2]])]
  <1>1. /\ n \in Nat /\ DOMAIN records = 1 .. n
        /\ \A k \in 1 .. n : records[k] \in Records
    OBVIOUS
  <1>2. step \in [Stores \X (1 .. n) -> Stores]
    <2>1. \A p \in Stores \X (1 .. n) : Put(p[1], records[p[2]]) \in Stores
      <3> SUFFICES ASSUME NEW p \in Stores \X (1 .. n)
                   PROVE  Put(p[1], records[p[2]]) \in Stores
        OBVIOUS
      <3>1. p[1] \in Stores /\ records[p[2]] \in Records
        BY <1>1
      <3> QED
        BY <3>1, PutType
    <2> QED
      BY <2>1
  <1>3. PICK g : Stepwise(Stores, n, EmptyStore, step, g)
    <2> HIDE DEF step, n
    <2> QED
      BY <1>1, <1>2, EmptyStoreType, FoldValues
  <1>4. ASSUME NEW s \in SUBSET (1 .. n), s # {}
        PROVE  g[s] = Put(g[s \ {Max(s)}], records[Max(s)])
    <2>1. PICK x \in 1 .. n : x = Max(s) /\ g[s \ {x}] \in Stores
                             /\ g[s] = step[<<g[s \ {x}], x>>]
      <3> HIDE DEF step
      <3> QED
        BY <1>3, <1>4 DEF Stepwise
    <2> QED
      BY <2>1
  <1> HIDE DEF step
  <1>5. PutFold(records, g)
    <2>1. g = [s \in SUBSET (1 .. n) |->
                 IF s = {} THEN EmptyStore
                 ELSE Put(g[s \ {Max(s)}], records[Max(s)])]
      <3> HIDE DEF n
      <3> QED
        BY <1>3, <1>4 DEF Stepwise
    <2> QED
      BY <1>1, <2>1, Zenon DEF PutFold
  <1>6. PICK f : PutFold(records, f) /\ Restored(records) = f[1 .. n]
    BY <1>1, <1>5, RestoredFolds
  <1> DEFINE h == [k \in 0 .. n |-> f[1 .. k]]
  <1>7. h[0] = EmptyStore
    <2>1. h[0] = f[{}]
      BY <1>1, FirstPositions
    <2>2. {} \in SUBSET DOMAIN records
      OBVIOUS
    <2>3. f[{}] = EmptyStore
      BY <1>6, <2>2, Zenon DEF PutFold
    <2> QED
      BY <2>1, <2>3
  <1>8. ASSUME NEW k \in 1 .. n PROVE h[k] = Put(h[k - 1], records[k])
    <2>1. /\ 1 .. k \in SUBSET (1 .. n) /\ 1 .. k # {}
          /\ Max(1 .. k) = k /\ (1 .. k) \ {k} = 1 .. (k - 1)
      BY <1>1, FirstPositions
    <2>2. PICK s : s = 1 .. k
      OBVIOUS
    <2>3. s \in SUBSET DOMAIN records /\ s # {} /\ Max(s) = k
      BY <1>1, <2>1, <2>2
    <2>4. f[s] = Put(f[s \ {k}], records[k])
      BY <1>6, <2>3, Zenon DEF PutFold
    <2>5. h[k] = f[s] /\ h[k - 1] = f[s \ {k}]
      BY <1>1, <2>1, <2>2
    <2> QED
      BY <2>4, <2>5
  <1>9. h[n] = f[1 .. n]
    BY <1>1
  <1> HIDE DEF h
  <1> QED
    BY <1>6, <1>7, <1>8, <1>9 DEF Putting

\* assetsTag.
\* What assetsTag comes to may be nothing.
Results == Stores \cup {None}
Requests == [file : Files, tags : SUBSET Tags]
Tagged(store, requests) == FoldLeft(Retagged, store, requests)

TagFold(store, requests, iter) ==
  iter = [s \in SUBSET DOMAIN requests |->
            IF s = {} THEN store
            ELSE LET x == Max(s) IN Retagged(iter[s \ {x}], requests[x])]

\* assetsTag is such a fold, once there is one.
LEMMA TaggedFolds ==
  ASSUME NEW store, NEW requests, NEW g, TagFold(store, requests, g)
  PROVE  \E h : TagFold(store, requests, h)
               /\ Tagged(store, requests) = h[DOMAIN requests]
  <1> DEFINE h == CHOOSE iter : TagFold(store, requests, iter)
  <1>1. TagFold(store, requests, h)
    BY Zenon
  <1>2. Tagged(store, requests) = h[DOMAIN requests]
    BY Zenon DEF Tagged, FoldLeft, MapThenFoldSet, TagFold
  <1> QED
    BY <1>1, <1>2, Zenon

\* assetsTag sets the tags of one record after the other.
LEMMA TaggedSteps ==
  ASSUME NEW store \in Results,
         NEW requests \in Seq(Requests)
  PROVE  \E h : Retagging(store, requests, h)
               /\ Tagged(store, requests) = h[Len(requests)]
  <1> DEFINE n == Len(requests)
             step == [p \in Results \X (1 .. n) |->
                        Retagged(p[1], requests[p[2]])]
  <1>1. /\ n \in Nat /\ DOMAIN requests = 1 .. n
        /\ \A k \in 1 .. n : requests[k] \in Requests
    OBVIOUS
  <1>2. step \in [Results \X (1 .. n) -> Results]
    <2>1. \A p \in Results \X (1 .. n) :
             Retagged(p[1], requests[p[2]]) \in Results
      <3> SUFFICES ASSUME NEW p \in Results \X (1 .. n)
                   PROVE  Retagged(p[1], requests[p[2]]) \in Results
        OBVIOUS
      <3>1. p[1] \in Results /\ requests[p[2]] \in Requests
        <4> HIDE DEF n
        <4> QED
          BY <1>1
      <3> QED
        BY <3>1, RetaggedType DEF Requests, Results
    <2> QED
      BY <2>1
  <1>3. PICK g : Stepwise(Results, n, store, step, g)
    <2> HIDE DEF step, n
    <2> QED
      BY <1>1, <1>2, FoldValues
  <1>4. ASSUME NEW s \in SUBSET (1 .. n), s # {}
        PROVE  g[s] = Retagged(g[s \ {Max(s)}], requests[Max(s)])
    <2>1. PICK x \in 1 .. n : x = Max(s) /\ g[s \ {x}] \in Results
                             /\ g[s] = step[<<g[s \ {x}], x>>]
      <3> HIDE DEF step
      <3> QED
        BY <1>3, <1>4 DEF Stepwise
    <2> QED
      BY <2>1
  <1> HIDE DEF step
  <1>5. TagFold(store, requests, g)
    <2>1. g = [s \in SUBSET (1 .. n) |->
                 IF s = {} THEN store
                 ELSE Retagged(g[s \ {Max(s)}], requests[Max(s)])]
      <3> HIDE DEF n
      <3> QED
        BY <1>3, <1>4 DEF Stepwise
    <2> QED
      BY <1>1, <2>1, Zenon DEF TagFold
  <1>6. PICK f : TagFold(store, requests, f)
               /\ Tagged(store, requests) = f[1 .. n]
    BY <1>1, <1>5, TaggedFolds
  <1> DEFINE h == [k \in 0 .. n |-> f[1 .. k]]
  <1>7. h[0] = store
    <2>1. h[0] = f[{}]
      BY <1>1, FirstPositions
    <2>2. {} \in SUBSET DOMAIN requests
      OBVIOUS
    <2>3. f[{}] = store
      BY <1>6, <2>2, Zenon DEF TagFold
    <2> QED
      BY <2>1, <2>3
  <1>8. ASSUME NEW k \in 1 .. n PROVE h[k] = Retagged(h[k - 1], requests[k])
    <2>1. /\ 1 .. k \in SUBSET (1 .. n) /\ 1 .. k # {}
          /\ Max(1 .. k) = k /\ (1 .. k) \ {k} = 1 .. (k - 1)
      BY <1>1, FirstPositions
    <2>2. PICK s : s = 1 .. k
      OBVIOUS
    <2>3. s \in SUBSET DOMAIN requests /\ s # {} /\ Max(s) = k
      BY <1>1, <2>1, <2>2
    <2>4. f[s] = Retagged(f[s \ {k}], requests[k])
      BY <1>6, <2>3, Zenon DEF TagFold
    <2>5. h[k] = f[s] /\ h[k - 1] = f[s \ {k}]
      BY <1>1, <2>1, <2>2
    <2> QED
      BY <2>4, <2>5
  <1>9. h[n] = f[1 .. n]
    BY <1>1
  <1> HIDE DEF h
  <1> QED
    BY <1>6, <1>7, <1>8, <1>9 DEF Retagging

\* filterSelf.
FilterFold(records, t, iter) ==
  iter = [s \in SUBSET DOMAIN records |->
            IF s = {} THEN << >>
            ELSE LET x == Max(s)
                 IN  IF t \in records[x].tags THEN iter[s \ {x}]
                     ELSE Append(iter[s \ {x}], records[x])]

\* filterSelf is such a fold, once there is one.
LEMMA UntaggedFolds ==
  ASSUME NEW records, NEW t, NEW g, FilterFold(records, t, g)
  PROVE  \E h : FilterFold(records, t, h)
               /\ Untagged(records, t) = h[DOMAIN records]
  <1> DEFINE h == CHOOSE iter : FilterFold(records, t, iter)
  <1>1. FilterFold(records, t, h)
    BY Zenon
  <1>2. Untagged(records, t) = h[DOMAIN records]
    BY Zenon DEF Untagged, FoldLeft, MapThenFoldSet, FilterFold
  <1> QED
    BY <1>1, <1>2, Zenon

\* One step of it.
Kept(t, kept, r) == IF t \in r.tags THEN kept ELSE Append(kept, r)

\* What is kept are records.
LEMMA KeptType ==
  ASSUME NEW t, NEW kept \in Seq(Records), NEW r \in Records
  PROVE  Kept(t, kept, r) \in Seq(Records)
  BY DEF Kept

\* filterSelf looks at one record after the other.
LEMMA UntaggedSteps ==
  ASSUME NEW records \in Seq(Records), NEW t
  PROVE  \E h : Filtering(records, t, h)
               /\ Untagged(records, t) = h[Len(records)]
  <1> DEFINE n == Len(records)
             step == [p \in Seq(Records) \X (1 .. n) |->
                        Kept(t, p[1], records[p[2]])]
  <1>1. /\ n \in Nat /\ DOMAIN records = 1 .. n
        /\ \A k \in 1 .. n : records[k] \in Records
    OBVIOUS
  <1>2. step \in [Seq(Records) \X (1 .. n) -> Seq(Records)]
    <2>1. \A p \in Seq(Records) \X (1 .. n) :
             Kept(t, p[1], records[p[2]]) \in Seq(Records)
      <3> SUFFICES ASSUME NEW p \in Seq(Records) \X (1 .. n)
                   PROVE  Kept(t, p[1], records[p[2]]) \in Seq(Records)
        OBVIOUS
      <3>1. p[1] \in Seq(Records) /\ records[p[2]] \in Records
        BY <1>1
      <3> QED
        BY <3>1, KeptType
    <2> QED
      BY <2>1
  <1>3. PICK g : Stepwise(Seq(Records), n, << >>, step, g)
    <2>1. << >> \in Seq(Records)
      OBVIOUS
    <2> HIDE DEF step, n
    <2> QED
      BY <1>1, <1>2, <2>1, FoldValues
  <1>4. ASSUME NEW s \in SUBSET (1 .. n), s # {}
        PROVE  g[s] = Kept(t, g[s \ {Max(s)}], records[Max(s)])
    <2>1. PICK x \in 1 .. n : x = Max(s) /\ g[s \ {x}] \in Seq(Records)
                             /\ g[s] = step[<<g[s \ {x}], x>>]
      <3> HIDE DEF step
      <3> QED
        BY <1>3, <1>4 DEF Stepwise
    <2> QED
      BY <2>1
  <1> HIDE DEF step
  <1>5. FilterFold(records, t, g)
    <2>1. g = [s \in SUBSET (1 .. n) |->
                 IF s = {} THEN << >>
                 ELSE Kept(t, g[s \ {Max(s)}], records[Max(s)])]
      <3> HIDE DEF n
      <3> QED
        BY <1>3, <1>4 DEF Stepwise
    <2> QED
      BY <1>1, <2>1, Zenon DEF FilterFold, Kept
  <1>6. PICK f : FilterFold(records, t, f) /\ Untagged(records, t) = f[1 .. n]
    BY <1>1, <1>5, UntaggedFolds
  <1> DEFINE h == [k \in 0 .. n |-> f[1 .. k]]
  <1>7. h[0] = << >>
    <2>1. h[0] = f[{}]
      BY <1>1, FirstPositions
    <2>2. {} \in SUBSET DOMAIN records
      OBVIOUS
    <2>3. f[{}] = << >>
      BY <1>6, <2>2, Zenon DEF FilterFold, Kept
    <2> QED
      BY <2>1, <2>3
  <1>8. ASSUME NEW k \in 1 .. n PROVE h[k] = Kept(t, h[k - 1], records[k])
    <2>1. /\ 1 .. k \in SUBSET (1 .. n) /\ 1 .. k # {}
          /\ Max(1 .. k) = k /\ (1 .. k) \ {k} = 1 .. (k - 1)
      BY <1>1, FirstPositions
    <2>2. PICK s : s = 1 .. k
      OBVIOUS
    <2>3. s \in SUBSET DOMAIN records /\ s # {} /\ Max(s) = k
      BY <1>1, <2>1, <2>2
    <2>4. f[s] = Kept(t, f[s \ {k}], records[k])
      BY <1>6, <2>3, Zenon DEF FilterFold, Kept
    <2>5. h[k] = f[s] /\ h[k - 1] = f[s \ {k}]
      BY <1>1, <2>1, <2>2
    <2> QED
      BY <2>4, <2>5
  <1>9. h[n] = f[1 .. n]
    BY <1>1
  <1> HIDE DEF h
  <1> QED
    BY <1>6, <1>7, <1>8, <1>9 DEF Filtering, Kept

-----------------------------------------------------------------------------
\* The page of a file in some records: that of its last record.

Content(r) == [tags |-> r.tags, payload |-> r.payload]
Nothing == [tags |-> {}, payload |-> << >>]

At(records, f) == {k \in DOMAIN records : records[k].file = f}

LastPage(records, f) ==
  IF At(records, f) = {} THEN Nothing
  ELSE LET k == CHOOSE m \in At(records, f) : \A n \in At(records, f) : n <= m
       IN  Content(records[k])

\* Position k has the last record of a file.
IsLast(records, f, k) ==
  /\ k \in DOMAIN records /\ records[k].file = f
  /\ \A m \in DOMAIN records : records[m].file = f => m <= k

\* PageOf is the page in the records of the store.
LEMMA PageOfIsLast ==
  ASSUME NEW f PROVE PageOf(f) = LastPage(assets, f)
  BY DEF PageOf, LastPage, Positions, At, Content, Nothing

\* The page of a file, by the position of its last record; ...
LEMMA PageAt ==
  ASSUME NEW records \in Seq(Records), NEW f, NEW k, IsLast(records, f, k)
  PROVE  LastPage(records, f) = Content(records[k])
  <1>1. \A m \in DOMAIN records : m \in Int
    OBVIOUS
  <1>2. k \in At(records, f) /\ \A m \in At(records, f) : m <= k
    BY DEF IsLast, At
  <1>3. \A m \in At(records, f) :
          (\A n \in At(records, f) : n <= m) => m = k
    BY <1>1, <1>2 DEF At
  <1>4. k = CHOOSE m \in At(records, f) : \A n \in At(records, f) : n <= m
    BY <1>2, <1>3
  <1> QED
    BY <1>2, <1>4 DEF LastPage

\* ... and a file without a record has none.
LEMMA PageOfNone ==
  ASSUME NEW records, NEW f, \A k \in DOMAIN records : records[k].file # f
  PROVE  LastPage(records, f) = Nothing
  BY DEF LastPage, At

\* If a file has a record it has a last one.
LEMMA SomeLast ==
  ASSUME NEW records \in Seq(Records), NEW f,
         NEW m \in DOMAIN records, records[m].file = f
  PROVE  \E k : IsLast(records, f, k)
  <1> DEFINE n == Len(records)
  <1>1. n \in Nat /\ DOMAIN records = 1 .. n
    OBVIOUS
  <1>2. At(records, f) \in SUBSET (1 .. n) /\ At(records, f) # {}
    BY <1>1 DEF At
  <1>3. PICK k \in At(records, f) : \A y \in At(records, f) : y <= k
    <2> HIDE DEF n
    <2> QED
      BY <1>1, <1>2, MaxOfPositions
  <1> QED
    BY <1>3 DEF At, IsLast

\* Records under the same filenames, and the same for one of them.
LEMMA SamePages ==
  ASSUME NEW p \in Seq(Records), NEW q \in Seq(Records), Len(p) = Len(q),
         \A k \in 1 .. Len(p) : p[k].file = q[k].file
  PROVE  /\ \A f, k : IsLast(p, f, k) <=> IsLast(q, f, k)
         /\ \A f : (\A k \in 1 .. Len(p) :
                      p[k].file = f => Content(p[k]) = Content(q[k]))
                   => LastPage(p, f) = LastPage(q, f)
  <1>1. DOMAIN p = 1 .. Len(p) /\ DOMAIN q = 1 .. Len(p)
    OBVIOUS
  <1>2. \A f, k : IsLast(p, f, k) <=> IsLast(q, f, k)
    BY <1>1 DEF IsLast
  <1>3. ASSUME NEW f, \A k \in 1 .. Len(p) :
                        p[k].file = f => Content(p[k]) = Content(q[k])
        PROVE  LastPage(p, f) = LastPage(q, f)
    <2>1. CASE \A k \in 1 .. Len(p) : p[k].file # f
      BY <1>1, <2>1, PageOfNone
    <2>2. CASE \E m \in 1 .. Len(p) : p[m].file = f
      <3>1. PICK k : IsLast(p, f, k)
        BY <1>1, <2>2, SomeLast
      <3>2. IsLast(q, f, k) /\ Content(p[k]) = Content(q[k])
        BY <1>1, <1>2, <1>3, <3>1 DEF IsLast
      <3> QED
        BY <3>1, <3>2, PageAt
    <2> QED
      BY <2>1, <2>2
  <1> QED
    BY <1>2, <1>3

\* One more record is the last one of its file and of no other.
LEMMA AppendPage ==
  ASSUME NEW q \in Seq(Records), NEW r \in Records
  PROVE  /\ \A f, k : f # r.file => (IsLast(Append(q, r), f, k)
                                      <=> IsLast(q, f, k))
         /\ IsLast(Append(q, r), r.file, Len(q) + 1)
         /\ \A f : LastPage(Append(q, r), f)
                     = IF f = r.file THEN Content(r) ELSE LastPage(q, f)
  <1> DEFINE a == Append(q, r)
             n == Len(q)
  <1>1. /\ n \in Nat /\ DOMAIN q = 1 .. n /\ DOMAIN a = 1 .. n + 1
        /\ a \in Seq(Records) /\ a[n + 1] = r
        /\ \A k \in 1 .. n : a[k] = q[k]
    OBVIOUS
  <1> HIDE DEF a, n
  <1>2. ASSUME NEW f, NEW k, f # r.file
        PROVE  IsLast(a, f, k) <=> IsLast(q, f, k)
    BY <1>1, <1>2 DEF IsLast
  <1>3. IsLast(a, r.file, n + 1)
    BY <1>1 DEF IsLast
  <1>4. LastPage(a, r.file) = Content(r)
    BY <1>1, <1>3, PageAt
  <1>5. ASSUME NEW f, f # r.file
        PROVE  LastPage(a, f) = LastPage(q, f)
    <2>1. CASE \A k \in 1 .. n : q[k].file # f
      <3>1. \A k \in DOMAIN a : a[k].file # f
        BY <1>1, <1>5, <2>1
      <3> QED
        BY <1>1, <2>1, <3>1, PageOfNone
    <2>2. CASE \E m \in 1 .. n : q[m].file = f
      <3>1. PICK k : IsLast(q, f, k)
        BY <1>1, <2>2, SomeLast
      <3>2. k \in 1 .. n
        BY <1>1, <3>1 DEF IsLast
      <3>3. LastPage(q, f) = Content(q[k])
        BY <3>1, PageAt
      <3>4. LastPage(a, f) = Content(a[k])
        BY <1>1, <1>2, <1>5, <3>1, PageAt
      <3> QED
        BY <1>1, <3>2, <3>3, <3>4
    <2> QED
      BY <2>1, <2>2
  <1> QED
    BY <1>2, <1>3, <1>4, <1>5 DEF a, n

-----------------------------------------------------------------------------
\* Records and index agree: the index names the last record of a file, and a
\* record that is not the one the index names has no content.
Sound(store) ==
  /\ \A f \in DOMAIN store.files : IsLast(store.assets, f, store.files[f])
  /\ \A k \in DOMAIN store.assets :
       LET r == store.assets[k] IN
       \/ r.file \in DOMAIN store.files /\ store.files[r.file] = k
       \/ Content(r) = Nothing

\* The page of a file is the one the index names.
LEMMA SoundPage ==
  ASSUME NEW store \in Stores, Sound(store), NEW f
  PROVE  /\ f \in DOMAIN store.files =>
              LastPage(store.assets, f) = Content(store.assets[store.files[f]])
         /\ f \notin DOMAIN store.files => LastPage(store.assets, f) = Nothing
  <1>1. store.assets \in Seq(Records)
    BY DEF Stores
  <1>2. CASE f \in DOMAIN store.files
    BY <1>1, <1>2, PageAt DEF Sound
  <1>3. CASE f \notin DOMAIN store.files
    <2>1. CASE \A k \in DOMAIN store.assets : store.assets[k].file # f
      BY <1>3, <2>1, PageOfNone
    <2>2. CASE \E m \in DOMAIN store.assets : store.assets[m].file = f
      <3>1. PICK k : IsLast(store.assets, f, k)
        BY <1>1, <2>2, SomeLast
      <3>2. k \in DOMAIN store.assets /\ store.assets[k].file = f
        BY <3>1 DEF IsLast
      <3>3. Content(store.assets[k]) = Nothing
        BY <1>3, <3>2 DEF Sound
      <3> QED
        BY <1>1, <1>3, <3>1, <3>3, PageAt
    <2> QED
      BY <2>1, <2>2
  <1> QED
    BY <1>2, <1>3

\* An empty store agrees with itself.
LEMMA EmptyStoreSound == Sound(EmptyStore)
  BY DEF Sound, EmptyStore

\* A record that is put keeps that, and changes the page of its file only.
PutRight(store, r, next) ==
  /\ next \in Stores /\ Sound(next)
  /\ DOMAIN next.files = DOMAIN store.files \cup {r.file}
  /\ \A f : LastPage(next.assets, f)
              = IF f = r.file THEN Content(r) ELSE LastPage(store.assets, f)

\* _putAsset does so.
LEMMA PutKeepsSound ==
  ASSUME NEW store \in Stores, Sound(store), NEW r \in Records
  PROVE  PutRight(store, r, Put(store, r))
  <1> DEFINE n == Len(store.assets)
  <1>1. /\ store.assets \in Seq(Records) /\ n \in Nat
        /\ DOMAIN store.assets = 1 .. n
    BY DEF Stores
  <1>2. Put(store, r) \in Stores
    BY PutType
  <1>3. \A f \in DOMAIN store.files :
          /\ IsLast(store.assets, f, store.files[f])
          /\ store.files[f] \in 1 .. n
          /\ store.assets[store.files[f]].file = f
    BY <1>1 DEF Sound, IsLast
  <1>4. CASE ~ Indexed(store, r.file)
    <2>1. PICK a : a = Append(store.assets, r)
      OBVIOUS
    <2>2. PICK i : i = [f \in DOMAIN store.files \cup {r.file} |->
                          IF f = r.file THEN n + 1 ELSE store.files[f]]
      OBVIOUS
    <2>3. Put(store, r) = [assets |-> a, files |-> i]
      BY <1>4, <2>1, <2>2 DEF Put
    <2>4. /\ a \in Seq(Records) /\ DOMAIN a = 1 .. n + 1
          /\ a[n + 1] = r /\ \A k \in 1 .. n : a[k] = store.assets[k]
      BY <1>1, <2>1
    <2>5. /\ DOMAIN i = DOMAIN store.files \cup {r.file}
          /\ i[r.file] = n + 1
          /\ \A f \in DOMAIN store.files :
               f # r.file /\ i[f] = store.files[f]
      BY <1>4, <2>2 DEF Indexed
    <2>6. \A f \in DOMAIN i : IsLast(a, f, i[f])
      <3>1. IsLast(a, r.file, n + 1)
        BY <1>1, <2>1, AppendPage
      <3>2. ASSUME NEW f \in DOMAIN store.files
            PROVE  IsLast(a, f, i[f])
        BY <1>1, <1>3, <2>1, <2>5, AppendPage
      <3> QED
        BY <2>5, <3>1, <3>2
    <2>7. ASSUME NEW k \in DOMAIN a
          PROVE  \/ a[k].file \in DOMAIN i /\ i[a[k].file] = k
                 \/ Content(a[k]) = Nothing
      <3>1. CASE k = n + 1
        BY <2>4, <2>5, <3>1
      <3>2. CASE k \in 1 .. n
        BY <1>1, <2>4, <2>5, <3>2 DEF Sound
      <3> QED
        BY <1>1, <2>4, <3>1, <3>2
    <2>8. \A f : LastPage(a, f) = IF f = r.file THEN Content(r)
                                  ELSE LastPage(store.assets, f)
      BY <1>1, <2>1, AppendPage
    <2> QED
      BY <1>2, <2>3, <2>5, <2>6, <2>7, <2>8 DEF PutRight, Sound
  <1>5. CASE Indexed(store, r.file)
    <2>1. PICK p : p = store.files[r.file]
      OBVIOUS
    <2>2. PICK a : a = [store.assets EXCEPT ![p] = r]
      OBVIOUS
    <2>3. Put(store, r) = [assets |-> a, files |-> store.files]
      <3>1. InRange(store, r.file)
        BY <1>1, <1>3, <1>5 DEF Indexed, InRange
      <3>2. store = [assets |-> store.assets, files |-> store.files]
        BY DEF Stores
      <3> QED
        BY <1>5, <2>1, <2>2, <3>1, <3>2 DEF Put
    <2>4. /\ a \in Seq(Records) /\ Len(a) = n
          /\ \A k \in 1 .. n : a[k] = IF k = p THEN r ELSE store.assets[k]
      BY <1>1, <2>2, EntryReplaced
    <2>5. DOMAIN a = 1 .. n
      BY <2>4
    <2>6. /\ p \in 1 .. n /\ IsLast(store.assets, r.file, p)
          /\ store.assets[p].file = r.file
      BY <1>3, <1>5, <2>1 DEF Indexed
    <2>7. \A k \in 1 .. n : store.assets[k].file = a[k].file
      BY <2>4, <2>6
    <2>8. \A f, k : IsLast(store.assets, f, k) <=> IsLast(a, f, k)
      BY <1>1, <2>4, <2>7, SamePages
    <2>9. ASSUME NEW k \in DOMAIN a
          PROVE  \/ /\ a[k].file \in DOMAIN store.files
                    /\ store.files[a[k].file] = k
                 \/ Content(a[k]) = Nothing
      <3>1. CASE k = p
        BY <1>5, <2>1, <2>4, <2>6, <3>1 DEF Indexed
      <3>2. CASE k # p
        BY <1>1, <2>4, <2>5, <3>2 DEF Sound
      <3> QED
        BY <3>1, <3>2
    <2>10. LastPage(a, r.file) = Content(r)
      BY <2>4, <2>6, <2>8, PageAt
    <2>11. ASSUME NEW f, f # r.file
           PROVE  LastPage(a, f) = LastPage(store.assets, f)
      <3>1. \A k \in 1 .. n : store.assets[k].file = f =>
              Content(store.assets[k]) = Content(a[k])
        BY <2>4, <2>6, <2>11
      <3> QED
        BY <1>1, <2>4, <2>7, <3>1, SamePages
    <2>12. r.file \in DOMAIN store.files
      BY <1>5 DEF Indexed
    <2> QED
      BY <1>2, <1>3, <2>3, <2>8, <2>9, <2>10, <2>11, <2>12
         DEF PutRight, Sound
  <1> QED
    BY <1>4, <1>5

-----------------------------------------------------------------------------
\* The first records.
LEMMA FirstRecords ==
  ASSUME NEW records \in Seq(Records)
  PROVE  /\ SubSeq(records, 1, 0) = << >>
         /\ SubSeq(records, 1, Len(records)) = records
         /\ \A k \in 1 .. Len(records) :
              /\ SubSeq(records, 1, k - 1) \in Seq(Records)
              /\ DOMAIN SubSeq(records, 1, k - 1) = 1 .. k - 1
              /\ \A m \in 1 .. k - 1 :
                   SubSeq(records, 1, k - 1)[m] = records[m]
              /\ SubSeq(records, 1, k)
                   = Append(SubSeq(records, 1, k - 1), records[k])
  OBVIOUS

\* Nothing is recorded yet.
LEMMA PageOfEmpty == \A f : LastPage(<< >>, f) = Nothing
  BY DEF LastPage, At

\* restore: whatever the records of a backup are, what it makes of them is
\* sound, and every file has the page it had.
RestoredRight(records, store) ==
  /\ store \in Stores /\ Sound(store)
  /\ \A f : LastPage(store.assets, f) = LastPage(records, f)

\* By induction over the records that are put.
LEMMA RestoredKeepsPages ==
  ASSUME NEW records \in Seq(Records)
  PROVE  RestoredRight(records, Restored(records))
  <1> DEFINE n == Len(records)
             P(k) == SubSeq(records, 1, k)
  <1>1. n \in Nat /\ \A k \in 1 .. n : records[k] \in Records
    OBVIOUS
  <1>2. PICK h : Putting(records, h) /\ Restored(records) = h[n]
    BY RestoredSteps
  <1> DEFINE S == {k \in Nat : k <= n => RestoredRight(P(k), h[k])}
  <1>3. 0 \in S
    <2>0. P(0) = << >>
      BY FirstRecords, Zenon
    <2>1. h[0] = EmptyStore /\ P(0) = << >>
      <3> HIDE DEF P
      <3> QED
        BY <1>2, <2>0 DEF Putting
    <2>2. EmptyStore.assets = << >>
      BY DEF EmptyStore
    <2> HIDE DEF P
    <2>3. RestoredRight(P(0), h[0])
      BY <2>1, <2>2, EmptyStoreType, EmptyStoreSound DEF RestoredRight
    <2> QED
      BY <2>3
  <1>4. ASSUME NEW m \in Nat, m \in S PROVE m + 1 \in S
    <2> SUFFICES ASSUME m + 1 <= n PROVE RestoredRight(P(m + 1), h[m + 1])
      <3> HIDE DEF P, n
      <3> QED
        OBVIOUS
    <2>1. PICK k \in 1 .. n : k = m + 1 /\ k - 1 = m
      <3> HIDE DEF P, n
      <3> QED
        BY <1>1
    <2>2. RestoredRight(P(m), h[m])
      <3> HIDE DEF P, n
      <3> QED
        BY <1>1, <1>4
    <2>3. /\ P(m) \in Seq(Records) /\ records[k] \in Records
          /\ P(k) = Append(P(m), records[k])
      <3>1. P(k - 1) \in Seq(Records) /\ P(k) = Append(P(k - 1), records[k])
        BY FirstRecords, Zenon
      <3> HIDE DEF P, n
      <3> QED
        BY <1>1, <2>1, <3>1
    <2>4. h[k] = Put(h[m], records[k])
      BY <1>2, <2>1 DEF Putting
    <2> HIDE DEF P, n
    <2>5. PutRight(h[m], records[k], h[k])
      BY <2>2, <2>3, <2>4, PutKeepsSound DEF RestoredRight
    <2>6. \A f : LastPage(P(k), f) = IF f = records[k].file
                                     THEN Content(records[k])
                                     ELSE LastPage(P(m), f)
      BY <2>3, AppendPage
    <2>7. \A f : LastPage(h[k].assets, f) = LastPage(P(k), f)
      BY <2>2, <2>5, <2>6 DEF PutRight, RestoredRight
    <2> QED
      BY <2>1, <2>5, <2>7 DEF PutRight, RestoredRight
  <1>5. Nat \subseteq S
    <2> HIDE DEF S
    <2> QED
      BY <1>3, <1>4, SetInduction
  <1>6. RestoredRight(P(n), h[n])
    <2> HIDE DEF P, n
    <2> QED
      BY <1>1, <1>5
  <1>7. P(n) = records
    BY FirstRecords, Zenon
  <1> HIDE DEF P, n
  <1> QED
    BY <1>2, <1>6, <1>7

\* In a sound store, what stands before a record with content is blank.
LEMMA EarlierIsBlank ==
  ASSUME NEW store \in Stores, Sound(store), NEW k \in 1 .. Len(store.assets),
         Content(store.assets[k]) # Nothing
  PROVE  LastPage(SubSeq(store.assets, 1, k - 1), store.assets[k].file)
           = Nothing
  <1> DEFINE a == store.assets
             q == SubSeq(a, 1, k - 1)
             f == a[k].file
  <1>1. a \in Seq(Records) /\ DOMAIN a = 1 .. Len(a) /\ Len(a) \in Nat
    BY DEF Stores
  <1>2. /\ q \in Seq(Records) /\ DOMAIN q = 1 .. k - 1
        /\ \A m \in 1 .. k - 1 : m \in 1 .. Len(a) /\ m # k /\ q[m] = a[m]
    <2>1. /\ q \in Seq(Records) /\ DOMAIN q = 1 .. k - 1
          /\ \A m \in 1 .. k - 1 : q[m] = a[m]
      BY <1>1, FirstRecords, Zenon
    <2>2. \A m \in 1 .. k - 1 : m \in 1 .. Len(a) /\ m # k
      BY <1>1
    <2> HIDE DEF q, a
    <2> QED
      BY <2>1, <2>2
  <1>3. f \in DOMAIN store.files /\ store.files[f] = k
    BY <1>1 DEF Sound
  <1>4. ASSUME NEW m \in 1 .. k - 1, a[m].file = f
        PROVE  Content(a[m]) = Nothing
    BY <1>1, <1>2, <1>3, <1>4 DEF Sound
  <1> HIDE DEF a, q, f
  <1>5. CASE \A m \in DOMAIN q : q[m].file # f
    BY <1>5, PageOfNone DEF a, q, f
  <1>6. CASE \E m \in DOMAIN q : q[m].file = f
    <2>1. PICK m : IsLast(q, f, m)
      BY <1>2, <1>6, SomeLast
    <2>2. Content(q[m]) = Nothing
      BY <1>2, <1>4, <2>1 DEF IsLast
    <2>3. LastPage(q, f) = Nothing
      BY <1>2, <2>1, <2>2, PageAt
    <2> QED
      BY <2>3 DEF a, q, f
  <1> QED
    BY <1>5, <1>6

\* filterSelf: the pages with the tag go, and no other.
UntaggedRight(records, t, kept) ==
  /\ kept \in Seq(Records)
  /\ \A f : LastPage(kept, f) = IF t \in LastPage(records, f).tags
                                THEN Nothing ELSE LastPage(records, f)

\* By induction over the records: what stands before a record with the tag
\* is blank, so its page is nothing once it is dropped.
LEMMA UntaggedPages ==
  ASSUME NEW store \in Stores, Sound(store), NEW t
  PROVE  UntaggedRight(store.assets, t, Untagged(store.assets, t))
  <1> DEFINE a == store.assets
             n == Len(a)
             P(k) == SubSeq(a, 1, k)
  <1>1. a \in Seq(Records) /\ n \in Nat /\ \A k \in 1 .. n : a[k] \in Records
    BY DEF Stores
  <1>2. PICK h : Filtering(a, t, h) /\ Untagged(a, t) = h[n]
    BY <1>1, UntaggedSteps
  <1> DEFINE S == {k \in Nat : k <= n => UntaggedRight(P(k), t, h[k])}
  <1>3. 0 \in S
    <2>0. P(0) = << >>
      BY <1>1, FirstRecords, Zenon
    <2>1. h[0] = << >> /\ P(0) = << >> /\ << >> \in Seq(Records)
      <3> HIDE DEF P
      <3> QED
        BY <1>2, <2>0 DEF Filtering
    <2>2. t \notin Nothing.tags
      BY DEF Nothing
    <2> HIDE DEF P
    <2>3. UntaggedRight(P(0), t, h[0])
      BY <2>1, <2>2, PageOfEmpty DEF UntaggedRight
    <2> QED
      BY <2>3
  <1>4. ASSUME NEW m \in Nat, m \in S PROVE m + 1 \in S
    <2> SUFFICES ASSUME m + 1 <= n PROVE UntaggedRight(P(m + 1), t, h[m + 1])
      <3> HIDE DEF P, n
      <3> QED
        OBVIOUS
    <2>1. PICK k \in 1 .. n : k = m + 1 /\ k - 1 = m
      <3> HIDE DEF P, n
      <3> QED
        BY <1>1
    <2>2. UntaggedRight(P(m), t, h[m])
      <3> HIDE DEF P, n
      <3> QED
        BY <1>1, <1>4
    <2>3. /\ P(m) \in Seq(Records) /\ a[k] \in Records
          /\ P(k) = Append(P(m), a[k])
      <3>1. P(k - 1) \in Seq(Records) /\ P(k) = Append(P(k - 1), a[k])
        BY <1>1, FirstRecords, Zenon
      <3> HIDE DEF P, n
      <3> QED
        BY <1>1, <2>1, <3>1
    <2>4. h[k] = IF t \in a[k].tags THEN h[m] ELSE Append(h[m], a[k])
      BY <1>2, <2>1 DEF Filtering
    <2>5. t \in a[k].tags => LastPage(P(m), a[k].file) = Nothing
      <3> SUFFICES ASSUME t \in a[k].tags
                   PROVE  LastPage(P(m), a[k].file) = Nothing
        OBVIOUS
      <3>1. Content(a[k]) # Nothing
        BY DEF Content, Nothing
      <3> QED
        BY <2>1, <3>1, EarlierIsBlank
    <2> HIDE DEF P, n, a
    <2>6. \A f : LastPage(P(k), f) = IF f = a[k].file THEN Content(a[k])
                                     ELSE LastPage(P(m), f)
      BY <2>3, AppendPage
    <2>7. h[m] \in Seq(Records)
      BY <2>2 DEF UntaggedRight
    <2>8. /\ t \notin Nothing.tags
          /\ (t \in a[k].tags <=> t \in Content(a[k]).tags)
      BY DEF Nothing, Content
    <2>9. CASE t \in a[k].tags
      BY <2>1, <2>2, <2>4, <2>5, <2>6, <2>8, <2>9 DEF UntaggedRight
    <2>10. CASE t \notin a[k].tags
      <3>1. h[k] = Append(h[m], a[k])
        BY <2>4, <2>10
      <3>2. \A f : LastPage(h[k], f) = IF f = a[k].file THEN Content(a[k])
                                       ELSE LastPage(h[m], f)
        BY <2>3, <2>7, <3>1, AppendPage
      <3>3. h[k] \in Seq(Records)
        BY <2>3, <2>7, <3>1
      <3> QED
        BY <2>1, <2>2, <2>6, <2>8, <2>10, <3>2, <3>3 DEF UntaggedRight
    <2> QED
      BY <2>9, <2>10
  <1>5. Nat \subseteq S
    <2> HIDE DEF S
    <2> QED
      BY <1>3, <1>4, SetInduction
  <1>6. UntaggedRight(P(n), t, h[n])
    <2> HIDE DEF P, n
    <2> QED
      BY <1>1, <1>5
  <1>7. P(n) = a
    BY <1>1, FirstRecords, Zenon
  <1> HIDE DEF P, n
  <1> QED
    BY <1>2, <1>6, <1>7

-----------------------------------------------------------------------------
\* assetsTag: of some files that have a page the tags are set, if nothing traps.
TaggedBy(store, next, fs, tagging) ==
  /\ next \in Stores /\ Sound(next)
  /\ DOMAIN next.files = DOMAIN store.files
  /\ \A f : LastPage(next.assets, f) =
       IF f \in fs /\ f \in DOMAIN store.files
       THEN [tags |-> tagging[f],
             payload |-> LastPage(store.assets, f).payload]
       ELSE LastPage(store.assets, f)

TaggedRight(store, next) ==
  \/ next = None
  \/ \E fs \in SUBSET Files : \E tagging \in [fs -> SUBSET Tags] :
       TaggedBy(store, next, fs, tagging)

\* One pair more.
LEMMA RetaggedRight ==
  ASSUME NEW store \in Stores, NEW s, TaggedRight(store, s),
         NEW request \in Requests
  PROVE  TaggedRight(store, Retagged(s, request))
  <1> DEFINE f == request.file
             next == Retagged(s, request)
  <1>1. f \in Files /\ request.tags \in SUBSET Tags
    BY DEF Requests
  <1>2. CASE s = None
    BY <1>2 DEF Retagged, TaggedRight
  <1>3. CASE s # None
    <2>0. PICK fs \in SUBSET Files :
            \E tagging \in [fs -> SUBSET Tags] : TaggedBy(store, s, fs, tagging)
      BY <1>3 DEF TaggedRight
    <2>1. PICK tagging \in [fs -> SUBSET Tags] :
            TaggedBy(store, s, fs, tagging)
      BY <2>0
    <2>2. s \in Stores /\ Sound(s) /\ DOMAIN s.files = DOMAIN store.files
      BY <2>1 DEF TaggedBy
    <2>3. PICK gs \in SUBSET Files : gs = fs \cup {f}
      BY <1>1
    <2>4. PICK more : more = [g \in gs |-> IF g = f THEN request.tags
                                           ELSE tagging[g]]
      OBVIOUS
    <2>5. /\ more \in [gs -> SUBSET Tags] /\ more[f] = request.tags
          /\ \A g \in fs : g # f => more[g] = tagging[g]
      BY <1>1, <2>3, <2>4
    <2>6. CASE f \in DOMAIN store.files
      <3>1. PICK p : p = s.files[f]
        OBVIOUS
      <3>2. /\ IsLast(s.assets, f, p) /\ p \in 1 .. Len(s.assets)
            /\ s.assets[p].file = f /\ s.assets[p] \in Records
        BY <2>2, <2>6, <3>1 DEF Sound, IsLast, Stores
      <3>3. PICK r : r = [s.assets[p] EXCEPT !.tags = request.tags]
        OBVIOUS
      <3>4. /\ r \in Records /\ r.file = f /\ r.tags = request.tags
            /\ r.payload = s.assets[p].payload
        BY <1>1, <3>2, <3>3 DEF Records
      <3>5. next = Put(s, r)
        BY <1>3, <2>2, <2>6, <3>1, <3>2, <3>3
           DEF Retagged, Indexed, InRange
      <3>6. PutRight(s, r, next)
        BY <2>2, <3>4, <3>5, PutKeepsSound
      <3>7. LastPage(s.assets, f).payload = r.payload
        <4>1. LastPage(s.assets, f) = Content(s.assets[p])
          BY <2>2, <3>2, PageAt DEF Stores
        <4> QED
          BY <3>4, <4>1 DEF Content
      <3>8. LastPage(store.assets, f).payload = r.payload
        <4>1. \/ LastPage(s.assets, f) =
                   [tags |-> tagging[f],
                    payload |-> LastPage(store.assets, f).payload]
              \/ LastPage(s.assets, f) = LastPage(store.assets, f)
          BY <2>1, Zenon DEF TaggedBy
        <4> HIDE DEF f
        <4> QED
          BY <3>7, <4>1
      <3>9. Content(r) = [tags |-> more[f],
                          payload |-> LastPage(store.assets, f).payload]
        BY <2>5, <3>4, <3>8 DEF Content
      <3> HIDE DEF f, next
      <3>10. ASSUME NEW g
             PROVE  LastPage(next.assets, g) =
                      IF g \in gs /\ g \in DOMAIN store.files
                      THEN [tags |-> more[g],
                            payload |-> LastPage(store.assets, g).payload]
                      ELSE LastPage(store.assets, g)
        <4>1. CASE g = f
          BY <2>3, <2>6, <3>4, <3>6, <3>9, <4>1 DEF PutRight
        <4>2. CASE g # f
          <5>1. LastPage(next.assets, g) = LastPage(s.assets, g)
            BY <3>4, <3>6, <4>2 DEF PutRight
          <5> QED
            BY <2>1, <2>3, <2>5, <4>2, <5>1 DEF TaggedBy
        <4> QED
          BY <4>1, <4>2
      <3>11. /\ next \in Stores /\ Sound(next)
             /\ DOMAIN next.files = DOMAIN store.files
        BY <2>2, <2>6, <3>4, <3>6 DEF PutRight
      <3>12. TaggedBy(store, next, gs, more)
        BY <3>10, <3>11 DEF TaggedBy
      <3> QED
        BY <2>5, <3>12 DEF TaggedRight, next
    <2>7. CASE f \notin DOMAIN store.files
      <3>1. next = s
        BY <1>3, <2>2, <2>7 DEF Retagged, Indexed
      <3> HIDE DEF f
      <3>2. \A g : LastPage(s.assets, g) =
                     IF g \in gs /\ g \in DOMAIN store.files
                     THEN [tags |-> more[g],
                           payload |-> LastPage(store.assets, g).payload]
                     ELSE LastPage(store.assets, g)
        BY <2>1, <2>3, <2>5, <2>7 DEF TaggedBy
      <3>3. TaggedBy(store, s, gs, more)
        BY <2>2, <3>2 DEF TaggedBy
      <3> QED
        BY <2>5, <3>1, <3>3 DEF TaggedRight
    <2> QED
      BY <2>6, <2>7
  <1> QED
    BY <1>2, <1>3

\* By induction over the pairs.
LEMMA TaggedKeepsPages ==
  ASSUME NEW store \in Stores, Sound(store), NEW requests \in Seq(Requests)
  PROVE  TaggedRight(store, Tagged(store, requests))
  <1> DEFINE n == Len(requests)
  <1>1. n \in Nat /\ \A k \in 1 .. n : requests[k] \in Requests
    OBVIOUS
  <1>2. PICK h : Retagging(store, requests, h)
                 /\ Tagged(store, requests) = h[n]
    BY TaggedSteps DEF Results
  <1> DEFINE S == {k \in Nat : k <= n => TaggedRight(store, h[k])}
  <1>3. 0 \in S
    <2>1. h[0] = store
      BY <1>2 DEF Retagging
    <2>2. PICK fs \in SUBSET Files : fs = {}
      OBVIOUS
    <2>3. PICK tagging \in [fs -> SUBSET Tags] : TRUE
      <3>1. [f \in fs |-> {}] \in [fs -> SUBSET Tags]
        BY <2>2
      <3> QED
        BY <3>1
    <2>4. TaggedBy(store, store, fs, tagging)
      BY <2>2 DEF TaggedBy
    <2>5. TaggedRight(store, store)
      BY <2>4 DEF TaggedRight
    <2> QED
      BY <2>1, <2>5
  <1>4. ASSUME NEW m \in Nat, m \in S PROVE m + 1 \in S
    <2> SUFFICES ASSUME m + 1 <= n PROVE TaggedRight(store, h[m + 1])
      <3> HIDE DEF n
      <3> QED
        OBVIOUS
    <2>1. PICK k \in 1 .. n : k = m + 1 /\ k - 1 = m
      <3> HIDE DEF n
      <3> QED
        BY <1>1
    <2>2. TaggedRight(store, h[m]) /\ requests[k] \in Requests
      <3> HIDE DEF n
      <3> QED
        BY <1>1, <1>4, <2>1
    <2>3. h[k] = Retagged(h[m], requests[k])
      BY <1>2, <2>1 DEF Retagging
    <2> QED
      BY <2>1, <2>2, <2>3, RetaggedRight
  <1>5. Nat \subseteq S
    <2> HIDE DEF S
    <2> QED
      BY <1>3, <1>4, SetInduction
  <1>6. TaggedRight(store, h[n])
    <2> HIDE DEF n
    <2> QED
      BY <1>1, <1>5
  <1> QED
    BY <1>2, <1>6

-----------------------------------------------------------------------------
\* The inductive invariant: the index is a function to positions, and unless
\* there was a purge by tag, it agrees with the records.

Bounded ==
  /\ assets \in Seq(Records) /\ files \in Indexes
  /\ \A f \in DOMAIN files : files[f] <= MaxAssets
  /\ buffer \in Seq(Chunks)

CInv ==
  /\ Bounded
  /\ purged \in BOOLEAN
  /\ ~purged => Sound(Store)

\* The records and the index are a store.
LEMMA BoundedStore ==
  ASSUME Bounded
  PROVE  Store \in Stores /\ Store.assets = assets /\ Store.files = files
  BY DEF Bounded, Store, Stores

\* What the store becomes is within the bound.
LEMMA BecomeBounded ==
  ASSUME NEW next \in Stores, Become(next), buffer' \in Seq(Chunks)
  PROVE  /\ Bounded' /\ Store' = next
         /\ assets' = next.assets /\ files' = next.files
  <1>1. /\ next.assets \in Seq(Records) /\ next.files \in Indexes
        /\ next = [assets |-> next.assets, files |-> next.files]
        /\ Len(next.assets) \in Nat /\ MaxAssets \in Nat
        /\ \A f \in DOMAIN next.files :
             /\ next.files[f] \in Nat
             /\ \/ next.files[f] <= MaxAssets
                \/ next.files[f] <= Len(next.assets)
    BY AssetsAssumption DEF Stores, Indexes
  <1>2. /\ Len(next.assets) <= MaxAssets
        /\ assets' = next.assets /\ files' = next.files
    BY DEF Become
  <1>3. \A f \in DOMAIN next.files : next.files[f] <= MaxAssets
    BY <1>1, <1>2
  <1>4. Bounded'
    BY <1>1, <1>2, <1>3 DEF Bounded
  <1>5. Store' = next
    BY <1>1, <1>2 DEF Store
  <1> QED
    BY <1>2, <1>4, <1>5

\* An index without some of its filenames is one.
LEMMA IndexWithout ==
  ASSUME NEW index \in Indexes, NEW D \in SUBSET DOMAIN index
  PROVE  /\ [f \in D |-> index[f]] \in Indexes
         /\ DOMAIN [f \in D |-> index[f]] = D
         /\ \A f \in D : [g \in D |-> index[g]][f] = index[f]
  <1>1. PICK E \in SUBSET Files : index \in [E -> Nat \ {0}]
    BY DEF Indexes
  <1>2. D \in SUBSET Files /\ [f \in D |-> index[f]] \in [D -> Nat \ {0}]
    BY <1>1
  <1> QED
    BY <1>2 DEF Indexes

\* A file with at most one record has none, or one.
LEMMA OneRecord ==
  ASSUME NEW f, assets \in Seq(Records), Cardinality(Positions(f)) < 2
  PROVE  \/ Positions(f) = {}
         \/ \E p \in 1 .. Len(assets) : /\ Positions(f) = {p}
                                        /\ FirstPosition(f) = p
  <1>1. Len(assets) \in Nat /\ DOMAIN assets = 1 .. Len(assets)
    OBVIOUS
  <1>2. IsFiniteSet(1 .. Len(assets))
    BY <1>1, FS_Interval
  <1>3. Positions(f) \subseteq 1 .. Len(assets)
    BY <1>1 DEF Positions
  <1>4. IsFiniteSet(Positions(f))
    BY <1>2, <1>3, FS_Subset
  <1> DEFINE P == Positions(f)
  <1> HIDE DEF P
  <1>5. ASSUME NEW p \in P, NEW q \in P, p # q PROVE FALSE
    <2>1. {p, q} \subseteq P /\ IsFiniteSet(P)
      BY <1>4 DEF P
    <2>2. Cardinality({p, q}) <= Cardinality(P)
      BY <2>1, FS_Subset
    <2>3. IsFiniteSet({p}) /\ Cardinality({p}) = 1
      BY FS_Singleton
    <2>4. PICK c, d : c = Cardinality({p}) /\ d = Cardinality({p} \cup {q})
      OBVIOUS
    <2>5. d = c + 1
      BY <1>5, <2>3, <2>4, FS_AddElement
    <2>6. Cardinality(P) \in Nat /\ Cardinality(P) < 2
      BY <2>1, FS_CardinalityType DEF P
    <2>7. Cardinality({p, q}) = 2
      <3>1. c = 1
        BY <2>3, <2>4
      <3>2. d = 2
        BY <2>5, <3>1
      <3>3. {p} \cup {q} = {p, q}
        OBVIOUS
      <3> QED
        BY <2>4, <3>2, <3>3
    <2>8. 2 <= Cardinality(P)
      BY <2>2, <2>7
    <2>9. \A n \in Nat : ~(2 <= n /\ n < 2)
      OBVIOUS
    <2> QED
      BY <2>6, <2>8, <2>9
  <1>6. P = {} \/ \E p \in P : P = {p}
    BY <1>5
  <1>7. ASSUME NEW p \in P, P = {p}
        PROVE  FirstPosition(f) = p /\ p \in 1 .. Len(assets)
    <2>1. p \in 1 .. Len(assets) /\ p <= p
      BY <1>1, <1>3 DEF P
    <2> QED
      BY <1>7, <2>1 DEF FirstPosition, P
  <1> QED
    BY <1>6, <1>7 DEF P

-----------------------------------------------------------------------------
\* What each operation does to the store and to the pages.

\* What an upload is finalized to replaces the page of its file.
LEMMA PublishStep ==
  ASSUME Bounded, Sound(Store), NEW f \in Files, NEW tags \in SUBSET Tags,
         UploadFinalize(f, tags)
  PROVE  /\ Bounded' /\ Sound(Store')
         /\ \A g : LastPage(assets', g) =
                     IF g = f THEN [tags |-> tags, payload |-> buffer]
                     ELSE LastPage(assets, g)
  <1>1. Store \in Stores /\ Store.assets = assets
    BY BoundedStore
  <1>2. PICK r : r = [file |-> f, tags |-> tags, payload |-> buffer]
    OBVIOUS
  <1>3. r \in Records /\ r.file = f
        /\ Content(r) = [tags |-> tags, payload |-> buffer]
    BY <1>2 DEF Records, Bounded, Content
  <1>4. PutRight(Store, r, Put(Store, r))
    BY <1>1, <1>3, PutKeepsSound
  <1>5. Become(Put(Store, r)) /\ buffer' \in Seq(Chunks)
    BY <1>2 DEF UploadFinalize
  <1>6. /\ Bounded' /\ Store' = Put(Store, r)
        /\ assets' = Put(Store, r).assets
    BY <1>4, <1>5, BecomeBounded DEF PutRight
  <1> QED
    BY <1>1, <1>3, <1>4, <1>6 DEF PutRight

\* assetsTag sets the tags of some pages.
LEMMA TagStep ==
  ASSUME Bounded, Sound(Store), NEW requests \in TagRequests, Tag(requests)
  PROVE  /\ Bounded' /\ Sound(Store')
         /\ \E fs \in SUBSET Files : \E tagging \in [fs -> SUBSET Tags] :
              TaggedBy(Store, Store', fs, tagging)
  <1>1. Store \in Stores
    BY BoundedStore
  <1>2. requests \in Seq(Requests)
    BY AssetsAssumption DEF Requests
  <1>3. TaggedRight(Store, Tagged(Store, requests))
    BY <1>1, <1>2, TaggedKeepsPages
  <1>4. Become(Tagged(Store, requests)) /\ buffer' \in Seq(Chunks)
    BY DEF Tag, Tagged, Bounded
  <1>5. Tagged(Store, requests) # None
    BY <1>4 DEF Become
  <1>6. PICK fs \in SUBSET Files : \E tagging \in [fs -> SUBSET Tags] :
          TaggedBy(Store, Tagged(Store, requests), fs, tagging)
    BY <1>3, <1>5 DEF TaggedRight
  <1>7. Tagged(Store, requests) \in Stores /\ Sound(Tagged(Store, requests))
    BY <1>6 DEF TaggedBy
  <1>8. Bounded' /\ Store' = Tagged(Store, requests)
    BY <1>4, <1>7, BecomeBounded
  <1> QED
    BY <1>6, <1>7, <1>8

\* An upgrade makes any store sound, and changes no page.
LEMMA UpgradeStep ==
  ASSUME Bounded, Upgrade
  PROVE  /\ Bounded' /\ Sound(Store')
         /\ \A f : LastPage(assets', f) = LastPage(assets, f)
  <1>1. RestoredRight(assets, Restored(assets))
    BY RestoredKeepsPages DEF Bounded
  <1>2. Become(Restored(assets)) /\ buffer' \in Seq(Chunks)
    BY DEF Upgrade
  <1>3. /\ Bounded' /\ Store' = Restored(assets)
        /\ assets' = Restored(assets).assets
    BY <1>1, <1>2, BecomeBounded DEF RestoredRight
  <1> QED
    BY <1>1, <1>3 DEF RestoredRight

\* A purge leaves no page, ...
LEMMA PurgeAllStep ==
  ASSUME Bounded, PurgeAll
  PROVE  /\ Bounded' /\ Sound(Store')
         /\ \A f : LastPage(assets', f) = Nothing
  <1>1. assets' = << >> /\ files' = << >> /\ buffer' = buffer
    BY DEF PurgeAll
  <1>2. Store' = EmptyStore
    BY <1>1 DEF Store, EmptyStore
  <1>3. /\ EmptyStore.assets = << >> /\ EmptyStore.files = << >>
        /\ DOMAIN << >> = {}
    BY DEF EmptyStore
  <1>4. assets' \in Seq(Records) /\ files' \in Indexes
    BY <1>1, <1>3, EmptyStoreType DEF Stores
  <1> QED
    BY <1>1, <1>2, <1>3, <1>4, EmptyStoreSound, PageOfEmpty DEF Bounded

\* ... and one by tag the pages without the tag.
LEMMA PurgeTaggedStep ==
  ASSUME Bounded, Sound(Store), NEW t, PurgeTagged(t)
  PROVE  /\ Bounded'
         /\ \A f : LastPage(assets', f) =
                     IF t \in LastPage(assets, f).tags THEN Nothing
                     ELSE LastPage(assets, f)
  <1>1. Store \in Stores /\ Store.assets = assets
    BY BoundedStore
  <1>2. UntaggedRight(assets, t, assets')
    BY <1>1, UntaggedPages DEF PurgeTagged
  <1>3. PICK D \in SUBSET DOMAIN files : files' = [f \in D |-> files[f]]
    BY DEF PurgeTagged
  <1>4. /\ files' \in Indexes /\ DOMAIN files' = D
        /\ \A f \in D : files'[f] = files[f]
    BY <1>3, IndexWithout DEF Bounded
  <1>5. buffer' \in Seq(Chunks)
    BY DEF PurgeTagged, Bounded
  <1>6. \A f \in DOMAIN files' : files'[f] <= MaxAssets
    BY <1>4 DEF Bounded
  <1> QED
    BY <1>2, <1>4, <1>5, <1>6 DEF Bounded, UntaggedRight

\* delete removes the page of its file, if it has at most one record.
LEMMA DeleteStep ==
  ASSUME Bounded, Sound(Store), NEW f \in Files,
         Cardinality(Positions(f)) < 2, Delete(f)
  PROVE  /\ Bounded' /\ Sound(Store')
         /\ \A g : LastPage(assets', g) =
                     IF g = f THEN Nothing ELSE LastPage(assets, g)
  <1> DEFINE n == Len(assets)
  <1>1. /\ assets \in Seq(Records) /\ n \in Nat /\ DOMAIN assets = 1 .. n
        /\ files \in Indexes
    BY DEF Bounded
  <1>2. /\ \A g \in DOMAIN files : IsLast(assets, g, files[g])
        /\ \A k \in DOMAIN assets :
             \/ assets[k].file \in DOMAIN files /\ files[assets[k].file] = k
             \/ Content(assets[k]) = Nothing
    BY BoundedStore DEF Sound
  <1>3. PICK D : D = DOMAIN files \ {f}
    OBVIOUS
  <1>4. /\ files' \in Indexes /\ DOMAIN files' = D
        /\ \A g \in D : files'[g] = files[g]
    <2>1. D \in SUBSET DOMAIN files /\ files' = [g \in D |-> files[g]]
      BY <1>3 DEF Delete
    <2> QED
      BY <1>1, <2>1, IndexWithout
  <1>5. /\ assets' \in Seq(Records) /\ Len(assets') = n
        /\ \A k \in 1 .. n :
             /\ assets'[k].file = assets[k].file
             /\ assets[k].file = f => Content(assets'[k]) = Nothing
             /\ assets[k].file # f => assets'[k] = assets[k]
    <2>1. CASE Positions(f) = {}
      <3>1. assets' = assets
        BY <2>1 DEF Delete
      <3>2. \A k \in 1 .. n : assets[k].file # f
        BY <1>1, <2>1 DEF Positions
      <3> QED
        BY <1>1, <3>1, <3>2
    <2>2. CASE Positions(f) # {}
      <3>1. PICK p \in 1 .. n : Positions(f) = {p} /\ FirstPosition(f) = p
        BY <1>1, <2>2, OneRecord
      <3>2. PICK b : b = Blank(f)
        OBVIOUS
      <3>3. b \in Records /\ b.file = f /\ Content(b) = Nothing
        BY <3>2 DEF Blank, Records, Content, Nothing
      <3>4. assets' = [assets EXCEPT ![p] = b]
        BY <2>2, <3>1, <3>2 DEF Delete
      <3>5. /\ assets' \in Seq(Records) /\ Len(assets') = n
            /\ \A k \in 1 .. n : assets'[k] = IF k = p THEN b ELSE assets[k]
        BY <1>1, <3>3, <3>4, EntryReplaced
      <3>6. \A k \in 1 .. n : assets[k].file = f <=> k = p
        BY <1>1, <3>1 DEF Positions
      <3> HIDE DEF n
      <3> QED
        BY <3>3, <3>5, <3>6
    <2> QED
      BY <2>1, <2>2
  <1>6. buffer' \in Seq(Chunks)
    BY DEF Delete, Bounded
  <1>7. DOMAIN assets' = 1 .. n
    BY <1>5
  <1> HIDE DEF n
  <1>8. /\ \A g, k : IsLast(assets, g, k) <=> IsLast(assets', g, k)
        /\ \A g : g # f => LastPage(assets, g) = LastPage(assets', g)
    <2>1. /\ Len(assets) = Len(assets')
          /\ \A k \in 1 .. Len(assets) : assets[k].file = assets'[k].file
      BY <1>5 DEF n
    <2>2. \A g : g # f => \A k \in 1 .. Len(assets) :
            assets[k].file = g => Content(assets[k]) = Content(assets'[k])
      BY <1>5 DEF n
    <2> QED
      BY <1>1, <1>5, <2>1, <2>2, SamePages
  <1>9. LastPage(assets', f) = Nothing
    <2>1. CASE \A k \in DOMAIN assets' : assets'[k].file # f
      BY <2>1, PageOfNone
    <2>2. CASE \E k \in DOMAIN assets' : assets'[k].file = f
      <3>1. PICK k : IsLast(assets', f, k)
        BY <1>5, <2>2, SomeLast
      <3>2. Content(assets'[k]) = Nothing
        BY <1>5, <1>7, <3>1 DEF IsLast
      <3> QED
        BY <1>5, <3>1, <3>2, PageAt
    <2> QED
      BY <2>1, <2>2
  <1>10. Bounded'
    BY <1>3, <1>4, <1>5, <1>6 DEF Bounded
  <1>11. Store'.assets = assets' /\ Store'.files = files'
    BY DEF Store
  <1>12. ASSUME NEW k \in DOMAIN assets'
         PROVE  \/ /\ assets'[k].file \in DOMAIN files'
                   /\ files'[assets'[k].file] = k
                \/ Content(assets'[k]) = Nothing
    BY <1>1, <1>2, <1>3, <1>4, <1>5, <1>7
  <1>13. \A g \in DOMAIN files' : IsLast(assets', g, files'[g])
    BY <1>2, <1>3, <1>4, <1>8
  <1>14. Sound(Store')
    BY <1>11, <1>12, <1>13 DEF Sound
  <1> QED
    BY <1>8, <1>9, <1>10, <1>14

-----------------------------------------------------------------------------
\* The invariant.

LEMMA CInvInit == CarefulInit => CInv
  <1> SUFFICES ASSUME CarefulInit PROVE CInv
    OBVIOUS
  <1>1. /\ assets = << >> /\ files = << >> /\ buffer = << >>
        /\ purged = FALSE
    BY DEF CarefulInit, Init
  <1>2. /\ EmptyStore.assets = << >> /\ EmptyStore.files = << >>
        /\ DOMAIN << >> = {} /\ << >> \in Seq(Chunks)
    BY DEF EmptyStore
  <1>3. Store = EmptyStore
    BY <1>1 DEF Store, EmptyStore
  <1>4. assets \in Seq(Records) /\ files \in Indexes
    BY <1>1, <1>2, EmptyStoreType DEF Stores
  <1>5. Bounded
    BY <1>1, <1>2, <1>4 DEF Bounded
  <1> QED
    BY <1>1, <1>3, <1>5, EmptyStoreSound DEF CInv

\* An upload in progress does not touch the records.
LEMMA BufferStep ==
  ASSUME Bounded,
         UploadClear \/ \E bytes \in Uploads : Upload(bytes)
  PROVE  /\ Bounded' /\ Store' = Store /\ assets' = assets
  <1>1. assets' = assets /\ files' = files
    BY DEF UploadClear, Upload
  <1>2. buffer' \in Seq(Chunks)
    <2>1. CASE UploadClear
      BY <2>1 DEF UploadClear
    <2>2. ASSUME NEW bytes \in Uploads, Upload(bytes)
          PROVE  buffer' \in Seq(Chunks)
      <3>1. bytes \in Seq(Chunks) /\ buffer \in Seq(Chunks)
        BY AssetsAssumption DEF Bounded
      <3> QED
        BY <2>2, <3>1 DEF Upload
    <2> QED
      BY <2>1, <2>2
  <1> QED
    BY <1>1, <1>2 DEF Bounded, Store

\* Every step of careful admins keeps the invariant.
LEMMA CInvNext == CInv /\ [CarefulNext]_carefulVars => CInv'
  <1> SUFFICES ASSUME CInv, [CarefulNext]_carefulVars PROVE CInv'
    OBVIOUS
  <1>0. /\ Bounded /\ purged \in BOOLEAN /\ (~purged => Sound(Store))
    BY DEF CInv
  <1>1. ASSUME ~purged, UNCHANGED purged, Bounded' /\ Sound(Store')
        PROVE  CInv'
    BY <1>1 DEF CInv
  <1>2. ASSUME ~purged, UNCHANGED purged, NEW f \in Files,
               \/ \E tags \in SUBSET Tags : UploadFinalize(f, tags)
               \/ Cardinality(Positions(f)) < 2 /\ Delete(f)
        PROVE  CInv'
    <2>1. Bounded' /\ Sound(Store')
      BY <1>0, <1>2, PublishStep, DeleteStep
    <2> QED
      BY <1>1, <1>2, <2>1
  <1>3. ASSUME ~purged, UNCHANGED purged,
               UploadClear \/ \E bytes \in Uploads : Upload(bytes)
        PROVE  CInv'
    <2>1. Bounded' /\ Sound(Store')
      BY <1>0, <1>3, BufferStep
    <2> QED
      BY <1>1, <1>3, <2>1
  <1>4. ASSUME ~purged, UNCHANGED purged,
               NEW requests \in TagRequests, Tag(requests)
        PROVE  CInv'
    <2>1. Bounded' /\ Sound(Store')
      BY <1>0, <1>4, TagStep
    <2> QED
      BY <1>1, <1>4, <2>1
  <1>5. ASSUME NEW t \in Tags, ~purged, PurgeTagged(t), purged' = TRUE
        PROVE  CInv'
    <2>1. Bounded'
      BY <1>0, <1>5, PurgeTaggedStep
    <2> QED
      BY <1>5, <2>1 DEF CInv
  <1>6. ASSUME PurgeAll \/ Upgrade, purged' = FALSE
        PROVE  CInv'
    <2>1. Bounded' /\ Sound(Store')
      BY <1>0, <1>6, PurgeAllStep, UpgradeStep
    <2> QED
      BY <1>6, <2>1 DEF CInv
  <1>7. CASE UNCHANGED carefulVars
    <2>1. /\ assets' = assets /\ files' = files /\ buffer' = buffer
          /\ purged' = purged
      BY <1>7 DEF carefulVars, vars
    <2>2. Store' = Store
      BY <2>1 DEF Store
    <2> QED
      BY <1>0, <2>1, <2>2 DEF CInv, Bounded
  <1> QED
    BY <1>2, <1>3, <1>4, <1>5, <1>6, <1>7 DEF CarefulNext

\* The invariant holds.
THEOREM CInvariance == CarefulSpec => []CInv
  BY CInvInit, CInvNext, PTL DEF CarefulSpec

\* Whatever careful admins do, in any order: the records are records, and the
\* index is within the bound (_putAsset, filterSelf, delete, restore).
THEOREM StoreTyped == CarefulSpec => []TypeOK
  <1>1. CInv => TypeOK
    <2> SUFFICES ASSUME CInv PROVE TypeOK
      OBVIOUS
    <2>1. PICK D \in SUBSET Files : files \in [D -> Nat \ {0}]
      BY DEF CInv, Bounded, Indexes
    <2>2. \A f \in DOMAIN files : files[f] \in 1 .. MaxAssets
      BY <2>1, AssetsAssumption DEF CInv, Bounded
    <2> QED
      BY <2>1, <2>2 DEF CInv, Bounded, TypeOK
  <1> QED
    BY <1>1, CInvariance, PTL

\* Between purges by tag, a search by tag (_findTag, _findAllTag) finds only
\* records that their filename serves, and so never two of one filename.
THEOREM SearchesAreServed == CarefulSpec => []ServedUnlessPurged
  <1>1. CInv => ServedUnlessPurged
    <2> SUFFICES ASSUME CInv, ~purged,
                        NEW k \in DOMAIN assets, assets[k].tags # {}
                 PROVE  /\ assets[k].file \in DOMAIN files
                        /\ files[assets[k].file] = k
      BY DEF ServedUnlessPurged, FoundIsServed
    <2>1. \/ assets[k].file \in DOMAIN files /\ files[assets[k].file] = k
          \/ Content(assets[k]) = Nothing
      BY BoundedStore DEF CInv, Sound
    <2>2. Content(assets[k]) # Nothing
      BY DEF Content, Nothing
    <2> QED
      BY <2>1, <2>2
  <1> QED
    BY <1>1, CInvariance, PTL

-----------------------------------------------------------------------------
\* The refinement of AssetStore.

\* The page that the refinement gives a file, before and after a step.
LEMMA PagesAre ==
  /\ \A f : PageOf(f) = LastPage(assets, f)
  /\ \A f : PageOf(f)' = LastPage(assets', f)
  <1>1. \A f : PageOf(f) = LastPage(assets, f)
    BY PageOfIsLast
  <1>2. \A f : PageOf(f)' = LastPage(assets', f)
    BY DEF PageOf, LastPage, Positions, At, Content, Nothing
  <1> QED
    BY <1>1, <1>2

\* A page is one of AssetStore's.
LEMMA PageType ==
  ASSUME NEW records \in Seq(Records), NEW f
  PROVE  LastPage(records, f) \in [tags : SUBSET Tags, payload : Seq(Chunks)]
  <1>1. CASE \A k \in DOMAIN records : records[k].file # f
    <2>1. LastPage(records, f) = Nothing /\ << >> \in Seq(Chunks)
      BY <1>1, PageOfNone
    <2> QED
      BY <2>1 DEF Nothing
  <1>2. CASE \E k \in DOMAIN records : records[k].file = f
    <2>1. PICK k : IsLast(records, f, k)
      BY <1>2, SomeLast
    <2>2. LastPage(records, f) = Content(records[k]) /\ records[k] \in Records
      BY <2>1, PageAt DEF IsLast
    <2> QED
      BY <2>2 DEF Records, Content
  <1> QED
    BY <1>1, <1>2
Pages == [f \in Files |-> PageOf(f)]

\* The pages of the refinement, as those of the records.
LEMMA PagesOf ==
  /\ DOMAIN Pages = Files /\ DOMAIN Pages' = Files
  /\ Pages = [f \in Files |-> Pages[f]]
  /\ Pages' = [f \in Files |-> Pages'[f]]
  /\ \A f \in Files : Pages[f] = LastPage(assets, f)
  /\ \A f \in Files : Pages'[f] = LastPage(assets', f)
  BY PagesAre DEF Pages

\* The refinement begins as AssetStore does: without a page.
LEMMA StoreInit == CarefulInit => AbstractStore!StoreInit
  <1> SUFFICES ASSUME CarefulInit PROVE AbstractStore!StoreInit
    OBVIOUS
  <1>1. assets \in Seq(Records) /\ buffer = << >>
    BY DEF CarefulInit, Init
  <1>2. \A f \in Files :
          PageOf(f) \in [tags : SUBSET Tags, payload : Seq(Chunks)]
    BY <1>1, PageType, PagesAre
  <1> QED
    BY <1>1, <1>2 DEF AbstractStore!StoreInit

\* Removing pages.
LEMMA RemoveStep ==
  ASSUME NEW gone, UNCHANGED buffer,
         \A f \in Files : LastPage(assets', f) =
           IF f \in gone THEN Nothing ELSE LastPage(assets, f)
  PROVE  AbstractStore!Remove(gone)
  <1>1. Nothing = AbstractStore!NoPage
    BY DEF Nothing, AbstractStore!NoPage
  <1>2. Pages' = [f \in Files |-> IF f \in gone THEN AbstractStore!NoPage
                                  ELSE Pages[f]]
    BY <1>1, PagesOf
  <1> QED
    BY <1>2 DEF Pages, AbstractStore!Remove

\* Nothing happens to a page.
LEMMA SamePagesStep ==
  ASSUME \A f \in Files : LastPage(assets', f) = LastPage(assets, f)
  PROVE  Pages' = Pages
  BY PagesOf

\* Setting the tags of pages: those of the files that are not in the index are
\* skipped, which have no content.
LEMMA RetagStep ==
  ASSUME Bounded, Sound(Store), UNCHANGED buffer,
         NEW fs \in SUBSET Files, NEW tagging \in [fs -> SUBSET Tags],
         TaggedBy(Store, Store', fs, tagging)
  PROVE  AbstractStore!Retag(tagging)
  <1>1. /\ Store \in Stores /\ Store.assets = assets
        /\ Store'.assets = assets'
    BY BoundedStore DEF Store
  <1>2. PICK skipped : skipped = {f \in fs : f \notin DOMAIN Store.files}
    OBVIOUS
  <1>3. DOMAIN tagging = fs
    OBVIOUS
  <1>4. \A f \in skipped : Pages[f] = AbstractStore!NoPage
    <2>1. \A f \in skipped : LastPage(assets, f) = Nothing
      BY <1>1, <1>2, SoundPage
    <2> QED
      BY <1>2, <2>1, PagesOf DEF Nothing, AbstractStore!NoPage
  <1>5. skipped \in SUBSET {f \in DOMAIN tagging :
                              Pages[f] = AbstractStore!NoPage}
    BY <1>2, <1>3, <1>4
  <1>6. ASSUME NEW f \in Files
        PROVE  Pages'[f] = IF f \in DOMAIN tagging \ skipped
                           THEN [Pages[f] EXCEPT !.tags = tagging[f]]
                           ELSE Pages[f]
    <2>1. LastPage(assets', f) =
            IF f \in fs /\ f \in DOMAIN Store.files
            THEN [tags |-> tagging[f],
                  payload |-> LastPage(assets, f).payload]
            ELSE LastPage(assets, f)
      BY <1>1 DEF TaggedBy
    <2>2. LastPage(assets, f) \in [tags : SUBSET Tags, payload : Seq(Chunks)]
      BY PageType DEF Bounded
    <2>3. /\ Pages[f] = LastPage(assets, f)
          /\ Pages'[f] = LastPage(assets', f)
      BY PagesOf
    <2>4. f \in DOMAIN tagging \ skipped
            <=> f \in fs /\ f \in DOMAIN Store.files
      BY <1>2, <1>3
    <2>5. [LastPage(assets, f) EXCEPT !.tags = tagging[f]] =
            [tags |-> tagging[f], payload |-> LastPage(assets, f).payload]
      BY <2>2
    <2> QED
      BY <2>1, <2>3, <2>4, <2>5
  <1>7. Pages' = [f \in Files |->
                    IF f \in DOMAIN tagging \ skipped
                    THEN [Pages[f] EXCEPT !.tags = tagging[f]] ELSE Pages[f]]
    BY <1>6, PagesOf
  <1> QED
    BY <1>5, <1>7 DEF Pages, AbstractStore!Retag

\* Every step of careful admins is one of AssetStore, or leaves the pages and
\* the draft alone.
LEMMA StoreNext ==
  CInv /\ [CarefulNext]_carefulVars
    => AbstractStore!StoreNext \/ UNCHANGED <<Pages, buffer>>
  <1> SUFFICES ASSUME CInv, [CarefulNext]_carefulVars
               PROVE  AbstractStore!StoreNext \/ UNCHANGED <<Pages, buffer>>
    OBVIOUS
  <1>0. /\ Bounded /\ purged \in BOOLEAN /\ (~purged => Sound(Store))
    BY DEF CInv
  <1>1. ASSUME NEW bytes \in Uploads, Upload(bytes)
        PROVE  AbstractStore!StoreNext
    <2>1. assets' = assets /\ buffer' = buffer \o bytes
      BY <1>1 DEF Upload
    <2>2. Pages' = Pages
      BY <2>1, SamePagesStep
    <2>3. AbstractStore!Extend(bytes)
      BY <2>1, <2>2 DEF Pages, AbstractStore!Extend
    <2> QED
      BY <2>3 DEF AbstractStore!StoreNext
  <1>2. ASSUME UploadClear \/ Upgrade
        PROVE  AbstractStore!StoreNext
    <2>1. buffer' = << >>
      BY <1>2 DEF UploadClear, Upgrade
    <2>2. \A f : LastPage(assets', f) = LastPage(assets, f)
      BY <1>0, <1>2, UpgradeStep DEF UploadClear
    <2>3. Pages' = Pages
      BY <2>2, SamePagesStep
    <2>4. AbstractStore!Discard
      BY <2>1, <2>3 DEF Pages, AbstractStore!Discard
    <2> QED
      BY <2>4 DEF AbstractStore!StoreNext
  <1>3. ASSUME ~purged, NEW f \in Files, NEW tags \in SUBSET Tags,
               UploadFinalize(f, tags)
        PROVE  AbstractStore!StoreNext
    <2>1. \A g : LastPage(assets', g) =
                   IF g = f THEN [tags |-> tags, payload |-> buffer]
                   ELSE LastPage(assets, g)
      BY <1>0, <1>3, PublishStep
    <2>2. Pages' = [Pages EXCEPT ![f] = [tags |-> tags, payload |-> buffer]]
      BY <2>1, PagesOf
    <2>3. AbstractStore!Publish(f, tags)
      BY <1>3, <2>2 DEF Pages, UploadFinalize, AbstractStore!Publish
    <2> QED
      BY <2>3 DEF AbstractStore!StoreNext
  <1>4. ASSUME ~purged, NEW f \in Files, Cardinality(Positions(f)) < 2,
               Delete(f)
        PROVE  AbstractStore!StoreNext
    <2>1. \A g : LastPage(assets', g) =
                   IF g = f THEN Nothing ELSE LastPage(assets, g)
      BY <1>0, <1>4, DeleteStep
    <2>2. AbstractStore!Remove({f})
      BY <1>4, <2>1, RemoveStep DEF Delete
    <2> QED
      BY <2>2 DEF AbstractStore!StoreNext
  <1>5. ASSUME ~purged, NEW requests \in TagRequests, Tag(requests)
        PROVE  AbstractStore!StoreNext
    <2>1. PICK fs \in SUBSET Files : \E tagging \in [fs -> SUBSET Tags] :
            TaggedBy(Store, Store', fs, tagging)
      BY <1>0, <1>5, TagStep
    <2>2. PICK tagging \in [fs -> SUBSET Tags] :
            TaggedBy(Store, Store', fs, tagging)
      BY <2>1
    <2>3. AbstractStore!Retag(tagging)
      BY <1>0, <1>5, <2>2, RetagStep DEF Tag
    <2> QED
      BY <2>3 DEF AbstractStore!StoreNext
  <1>6. ASSUME ~purged, NEW t \in Tags, PurgeTagged(t)
        PROVE  AbstractStore!StoreNext
    <2>1. \A f : LastPage(assets', f) =
                   IF t \in LastPage(assets, f).tags THEN Nothing
                   ELSE LastPage(assets, f)
      BY <1>0, <1>6, PurgeTaggedStep
    <2>2. PICK gone : gone = {f \in Files : t \in Pages[f].tags}
      OBVIOUS
    <2>3. \A f \in Files : f \in gone <=> t \in LastPage(assets, f).tags
      BY <2>2, PagesOf
    <2>4. AbstractStore!Remove(gone)
      BY <1>6, <2>1, <2>3, RemoveStep DEF PurgeTagged
    <2> QED
      BY <2>2, <2>4 DEF Pages, AbstractStore!StoreNext
  <1>7. ASSUME PurgeAll
        PROVE  AbstractStore!StoreNext
    <2>1. \A f : LastPage(assets', f) = Nothing
      BY <1>0, <1>7, PurgeAllStep
    <2>2. AbstractStore!Remove(Files)
      BY <1>7, <2>1, RemoveStep DEF PurgeAll
    <2> QED
      BY <2>2 DEF AbstractStore!StoreNext
  <1>8. CASE UNCHANGED carefulVars
    <2>1. assets' = assets /\ buffer' = buffer
      BY <1>8 DEF carefulVars, vars
    <2> QED
      BY <2>1, SamePagesStep
  <1> QED
    BY <1>1, <1>2, <1>3, <1>4, <1>5, <1>6, <1>7, <1>8 DEF CarefulNext

\* The store implements AssetStore: every file has one page, which only the
\* operations that name it change, an upgrade (backup, restore) keeps them
\* all, and a deleted or purged page does not come back.
THEOREM StoreRefinement == CarefulSpec => StoreSpec
  <1>1. CInv /\ [CarefulNext]_carefulVars
          => [AbstractStore!StoreNext]_(AbstractStore!storeVars)
    BY StoreNext DEF Pages, AbstractStore!storeVars
  <1> QED
    BY <1>1, StoreInit, CInvariance, PTL
    DEF CarefulSpec, StoreSpec, AbstractStore!StoreSpec
=============================================================================
