---------------------------- MODULE TokensProofs ----------------------------
(***************************************************************************)
(* Proofs about minting and shuffling, for any supply and any number of    *)
(* calls: whatever admins and the launchpad mint at once, every token is   *)
(* the answer to one mint, and "no more supply" is true; and a shuffle     *)
(* neither loses nor doubles a legend, whatever the seed.                  *)
(***************************************************************************)
EXTENDS Tokens, Sums

\* The inductive invariant.  MintsAreAnsweredOnce carries itself: a mint picks
\* a token that is not minted, which no call holds and nobody was given.
Inv == LedgerTypeOK /\ MintsAreAnsweredOnce /\ SoldOutIsFinal

-----------------------------------------------------------------------------
\* The next token to mint is one that is not minted, and there is one unless
\* everything is minted: the loop of _getNextMintIndex misses none.
LEMMA NextMintIndexIsRight ==
  /\ NextMintIndex \subseteq Unminted
  /\ NextMintIndex = {} => Unminted = {}
  <1>1. Unminted \subseteq Nat
    BY TokensAssumption DEF Unminted, Indices
  <1>2. Unminted # {} => NextMintIndex # {}
    BY <1>1, LeastNatural DEF NextMintIndex
  <1> QED
    BY <1>2 DEF NextMintIndex

\* Answers, and calls, are told apart.
LEMMA CallTypes ==
  /\ Idle \in CallRecords /\ Shuffling \in CallRecords
  /\ \A to \in Accounts : Minting(to) \in CallRecords
  /\ \A i \in Indices : None # i /\ NoSupply # i
  /\ NoSupply # None /\ None \notin Accounts
  BY TokensAssumption DEF Idle, Shuffling, Minting, CallRecords

\* A step that changes no answer, gives no token, and mints none.
LEMMA SideStep ==
  ASSUME Inv,
         ledger' \in [Indices -> Accounts \cup {None}],
         calls' \in [Calls -> CallRecords],
         \A i \in Indices : ledger'[i] = None <=> ledger[i] = None,
         \A c \in Calls : calls'[c].answer = calls[c].answer,
         UNCHANGED given
  PROVE  Inv'
  <1>1. LedgerTypeOK'
    BY DEF Inv, LedgerTypeOK
  <1>2. MintsAreAnsweredOnce'
    BY DEF Inv, MintsAreAnsweredOnce, Holds
  <1>3. SoldOutIsFinal'
    BY DEF Inv, SoldOutIsFinal, Unminted
  <1> QED
    BY <1>1, <1>2, <1>3 DEF Inv

\* A call in slot c ends or begins without an answer: a side step.
LEMMA SlotStep ==
  ASSUME Inv, NEW c \in Calls, calls[c].answer = None,
         NEW call \in CallRecords, call.answer = None,
         calls' = [calls EXCEPT ![c] = call],
         UNCHANGED <<ledger, given>>
  PROVE  Inv'
  <1>1. calls \in [Calls -> CallRecords]
    BY DEF Inv, LedgerTypeOK
  <1>2. calls' \in [Calls -> CallRecords]
    BY <1>1
  <1>3. \A d \in Calls : calls'[d].answer = calls[d].answer
    BY <1>1
  <1> QED
    BY <1>2, <1>3, SideStep DEF Inv, LedgerTypeOK

\* Tokens.mint keeps the invariant: the token it picks was nobody's.
LEMMA MintRunKeepsInv ==
  ASSUME Inv, NEW c \in Calls, MintRun(c)
  PROVE  Inv'
  <1>1. /\ calls \in [Calls -> CallRecords] /\ UNCHANGED given
        /\ calls[c].op = "mint" /\ calls[c].answer = None
    BY DEF Inv, LedgerTypeOK, MintRun
  <1>2. /\ calls[c].to \in Accounts
        /\ \A r \in Indices \cup {None, NoSupply} :
             [calls[c] EXCEPT !.answer = r] \in CallRecords
    BY <1>1 DEF CallRecords, Idle, Shuffling
  <1>3. CASE \E i \in NextMintIndex :
               /\ ledger' = [ledger EXCEPT ![i] = calls[c].to]
               /\ calls' = [calls EXCEPT ![c].answer = i]
    <2>1. PICK i \in NextMintIndex :
            /\ ledger' = [ledger EXCEPT ![i] = calls[c].to]
            /\ calls' = [calls EXCEPT ![c].answer = i]
      BY <1>3
    <2>2. i \in Indices /\ ledger[i] = None
      BY NextMintIndexIsRight DEF Unminted
    <2>3. /\ calls'[c].answer = i
          /\ \A d \in Calls \ {c} : calls'[d].answer = calls[d].answer
      BY <1>1, <1>2, <2>1
    <2>4. /\ ledger'[i] # None
          /\ \A j \in Indices \ {i} : ledger'[j] = ledger[j]
      BY <1>2, <2>1, <2>2, CallTypes DEF Inv, LedgerTypeOK
    <2>5. LedgerTypeOK'
      BY <1>1, <1>2, <2>1, <2>2 DEF Inv, LedgerTypeOK
    <2>6. MintsAreAnsweredOnce'
      <3>1. \A d \in Calls : calls[d].answer # i
        BY <2>2 DEF Inv, MintsAreAnsweredOnce, Holds
      <3> QED
        BY <1>1, <2>2, <2>3, <2>4, <3>1, CallTypes
           DEF Inv, MintsAreAnsweredOnce, Holds
    <2>7. SoldOutIsFinal'
      BY <2>2, <2>3, <2>4, CallTypes DEF Inv, SoldOutIsFinal, Unminted
    <2> QED
      BY <2>5, <2>6, <2>7 DEF Inv
  <1>4. CASE /\ NextMintIndex = {}
             /\ calls' = [calls EXCEPT ![c].answer = NoSupply]
             /\ UNCHANGED ledger
    <2>1. Unminted = {}
      BY <1>4, NextMintIndexIsRight
    <2>2. /\ calls'[c].answer = NoSupply
          /\ \A d \in Calls \ {c} : calls'[d].answer = calls[d].answer
      BY <1>1, <1>2, <1>4
    <2>3. LedgerTypeOK'
      BY <1>1, <1>2, <1>4 DEF Inv, LedgerTypeOK
    <2>4. MintsAreAnsweredOnce'
      BY <1>1, <1>4, <2>2, CallTypes DEF Inv, MintsAreAnsweredOnce, Holds
    <2>5. SoldOutIsFinal'
      BY <1>4, <2>1 DEF SoldOutIsFinal, Unminted
    <2> QED
      BY <2>3, <2>4, <2>5 DEF Inv
  <1> QED
    BY <1>3, <1>4 DEF MintRun

\* The answer to a mint is given: the token it names goes from the call to the
\* caller.
LEMMA MintReplyKeepsInv ==
  ASSUME Inv, NEW c \in Calls, MintReply(c)
  PROVE  Inv'
  <1>1. /\ calls \in [Calls -> CallRecords] /\ given \in [Indices -> Nat]
        /\ calls' = [calls EXCEPT ![c] = Idle] /\ UNCHANGED ledger
        /\ calls[c].answer \in Indices \cup {NoSupply}
    BY DEF Inv, LedgerTypeOK, MintReply, CallRecords, Idle, Shuffling
  <1>2. /\ calls'[c].answer = None
        /\ \A d \in Calls \ {c} : calls'[d].answer = calls[d].answer
    BY <1>1 DEF Idle
  <1>3. calls' \in [Calls -> CallRecords]
    BY <1>1, CallTypes
  <1>4. SoldOutIsFinal'
    BY <1>1, <1>2, CallTypes DEF Inv, SoldOutIsFinal, Unminted
  <1>5. CASE calls[c].answer = NoSupply
    <2>1. UNCHANGED given
      BY <1>5 DEF MintReply
    <2>2. MintsAreAnsweredOnce'
      BY <1>1, <1>2, <1>5, <2>1, CallTypes
         DEF Inv, MintsAreAnsweredOnce, Holds
    <2> QED
      BY <1>1, <1>3, <1>4, <2>1, <2>2 DEF Inv, LedgerTypeOK
  <1>6. CASE calls[c].answer \in Indices
    <2> DEFINE i == calls[c].answer
    <2>1. given' = [given EXCEPT ![i] = @ + 1]
      BY <1>6, CallTypes DEF MintReply
    <2>2. /\ given[i] = 0 /\ given'[i] = 1 /\ ledger[i] # None
          /\ \A j \in Indices \ {i} : given'[j] = given[j]
          /\ given' \in [Indices -> Nat]
      BY <1>1, <1>6, <2>1 DEF Inv, MintsAreAnsweredOnce, Holds
    <2>3. \A d \in Calls \ {c} : calls[d].answer # i
      BY <1>6 DEF Inv, MintsAreAnsweredOnce, Holds
    <2>4. MintsAreAnsweredOnce'
      BY <1>1, <1>2, <1>6, <2>2, <2>3, CallTypes
         DEF Inv, MintsAreAnsweredOnce, Holds
    <2> QED
      BY <1>1, <1>3, <1>4, <2>2, <2>4 DEF Inv, LedgerTypeOK
  <1> QED
    BY <1>1, <1>5, <1>6

-----------------------------------------------------------------------------
\* Nothing is minted, held or given at first.
LEMMA InitInv == Init => Inv
  BY CallTypes, TokensAssumption
     DEF Init, Inv, LedgerTypeOK, MintsAreAnsweredOnce, Holds, SoldOutIsFinal,
         Idle

\* Every step keeps the invariant.
LEMMA NextInv == Inv /\ [Next]_vars => Inv'
  <1> SUFFICES ASSUME Inv, [Next]_vars PROVE Inv'
    OBVIOUS
  <1> USE CallTypes
  <1>1. ASSUME NEW c \in Calls, NEW to \in Accounts, Mint(c, to) PROVE Inv'
    <2>1. Minting(to).answer = None /\ Idle.answer = None
      BY DEF Minting, Idle
    <2> QED
      BY <1>1, <2>1, SlotStep DEF Mint
  <1>2. ASSUME NEW c \in Calls, MintRun(c) PROVE Inv'
    BY <1>2, MintRunKeepsInv
  <1>3. ASSUME NEW c \in Calls, MintReply(c) PROVE Inv'
    BY <1>3, MintReplyKeepsInv
  <1>4. ASSUME NEW c \in Calls, ShuffleMetadata(c) PROVE Inv'
    <2>1. Shuffling.answer = None /\ Idle.answer = None
      BY DEF Shuffling, Idle
    <2> QED
      BY <1>4, <2>1, SlotStep DEF ShuffleMetadata
  <1>5. ASSUME NEW c \in Calls, ShuffleResume(c) PROVE Inv'
    <2>1. calls[c].answer = None /\ Idle.answer = None
      BY <1>5 DEF ShuffleResume, Inv, LedgerTypeOK, CallRecords, Shuffling,
                  Idle
    <2>2. calls' = [calls EXCEPT ![c] = Idle] /\ UNCHANGED <<ledger, given>>
      BY <1>5 DEF ShuffleResume
    <2> QED
      BY <2>1, <2>2, SlotStep
  <1>6. ASSUME NEW c \in Calls, Fail(c) PROVE Inv'
    <2>1. Idle.answer = None
      BY DEF Idle
    <2> QED
      BY <1>6, <2>1, SlotStep DEF Fail
  <1>7. ASSUME NEW conf \in Confs, ConfigureMetadata(conf) PROVE Inv'
    BY <1>7, SideStep DEF ConfigureMetadata, Inv, LedgerTypeOK
  <1>8. ASSUME NEW i \in Indices, NEW to \in Accounts, Transfer(i, to)
        PROVE  Inv'
    BY <1>8, SideStep DEF Transfer, Inv, LedgerTypeOK
  <1>9. CASE UNCHANGED vars
    BY <1>9, SideStep DEF vars, Inv, LedgerTypeOK
  <1> QED
    BY <1>1, <1>2, <1>3, <1>4, <1>5, <1>6, <1>7, <1>8, <1>9 DEF Next

\* The invariant holds of every behaviour.
LEMMA Invariance == Spec => []Inv
  BY InitInv, NextInv, PTL DEF Spec

\* Every minted token is the answer to exactly one mint, for any supply and
\* any number of overlapping calls of admins and the launchpad.
THEOREM EveryMintAnsweredOnce == Spec => []MintsAreAnsweredOnce
  <1>1. Inv => MintsAreAnsweredOnce
    BY DEF Inv
  <1> QED
    BY <1>1, Invariance, PTL

\* "No more supply" is answered only when every token is minted.
THEOREM SoldOutIsTrue == Spec => []SoldOutIsFinal
  <1>1. Inv => SoldOutIsFinal
    BY DEF Inv
  <1> QED
    BY <1>1, Invariance, PTL
-----------------------------------------------------------------------------
\* The shuffle.

\* How often a legend occurs.
Count(order, l) == Cardinality({k \in DOMAIN order : order[k] = l})

\* Two orders of the same legends.
SameLegends(p, q) ==
  /\ q \in Seq(Legends) /\ Len(q) = Len(p)
  /\ \A l \in Legends : Count(q, l) = Count(p, l)

\* A swap of two entries is another order of them.
LEMMA SwapKeepsLegends ==
  ASSUME NEW order \in Seq(Legends),
         NEW a \in 1 .. Len(order), NEW b \in 1 .. Len(order)
  PROVE  SameLegends(order, Swap(order, a, b))
  <1> DEFINE D == 1 .. Len(order)
             q == Swap(order, a, b)
             turn == [k \in D |-> IF k = a THEN b ELSE IF k = b THEN a ELSE k]
  <1>1. order \in [D -> Legends] /\ DOMAIN order = D /\ Len(order) \in Nat
    OBVIOUS
  <1>2. q = [k \in D |-> order[turn[k]]]
    <2>1. q = [order EXCEPT ![a] = order[b], ![b] = order[a]]
      BY DEF Swap
    <2> QED
      BY <1>1, <2>1
  <1>3. turn \in [D -> D] /\ \A k \in D : turn[turn[k]] = k
    OBVIOUS
  <1> HIDE DEF q, turn
  <1>4. q \in [D -> Legends]
    BY <1>1, <1>2, <1>3
  <1>5. q \in Seq(Legends) /\ Len(q) = Len(order) /\ DOMAIN q = D
    BY <1>1, <1>4
  <1>6. ASSUME NEW l \in Legends PROVE Count(q, l) = Count(order, l)
    <2> DEFINE T == {k \in D : order[k] = l}
               U == {k \in D : q[k] = l}
               h == [k \in T |-> turn[k]]
    <2>1. h \in [T -> U]
      BY <1>1, <1>2, <1>3
    <2>2. \A i, j \in T : h[i] = h[j] => i = j
      BY <1>3
    <2>3. \A u \in U : turn[u] \in T /\ h[turn[u]] = u
      BY <1>2, <1>3
    <2>4. IsFiniteSet(T)
      <3>1. IsFiniteSet(D)
        BY <1>1, FS_Interval
      <3> QED
        BY <3>1, FS_Subset
    <2> HIDE DEF T, U, h
    <2>5. h \in Bijection(T, U)
      BY <2>1, <2>2, <2>3 DEF Bijection, Injection, IsInjective, Surjection
    <2>6. Cardinality(U) = Cardinality(T)
      BY <2>4, <2>5, FS_Bijection DEF ExistsBijection
    <2> QED
      BY <1>1, <1>5, <2>6 DEF Count, T, U
  <1> QED
    BY <1>5, <1>6 DEF SameLegends, q

\* A random number is below 100, ...
LEMMA PrngBound == \A x \in Nat : Prng(x) \in 0 .. 99
  <1> SUFFICES ASSUME NEW x \in Nat PROVE Prng(x) \in 0 .. 99
    OBVIOUS
  <1>1. PICK n \in Nat : n = (x * 109 + 57) % 256
    OBVIOUS
  <1>2. n % 100 \in 0 .. 99
    OBVIOUS
  <1> QED
    BY <1>1, <1>2 DEF Prng

\* ... so that the random index is within what is still to shuffle: the
\* assertion of the loop holds.
LEMMA RandomIndexFits ==
  ASSUME NEW random \in 0 .. 99, NEW n \in Nat, n > 0
  PROVE  (random * n) \div 100 + 1 \in 1 .. n
  <1>1. PICK p \in Nat : p = random * n
    OBVIOUS
  <1>2. p <= 99 * n
    BY <1>1
  <1>3. PICK d \in Nat : d = p \div 100
    BY <1>1
  <1>4. 100 * d <= p
    BY <1>3
  <1>5. d < n
    BY <1>2, <1>4
  <1> QED
    BY <1>1, <1>3, <1>5

\* What the loop computes, index by index, down to m.
Turns(order, minted, seed, m, after) ==
  after = [k \in m .. Len(order) |->
            IF k = Len(order) THEN [order |-> order, random |-> seed]
            ELSE LET loop == after[k + 1]
                     random == Prng(loop.random) IN
                 IF k \in minted THEN loop
                 ELSE [order  |-> Swap(loop.order, k + 1,
                                       (random * (k + 1)) \div 100 + 1),
                       random |-> random]]

\* Shuffled is the last step of such a loop, if there is one.
LEMMA ShuffledTurns ==
  ASSUME NEW order, NEW minted, NEW seed, NEW g,
         Turns(order, minted, seed, 1, g)
  PROVE  \E after : /\ Turns(order, minted, seed, 1, after)
                    /\ Shuffled(order, minted, seed) = after[1].order
  <1> DEFINE h == CHOOSE after : Turns(order, minted, seed, 1, after)
  <1>1. Turns(order, minted, seed, 1, h)
    BY Zenon
  <1>2. Shuffled(order, minted, seed) = h[1].order
    BY Zenon DEF Shuffled, Turns
  <1> QED
    BY <1>1, <1>2, Zenon
\* One round of the loop: what the next index makes of the one before.
Round(minted, k, loop) ==
  IF k \in minted THEN loop
  ELSE [order  |-> Swap(loop.order, k + 1,
                        (Prng(loop.random) * (k + 1)) \div 100 + 1),
        random |-> Prng(loop.random)]

\* The loop, round by round.
LEMMA TurnsRounds ==
  ASSUME NEW order, NEW minted, NEW seed, NEW m, NEW g
  PROVE  Turns(order, minted, seed, m, g)
           <=> g = [k \in m .. Len(order) |->
                      IF k = Len(order)
                      THEN [order |-> order, random |-> seed]
                      ELSE Round(minted, k, g[k + 1])]
  BY Zenon DEF Turns, Round

\* There is such a loop.
LEMMA TurnsExist ==
  ASSUME NEW order, NEW minted, NEW seed, Len(order) \in Nat \ {0}
  PROVE  \E after : Turns(order, minted, seed, 1, after)
  <1> DEFINE all == Len(order)
             first == [order |-> order, random |-> seed]
             S == {n \in Nat : n < all =>
                     \E g : Turns(order, minted, seed, all - n, g)}
  <1>1. 0 \in S
    <2> DEFINE g == [k \in all .. all |-> first]
    <2>1. g = [k \in all .. all |->
                 IF k = all THEN first ELSE Round(minted, k, g[k + 1])]
      OBVIOUS
    <2> HIDE DEF g
    <2>2. Turns(order, minted, seed, all, g)
      BY <2>1, TurnsRounds
    <2> QED
      BY <2>2
  <1>2. ASSUME NEW n \in Nat, n \in S PROVE n + 1 \in S
    <2> SUFFICES ASSUME n + 1 < all
                 PROVE  \E g : Turns(order, minted, seed, all - (n + 1), g)
      OBVIOUS
    <2>1. PICK g : Turns(order, minted, seed, all - n, g)
      BY <1>2
    <2>2. PICK m \in Nat : m = all - (n + 1) /\ m + 1 = all - n /\ m + 1 <= all
      OBVIOUS
    <2>3. g = [k \in m + 1 .. all |->
                 IF k = all THEN first ELSE Round(minted, k, g[k + 1])]
      BY <2>1, <2>2, TurnsRounds
    <2>4. PICK next : next = Round(minted, m, g[m + 1])
      OBVIOUS
    <2> DEFINE h == [k \in m .. all |-> IF k = m THEN next ELSE g[k]]
    <2>5. /\ h = [k \in m .. all |-> h[k]]
          /\ h[m] = next
          /\ \A k \in m + 1 .. all : h[k] = g[k]
      BY <2>2
    <2> HIDE DEF h, first
    <2>6. \A k \in m + 1 .. all :
            g[k] = IF k = all THEN first ELSE Round(minted, k, g[k + 1])
      BY <2>3
    <2>7. ASSUME NEW k \in m .. all
          PROVE  h[k] = IF k = all THEN first ELSE Round(minted, k, h[k + 1])
      <3>1. CASE k = m
        <4>1. k # all /\ m + 1 \in m + 1 .. all
          BY <2>2, <3>1
        <4>2. h[m + 1] = g[m + 1]
          BY <2>5, <4>1
        <4> QED
          BY <2>4, <2>5, <3>1, <4>1, <4>2
      <3>2. CASE k # m
        <4>1. k \in m + 1 .. all
          BY <2>2, <3>2
        <4>2. k # all => k + 1 \in m + 1 .. all
          BY <2>2, <4>1
        <4>3. h[k] = g[k] /\ (k # all => h[k + 1] = g[k + 1])
          BY <2>5, <4>1, <4>2
        <4> QED
          BY <2>6, <4>1, <4>3
      <3> QED
        BY <3>1, <3>2
    <2>8. h = [k \in m .. all |->
                 IF k = all THEN first ELSE Round(minted, k, h[k + 1])]
      BY <2>5, <2>7
    <2>9. Turns(order, minted, seed, m, h)
      BY <2>8, TurnsRounds DEF first
    <2> QED
      BY <2>2, <2>9
  <1>3. Nat \subseteq S
    <2> HIDE DEF S
    <2> QED
      BY <1>1, <1>2, SetInduction
  <1>4. all - 1 \in S /\ all - 1 < all /\ all - (all - 1) = 1
    BY <1>3
  <1> QED
    BY <1>4

\* The same legends as the same legends.
LEMMA SameLegendsTransitive ==
  ASSUME NEW p, NEW q, NEW r, SameLegends(p, q), SameLegends(q, r)
  PROVE  SameLegends(p, r)
  BY DEF SameLegends

\* A shuffle keeps the legends: none is lost or doubled, for any supply, any
\* tokens minted and any seed.
LEMMA ShuffleKeepsLegends ==
  ASSUME NEW order \in Seq(Legends), order # << >>, NEW minted,
         NEW seed \in Nat
  PROVE  SameLegends(order, Shuffled(order, minted, seed))
  <1> DEFINE all == Len(order)
  <1>1. all \in Nat \ {0}
    BY EmptySeq
  <1>2. PICK g : /\ Turns(order, minted, seed, 1, g)
                 /\ Shuffled(order, minted, seed) = g[1].order
    BY <1>1, TurnsExist, ShuffledTurns, Zenon
  <1>3. \A k \in 1 .. all :
          g[k] = IF k = all THEN [order |-> order, random |-> seed]
                 ELSE Round(minted, k, g[k + 1])
    <2>1. g = [k \in 1 .. all |->
                 IF k = all THEN [order |-> order, random |-> seed]
                 ELSE Round(minted, k, g[k + 1])]
      BY <1>2, TurnsRounds
    <2> QED
      BY <2>1
  <1> DEFINE Right(loop) == SameLegends(order, loop.order) /\ loop.random \in Nat
             S == {n \in Nat : n < all => Right(g[all - n])}
  <1>4. 0 \in S
    <2>1. g[all] = [order |-> order, random |-> seed]
      BY <1>1, <1>3
    <2>2. SameLegends(order, order)
      BY DEF SameLegends
    <2> QED
      BY <1>1, <2>1, <2>2
  <1>5. ASSUME NEW n \in Nat, n \in S PROVE n + 1 \in S
    <2> SUFFICES ASSUME n + 1 < all PROVE Right(g[all - (n + 1)])
      OBVIOUS
    <2>1. PICK k \in 1 .. all : /\ k = all - (n + 1) /\ k + 1 = all - n
                                /\ k # all /\ k + 1 <= all
      <3> HIDE DEF all
      <3>1. all - (n + 1) \in 1 .. all
        BY <1>1
      <3> QED
        BY <1>1, <3>1
    <2>2. PICK loop : loop = g[k + 1]
      OBVIOUS
    <2>3. SameLegends(order, loop.order) /\ loop.random \in Nat
      BY <1>1, <1>5, <2>1, <2>2
    <2>4. g[k] = Round(minted, k, loop)
      BY <1>3, <2>1, <2>2
    <2>5. CASE k \in minted
      BY <2>1, <2>3, <2>4, <2>5 DEF Round
    <2>6. CASE k \notin minted
      <3> DEFINE random == Prng(loop.random)
                 j == (random * (k + 1)) \div 100 + 1
                 next == Swap(loop.order, k + 1, j)
      <3>1. random \in 0 .. 99
        BY <2>3, PrngBound
      <3>2. k + 1 \in Nat /\ k + 1 > 0
        BY <2>1
      <3>3. j \in 1 .. k + 1
        <4> HIDE DEF random
        <4> QED
          BY <3>1, <3>2, RandomIndexFits
      <3>4. /\ loop.order \in Seq(Legends)
            /\ k + 1 \in 1 .. Len(loop.order) /\ j \in 1 .. Len(loop.order)
        <4>1. loop.order \in Seq(Legends) /\ Len(loop.order) = all
          BY <2>3 DEF SameLegends
        <4> HIDE DEF j, all
        <4> QED
          BY <1>1, <2>1, <3>2, <3>3, <4>1
      <3> HIDE DEF j
      <3>5. SameLegends(loop.order, next)
        BY <3>4, SwapKeepsLegends
      <3>6. SameLegends(order, next)
        BY <2>3, <3>5, SameLegendsTransitive
      <3>7. g[k] = [order |-> next, random |-> random]
        BY <2>4, <2>6, Zenon DEF Round, j
      <3>8. g[k].order = next /\ g[k].random = random /\ random \in Nat
        <4> HIDE DEF next, random
        <4>1. random \in Nat
          BY <3>1
        <4>2. g[k].order = next /\ g[k].random = random
          BY <3>7
        <4> QED
          BY <4>1, <4>2
      <3> QED
        BY <2>1, <3>6, <3>8
    <2> QED
      BY <2>5, <2>6
  <1>6. Nat \subseteq S
    <2> HIDE DEF S
    <2> QED
      BY <1>4, <1>5, SetInduction
  <1>7. Right(g[1])
    <2>1. all - 1 \in S /\ all - 1 < all /\ all - (all - 1) = 1
      BY <1>1, <1>6
    <2> HIDE DEF Right
    <2> QED
      BY <2>1
  <1> QED
    BY <1>2, <1>7

-----------------------------------------------------------------------------
\* The legends are those of the configuration.
LegendInv ==
  /\ metadata \in Seq(Legends) /\ Len(metadata) \in {0, Supply}
  /\ isShuffled \in BOOLEAN
  /\ \A l \in Legends : Count(metadata, l) = Count(configured, l)

\* They are so at first, and stay so.
LEMMA LegendInvHolds == Spec => []LegendInv
  <1>1. Init => LegendInv
    <2>1. << >> \in Seq(Legends) /\ Len(<< >>) = 0
      OBVIOUS
    <2> QED
      BY <2>1 DEF Init, LegendInv
  <1>2. LegendInv /\ [Next]_vars => LegendInv'
    <2> SUFFICES ASSUME LegendInv, [Next]_vars PROVE LegendInv'
      OBVIOUS
    <2>1. ASSUME UNCHANGED <<metadata, isShuffled, configured>>
          PROVE  LegendInv'
      BY <2>1 DEF LegendInv
    <2>2. ASSUME NEW c \in Calls, ShuffleResume(c) PROVE LegendInv'
      <3>1. PICK seed \in Seeds :
              metadata' = Shuffled(metadata, Indices \ Unminted, seed)
        BY <2>2 DEF ShuffleResume
      <3>2. metadata # << >> /\ isShuffled' = TRUE /\ UNCHANGED configured
        BY <2>2 DEF ShuffleResume
      <3>3. seed \in Nat
        BY TokensAssumption
      <3>4. SameLegends(metadata, metadata')
        BY <3>1, <3>2, <3>3, ShuffleKeepsLegends DEF LegendInv
      <3> QED
        BY <3>2, <3>4 DEF LegendInv, SameLegends
    <2>3. ASSUME NEW conf \in Confs, ConfigureMetadata(conf) PROVE LegendInv'
      <3>1. conf \in Seq(Legends)
        BY TokensAssumption
      <3> QED
        BY <2>3, <3>1 DEF ConfigureMetadata, LegendInv
    <2> QED
      BY <2>1, <2>2, <2>3
         DEF Next, vars, Mint, MintRun, MintReply, ShuffleMetadata, Fail,
             Transfer
  <1> QED
    BY <1>1, <1>2, PTL DEF Spec

\* The state is well formed: the ledger, the calls, and a legend for every
\* token or for none.
THEOREM TokensTyped == Spec => []TypeOK
  <1>1. Inv /\ LegendInv => TypeOK
    BY DEF Inv, LegendInv, TypeOK
  <1> QED
    BY <1>1, Invariance, LegendInvHolds, PTL

\* No legend is lost or doubled, for any supply and any seed, whatever is
\* minted, configured or shuffled while a shuffle awaits its seed.
THEOREM NoLegendIsLost == Spec => []LegendsAreComplete
  <1>1. LegendInv => LegendsAreComplete
    BY DEF LegendInv, LegendsAreComplete, Count
  <1> QED
    BY <1>1, LegendInvHolds, PTL
=============================================================================
