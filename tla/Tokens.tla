-------------------------------- MODULE Tokens --------------------------------
(***************************************************************************)
(* The token ledger and the legends (metadata) of src/Tokens/lib.mo, with  *)
(* the two ways to mint: main.mint of an admin and launchpadMint of        *)
(* src/bazaar/lib.mo.  Both await Tokens.mint, which runs as a message of  *)
(* its own; shuffleMetadata awaits a random blob.  One action per message; *)
(* calls[c] is the call in slot c.                                         *)
(***************************************************************************)
EXTENDS Integers, Sequences, FiniteSets

CONSTANTS
  Supply,    \* how many tokens the canister is installed with
  Accounts,  \* account identifiers
  Legends,   \* what a token's metadata may be
  Confs,     \* arguments of configureMetadata
  Seeds,     \* first bytes of the random blob
  Calls,     \* slots for calls in flight (a bound)
  None,
  NoSupply   \* the answer #err("No more supply."), or #NoneAvailable

Indices == 0 .. Supply - 1

ASSUME TokensAssumption ==
  /\ Supply \in Nat \ {0}
  /\ Confs \subseteq Seq(Legends)
  /\ Seeds \subseteq 0 .. 255
  /\ None \notin Accounts \cup Indices
  /\ NoSupply \notin Indices \cup {None}

VARIABLES
  ledger,      \* the owner of each token, None before it is minted
  metadata,    \* the legend of token i is metadata[i + 1]; empty at first
  isShuffled,
  calls,
  \* History, which the code does not keep:
  configured,  \* what metadata was last configured to be
  given        \* given[i]: how many mints were answered with token i

vars == <<ledger, metadata, isShuffled, calls, configured, given>>

Idle == [op |-> "idle", to |-> None, answer |-> None]
Minting(to) == [op |-> "mint", to |-> to, answer |-> None]
Shuffling == [op |-> "shuffle", to |-> None, answer |-> None]

CallRecords ==
  {Idle, Shuffling} \cup
  [op : {"mint"}, to : Accounts, answer : Indices \cup {None, NoSupply}]

-----------------------------------------------------------------------------
\* Minting.

Unminted == {i \in Indices : ledger[i] = None}

\* Mutants of NextMintIndex: a counter without a limit; a counter that wraps
\* around; a loop that stops before the last token.
NextMintIndex_Counter == {Supply - Cardinality(Unminted)}
NextMintIndex_Wraps == {(Supply - Cardinality(Unminted)) % Supply}
NextMintIndex_Short ==
  {i \in Unminted : i < Supply - 1 /\ \A j \in Unminted : i <= j}

\* _getNextMintIndex: the first token that is not minted, if there is one.
NextMintIndex == {i \in Unminted : \A j \in Unminted : i <= j}

\* Shuffling.

\* _prng: x * 1103515245 + 12345 as a signed byte, back as an unsigned one,
\* modulo 100.  Modulo 2^8 the two numbers are 109 and 57.
Prng(x) == ((x * 109 + 57) % 256) % 100

\* Mutant: without the temporary value.
Swap_NoTemporary(order, k, j) == [order EXCEPT ![k] = order[j]]

Swap(order, k, j) == [order EXCEPT ![k] = order[j], ![j] = order[k]]

\* The loop of shuffleMetadata: after[k] is the order of the legends, and the
\* last random number, when currentIndex has come down to k.  A minted index
\* is passed over, but may still be the random index of another.
Shuffled(order, minted, seed) ==
  LET after[k \in 1 .. Len(order)] ==
        IF k = Len(order) THEN [order |-> order, random |-> seed]
        ELSE LET loop == after[k + 1]
                 random == Prng(loop.random) IN
             IF k \in minted THEN loop
             ELSE [order  |-> Swap(loop.order, k + 1,
                                   (random * (k + 1)) \div 100 + 1),
                   random |-> random]
  IN  after[1].order

-----------------------------------------------------------------------------
Init ==
  /\ ledger = [i \in Indices |-> None]
  /\ metadata = << >> /\ configured = << >>
  /\ isShuffled = FALSE
  /\ calls = [c \in Calls |-> Idle]
  /\ given = [i \in Indices |-> 0]

\* main.mint, launchpadMint: the caller is checked, Tokens.mint is called.
Mint(c, to) ==
  /\ calls[c] = Idle
  /\ calls' = [calls EXCEPT ![c] = Minting(to)]
  /\ UNCHANGED <<ledger, metadata, isShuffled, configured, given>>

\* Tokens.mint.
MintRun(c) ==
  /\ calls[c].op = "mint" /\ calls[c].answer = None
  /\ \/ \E i \in NextMintIndex :
          /\ ledger' = [ledger EXCEPT ![i] = calls[c].to]
          /\ calls' = [calls EXCEPT ![c].answer = i]
     \/ /\ NextMintIndex = {}
        /\ calls' = [calls EXCEPT ![c].answer = NoSupply]
        /\ UNCHANGED ledger
  /\ UNCHANGED <<metadata, isShuffled, configured, given>>

\* The caller is answered.
MintReply(c) ==
  /\ calls[c].op = "mint" /\ calls[c].answer # None
  /\ calls' = [calls EXCEPT ![c] = Idle]
  /\ given' = IF calls[c].answer = NoSupply THEN given
              ELSE [given EXCEPT ![calls[c].answer] = @ + 1]
  /\ UNCHANGED <<ledger, metadata, isShuffled, configured>>

ShuffleMetadata(c) ==
  /\ calls[c] = Idle /\ ~isShuffled
  /\ calls' = [calls EXCEPT ![c] = Shuffling]
  /\ UNCHANGED <<ledger, metadata, isShuffled, configured, given>>

\* The random blob arrives: the rest of shuffleMetadata.
ShuffleResume(c) ==
  /\ calls[c].op = "shuffle" /\ metadata # << >>
  /\ \E seed \in Seeds :
       metadata' = Shuffled(metadata, Indices \ Unminted, seed)
  /\ isShuffled' = TRUE
  /\ calls' = [calls EXCEPT ![c] = Idle]
  /\ UNCHANGED <<ledger, configured, given>>

\* An awaited call fails: Tokens.mint asserts that the caller still is an
\* admin, the random blob may be refused, and without metadata the loop of the
\* shuffle starts at index 0 - 1, which traps.
Fail(c) ==
  /\ calls[c] # Idle /\ calls[c].answer = None
  /\ calls' = [calls EXCEPT ![c] = Idle]
  /\ UNCHANGED <<ledger, metadata, isShuffled, configured, given>>

ConfigureMetadata(conf) ==
  /\ ~isShuffled
  /\ Len(conf) = Supply
  /\ metadata' = conf /\ configured' = conf
  /\ UNCHANGED <<ledger, isShuffled, calls, given>>

\* The owner of token i gives or sells it.
Transfer(i, to) ==
  /\ ledger[i] # None
  /\ ledger' = [ledger EXCEPT ![i] = to]
  /\ UNCHANGED <<metadata, isShuffled, calls, configured, given>>

Next ==
  \/ \E c \in Calls :
       \/ \E to \in Accounts : Mint(c, to)
       \/ MintRun(c) \/ MintReply(c)
       \/ ShuffleMetadata(c) \/ ShuffleResume(c)
       \/ Fail(c)
  \/ \E conf \in Confs : ConfigureMetadata(conf)
  \/ \E i \in Indices, to \in Accounts : Transfer(i, to)

Spec == Init /\ [][Next]_vars

-----------------------------------------------------------------------------
\* Properties.

LedgerTypeOK ==
  /\ ledger \in [Indices -> Accounts \cup {None}]
  /\ calls \in [Calls -> CallRecords]
  /\ given \in [Indices -> Nat]

TypeOK ==
  /\ LedgerTypeOK
  /\ metadata \in Seq(Legends) /\ Len(metadata) \in {0, Supply}
  /\ isShuffled \in BOOLEAN

Holds(c, i) == calls[c].answer = i

\* Every token that is minted is the answer to exactly one mint, given or on
\* its way, however admins and the launchpad overlap: no two buyers are told
\* of one token, and no token is minted without anyone being told.
MintsAreAnsweredOnce ==
  \A i \in Indices :
    /\ \A c, d \in Calls : Holds(c, i) /\ Holds(d, i) => c = d
    /\ \A c \in Calls : Holds(c, i) => ledger[i] # None /\ given[i] = 0
    /\ ledger[i] = None => given[i] = 0
    /\ ledger[i] # None => given[i] = 1 \/ \E c \in Calls : Holds(c, i)
    /\ given[i] <= 1

\* Who is told that nothing is available, is told so only when every token is
\* minted, also by the time the answer arrives ("No more supply").
SoldOutIsFinal ==
  \A c \in Calls : calls[c].answer = NoSupply => Unminted = {}

\* No legend is lost or doubled: whatever is minted, configured or shuffled
\* while a shuffle awaits its seed, the metadata stays a permutation of the
\* configuration.
LegendsAreComplete ==
  \A l \in Legends :
    Cardinality({k \in DOMAIN metadata : metadata[k] = l})
      = Cardinality({k \in DOMAIN configured : configured[k] = l})

\* A legend that was shuffled and minted is what its owner keeps ("assert ...
\* isShuffled == false").
LegendsAreFinal ==
  [][\A i \in Indices : isShuffled /\ ledger[i] # None =>
       metadata'[i + 1] = metadata[i + 1]]_vars
=============================================================================
