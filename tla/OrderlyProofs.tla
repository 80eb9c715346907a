---------------------------- MODULE OrderlyProofs ----------------------------
(***************************************************************************)
(* Proofs about the marketplace when calls on a token do not get in each   *)
(* other's way (Orderly), for any number of tokens, accounts, calls and    *)
(* locks: the seller owns what is for sale, an order is settled once, and  *)
(* who pays in time is not forgotten.  Each holds by what the calls in     *)
(* flight know of their token, so the invariants are inductive together.   *)
(***************************************************************************)
EXTENDS EntrepotOrderly, EntrepotProofs, Sums

-----------------------------------------------------------------------------
\* The inductive invariant.

\* While a list or a lock is under way, no other call runs on its token.
Alone ==
  \A c, d \in Calls :
    c # d /\ calls[c].op \in {"list", "lock"} /\ calls[d].op # None =>
      calls[c].index # calls[d].index

\* A listing belongs to the owner, ...
Offered(i) == listings[i] # None => listings[i].seller = owner[i]

\* ... and so does a pending order, which is not settled, has its listing unless
\* a list went past it, and, until its deadline, the lock on it.
Open(i) ==
  LET tx == pendingTransactions[i] IN
  tx # None =>
    /\ tx.to # tx.seller
    /\ sold[tx.sub] = 0
    /\ tx.sub \notin passed => listings[i] # None /\ tx.seller = owner[i]
    /\ tx.sub > lapsed => listings[i] # None /\ listings[i].locked = tx.sub

\* The settle that a list or a lock awaits has sold nothing (so far).
Unsold(call) ==
  /\ call.pc # "cap"
  /\ call.pc = "settled" => call.res # "ok"
  /\ call.pc = "resume" => call.res # "err"

\* A list in flight is the owner's, of a token that is not locked; after its
\* settle no order is pending, if it could settle.
ListRight(call) ==
  call.op = "list" =>
    /\ Unsold(call) => call.who = owner[call.index]
    /\ ~IsLocked(call.index)
    /\ call.own /\ call.pc \in {"cap", "settled", "resume"} =>
         pendingTransactions[call.index] = None

\* A lock in flight has its number on the owner's listing; an older order is
\* past its deadline, and after the lock's settle it is known to be unpaid.
LockRight(call) ==
  call.op = "lock" =>
    /\ call.who # call.seller
    /\ call.sub > lapsed
    /\ Unsold(call) => /\ call.seller = owner[call.index]
                       /\ listings[call.index] # None
                       /\ listings[call.index].locked = call.sub
    /\ call.pc = "cap" => pendingTransactions[call.index] = None
    /\ pendingTransactions[call.index] # None =>
         LET old == pendingTransactions[call.index].sub IN
         /\ old <= lapsed
         /\ call.pc \in {"settled", "resume"} => old \notin inTime

\* A settle in flight has read the order that is still pending, if one is; once
\* that is sold the seller has no token to sell again; and what it was told of
\* a payment made in time is enough.
SettleRight(call) ==
  call.tx # None =>
    /\ pendingTransactions[call.index] \in {None, call.tx}
    /\ call.tx.to # call.tx.seller
    /\ sold[call.tx.sub] = 0 \/ owner[call.index] = call.tx.to
    /\ call.pc = "funds" /\ call.tx.sub \in inTime =>
         \/ call.funds >= call.tx.price \/ call.tx.sub > lapsed
         \/ sold[call.tx.sub] > 0

CallRight(call) == ListRight(call) /\ LockRight(call) /\ SettleRight(call)

\* Settles of one token have read the same order.
Agreed ==
  \A c, d \in Calls :
    calls[c].tx # None /\ calls[d].tx # None /\ calls[c].index = calls[d].index
      => calls[c].tx = calls[d].tx

\* An order that is paid in time, or may still be, is sold or pending; a list
\* only goes past one whose deadline has passed.
Kept(s) ==
  /\ sold[s] <= 1
  /\ sold[s] > 0 \/ s \in inTime => orders[s] # None
  /\ orders[s] # None /\ (s \in inTime \/ s > lapsed) =>
       \/ sold[s] > 0
       \/ LET tx == pendingTransactions[orders[s].token]
          IN  tx # None /\ tx.sub = s
  /\ sold[s] = 0 => balance[s] = deposited[s]
  /\ s \in inTime => deposited[s] >= orders[s].price
  /\ s \in passed => s <= lapsed

OInv ==
  /\ \A i \in Tokens : Offered(i) /\ Open(i)
  /\ Alone /\ Agreed
  /\ \A c \in Calls : CallRight(calls[c])
  /\ \A s \in Locks : Kept(s)
  /\ lapsed <= nextSubAccount

-----------------------------------------------------------------------------
\* Calls that begin, go on and end.

\* A call in slot c that went on as this one would be alone on its token, ...
AloneWith(c, call) ==
  \A d \in Calls \ {c} :
    /\ call.op # None /\ calls[d].op # None
    /\ call.op \in {"list", "lock"} \/ calls[d].op \in {"list", "lock"}
    => call.index # calls[d].index

\* ... and have read what others have.
AgreedWith(c, call) ==
  \A d \in Calls \ {c} :
    call.tx # None /\ calls[d].tx # None /\ call.index = calls[d].index =>
      call.tx = calls[d].tx

\* The other calls stay as they are.
LEMMA OneMoves ==
  ASSUME Inv, NEW c \in Calls, NEW call, Goto(c, call)
  PROVE  calls'[c] = call /\ \A d \in Calls \ {c} : calls'[d] = calls[d]
  BY DEF Inv, TypeOK, Goto

\* Calls stay alone and agreed when one moves so.
LEMMA PairsKept ==
  ASSUME Inv, Alone, Agreed, NEW c \in Calls, NEW call, Goto(c, call),
         AloneWith(c, call), AgreedWith(c, call)
  PROVE  Alone' /\ Agreed'
  <1>1. calls'[c] = call /\ \A d \in Calls \ {c} : calls'[d] = calls[d]
    BY OneMoves
  <1>2. Alone'
    BY <1>1, MarketAssumption DEF Alone, AloneWith
  <1>3. Agreed'
    BY <1>1 DEF Agreed, AgreedWith
  <1> QED
    BY <1>2, <1>3

\* A call that goes on for its function and token, with what it had read, does.
LEMMA GoesOn ==
  ASSUME Alone, Agreed, NEW c \in Calls, NEW call,
         call.op = calls[c].op, call.index = calls[c].index,
         call.tx \in {None, calls[c].tx}
  PROVE  AloneWith(c, call) /\ AgreedWith(c, call)
  BY DEF Alone, Agreed, AloneWith, AgreedWith

\* So does a call that ends.
LEMMA Ends ==
  ASSUME NEW c \in Calls
  PROVE  AloneWith(c, Idle) /\ AgreedWith(c, Idle) /\ CallRight(Idle)
  BY MarketAssumption DEF AloneWith, AgreedWith, CallRight, ListRight,
                          LockRight, SettleRight, Idle

\* A slot at rest holds no call.
LEMMA AtRest ==
  ASSUME Inv, NEW c \in Calls, calls[c].pc = "idle"
  PROVE  calls[c].op = None
  BY CallFacts DEF WellFormed

\* What Orderly says of the tokens of other calls when one begins.
LEMMA Begun ==
  ASSUME Inv, ListAlone, LockAlone, NEW c \in Calls, NEW i \in Tokens,
         NEW op \in {"list", "lock", "settle"}, Begins(c, op, i),
         NEW call, call.op = op, call.index = i
  PROVE  AloneWith(c, call)
  <1> SUFFICES ASSUME NEW d \in Calls \ {c}, calls[d].op # None,
                      \/ op \in {"list", "lock"}
                      \/ calls[d].op \in {"list", "lock"}
               PROVE  calls[d].index # i
    BY DEF AloneWith
  <1>1. calls[d].op \in {"list", "lock", "settle"}
    BY CallFacts DEF Call
  <1> QED
    BY <1>1 DEF ListAlone, LockAlone, Busy

\* A step that moves one call forward and changes nothing else keeps the
\* invariant, when what the call knows is right.
LEMMA MoveOrderly ==
  ASSUME Inv, OInv, UNCHANGED market, NEW c \in Calls, NEW call,
         Goto(c, call), AloneWith(c, call), AgreedWith(c, call),
         CallRight(call)
  PROVE  OInv'
  <1>1. calls'[c] = call /\ \A d \in Calls \ {c} : calls'[d] = calls[d]
    BY OneMoves
  <1>2. Alone' /\ Agreed'
    BY PairsKept DEF OInv
  <1>3. UNCHANGED <<owner, listings, pendingTransactions, nextSubAccount,
                    balance, lapsed, orders, deposited, inTime, sold, passed>>
    BY DEF market, history
  <1>4. \A d \in Calls : CallRight(calls'[d])
    BY <1>1 DEF OInv
  <1>5. \A d \in Calls : CallRight(calls[d])'
    BY <1>3, <1>4 DEF CallRight, ListRight, LockRight, SettleRight, IsLocked,
                      Unsold
  <1>6. \A i \in Tokens : Offered(i)' /\ Open(i)'
    BY <1>3 DEF OInv, Offered, Open
  <1>7. \A s \in Locks : Kept(s)'
    BY <1>3 DEF OInv, Kept
  <1> QED
    BY <1>2, <1>3, <1>5, <1>6, <1>7 DEF OInv

-----------------------------------------------------------------------------
\* The messages that only move their call forward.

\* _canSettle goes on at once only if nothing is pending.
LEMMA CanSettleOrderly ==
  ASSUME Inv, OInv, NEW c \in Calls, CanSettle(c)
  PROVE  OInv'
  <1> DEFINE call == IF pendingTransactions[calls[c].index] = None
                     THEN [calls[c] EXCEPT !.pc = "resume", !.res = "ok"]
                     ELSE [calls[c] EXCEPT !.pc = "settle"]
  <1>1. calls[c] \in Call /\ CallRight(calls[c]) /\ calls[c].pc = "canSettle"
    BY CallFacts DEF OInv, CanSettle
  <1>2. /\ call.op = calls[c].op /\ call.index = calls[c].index
        /\ call.tx = calls[c].tx /\ call.who = calls[c].who
        /\ call.seller = calls[c].seller /\ call.sub = calls[c].sub
        /\ call.own = calls[c].own
        /\ \/ call.pc = "settle"
           \/ /\ pendingTransactions[call.index] = None
              /\ call.pc = "resume" /\ call.res = "ok"
    BY <1>1 DEF Call
  <1>3. Goto(c, call) /\ UNCHANGED market
    BY DEF CanSettle
  <1> HIDE DEF call
  <1>4. CallRight(call)
    BY <1>1, <1>2 DEF CallRight, ListRight, LockRight, SettleRight, Unsold
  <1>5. AloneWith(c, call) /\ AgreedWith(c, call)
    BY <1>2, GoesOn DEF OInv
  <1> QED
    BY <1>3, <1>4, <1>5, MoveOrderly

\* After a settle that sold the token, or lost the listing, _canSettle is an
\* error.
LEMMA CanSettleResumeOrderly ==
  ASSUME Inv, OInv, NEW c \in Calls, CanSettleResume(c)
  PROVE  OInv'
  <1> DEFINE res == IF calls[c].res = "ok" \/ listings[calls[c].index] = None
                    THEN "err" ELSE "ok"
             call == [calls[c] EXCEPT !.pc = "resume", !.res = res]
  <1>1. calls[c] \in Call /\ CallRight(calls[c]) /\ calls[c].pc = "settled"
    BY CallFacts DEF OInv, CanSettleResume
  <1>2. /\ call.op = calls[c].op /\ call.index = calls[c].index
        /\ call.tx = calls[c].tx /\ call.who = calls[c].who
        /\ call.seller = calls[c].seller /\ call.sub = calls[c].sub
        /\ call.own = calls[c].own
        /\ call.pc = "resume" /\ call.res = res
    BY <1>1 DEF Call
  <1>3. Goto(c, call) /\ UNCHANGED market
    BY DEF CanSettleResume
  <1>4. res # "err" => calls[c].res # "ok"
    OBVIOUS
  <1> HIDE DEF call, res
  <1>5. CallRight(call)
    BY <1>1, <1>2, <1>4 DEF CallRight, ListRight, LockRight, SettleRight, Unsold
  <1>6. AloneWith(c, call) /\ AgreedWith(c, call)
    BY <1>2, GoesOn DEF OInv
  <1> QED
    BY <1>3, <1>5, <1>6, MoveOrderly

\* A call that ends without doing anything: an error, a reject or a trap.
LEMMA EndOrderly ==
  ASSUME Inv, OInv, NEW c \in Calls, Goto(c, Idle), UNCHANGED market
  PROVE  OInv'
  BY Ends, MoveOrderly

\* Cap has answered to a settle: what is sold stays sold.
LEMMA CapReplyOrderly ==
  ASSUME Inv, OInv, NEW c \in Calls, CapReply(c)
  PROVE  OInv'
  <1> DEFINE call == AfterSettle(calls[c], "ok")
  <1>1. /\ calls[c] \in Call /\ CallRight(calls[c]) /\ calls[c].pc = "cap"
        /\ Goto(c, call) /\ UNCHANGED market
    BY CallFacts DEF OInv, CapReply
  <1>2. CASE calls[c].op = "settle"
    BY <1>1, <1>2, EndOrderly DEF AfterSettle
  <1>3. CASE calls[c].op # "settle"
    <2>1. /\ call.op = calls[c].op /\ call.index = calls[c].index
          /\ call.tx = None /\ call.who = calls[c].who
          /\ call.seller = calls[c].seller /\ call.sub = calls[c].sub
          /\ call.own = calls[c].own
          /\ call.pc = "settled" /\ call.res = "ok"
      BY <1>1, <1>3 DEF Call, AfterSettle
    <2> HIDE DEF call
    <2>2. CallRight(call)
      <3>1. ListRight(call)
        BY <1>1, <2>1 DEF CallRight, ListRight, Unsold
      <3>2. LockRight(call)
        BY <1>1, <2>1 DEF CallRight, LockRight, Unsold
      <3> QED
        BY <2>1, <3>1, <3>2 DEF CallRight, SettleRight
    <2>3. AloneWith(c, call) /\ AgreedWith(c, call)
      BY <2>1, GoesOn DEF OInv
    <2> QED
      BY <1>1, <2>2, <2>3, MoveOrderly
  <1> QED
    BY <1>2, <1>3

\* A settle reads the pending order of its token, which others have read, too.
LEMMA ReadsAgree ==
  ASSUME Inv, OInv, NEW c \in Calls, NEW call, call.index \in Tokens,
         call.tx = pendingTransactions[call.index], call.tx # None,
         call.pc = "balance"
  PROVE  SettleRight(call) /\ AgreedWith(c, call)
  <1>1. Open(call.index)
    BY DEF OInv
  <1>2. \A d \in Calls : SettleRight(calls[d])
    BY DEF OInv, CallRight
  <1> QED
    BY <1>1, <1>2 DEF Open, SettleRight, AgreedWith

\* Someone calls settle.
LEMMA SettleOrderly ==
  ASSUME Inv, OInv, NEW c \in Calls, NEW i \in Tokens, Settle(c, i),
         ListAlone, LockAlone
  PROVE  OInv'
  <1> DEFINE call == [Idle EXCEPT !.pc = "balance", !.op = "settle",
                              !.index = i, !.tx = pendingTransactions[i]]
  <1>1. /\ call.op = "settle" /\ call.index = i /\ call.pc = "balance"
        /\ call.tx = pendingTransactions[i] /\ call.tx # None
    BY DEF Settle, Idle
  <1>2. Goto(c, call) /\ UNCHANGED market
    BY DEF Settle
  <1> HIDE DEF call
  <1>3. Begins(c, "settle", i)
    BY <1>1, <1>2, AtRest, OneMoves DEF Settle, Begins
  <1>4. AloneWith(c, call)
    BY <1>1, <1>3, Begun
  <1>5. SettleRight(call) /\ AgreedWith(c, call)
    BY <1>1, ReadsAgree
  <1>6. CallRight(call)
    BY <1>1, <1>5 DEF CallRight, ListRight, LockRight
  <1> QED
    BY <1>2, <1>4, <1>5, <1>6, MoveOrderly

\* A settle that was called by the heartbeat, or by list or lock, begins; for
\* those, to find nothing pending is as good as an order that is dropped; one
\* of another canister's token is refused.
LEMMA SettleBeginOrderly ==
  ASSUME Inv, OInv, NEW c \in Calls, SettleBegin(c)
  PROVE  OInv'
  <1> DEFINE tx == pendingTransactions[calls[c].index]
             call == [calls[c] EXCEPT !.pc = "balance", !.tx = tx]
             back == AfterSettle(calls[c], "err")
  <1>1. /\ calls[c] \in Call /\ CallRight(calls[c]) /\ calls[c].pc = "settle"
        /\ calls[c].index \in Tokens
        /\ UNCHANGED market
    BY CallFacts DEF OInv, SettleBegin, WellFormed, Idle
  <1>2. CASE ~calls[c].own \/ tx = None
    <2>1. Goto(c, back)
      BY <1>2 DEF SettleBegin
    <2>2. CASE calls[c].op = "settle"
      BY <1>1, <2>1, <2>2, EndOrderly DEF AfterSettle
    <2>3. CASE calls[c].op # "settle"
      <3>1. /\ back.op = calls[c].op /\ back.index = calls[c].index
            /\ back.tx = None /\ back.who = calls[c].who
            /\ back.seller = calls[c].seller /\ back.sub = calls[c].sub
            /\ back.pc = "settled" /\ back.res = "err"
            /\ back.own = calls[c].own
        BY <1>1, <2>3 DEF Call, AfterSettle
      <3> HIDE DEF back
      <3>2. CallRight(back)
        <4>1. back.own => pendingTransactions[back.index] = None
          BY <1>2, <3>1
        <4>2. back.op = "lock" => back.own
          BY <1>1, <3>1, CallFacts DEF WellFormed
        <4> QED
          BY <1>1, <3>1, <4>1, <4>2
          DEF CallRight, ListRight, LockRight, SettleRight, Unsold
      <3>3. AloneWith(c, back) /\ AgreedWith(c, back)
        BY <3>1, GoesOn DEF OInv
      <3> QED
        BY <1>1, <2>1, <3>2, <3>3, MoveOrderly
    <2> QED
      BY <2>2, <2>3
  <1>3. CASE calls[c].own /\ tx # None
    <2>1. /\ call.op = calls[c].op /\ call.index = calls[c].index
          /\ call.who = calls[c].who /\ call.tx = tx
          /\ call.seller = calls[c].seller /\ call.sub = calls[c].sub
          /\ call.own = calls[c].own
          /\ call.pc = "balance"
      BY <1>1 DEF Call
    <2>2. Goto(c, call)
      BY <1>3 DEF SettleBegin
    <2> HIDE DEF call
    <2>3. SettleRight(call) /\ AgreedWith(c, call)
      BY <1>1, <1>3, <2>1, ReadsAgree
    <2>4. ListRight(call) /\ LockRight(call)
      BY <1>1, <2>1 DEF CallRight, ListRight, LockRight, Unsold
    <2>5. AloneWith(c, call)
      BY <2>1 DEF AloneWith, OInv, Alone
    <2> QED
      BY <1>1, <2>2, <2>3, <2>4, <2>5, MoveOrderly DEF CallRight
  <1> QED
    BY <1>2, <1>3

\* The ledger tells a settle of every payment made in time so far.
LEMMA BalanceReplyOrderly ==
  ASSUME Inv, OInv, NEW c \in Calls, BalanceReply(c)
  PROVE  OInv'
  <1> DEFINE funds == balance[calls[c].tx.sub]
             call == [calls[c] EXCEPT !.pc = "funds", !.funds = funds]
  <1>1. /\ calls[c] \in Call /\ CallRight(calls[c]) /\ calls[c].pc = "balance"
        /\ calls[c].tx \in Transaction /\ calls[c].tx # None
        /\ calls[c].tx.sub \in Locks
        /\ orders[calls[c].tx.sub] = OrderOf(calls[c].tx)
    BY CallFacts, MarketAssumption
    DEF OInv, BalanceReply, WellFormed, Transaction
  <1>2. /\ call.op = calls[c].op /\ call.index = calls[c].index
        /\ call.tx = calls[c].tx /\ call.who = calls[c].who
        /\ call.seller = calls[c].seller /\ call.sub = calls[c].sub
        /\ call.own = calls[c].own
        /\ call.pc = "funds" /\ call.funds = funds
    BY <1>1 DEF Call
  <1>3. Goto(c, call) /\ UNCHANGED market
    BY DEF BalanceReply
  <1>4. calls[c].tx.sub \in inTime =>
          funds >= calls[c].tx.price \/ sold[calls[c].tx.sub] > 0
    BY <1>1 DEF OInv, Kept, OrderOf, Inv, TypeOK
  <1> HIDE DEF call, funds
  <1>5. CallRight(call)
    BY <1>1, <1>2, <1>4
    DEF CallRight, ListRight, LockRight, SettleRight, Unsold
  <1>6. AloneWith(c, call) /\ AgreedWith(c, call)
    BY <1>2, GoesOn DEF OInv
  <1> QED
    BY <1>3, <1>5, <1>6, MoveOrderly

-----------------------------------------------------------------------------
\* The messages that change one token.

\* What a call knows stays right while its token does not change.
LEMMA CallStays ==
  ASSUME Inv, OInv, NEW d \in Calls, calls'[d] = calls[d],
         LET i == calls[d].index IN
           i \in Tokens => /\ owner'[i] = owner[i]
                           /\ listings'[i] = listings[i]
                           /\ pendingTransactions'[i] = pendingTransactions[i],
         UNCHANGED <<lapsed, inTime>>,
         calls[d].tx # None => sold'[calls[d].tx.sub] = sold[calls[d].tx.sub]
  PROVE  CallRight(calls[d])'
  <1>1. calls[d] \in Call /\ WellFormed(calls[d]) /\ CallRight(calls[d])
    BY CallFacts DEF OInv
  <1>2. CASE calls[d].op = None
    <2>1. calls'[d].op = None /\ calls'[d].tx = None
      BY <1>1, <1>2 DEF WellFormed, Idle
    <2> QED
      BY <2>1, MarketAssumption DEF CallRight, ListRight, LockRight, SettleRight
  <1>3. CASE calls[d].op # None
    <2>1. calls[d].index \in Tokens
      BY <1>1, <1>3 DEF WellFormed
    <2> QED
      BY <1>1, <2>1
      DEF CallRight, ListRight, LockRight, SettleRight, Unsold, IsLocked
  <1> QED
    BY <1>2, <1>3

\* The order of a transaction is one, for its token.
LEMMA OrderIsOne ==
  ASSUME NEW tx \in Transaction
  PROVE  /\ OrderOf(tx) # None /\ OrderOf(tx).token = tx.token
         /\ OrderOf(tx).price = tx.price
  BY MarketAssumption DEF OrderOf, Transaction, Order

\* A step that changes one token, and the orders for it, keeps the invariant,
\* when it is right for that token, its orders and its calls.
LEMMA TokenOrderly ==
  ASSUME Inv, OInv, NEW i \in Tokens,
         \A j \in Tokens \ {i} :
           /\ owner'[j] = owner[j] /\ listings'[j] = listings[j]
           /\ pendingTransactions'[j] = pendingTransactions[j],
         UNCHANGED <<lapsed, inTime, balance, deposited>>,
         lapsed <= nextSubAccount',
         \A s \in Locks : orders[s] # None /\ orders[s].token # i =>
                            /\ orders'[s] = orders[s] /\ sold'[s] = sold[s]
                            /\ s \in passed' <=> s \in passed,
         Offered(i)', Open(i)', Alone', Agreed',
         \A s \in Locks : orders[s] = None \/ orders[s].token = i => Kept(s)',
         \A d \in Calls : \/ CallRight(calls[d])'
                          \/ calls'[d] = calls[d] /\ calls[d].index # i
  PROVE  OInv'
  <1>1. ASSUME NEW j \in Tokens \ {i}
        PROVE  Offered(j)' /\ Open(j)'
    <2>1. pendingTransactions[j] # None =>
            LET s == pendingTransactions[j].sub IN
            /\ sold'[s] = sold[s]
            /\ s \in passed' <=> s \in passed
      BY <1>1, PendingFacts, OrderIsOne
    <2> QED
      BY <1>1, <2>1 DEF OInv, Offered, Open
  <1>2. ASSUME NEW d \in Calls, calls'[d] = calls[d], calls[d].index # i
        PROVE  CallRight(calls[d])'
    <2>1. calls[d].tx # None => sold'[calls[d].tx.sub] = sold[calls[d].tx.sub]
      <3>1. SUFFICES ASSUME calls[d].tx # None
                     PROVE  sold'[calls[d].tx.sub] = sold[calls[d].tx.sub]
        OBVIOUS
      <3>2. calls[d].tx \in Transaction /\ calls[d].tx.token # i
            /\ orders[calls[d].tx.sub] = OrderOf(calls[d].tx)
        BY <1>2, <3>1, CallFacts DEF Call
      <3> QED
        BY <3>2, OrderIsOne DEF Transaction
    <2> QED
      BY <1>2, <2>1, CallStays
  <1>3. ASSUME NEW s \in Locks, orders[s] # None, orders[s].token # i
        PROVE  Kept(s)'
    <2>1. orders[s].token \in Tokens
      BY <1>3 DEF Inv, TypeOK, Order
    <2> QED
      BY <1>3, <2>1 DEF OInv, Kept
  <1> QED
    BY <1>1, <1>2, <1>3 DEF OInv

\* Nothing else runs on the token of a list or a lock.
LEMMA NoOther ==
  ASSUME Inv, NEW c \in Calls, NEW call, AloneWith(c, call),
         call.op \in {"list", "lock"}, call.index \in Tokens
  PROVE  \A d \in Calls \ {c} : calls[d].index # call.index
  BY CallFacts, MarketAssumption DEF AloneWith, WellFormed, Idle

\* An owner lists a token.
LEMMA ListOrderly ==
  ASSUME Inv, OInv, NEW c \in Calls, NEW i \in Tokens, NEW a \in Accounts,
         NEW p \in Prices \cup {None}, NEW own \in BOOLEAN,
         List(c, i, a, p, own), ListAlone, LockAlone
  PROVE  OInv'
  <1> DEFINE call == [Idle EXCEPT !.pc = "canSettle", !.op = "list",
                              !.index = i, !.own = own, !.who = a,
                              !.price = p]
  <1>1. /\ call.op = "list" /\ call.index = i /\ call.pc = "canSettle"
        /\ call.tx = None /\ call.who = owner[i]
    BY DEF List, Idle
  <1>2. /\ Goto(c, call)
        /\ UNCHANGED <<owner, listings, pendingTransactions, nextSubAccount,
                       balance, lapsed, orders, deposited, inTime,
                       sold, passed>>
    BY DEF List
  <1> HIDE DEF call
  <1>3. calls'[c] = call /\ \A d \in Calls \ {c} : calls'[d] = calls[d]
    BY <1>2, OneMoves
  <1>4. Begins(c, "list", i)
    BY <1>1, <1>3, AtRest DEF List, Begins
  <1>5. AloneWith(c, call) /\ AgreedWith(c, call)
    BY <1>1, <1>4, Begun DEF AgreedWith
  <1>6. Alone' /\ Agreed'
    BY <1>2, <1>5, PairsKept DEF OInv
  <1>7. CallRight(calls[c])'
    BY <1>1, <1>2, <1>3
    DEF CallRight, ListRight, LockRight, SettleRight, List, IsLocked
  <1>8. Offered(i)' /\ Open(i)'
    BY <1>2 DEF OInv, Offered, Open
  <1>9. \A s \in Locks : Kept(s)'
    BY <1>2 DEF OInv, Kept
  <1>10. \A d \in Calls \ {c} : calls'[d] = calls[d] /\ calls[d].index # i
    BY <1>1, <1>3, <1>5, NoOther
  <1> QED
    BY <1>2, <1>6, <1>7, <1>8, <1>9, <1>10, TokenOrderly DEF OInv

\* A list that goes on is still the owner's, and no order is pending but one
\* that it goes past, whose deadline has passed.
LEMMA ListResumeOrderly ==
  ASSUME Inv, OInv, NEW c \in Calls, ListResume(c),
         NEW i \in Tokens, i = calls[c].index
  PROVE  OInv'
  <1> DEFINE call == calls[c]
             tx == pendingTransactions[i]
  <1>1. /\ call \in Call /\ CallRight(call)
        /\ call.op = "list" /\ call.pc = "resume" /\ call.res = "ok"
    BY CallFacts, MarketAssumption DEF OInv, ListResume, WellFormed, Idle
  <1>2. /\ call.who = owner[i] /\ ~IsLocked(i)
        /\ call.own => tx = None
    BY <1>1 DEF CallRight, ListRight, Unsold
  <1>3. /\ Goto(c, Idle)
        /\ UNCHANGED <<owner, pendingTransactions, nextSubAccount, balance,
                       lapsed, orders, deposited, inTime, sold>>
        /\ passed' = IF tx = None THEN passed ELSE passed \cup {tx.sub}
        /\ listings' = [listings EXCEPT ![i] =
                          IF call.price = None THEN None
                          ELSE [seller |-> call.who, price |-> call.price,
                                locked |-> 0]]
    BY <1>2 DEF ListResume, history
  <1>4. calls'[c] = Idle /\ \A d \in Calls \ {c} : calls'[d] = calls[d]
    BY <1>3, OneMoves
  <1>5. Alone' /\ Agreed'
    BY <1>3, Ends, PairsKept DEF OInv
  <1>6. CallRight(calls[c])'
    BY <1>4, MarketAssumption
    DEF CallRight, ListRight, LockRight, SettleRight, Idle
  <1>7. tx # None => /\ tx.sub <= lapsed /\ ~(tx.sub > lapsed)
                     /\ orders[tx.sub] # None /\ orders[tx.sub].token = i
    <2>1. Open(i)
      BY DEF OInv
    <2>2. tx # None => tx.sub \in Nat /\ lapsed \in Nat
      BY PendingFacts DEF Locks, Inv, TypeOK
    <2> QED
      BY <1>2, <2>1, <2>2, PendingFacts, OrderIsOne DEF Open, IsLocked
  <1>8. Offered(i)' /\ Open(i)'
    <2>1. Offered(i)'
      BY <1>1, <1>2, <1>3 DEF Offered, Inv, TypeOK
    <2>2. Open(i)'
      BY <1>3, <1>7 DEF OInv, Open
    <2> QED
      BY <2>1, <2>2
  <1>9. \A s \in Locks : Kept(s)'
    BY <1>3, <1>7 DEF OInv, Kept
  <1>10. \A d \in Calls \ {c} : calls'[d] = calls[d] /\ calls[d].index # i
    BY <1>1, <1>4, GoesOn, NoOther DEF OInv
  <1>11. \A j \in Tokens \ {i} : listings'[j] = listings[j]
    BY <1>3 DEF Inv, TypeOK
  <1> QED
    BY <1>1, <1>3, <1>5, <1>6, <1>7, <1>8, <1>9, <1>10, <1>11, TokenOrderly
    DEF OInv

\* A buyer locks a token: an older order of it is past its deadline.
LEMMA LockOrderly ==
  ASSUME Inv, OInv, NEW c \in Calls, NEW i \in Tokens, NEW buyer \in Accounts,
         Lock(c, i, buyer), ListAlone, LockAlone, TransferAlone
  PROVE  OInv'
  <1> DEFINE sub == nextSubAccount + 1
             call == [Idle EXCEPT !.pc = "canSettle", !.op = "lock",
                              !.index = i, !.who = buyer,
                              !.seller = listings[i].seller,
                              !.price = listings[i].price, !.sub = sub]
  <1>1. /\ call.op = "lock" /\ call.index = i /\ call.pc = "canSettle"
        /\ call.tx = None /\ call.who = buyer /\ call.sub = sub
        /\ call.seller = listings[i].seller
    BY DEF Idle
  <1>2. /\ Goto(c, call) /\ nextSubAccount' = sub /\ sub \in Nat
        /\ listings' = [listings EXCEPT ![i].locked = sub]
        /\ UNCHANGED <<owner, pendingTransactions, balance, lapsed, orders,
                       deposited, inTime, sold, passed>>
    BY DEF Lock, history, Locks
  <1>3. /\ calls[c].pc = "idle" /\ listings[i] # None /\ lapsed < sub
        /\ listings[i] \in Listing /\ listings[i].locked <= lapsed
        /\ lapsed \in Nat
    BY MarketAssumption DEF Lock, IsLocked, Inv, TypeOK, Listing, OInv
  <1>4. /\ listings'[i] # None /\ listings'[i].locked = sub
        /\ listings'[i].seller = listings[i].seller
    <2>1. listings'[i] = [listings[i] EXCEPT !.locked = sub]
      BY <1>2 DEF Inv, TypeOK
    <2>2. sub \in 0 .. MaxLocks
      BY <1>2, MarketAssumption DEF Lock, Locks
    <2>3. [listings[i] EXCEPT !.locked = sub] \in Listing
      BY <1>3, <2>2 DEF Listing
    <2> QED
      BY <1>3, <2>1, <2>3, MarketAssumption DEF Listing
  <1> HIDE DEF call
  <1>5. calls'[c] = call /\ \A d \in Calls \ {c} : calls'[d] = calls[d]
    BY <1>2, OneMoves
  <1>6. Begins(c, "lock", i)
    BY <1>1, <1>3, <1>5, AtRest DEF Begins
  <1>7. AloneWith(c, call) /\ AgreedWith(c, call)
    BY <1>1, <1>6, Begun DEF AgreedWith
  <1>8. Alone' /\ Agreed'
    BY <1>2, <1>7, PairsKept DEF OInv
  <1>9. /\ call.who # call.seller /\ call.seller = owner[i]
        /\ pendingTransactions[i] # None =>
             pendingTransactions[i].sub <= lapsed
    <2>1. call.who # call.seller
      BY <1>1, <1>5 DEF TransferAlone
    <2>2. Offered(i) /\ Open(i)
      BY DEF OInv
    <2>3. pendingTransactions[i] # None => pendingTransactions[i].sub \in Nat
      BY PendingFacts DEF Locks
    <2> QED
      BY <1>1, <1>3, <2>1, <2>2, <2>3 DEF Offered, Open, Inv, TypeOK, Listing
  <1>10. CallRight(calls[c])'
    BY <1>1, <1>2, <1>3, <1>4, <1>5, <1>9
    DEF CallRight, ListRight, LockRight, SettleRight
  <1>11. Offered(i)' /\ Open(i)'
    BY <1>2, <1>3, <1>4, <1>9, PendingFacts DEF OInv, Offered, Open, Locks
  <1>12. \A s \in Locks : Kept(s)'
    BY <1>2 DEF OInv, Kept
  <1>13. \A d \in Calls \ {c} : calls'[d] = calls[d] /\ calls[d].index # i
    BY <1>1, <1>5, <1>7, NoOther
  <1>14. \A j \in Tokens \ {i} : listings'[j] = listings[j]
    BY <1>2 DEF Inv, TypeOK
  <1>15. lapsed <= nextSubAccount'
    BY <1>2, <1>3
  <1> QED
    BY <1>2, <1>8, <1>10, <1>11, <1>12, <1>13, <1>14, <1>15, TokenOrderly

\* A lock that goes on puts its order, which nobody has paid; the older one, if
\* there is one, was not paid in time.
LEMMA LockResumeOrderly ==
  ASSUME Inv, OInv, NEW c \in Calls, LockResume(c),
         NEW i \in Tokens, i = calls[c].index,
         NEW t \in Locks, t = calls[c].sub
  PROVE  OInv'
  <1> DEFINE call == calls[c]
             tx == [id |-> nextTxId, token |-> i, seller |-> call.seller,
                    to |-> call.who, price |-> call.price, sub |-> t]
             order == [token |-> i, seller |-> call.seller, to |-> call.who,
                       price |-> call.price]
  <1>1. /\ call \in Call /\ WellFormed(call) /\ CallRight(call)
        /\ call.op = "lock" /\ call.pc = "resume" /\ call.res = "ok"
    BY CallFacts DEF OInv, LockResume
  <1>2. /\ call.who # call.seller /\ call.sub > lapsed
        /\ call.seller = owner[i]
        /\ listings[i] # None /\ listings[i].locked = t
        /\ pendingTransactions[i] # None =>
             /\ pendingTransactions[i].sub <= lapsed
             /\ pendingTransactions[i].sub \notin inTime
    BY <1>1 DEF CallRight, LockRight, Unsold
  <1>3. /\ Goto(c, Idle)
        /\ pendingTransactions' = [pendingTransactions EXCEPT ![i] = tx]
        /\ orders' = [orders EXCEPT ![t] = order]
        /\ UNCHANGED <<owner, listings, nextSubAccount, balance, lapsed,
                       deposited, inTime, sold, passed>>
    BY DEF LockResume
  <1>4. tx \in Transaction /\ order \in Order
    BY <1>1 DEF Transaction, Order, WellFormed, Inv, TypeOK
  <1>5. /\ tx.token = i /\ tx.seller = call.seller /\ tx.to = call.who
        /\ tx.sub = t /\ tx # None /\ order.token = i /\ order # None
    BY <1>4, MarketAssumption
  <1> HIDE DEF tx, order
  <1>6. /\ pendingTransactions'[i] = tx /\ orders'[t] = order
        /\ \A j \in Tokens \ {i} :
             pendingTransactions'[j] = pendingTransactions[j]
        /\ \A s \in Locks \ {t} : orders'[s] = orders[s]
    BY <1>3 DEF Inv, TypeOK
  <1>7. orders[t] = None
    BY <1>1 DEF Inv, UniquePaymentAddress
  <1>8. sold[t] = 0 /\ t \notin inTime
    BY <1>7 DEF OInv, Kept, Inv, TypeOK
  <1>9. calls'[c] = Idle /\ \A d \in Calls \ {c} : calls'[d] = calls[d]
    BY <1>3, OneMoves
  <1>10. Alone' /\ Agreed'
    BY <1>3, Ends, PairsKept DEF OInv
  <1>11. CallRight(calls[c])'
    BY <1>9, MarketAssumption
    DEF CallRight, ListRight, LockRight, SettleRight, Idle
  <1>12. Offered(i)' /\ Open(i)'
    BY <1>2, <1>3, <1>5, <1>6, <1>8 DEF OInv, Offered, Open
  <1>13. ASSUME NEW s \in Locks, orders[s] = None \/ orders[s].token = i
         PROVE  Kept(s)'
    <2>1. CASE s = t
      BY <1>3, <1>5, <1>6, <1>8, <2>1 DEF OInv, Kept
    <2>2. CASE s # t
      <3>1. orders'[s] = orders[s] /\ Kept(s)
        BY <1>6, <2>2 DEF OInv
      <3>2. orders[s] # None /\ (s \in inTime \/ s > lapsed) => sold[s] > 0
        BY <1>2, <1>13, <3>1 DEF Kept, Locks, Inv, TypeOK
      <3> QED
        BY <1>3, <3>1, <3>2 DEF Kept
    <2> QED
      BY <2>1, <2>2
  <1>14. \A d \in Calls \ {c} : calls'[d] = calls[d] /\ calls[d].index # i
    BY <1>1, <1>9, GoesOn, NoOther DEF OInv
  <1> QED
    BY <1>3, <1>6, <1>7, <1>10, <1>11, <1>12, <1>13, <1>14, TokenOrderly
    DEF OInv

\* An order that is not paid is dropped when its deadline has passed.
LEMMA SettleShortOrderly ==
  ASSUME Inv, OInv, NEW c \in Calls, SettleShort(c),
         NEW i \in Tokens, i = calls[c].index
  PROVE  OInv'
  <1> DEFINE tx == calls[c].tx
             drop == ~IsLocked(i)
             call == AfterSettle(calls[c], "err")
  <1>1. /\ calls[c] \in Call /\ CallRight(calls[c]) /\ calls[c].pc = "funds"
        /\ tx # None /\ tx \in Transaction /\ calls[c].op # None
        /\ ~(calls[c].funds >= tx.price)
    <2>1. calls[c].pc = "funds" /\ ~(calls[c].funds >= tx.price)
      BY DEF SettleShort, IsPaid
    <2>2. calls[c] \in Call /\ WellFormed(calls[c]) /\ CallRight(calls[c])
      BY CallFacts DEF OInv
    <2> QED
      BY <2>1, <2>2, MarketAssumption DEF WellFormed, Idle
  <1>2. /\ Goto(c, call)
        /\ pendingTransactions' =
             IF IsLocked(i) THEN pendingTransactions
             ELSE [pendingTransactions EXCEPT ![i] = None]
        /\ UNCHANGED <<owner, listings, nextSubAccount, balance, lapsed,
                       orders, deposited, inTime, sold, passed>>
    BY DEF SettleShort, history
  <1>3. pendingTransactions'[i] = IF drop THEN None ELSE pendingTransactions[i]
    BY <1>2 DEF Inv, TypeOK
  <1>4. \A j \in Tokens \ {i} :
          pendingTransactions'[j] = pendingTransactions[j]
    BY <1>2 DEF Inv, TypeOK
  \* What may be dropped is the order this settle has read.
  <1>5. pendingTransactions[i] # None =>
          /\ pendingTransactions[i] = tx
          /\ tx.sub \in inTime => tx.sub > lapsed
          /\ drop => ~(tx.sub > lapsed)
          /\ tx.sub \in Nat /\ lapsed \in Nat
    <2>1. SettleRight(calls[c]) /\ Open(i)
      BY <1>1 DEF CallRight, OInv
    <2>2. tx.price \in Nat /\ calls[c].funds \in Nat
      BY <1>1, MarketAssumption DEF Transaction, Call
    <2> QED
      BY <1>1, <2>1, <2>2
      DEF SettleRight, Open, IsLocked, Transaction, Locks, Inv, TypeOK
  <1>6. \/ call = Idle /\ calls[c].op = "settle"
        \/ /\ call.op = calls[c].op /\ call.index = i
           /\ call.tx = None /\ call.who = calls[c].who
           /\ call.seller = calls[c].seller /\ call.sub = calls[c].sub
           /\ call.pc = "settled" /\ call.res = "err"
    BY <1>1 DEF AfterSettle, Call
  <1> HIDE DEF call
  <1>7. calls'[c] = call /\ \A d \in Calls \ {c} : calls'[d] = calls[d]
    BY <1>2, OneMoves
  <1>8. AloneWith(c, call) /\ AgreedWith(c, call)
    BY <1>6, Ends, GoesOn DEF OInv
  <1>9. Alone' /\ Agreed'
    BY <1>2, <1>8, PairsKept DEF OInv
  <1>10. Offered(i)' /\ Open(i)'
    BY <1>2, <1>3 DEF OInv, Offered, Open
  <1>11. ASSUME NEW s \in Locks
         PROVE  Kept(s)'
    <2>1. Kept(s)
      BY DEF OInv
    <2>2. orders[s] # None => orders[s].token \in Tokens
      BY DEF Inv, TypeOK, Order
    <2> QED
      BY <1>2, <1>3, <1>4, <1>5, <2>1, <2>2 DEF Kept
  <1>12. CallRight(calls[c])'
    BY <1>1, <1>2, <1>3, <1>5, <1>6, <1>7, MarketAssumption
    DEF CallRight, ListRight, LockRight, SettleRight, IsLocked, Unsold, Idle
  <1>13. ASSUME NEW d \in Calls \ {c}, calls[d].index = i
         PROVE  CallRight(calls[d])'
    <2>1. calls[d].op = "settle" \/ calls[d].op = None
      BY <1>1, <1>13, CallFacts DEF OInv, Alone, Call
    <2>2. SettleRight(calls[d])
      BY DEF OInv, CallRight
    <2> QED
      BY <1>2, <1>3, <1>7, <1>13, <2>1, <2>2, MarketAssumption
      DEF CallRight, ListRight, LockRight, SettleRight
  <1> QED
    BY <1>2, <1>4, <1>7, <1>9, <1>10, <1>11, <1>12, <1>13, TokenOrderly
    DEF OInv

\* A sale: the seller still owns the token, so this is the first for its order,
\* and others that have read the order will find the buyer owning the token.
LEMMA SettleCommitOrderly ==
  ASSUME Inv, OInv, NEW c \in Calls, SettleCommit(c),
         NEW i \in Tokens, i = calls[c].index,
         NEW tx, tx = calls[c].tx
  PROVE  OInv'
  <1> DEFINE call == [calls[c] EXCEPT !.pc = "cap"]
  <1>1. /\ calls[c] \in Call /\ CallRight(calls[c]) /\ calls[c].pc = "funds"
        /\ calls[c].op # None /\ tx \in Transaction /\ tx # None
        /\ tx.token = i /\ orders[tx.sub] = OrderOf(tx) /\ tx.sub \in Locks
        /\ orders[tx.sub] # None
    BY CallFacts, OrderIsOne, MarketAssumption
    DEF OInv, SettleCommit, WellFormed, Idle, Transaction
  <1>2. /\ Goto(c, call)
        /\ pendingTransactions' = [pendingTransactions EXCEPT ![i] = None]
        /\ owner' = [owner EXCEPT ![i] = tx.to]
        /\ listings' = [listings EXCEPT ![i] = None]
        /\ sold' = [sold EXCEPT ![tx.sub] = @ + 1]
        /\ UNCHANGED <<nextSubAccount, balance, lapsed, orders, deposited,
                       inTime, passed>>
        /\ owner[i] = tx.seller
    BY DEF SettleCommit, SettleTraps
  <1>3. /\ owner'[i] = tx.to /\ listings'[i] = None
        /\ pendingTransactions'[i] = None
        /\ \A j \in Tokens \ {i} :
             /\ owner'[j] = owner[j] /\ listings'[j] = listings[j]
             /\ pendingTransactions'[j] = pendingTransactions[j]
        /\ \A s \in Locks \ {tx.sub} : sold'[s] = sold[s]
        /\ sold'[tx.sub] = sold[tx.sub] + 1
    BY <1>1, <1>2 DEF Inv, TypeOK
  <1>4. /\ pendingTransactions[i] \in {None, tx}
        /\ sold[tx.sub] = 0
    BY <1>1, <1>2 DEF CallRight, SettleRight
  <1>5. /\ call.op = calls[c].op /\ call.index = i /\ call.tx = tx
        /\ call.who = calls[c].who /\ call.seller = calls[c].seller
        /\ call.sub = calls[c].sub /\ call.pc = "cap"
    BY <1>1 DEF Call
  <1> HIDE DEF call
  <1>6. calls'[c] = call /\ \A d \in Calls \ {c} : calls'[d] = calls[d]
    BY <1>2, OneMoves
  <1>7. AloneWith(c, call) /\ AgreedWith(c, call)
    BY <1>5, GoesOn DEF OInv
  <1>8. Alone' /\ Agreed'
    BY <1>2, <1>7, PairsKept DEF OInv
  <1>9. Offered(i)' /\ Open(i)'
    BY <1>3 DEF Offered, Open
  <1>10. ASSUME NEW s \in Locks, orders[s] = None \/ orders[s].token = i
         PROVE  Kept(s)'
    <2>1. Kept(s)
      BY DEF OInv
    <2>2. CASE s = tx.sub
      BY <1>1, <1>2, <1>3, <1>4, <2>1, <2>2 DEF Kept
    <2>3. CASE s # tx.sub
      BY <1>2, <1>3, <1>4, <1>10, <2>1, <2>3 DEF Kept
    <2> QED
      BY <2>2, <2>3
  <1>11. CallRight(calls[c])'
    BY <1>1, <1>2, <1>3, <1>5, <1>6
    DEF CallRight, ListRight, LockRight, SettleRight, IsLocked, Unsold
  <1>12. ASSUME NEW d \in Calls \ {c}, calls[d].index = i
         PROVE  CallRight(calls[d])'
    <2>1. calls[d].op = "settle" \/ calls[d].op = None
      BY <1>1, <1>12, CallFacts DEF OInv, Alone, Call
    <2>2. SettleRight(calls[d])
      BY DEF OInv, CallRight
    <2>3. calls[d].tx # None => calls[d].tx = tx
      BY <1>1, <1>12 DEF OInv, Agreed
    <2> QED
      BY <1>2, <1>3, <1>6, <1>12, <2>1, <2>2, <2>3, MarketAssumption
      DEF CallRight, ListRight, LockRight, SettleRight
  <1> QED
    BY <1>1, <1>2, <1>3, <1>6, <1>8, <1>9, <1>10, <1>11, <1>12, OrderIsOne,
       TokenOrderly DEF OInv

\* A token moves outside the market: it is not listed, so nothing of it is
\* pending but an order that a list went past, and no call runs on it.
LEMMA TransferOrderly ==
  ASSUME Inv, OInv, NEW i \in Tokens, NEW a \in Accounts, NEW to \in Accounts,
         Transfer(i, a, to), TransferAlone
  PROVE  OInv'
  <1>1. /\ listings[i] = None
        /\ UNCHANGED <<listings, pendingTransactions, nextSubAccount, balance,
                       calls, lapsed, orders, deposited, inTime, sold, passed>>
        /\ owner' = [owner EXCEPT ![i] = to]
    BY DEF Transfer, history
  <1>2. \A j \in Tokens \ {i} : owner'[j] = owner[j]
    BY <1>1 DEF Inv, TypeOK
  <1>3. Alone' /\ Agreed'
    BY <1>1 DEF OInv, Alone, Agreed
  <1>4. \A s \in Locks : Kept(s)'
    BY <1>1 DEF OInv, Kept
  <1>5. Offered(i)' /\ Open(i)'
    BY <1>1 DEF OInv, Offered, Open
  <1>6. ASSUME NEW d \in Calls, calls[d].index = i
        PROVE  CallRight(calls[d])'
    <2>1. CASE owner'[i] = owner[i]
      <3>1. CallRight(calls[d])
        BY DEF OInv
      <3>2. /\ calls'[d] = calls[d]
            /\ owner'[calls[d].index] = owner[calls[d].index]
        BY <1>1, <1>6, <2>1
      <3> QED
        BY <1>1, <1>6, <3>1, <3>2
        DEF CallRight, ListRight, LockRight, SettleRight, Unsold, IsLocked
    <2>2. CASE owner'[i] # owner[i]
      <3>1. calls[d].op \notin {"list", "lock", "settle"}
        BY <1>1, <1>6, <2>2 DEF TransferAlone, Busy
      <3>2. calls[d] = Idle
        BY <3>1, CallFacts DEF Call, WellFormed
      <3>3. calls[d].index # i
        BY <3>2, MarketAssumption DEF Idle
      <3> QED
        BY <1>6, <3>3
    <2> QED
      BY <2>1, <2>2
  <1> QED
    BY <1>1, <1>2, <1>3, <1>4, <1>5, <1>6, TokenOrderly DEF OInv

-----------------------------------------------------------------------------
\* Buyers, the heartbeat, time and upgrades.

\* The heartbeat starts settles, of tokens that no list or lock is at work on.
LEMMA CronSettlementsOrderly ==
  ASSUME Inv, OInv, CronSettlements, ListAlone, LockAlone
  PROVE  OInv'
  <1>1. /\ UNCHANGED <<owner, listings, pendingTransactions, nextSubAccount,
                       balance, lapsed, orders, deposited, inTime,
                       sold, passed>>
    BY DEF CronSettlements, market, history
  <1>2. ASSUME NEW c \in Calls
        PROVE  \/ calls'[c] = calls[c]
               \/ /\ calls'[c].op = "settle" /\ calls'[c].tx = None
                  /\ calls'[c].index \in Tokens
                  /\ Begins(c, "settle", calls'[c].index)
    <2>1. PICK slot \in [Due -> {d \in Calls : calls[d].pc = "idle"}] :
            calls' = [d \in Calls |->
              IF \E i \in Due : slot[i] = d
              THEN [Idle EXCEPT !.pc = "settle", !.op = "settle",
                                !.index = CHOOSE i \in Due : slot[i] = d]
              ELSE calls[d]]
      BY DEF CronSettlements
    <2>2. CASE \E i \in Due : slot[i] = c
      <3>1. PICK i : i = CHOOSE j \in Due : slot[j] = c
        OBVIOUS
      <3>2. i \in Due /\ slot[i] = c
        BY <2>2, <3>1
      <3>3. calls'[c] = [Idle EXCEPT !.pc = "settle", !.op = "settle",
                                     !.index = i]
        BY <2>1, <2>2, <3>1
      <3>4. /\ calls'[c].op = "settle" /\ calls'[c].tx = None
            /\ calls'[c].index = i
        BY <3>3 DEF Idle
      <3>5. calls[c].op = None /\ i \in Tokens
        BY <3>2, AtRest DEF Due
      <3> QED
        BY <3>4, <3>5 DEF Begins
    <2>3. CASE ~\E i \in Due : slot[i] = c
      BY <2>1, <2>3
    <2> QED
      BY <2>2, <2>3
  <1>3. Alone'
    <2> SUFFICES ASSUME NEW c \in Calls, NEW d \in Calls, c # d,
                        calls'[c].op \in {"list", "lock"}, calls'[d].op # None
                 PROVE  calls'[c].index # calls'[d].index
      BY DEF Alone
    <2>1. calls'[c] = calls[c]
      BY <1>2
    <2>2. CASE calls'[d] = calls[d]
      BY <2>1, <2>2 DEF OInv, Alone
    <2>3. CASE /\ calls'[d].index \in Tokens
               /\ Begins(d, "settle", calls'[d].index)
      BY <2>1, <2>3 DEF ListAlone, LockAlone, Busy
    <2> QED
      BY <1>2, <2>2, <2>3
  <1>4. Agreed'
    BY <1>2 DEF OInv, Agreed
  <1>5. ASSUME NEW d \in Calls
        PROVE  CallRight(calls[d])'
    <2>1. CASE calls'[d] = calls[d]
      BY <1>1, <2>1 DEF OInv, CallRight, ListRight, LockRight, SettleRight,
                        Unsold, IsLocked
    <2>2. CASE calls'[d].op = "settle" /\ calls'[d].tx = None
      BY <2>2 DEF CallRight, ListRight, LockRight, SettleRight
    <2> QED
      BY <1>2, <2>1, <2>2
  <1>6. \A i \in Tokens : Offered(i)' /\ Open(i)'
    BY <1>1 DEF OInv, Offered, Open
  <1>7. \A s \in Locks : Kept(s)'
    BY <1>1 DEF OInv, Kept
  <1> QED
    BY <1>1, <1>3, <1>4, <1>5, <1>6, <1>7 DEF OInv

\* A buyer pays: in time only if the deadline is still to come, and then the
\* order is pending.
LEMMA PayOrderly ==
  ASSUME Inv, OInv, NEW t \in Locks, NEW amount \in Payments, Pay(t, amount)
  PROVE  OInv'
  <1>1. /\ orders[t] # None
        /\ UNCHANGED <<owner, listings, pendingTransactions, nextSubAccount,
                       calls, lapsed, orders, sold, passed>>
        /\ deposited' = [deposited EXCEPT ![t] = deposited[t] + amount]
        /\ balance' = [balance EXCEPT ![t] = balance[t] + amount]
        /\ \A s \in Locks : s # t => s \in inTime' <=> s \in inTime
        /\ t \in inTime' => \/ t \in inTime
                            \/ /\ t > lapsed
                               /\ deposited[t] + amount >= orders[t].price
        /\ inTime \subseteq inTime'
    BY DEF Pay
  <1>2. /\ deposited[t] \in Nat /\ balance[t] \in Nat /\ amount \in Nat
        /\ lapsed \in Nat /\ orders[t].price \in Nat /\ t \in Nat
        /\ deposited'[t] = deposited[t] + amount
        /\ balance'[t] = balance[t] + amount
        /\ \A s \in Locks \ {t} : /\ deposited'[s] = deposited[s]
                                  /\ balance'[s] = balance[s]
    BY <1>1, MarketAssumption DEF Inv, TypeOK, Order, Locks
  <1>3. ASSUME NEW s \in Locks
        PROVE  Kept(s)'
    BY <1>1, <1>2 DEF OInv, Kept
  <1>4. ASSUME NEW d \in Calls
        PROVE  CallRight(calls[d])'
    <2>1. CallRight(calls[d]) /\ calls[d] \in Call /\ WellFormed(calls[d])
      BY CallFacts DEF OInv
    <2>2. ListRight(calls[d])'
      BY <1>1, <2>1 DEF CallRight, ListRight, Unsold, IsLocked
    <2>3. LockRight(calls[d])'
      <3>1. LockRight(calls[d])
        BY <2>1 DEF CallRight
      <3>2. ASSUME calls[d].op = "lock",
                   pendingTransactions[calls[d].index] # None
            PROVE  pendingTransactions[calls[d].index].sub \in Locks
        BY <2>1, <3>2, PendingFacts, MarketAssumption DEF WellFormed
      <3>3. ASSUME NEW s \in Locks, s <= lapsed, s \notin inTime
            PROVE  s \notin inTime'
        <4>1. s # t => (s \in inTime' <=> s \in inTime)
          BY <1>1
        <4>2. t \in inTime' => t \in inTime \/ t > lapsed
          BY <1>1
        <4>3. t > lapsed => ~(t <= lapsed)
          BY <1>2
        <4> QED
          BY <3>3, <4>1, <4>2, <4>3
      <3>4. UNCHANGED <<calls, pendingTransactions, owner, listings, lapsed>>
        BY <1>1
      <3> QED
        BY <3>1, <3>2, <3>3, <3>4 DEF LockRight, Unsold
    <2>4. SettleRight(calls[d])'
      <3>1. SettleRight(calls[d])
        BY <2>1 DEF CallRight
      <3>2. calls[d].tx # None => calls[d].tx.sub \in Locks
        BY <2>1 DEF Call, Transaction
      <3> QED
        BY <1>1, <1>2, <3>1, <3>2 DEF SettleRight
    <2> QED
      BY <2>2, <2>3, <2>4 DEF CallRight
  <1>5. \A i \in Tokens : Offered(i)' /\ Open(i)'
    BY <1>1 DEF OInv, Offered, Open
  <1>6. Alone' /\ Agreed' /\ (lapsed <= nextSubAccount)'
    BY <1>1 DEF OInv, Alone, Agreed
  <1> QED
    BY <1>3, <1>4, <1>5, <1>6 DEF OInv

\* A deadline passes, of a lock that is no longer in flight, and while no
\* settle has an answer of the ledger to look at.
LEMMA LapseOrderly ==
  ASSUME Inv, OInv, Lapse, Prompt
  PROVE  OInv'
  <1>1. /\ UNCHANGED <<owner, listings, pendingTransactions, nextSubAccount,
                       balance, calls, orders, deposited, inTime, sold, passed>>
        /\ lapsed' = lapsed + 1 /\ lapsed \in Nat /\ lapsed < nextSubAccount
        /\ nextSubAccount \in Nat
    BY MarketAssumption DEF Lapse, history, Inv, TypeOK
  <1>2. ASSUME NEW c \in Calls
        PROVE  calls[c].sub # lapsed + 1 /\ calls[c].pc # "funds"
    BY <1>1 DEF Prompt
  <1>3. ASSUME NEW d \in Calls
        PROVE  CallRight(calls[d])'
    <2>1. CallRight(calls[d]) /\ calls[d] \in Call /\ WellFormed(calls[d])
      BY CallFacts DEF OInv
    <2>2. ListRight(calls[d])'
      <3>1. calls[d].op = "list" /\ listings[calls[d].index] # None =>
              listings[calls[d].index].locked \in Nat
        BY <2>1, MarketAssumption DEF WellFormed, Inv, TypeOK, Listing
      <3> QED
        BY <1>1, <2>1, <3>1 DEF CallRight, ListRight, Unsold, IsLocked
    <2>3. LockRight(calls[d])'
      <3>1. calls[d].op = "lock" /\ pendingTransactions[calls[d].index] # None
              => pendingTransactions[calls[d].index].sub \in Nat
        BY <2>1, PendingFacts, MarketAssumption DEF WellFormed, Locks
      <3>2. calls[d].op = "lock" => calls[d].sub \in Nat
        BY <2>1, MarketAssumption DEF WellFormed, Locks
      <3> QED
        BY <1>1, <1>2, <2>1, <3>1, <3>2 DEF CallRight, LockRight, Unsold
    <2>4. SettleRight(calls[d])'
      BY <1>1, <1>2, <2>1 DEF CallRight, SettleRight
    <2> QED
      BY <2>2, <2>3, <2>4 DEF CallRight
  <1>4. ASSUME NEW i \in Tokens
        PROVE  Offered(i)' /\ Open(i)'
    <2>1. pendingTransactions[i] # None => pendingTransactions[i].sub \in Nat
      BY PendingFacts DEF Locks
    <2> QED
      BY <1>1, <2>1 DEF OInv, Offered, Open
  <1>5. \A s \in Locks : Kept(s)'
    BY <1>1 DEF OInv, Kept, Locks
  <1>6. Alone' /\ Agreed' /\ (lapsed <= nextSubAccount)'
    BY <1>1 DEF OInv, Alone, Agreed
  <1> QED
    BY <1>3, <1>4, <1>5, <1>6 DEF OInv

\* An upgrade, and a step that changes nothing of this.
LEMMA StillOrderly ==
  ASSUME Inv, OInv,
         UNCHANGED <<owner, listings, pendingTransactions, nextSubAccount,
                     balance, calls, lapsed, orders, deposited, inTime,
                     sold, passed>>
  PROVE  OInv'
  BY DEF OInv, Offered, Open, Alone, Agreed, CallRight, ListRight, LockRight,
         SettleRight, Unsold, IsLocked, Kept

-----------------------------------------------------------------------------
\* The disbursements of an order.

\* What a queued job takes from payment address s, with the ledger's fee.
Cost(s) == [job \in Disbursement |->
              IF job.sub = s THEN job.amount + 10000 ELSE 0]

\* The payment address has what its queued jobs take, and none is queued for
\* an order that is not sold.
Covered(s) ==
  LET due == Weight(pendingDisbursements, Cost(s)) IN
  /\ due <= balance[s]
  /\ sold[s] = 0 => due = 0

CostType == \A s \in Locks : Cost(s) \in [Disbursement -> Nat]

\* Jobs cost a natural number.
LEMMA CostIsNat == CostType
  BY DEF CostType, Cost, Disbursement

\* FullyCovered is about the weight of the queue.
LEMMA DueIsWeight ==
  ASSUME pendingDisbursements \in Seq(Disbursement), NEW s \in Locks
  PROVE  SumFunction([k \in DOMAIN pendingDisbursements |->
                        IF pendingDisbursements[k].sub = s
                        THEN pendingDisbursements[k].amount + 10000 ELSE 0])
           = Weight(pendingDisbursements, Cost(s))
  <1> DEFINE due == [k \in DOMAIN pendingDisbursements |->
                       IF pendingDisbursements[k].sub = s
                       THEN pendingDisbursements[k].amount + 10000 ELSE 0]
  <1>1. \A k \in DOMAIN pendingDisbursements :
          pendingDisbursements[k] \in Disbursement
    OBVIOUS
  <1>2. due = Weights(pendingDisbursements, Cost(s))
    BY <1>1 DEF Weights, Cost
  <1> HIDE DEF due
  <1>3. SumFunction(due) = Weight(pendingDisbursements, Cost(s))
    BY <1>2 DEF Weight
  <1> QED
    BY <1>3 DEF due

\* The three jobs of a sale take what its settle was told of, no more.
LEMMA ProceedsCost ==
  ASSUME NEW tx \in Transaction, NEW funds \in Nat, NEW s \in Locks
  PROVE  Weight(Proceeds(tx, funds), Cost(s))
           = IF tx.sub = s THEN funds + LedgerFees ELSE 0
  <1> DEFINE job(to, amount) ==
               [token |-> tx.token, to |-> to, sub |-> tx.sub,
                amount |-> amount]
             royalty == Cut(funds, RoyaltyFee)
             entrepot == Cut(funds, EntrepotFee)
             rest == funds - royalty - entrepot
             j1 == job(tx.seller, rest)
             j2 == job("entrepot", entrepot)
             j3 == job("royalty", royalty)
  <1>1. royalty \in Nat /\ entrepot \in Nat /\ rest \in Nat
    BY FeesFit
  <1>2. Proceeds(tx, funds) = <<j1, j2, j3>>
    BY DEF Proceeds
  <1> HIDE DEF royalty, entrepot
  <1>3. j1 \in Disbursement /\ j2 \in Disbursement /\ j3 \in Disbursement
    BY <1>1 DEF Disbursement, Transaction
  <1>4. /\ j1.sub = tx.sub /\ j1.amount = rest
        /\ j2.sub = tx.sub /\ j2.amount = entrepot
        /\ j3.sub = tx.sub /\ j3.amount = royalty
    OBVIOUS
  <1> HIDE DEF job, j1, j2, j3
  <1>5. Cost(s) \in [Disbursement -> Nat]
    BY CostIsNat DEF CostType
  <1>6. Weight(<<j1, j2, j3>>, Cost(s))
          = Cost(s)[j1] + Cost(s)[j2] + Cost(s)[j3]
    BY <1>3, <1>5, WeightOfThree
  <1>7. /\ Cost(s)[j1] = IF tx.sub = s THEN rest + 10000 ELSE 0
        /\ Cost(s)[j2] = IF tx.sub = s THEN entrepot + 10000 ELSE 0
        /\ Cost(s)[j3] = IF tx.sub = s THEN royalty + 10000 ELSE 0
    BY <1>3, <1>4 DEF Cost
  <1> QED
    BY <1>1, <1>2, <1>6, <1>7 DEF LedgerFees, rest

\* A settlement queues jobs for an address that has none, and what it was told
\* of is still there.
LEMMA SettleCommitCovered ==
  ASSUME Inv, OInv, \A s \in Locks : Covered(s), NEW c \in Calls,
         SettleCommit(c), NEW t \in Locks
  PROVE  Covered(t)'
  <1> DEFINE tx == calls[c].tx
             funds == calls[c].funds
             jobs == Proceeds(tx, funds - LedgerFees)
  <1>1. /\ tx \in Transaction /\ tx # None /\ tx.sub \in Locks
        /\ funds \in Nat /\ funds <= deposited[tx.sub]
        /\ deposited \in [Locks -> Nat] /\ balance \in [Locks -> Nat]
        /\ sold \in [Locks -> Nat]
    <2>1. calls[c].pc = "funds"
      BY DEF SettleCommit
    <2>2. calls[c] \in Call /\ WellFormed(calls[c])
      BY CallFacts
    <2>3. tx \in Transaction /\ tx # None /\ tx.sub \in Locks /\ funds \in Nat
      BY <2>1, <2>2, MarketAssumption DEF WellFormed, Transaction, Call
    <2> QED
      BY <2>3 DEF Inv, PaidInFull, TypeOK
  <1>2. /\ pendingDisbursements' = jobs \o pendingDisbursements
        /\ balance' = balance
        /\ sold' = [sold EXCEPT ![tx.sub] = @ + 1]
        /\ owner[calls[c].index] = tx.seller /\ ~(funds < LedgerFees)
    BY DEF SettleCommit, SettleTraps
  <1>3. sold[tx.sub] = 0
    <2>1. SettleRight(calls[c])
      BY DEF OInv, CallRight
    <2> QED
      BY <1>1, <1>2, <2>1 DEF SettleRight
  <1>4. funds <= balance[tx.sub]
    BY <1>1, <1>3 DEF OInv, Kept
  <1>5. funds - LedgerFees \in Nat
    BY <1>1, <1>2 DEF LedgerFees
  <1>6. /\ jobs \in Seq(Disbursement)
        /\ pendingDisbursements \in Seq(Disbursement)
    BY <1>1, <1>5, ProceedsType DEF Inv, TypeOK
  <1>7. Weight(jobs, Cost(t))
          = IF tx.sub = t THEN funds - LedgerFees + LedgerFees ELSE 0
    BY <1>1, <1>5, ProceedsCost
  <1>8. Cost(t) \in [Disbursement -> Nat]
    BY CostIsNat DEF CostType
  <1> HIDE DEF jobs
  <1>9. Weight(jobs \o pendingDisbursements, Cost(t))
          = Weight(jobs, Cost(t)) + Weight(pendingDisbursements, Cost(t))
    BY <1>6, <1>8, WeightOfTwo
  <1>10. Weight(pendingDisbursements, Cost(t)) \in Nat
    BY <1>6, <1>8, WeightType
  <1>11. Covered(t) /\ Covered(tx.sub)
    BY <1>1
  <1> HIDE DEF tx, funds
  <1>12. CASE t = tx.sub
    <2>1. sold'[t] = 1
      BY <1>1, <1>2, <1>3, <1>12
    <2>2. Weight(pendingDisbursements', Cost(t)) = funds
      BY <1>1, <1>2, <1>3, <1>7, <1>9, <1>11, <1>12 DEF Covered, LedgerFees
    <2> QED
      BY <1>2, <1>4, <1>12, <2>1, <2>2 DEF Covered
  <1>13. CASE t # tx.sub
    <2>1. sold'[t] = sold[t]
      BY <1>1, <1>2, <1>13
    <2>2. Weight(pendingDisbursements', Cost(t))
            = Weight(pendingDisbursements, Cost(t))
      BY <1>2, <1>7, <1>9, <1>10, <1>13
    <2> QED
      BY <1>2, <1>11, <2>1, <2>2 DEF Covered
  <1> QED
    BY <1>12, <1>13

\* Nothing else queues a job or takes from an address.
LEMMA QuietCovered ==
  ASSUME \A s \in Locks : Covered(s), Inv,
         UNCHANGED <<pendingDisbursements, sold>>,
         \A s \in Locks : balance[s] <= balance'[s] /\ balance'[s] \in Nat,
         NEW t \in Locks
  PROVE  Covered(t)'
  <1>1. Weight(pendingDisbursements, Cost(t)) \in Nat /\ balance[t] \in Nat
    BY CostIsNat, WeightType DEF CostType, Inv, TypeOK
  <1> QED
    BY <1>1 DEF Covered

-----------------------------------------------------------------------------
\* The theorems.

LEMMA InitOrderly == Init => OInv
  <1> SUFFICES ASSUME Init
               PROVE  OInv
    OBVIOUS
  <1>1. \A c \in Calls : calls[c] = Idle
    BY DEF Init
  <1>2. Alone /\ Agreed /\ \A c \in Calls : CallRight(calls[c])
    BY <1>1, MarketAssumption
    DEF Alone, Agreed, CallRight, ListRight, LockRight, SettleRight, Idle
  <1>3. \A i \in Tokens : Offered(i) /\ Open(i)
    BY DEF Init, Offered, Open
  <1>4. \A s \in Locks : Kept(s)
    BY DEF Init, Kept, Locks
  <1> QED
    BY <1>2, <1>3, <1>4 DEF OInv, Init

\* The messages of a call after its first.
LEMMA StepOrderly ==
  ASSUME Inv, OInv, NEW c \in Calls, Step(c)
  PROVE  OInv'
  <1> DEFINE call == calls[c]
  <1>1. CASE CanSettle(c)
    BY <1>1, CanSettleOrderly
  <1>2. CASE CanSettleResume(c)
    BY <1>2, CanSettleResumeOrderly
  <1>3. CASE SettleBegin(c)
    BY <1>3, SettleBeginOrderly
  <1>4. call.pc # "idle" => call.index \in Tokens
    BY CallFacts DEF WellFormed, Idle
  <1>5. CASE SettleShort(c)
    <2>1. PICK i \in Tokens : i = call.index
      BY <1>4, <1>5 DEF SettleShort
    <2> QED
      BY <1>5, <2>1, SettleShortOrderly
  <1>6. CASE SettleTrap(c) \/ CapReject(c) \/ Refuse(c)
    BY <1>6, EndOrderly DEF SettleTrap, CapReject, Refuse
  <1>7. CASE SettleCommit(c)
    <2>1. PICK i \in Tokens : i = call.index
      BY <1>4, <1>7 DEF SettleCommit
    <2>2. PICK tx : tx = call.tx
      OBVIOUS
    <2> QED
      BY <1>7, <2>1, <2>2, SettleCommitOrderly
  <1>8. CASE CapReply(c)
    BY <1>8, CapReplyOrderly
  <1>9. CASE ListResume(c)
    <2>1. PICK i \in Tokens : i = call.index
      BY <1>4, <1>9 DEF ListResume
    <2> QED
      BY <1>9, <2>1, ListResumeOrderly
  <1>10. CASE LockResume(c)
    <2>1. PICK i \in Tokens : i = call.index
      BY <1>4, <1>10 DEF LockResume
    <2>2. PICK t \in Locks : t = call.sub
      BY <1>10, CallFacts DEF LockResume, WellFormed
    <2> QED
      BY <1>10, <2>1, <2>2, LockResumeOrderly
  <1> QED
    BY <1>1, <1>2, <1>3, <1>5, <1>6, <1>7, <1>8, <1>9, <1>10 DEF Step

\* Every step of an orderly market keeps both invariants.
LEMMA NextOrderly == Inv /\ OInv /\ [Next /\ Orderly]_vars => Inv' /\ OInv'
  <1> SUFFICES ASSUME Inv, OInv, [Next /\ Orderly]_vars
               PROVE  OInv'
    BY NextInv
  <1>1. CASE UNCHANGED vars
    BY <1>1, StillOrderly DEF vars, market, history
  <1>2. CASE Next /\ Orderly
    <2>1. ListAlone /\ LockAlone /\ TransferAlone /\ Prompt /\ HandsOff
      BY <1>2 DEF Orderly
    <2>2. ASSUME NEW c \in Calls,
                 Step(c) \/ BalanceReply(c) \/ BalanceReject(c)
          PROVE  OInv'
      BY <2>2, StepOrderly, BalanceReplyOrderly, EndOrderly DEF BalanceReject
    <2>3. ASSUME NEW c \in Calls, NEW i \in Tokens, Settle(c, i)
          PROVE  OInv'
      BY <2>1, <2>3, SettleOrderly
    <2>4. ASSUME NEW c \in Calls, NEW i \in Tokens, NEW a \in Accounts,
                 \/ Lock(c, i, a)
                 \/ \E p \in Prices \cup {None}, own \in BOOLEAN :
                      List(c, i, a, p, own)
          PROVE  OInv'
      BY <2>1, <2>4, LockOrderly, ListOrderly
    <2>5. CASE CronSettlements
      BY <2>1, <2>5, CronSettlementsOrderly
    <2>6. ASSUME NEW t \in Locks, NEW amount \in Payments, Pay(t, amount)
          PROVE  OInv'
      BY <2>6, PayOrderly
    <2>7. ASSUME NEW i \in Tokens, DeleteListing(i)
          PROVE  OInv'
      BY <2>1, <2>7, StillOrderly DEF DeleteListing, HandsOff, history
    <2>8. ASSUME NEW i \in Tokens, NEW a \in Accounts, NEW to \in Accounts,
                 Transfer(i, a, to)
          PROVE  OInv'
      BY <2>1, <2>8, TransferOrderly
    <2>9. CASE Lapse
      BY <2>1, <2>9, LapseOrderly
    <2>10. CASE Upgrade
      BY <2>10, StillOrderly DEF Upgrade, history
    <2> QED
      BY <1>2, <2>2, <2>3, <2>4, <2>5, <2>6, <2>7, <2>8, <2>9, <2>10 DEF Next
  <1> QED
    BY <1>1, <1>2

\* Orderly calls keep every payment address covered.
LEMMA NextCovered ==
  ASSUME Inv, OInv, \A s \in Locks : Covered(s), [Next /\ Orderly]_vars
  PROVE  \A s \in Locks : Covered(s)'
  <1>1. \A s \in Locks : balance[s] \in Nat
    BY DEF Inv, TypeOK
  <1>2. CASE UNCHANGED <<pendingDisbursements, sold, balance>>
    BY <1>1, <1>2, QuietCovered
  <1>3. ASSUME NEW c \in Calls, SettleCommit(c)
        PROVE  \A s \in Locks : Covered(s)'
    BY <1>3, SettleCommitCovered
  <1>4. ASSUME NEW t \in Locks, NEW amount \in Payments, Pay(t, amount)
        PROVE  \A s \in Locks : Covered(s)'
    <2>1. /\ UNCHANGED <<pendingDisbursements, sold>>
          /\ balance' = [balance EXCEPT ![t] = balance[t] + amount]
          /\ amount \in Nat
      BY <1>4, MarketAssumption DEF Pay
    <2>2. \A s \in Locks : balance[s] <= balance'[s] /\ balance'[s] \in Nat
      BY <1>1, <2>1 DEF Inv, TypeOK
    <2> QED
      BY <2>1, <2>2, QuietCovered
  <1>5. ASSUME NEW c \in Calls,
               \/ Step(c) /\ ~SettleCommit(c)
               \/ BalanceReply(c) \/ BalanceReject(c)
        PROVE  UNCHANGED <<pendingDisbursements, sold, balance>>
    BY <1>5
    DEF Step, CanSettle, CanSettleResume, SettleBegin, SettleShort, SettleTrap,
        CapReply, CapReject, ListResume, LockResume, Refuse, BalanceReply,
        BalanceReject, market, history
  <1>6. ASSUME NEW c \in Calls, NEW i \in Tokens,
               \/ Settle(c, i)
               \/ \E a \in Accounts :
                    \/ Lock(c, i, a)
                    \/ \E p \in Prices \cup {None}, own \in BOOLEAN :
                         List(c, i, a, p, own)
        PROVE  UNCHANGED <<pendingDisbursements, sold, balance>>
    BY <1>6 DEF Settle, Lock, List, market, history
  <1>7. ASSUME \/ CronSettlements \/ Lapse \/ Upgrade \/ UNCHANGED vars
               \/ \E i \in Tokens :
                    \/ DeleteListing(i)
                    \/ \E a, to \in Accounts : Transfer(i, a, to)
        PROVE  UNCHANGED <<pendingDisbursements, sold, balance>>
    BY <1>7 DEF CronSettlements, Lapse, Upgrade, DeleteListing, Transfer, vars,
                market, history
  <1> QED
    BY <1>2, <1>3, <1>4, <1>5, <1>6, <1>7 DEF Next

\* In an orderly market both invariants hold in every reachable state.
THEOREM OrderlyInvariance == OrderlySpec => [](Inv /\ OInv)
  BY InitInv, InitOrderly, NextOrderly, PTL DEF OrderlySpec

\* In an orderly market whoever has listed a token, and the seller of its
\* pending order, own it, so that the transfer that ends a sale cannot trap:
\* but for an order past its deadline that a list could not settle and went
\* past.
THEOREM OwnersSell == OrderlySpec => []SellerOwns
  <1>1. Inv /\ OInv => SellerOwns
    BY PendingFacts DEF OInv, Offered, Open, Kept, SellerOwns
  <1> QED
    BY <1>1, OrderlyInvariance, PTL

\* In an orderly market no payment address is settled twice, however many
\* settles of it run at the same time.
THEOREM OrdersSettleOnce == OrderlySpec => []SoldOnce
  <1>1. OInv => SoldOnce
    BY DEF OInv, Kept, SoldOnce
  <1> QED
    BY <1>1, OrderlyInvariance, PTL

\* In an orderly market the order of a buyer who pays in time is carried out or
\* still pending.
THEOREM PaymentsAreKept == OrderlySpec => []InTimePaymentIsKept
  <1>1. Inv /\ OInv => InTimePaymentIsKept
    <2> SUFFICES ASSUME Inv, OInv, NEW s \in inTime
                 PROVE  \/ sold[s] > 0
                        \/ \E i \in Tokens : /\ pendingTransactions[i] # None
                                             /\ pendingTransactions[i].sub = s
      BY DEF InTimePaymentIsKept
    <2>1. s \in Locks /\ Kept(s)
      BY DEF Inv, TypeOK, OInv
    <2>2. orders[s] # None /\ orders[s].token \in Tokens
      BY <2>1 DEF Kept, Inv, TypeOK, Order
    <2> QED
      BY <2>1, <2>2 DEF Kept
  <1> QED
    BY <1>1, OrderlyInvariance, PTL

\* Covered is what FullyCovered says.
LEMMA AreCovered ==
  ASSUME Inv, \A s \in Locks : Covered(s)
  PROVE  FullyCovered
  <1>1. pendingDisbursements \in Seq(Disbursement)
    BY DEF Inv, TypeOK
  <1> SUFFICES ASSUME NEW s \in Locks
               PROVE  SumFunction([k \in DOMAIN pendingDisbursements |->
                        IF pendingDisbursements[k].sub = s
                        THEN pendingDisbursements[k].amount + 10000 ELSE 0])
                        <= balance[s]
    BY DEF FullyCovered
  <1>2. Weight(pendingDisbursements, Cost(s)) <= balance[s]
    BY DEF Covered
  <1> QED
    BY <1>1, <1>2, DueIsWeight

\* In an orderly market the transfers queued for a payment address, fees and
\* all, never exceed what was paid to it: a sale queues them once, and of money
\* that is there.
THEOREM OrdersAreCovered == OrderlySpec => []FullyCovered
  <1> DEFINE AllCovered == \A s \in Locks : Covered(s)
  <1>1. Init => AllCovered
    <2> SUFFICES ASSUME Init, NEW s \in Locks PROVE Covered(s)
      OBVIOUS
    <2>1. pendingDisbursements = << >> /\ balance[s] = 0
      BY DEF Init
    <2>2. Weight(pendingDisbursements, Cost(s)) = 0
      <3>1. pendingDisbursements \in Seq(Disbursement)
        BY <2>1
      <3> QED
        BY <2>1, <3>1, CostIsNat, WeightType DEF CostType
    <2> QED
      BY <2>1, <2>2 DEF Covered
  <1>2. Inv /\ OInv /\ AllCovered /\ [Next /\ Orderly]_vars => AllCovered'
    BY NextCovered
  <1>3. Inv /\ AllCovered => FullyCovered
    BY AreCovered
  <1> HIDE DEF AllCovered
  <1> QED
    BY <1>1, <1>2, <1>3, OrderlyInvariance, PTL DEF OrderlySpec
=============================================================================
