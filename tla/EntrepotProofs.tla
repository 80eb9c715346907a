--------------------------- MODULE EntrepotProofs ---------------------------
(***************************************************************************)
(* Proofs about the marketplace for any number of tokens, accounts, calls  *)
(* and locks.  The invariants of Entrepot are inductive together: a        *)
(* settle in flight carries a copy of a pending transaction, so what it    *)
(* will finalize is only known from what the pending transactions of its   *)
(* token satisfied when it read them.                                      *)
(***************************************************************************)
EXTENDS Entrepot, TLAPS

\* The inductive invariant.
Inv == TypeOK /\ UniquePaymentAddress /\ PaidInFull

-----------------------------------------------------------------------------
\* Lemmas about the operators of the model.

\* The two fees never take more than there is, so the seller's share does not
\* underflow.
LEMMA FeesFit ==
  ASSUME NEW funds \in Nat
  PROVE  /\ Cut(funds, RoyaltyFee) \in Nat
         /\ Cut(funds, EntrepotFee) \in Nat
         /\ funds - Cut(funds, RoyaltyFee) - Cut(funds, EntrepotFee) \in Nat
  BY DEF Cut, RoyaltyFee, EntrepotFee

\* The disbursements of a settlement are well typed.
LEMMA ProceedsType ==
  ASSUME NEW tx \in Transaction, NEW funds \in Nat
  PROVE  Proceeds(tx, funds) \in Seq(Disbursement)
  <1> DEFINE job(to, amount) ==
        [token |-> tx.token, to |-> to, sub |-> tx.sub, amount |-> amount]
  <1>1. \A to \in Accounts \cup {"royalty", "entrepot"}, amount \in Nat :
          job(to, amount) \in Disbursement
    BY DEF Transaction, Disbursement
  <1>2. tx.seller \in Accounts
    BY DEF Transaction
  <1> HIDE DEF job
  <1>3. << job(tx.seller, funds - Cut(funds, RoyaltyFee)
                            - Cut(funds, EntrepotFee)),
           job("entrepot", Cut(funds, EntrepotFee)),
           job("royalty", Cut(funds, RoyaltyFee)) >> \in Seq(Disbursement)
    <2>1. \A a, b, c \in Disbursement : <<a, b, c>> \in Seq(Disbursement)
      OBVIOUS
    <2> QED
      BY <1>1, <1>2, <2>1, FeesFit
  <1> QED
    BY <1>3 DEF job, Proceeds

\* A call at rest is well formed.
LEMMA IdleOK == Idle \in Call /\ WellFormed(Idle)
  BY MarketAssumption DEF Idle, Call, WellFormed

\* A call that leaves settle is well formed and keeps what it is for.
LEMMA AfterSettleOK ==
  ASSUME NEW call \in Call, WellFormed(call), call.op # None,
         NEW res \in {"ok", "err"}
  PROVE  /\ AfterSettle(call, res) \in Call
         /\ WellFormed(AfterSettle(call, res))
         /\ AfterSettle(call, res).tx = None
         /\ AfterSettle(call, res).op = "lock" =>
              call.op = "lock" /\ AfterSettle(call, res).sub = call.sub
  BY IdleOK, MarketAssumption DEF AfterSettle, Call, WellFormed, Idle

-----------------------------------------------------------------------------
\* A step that moves one call forward and changes nothing else keeps the
\* invariant, when the call stays well formed, keeps its payment subaccount,
\* and what it knows of a transaction is true.
LEMMA MoveCall ==
  ASSUME Inv, UNCHANGED market,
         NEW c \in Calls, NEW call \in Call, WellFormed(call), Goto(c, call),
         call.op = "lock" => calls[c].op = "lock" /\ call.sub = calls[c].sub,
         call.tx # None => /\ call.tx.token = call.index
                           /\ orders[call.tx.sub] = OrderOf(call.tx)
                           /\ call.funds <= deposited[call.tx.sub]
  PROVE  Inv'
  <1>1. /\ calls' \in [Calls -> Call]
        /\ calls'[c] = call
        /\ \A d \in Calls \ {c} : calls'[d] = calls[d]
    BY DEF Goto, Inv, TypeOK
  <1>2. TypeOK'
    BY <1>1 DEF Inv, TypeOK, market, history, stats
  <1>3. UniquePaymentAddress'
    BY <1>1 DEF Inv, UniquePaymentAddress, market, history, stats
  <1>4. PaidInFull'
    BY <1>1 DEF Inv, PaidInFull, market, history, stats
  <1> QED
    BY <1>2, <1>3, <1>4 DEF Inv

\* What the invariant says of a call in flight.
LEMMA CallFacts ==
  ASSUME Inv, NEW c \in Calls
  PROVE  /\ calls[c] \in Call
         /\ WellFormed(calls[c])
         /\ calls[c].tx # None =>
              /\ calls[c].tx.token = calls[c].index
              /\ orders[calls[c].tx.sub] = OrderOf(calls[c].tx)
              /\ calls[c].funds <= deposited[calls[c].tx.sub]
  BY DEF Inv, TypeOK, UniquePaymentAddress, PaidInFull

\* What it says of a pending transaction.
LEMMA PendingFacts ==
  ASSUME Inv, NEW i \in Tokens, pendingTransactions[i] # None
  PROVE  /\ pendingTransactions[i] \in Transaction
         /\ pendingTransactions[i].token = i
         /\ pendingTransactions[i].sub \in Locks
         /\ orders[pendingTransactions[i].sub] = OrderOf(pendingTransactions[i])
         /\ deposited[pendingTransactions[i].sub] \in Nat
  BY DEF Inv, TypeOK, UniquePaymentAddress, Transaction

-----------------------------------------------------------------------------
\* The messages that only move their call forward.

\* _canSettle looks for a pending transaction: it only decides where its call
\* goes on.
LEMMA CanSettleKeepsInv ==
  ASSUME Inv, NEW c \in Calls, CanSettle(c)
  PROVE  Inv'
  <1> DEFINE call == IF pendingTransactions[calls[c].index] = None
                     THEN [calls[c] EXCEPT !.pc = "resume", !.res = "ok"]
                     ELSE [calls[c] EXCEPT !.pc = "settle"]
  <1>0. calls[c] \in Call /\ WellFormed(calls[c]) /\ calls[c].op # None
        /\ calls[c].pc \in {"canSettle", "settled"}
    BY CallFacts DEF CanSettle, WellFormed, Idle
  <1>1. call \in Call /\ WellFormed(call)
    BY <1>0, MarketAssumption DEF Call, WellFormed
  <1>2. call.op = calls[c].op /\ call.sub = calls[c].sub /\ call.tx = calls[c].tx
        /\ call.index = calls[c].index /\ call.funds = calls[c].funds
    BY CallFacts DEF Call
  <1>3. Goto(c, call) /\ UNCHANGED market
    BY DEF CanSettle
  <1> HIDE DEF call
  <1> QED
    BY <1>1, <1>2, <1>3, CallFacts, MoveCall

\* _canSettle takes the result of settle.
LEMMA CanSettleResumeKeepsInv ==
  ASSUME Inv, NEW c \in Calls, CanSettleResume(c)
  PROVE  Inv'
  <1> DEFINE res == IF calls[c].res = "ok" \/ listings[calls[c].index] = None
                    THEN "err" ELSE "ok"
             call == [calls[c] EXCEPT !.pc = "resume", !.res = res]
  <1>0. calls[c] \in Call /\ WellFormed(calls[c]) /\ calls[c].op # None
        /\ calls[c].pc \in {"canSettle", "settled"}
    BY CallFacts DEF CanSettleResume, WellFormed, Idle
  <1>r. res \in {"ok", "err"}
    OBVIOUS
  <1>3. Goto(c, call) /\ UNCHANGED market
    BY DEF CanSettleResume
  <1> HIDE DEF res
  <1>1. call \in Call /\ WellFormed(call)
    BY <1>0, <1>r, MarketAssumption DEF Call, WellFormed
  <1>2. call.op = calls[c].op /\ call.sub = calls[c].sub /\ call.tx = calls[c].tx
        /\ call.index = calls[c].index /\ call.funds = calls[c].funds
    BY CallFacts DEF Call
  <1> HIDE DEF call
  <1> QED
    BY <1>1, <1>2, <1>3, CallFacts, MoveCall

\* A call that ends without doing anything: an error, a reject or a trap.
LEMMA EndKeepsInv ==
  ASSUME Inv, NEW c \in Calls, Goto(c, Idle), UNCHANGED market
  PROVE  Inv'
  <1>1. Idle.op # "lock" /\ Idle.tx = None
    BY MarketAssumption DEF Idle
  <1> QED
    BY <1>1, IdleOK, MoveCall

\* A call whose settle has returned.
LEMMA ReturnKeepsInv ==
  ASSUME Inv, NEW c \in Calls, NEW res \in {"ok", "err"},
         calls[c].op # None,
         Goto(c, AfterSettle(calls[c], res)), UNCHANGED market
  PROVE  Inv'
  BY CallFacts, AfterSettleOK, MoveCall

\* A settle reads the pending transaction of its token, which is the order of
\* its address; the copy in the call is, too.
LEMMA SettleKeepsInv ==
  ASSUME Inv, NEW c \in Calls, NEW i \in Tokens, Settle(c, i)
  PROVE  Inv'
  <1> DEFINE tx == pendingTransactions[i]
             call == [Idle EXCEPT !.pc = "balance", !.op = "settle",
                                  !.index = i, !.tx = tx]
  <1>1. /\ tx \in Transaction /\ tx.token = i
        /\ orders[tx.sub] = OrderOf(tx)
        /\ deposited[tx.sub] \in Nat
    BY PendingFacts DEF Settle
  <1>2. call \in Call /\ WellFormed(call) /\ call.op # "lock"
        /\ call.tx = tx /\ call.index = i /\ call.funds = 0
    BY <1>1, MarketAssumption DEF Call, WellFormed, Idle
  <1>3. Goto(c, call) /\ UNCHANGED market
    BY DEF Settle
  <1> HIDE DEF call, tx
  <1> QED
    BY <1>1, <1>2, <1>3, MoveCall

\* The same of a settle that was called by _canSettle or the heartbeat.
LEMMA SettleBeginKeepsInv ==
  ASSUME Inv, NEW c \in Calls, SettleBegin(c)
  PROVE  Inv'
  <1> DEFINE tx == pendingTransactions[calls[c].index]
             call == [calls[c] EXCEPT !.pc = "balance", !.tx = tx]
  <1>1. /\ calls[c].pc = "settle" /\ calls[c] \in Call /\ WellFormed(calls[c])
        /\ calls[c].op # None /\ calls[c].index \in Tokens
    BY CallFacts DEF SettleBegin, WellFormed, Idle
  <1>2. CASE ~calls[c].own \/ tx = None
    BY <1>1, <1>2, ReturnKeepsInv DEF SettleBegin
  <1>3. CASE calls[c].own /\ tx # None
    <2>1. /\ tx \in Transaction /\ tx.token = calls[c].index
          /\ orders[tx.sub] = OrderOf(tx)
          /\ deposited[tx.sub] \in Nat
      BY <1>1, <1>3, PendingFacts
    <2>2. call \in Call /\ WellFormed(call)
      BY <1>1, <2>1 DEF Call, WellFormed
    <2>3. call.op = calls[c].op /\ call.sub = calls[c].sub /\ call.tx = tx
          /\ call.index = calls[c].index /\ call.funds = calls[c].funds
      BY <1>1 DEF Call
    <2>4. Goto(c, call) /\ UNCHANGED market
      BY <1>3 DEF SettleBegin
    <2>5. call.funds <= deposited[tx.sub]
      BY <1>1, <2>1, <2>3 DEF WellFormed
    <2> HIDE DEF call, tx
    <2> QED
      BY <2>1, <2>2, <2>3, <2>4, <2>5, MoveCall
  <1> QED
    BY <1>2, <1>3

\* The ledger tells a settle no more than what was deposited.
LEMMA BalanceReplyKeepsInv ==
  ASSUME Inv, NEW c \in Calls, BalanceReply(c)
  PROVE  Inv'
  <1> DEFINE funds == balance[calls[c].tx.sub]
             call == [calls[c] EXCEPT !.pc = "funds", !.funds = funds]
  <1>1. /\ calls[c] \in Call /\ WellFormed(calls[c])
        /\ calls[c].tx \in Transaction /\ calls[c].tx.sub \in Locks
        /\ calls[c].tx # None /\ calls[c].op # None
    BY CallFacts, MarketAssumption
    DEF BalanceReply, WellFormed, Transaction, Idle
  <1>2. funds \in Nat /\ funds <= deposited[calls[c].tx.sub]
    BY <1>1 DEF Inv, TypeOK, PaidInFull
  <1>3. Goto(c, call) /\ UNCHANGED market
    BY DEF BalanceReply
  <1> HIDE DEF funds
  <1>4. call \in Call /\ WellFormed(call)
    BY <1>1, <1>2 DEF Call, WellFormed
  <1>5. call.op = calls[c].op /\ call.sub = calls[c].sub /\ call.tx = calls[c].tx
        /\ call.index = calls[c].index /\ call.funds = funds
    BY <1>1 DEF Call
  <1> HIDE DEF call
  <1> QED
    BY <1>1, <1>2, <1>3, <1>4, <1>5, CallFacts, MoveCall

\* The heartbeat moves several calls at once.
LEMMA CronSettlementsKeepsInv ==
  ASSUME Inv, CronSettlements
  PROVE  Inv'
  <1> DEFINE begun(i) == [Idle EXCEPT !.pc = "settle", !.op = "settle",
                                      !.index = i]
  <1>1. /\ calls' \in [Calls -> Call]
        /\ UNCHANGED market
        /\ \A c \in Calls : \/ calls'[c] = calls[c]
                            \/ \E i \in Tokens : calls'[c] = begun(i)
    <2>1. PICK slot \in [Due -> {c \in Calls : calls[c].pc = "idle"}] :
            calls' = [c \in Calls |->
              IF \E i \in Due : slot[i] = c
              THEN begun(CHOOSE i \in Due : slot[i] = c)
              ELSE calls[c]]
      BY DEF CronSettlements
    <2>2. \A i \in Tokens : begun(i) \in Call
      BY DEF Call, Idle
    <2>3. Due \subseteq Tokens
      BY DEF Due
    <2>4. ASSUME NEW c \in Calls, \E i \in Due : slot[i] = c
          PROVE  (CHOOSE i \in Due : slot[i] = c) \in Tokens
      BY <2>3, <2>4
    <2>5. \A c \in Calls : calls[c] \in Call
      BY CallFacts
    <2> HIDE DEF begun
    <2>6. \A c \in Calls : \/ calls'[c] = calls[c]
                           \/ \E i \in Tokens : calls'[c] = begun(i)
      BY <2>1, <2>4
    <2>7. calls' \in [Calls -> Call]
      BY <2>1, <2>2, <2>4, <2>5
    <2> QED
      BY <2>6, <2>7 DEF CronSettlements
  <1>2. \A i \in Tokens :
          /\ WellFormed(begun(i))
          /\ begun(i).op # "lock" /\ begun(i).tx = None
    BY MarketAssumption DEF WellFormed, Idle
  <1> HIDE DEF begun
  <1>3. TypeOK'
    BY <1>1, <1>2 DEF Inv, TypeOK, market, history, stats
  <1>4. UniquePaymentAddress'
    BY <1>1, <1>2 DEF Inv, UniquePaymentAddress, market, history, stats
  <1>5. PaidInFull'
    BY <1>1, <1>2 DEF Inv, PaidInFull, market, history, stats
  <1> QED
    BY <1>3, <1>4, <1>5 DEF Inv

-----------------------------------------------------------------------------
\* The messages that change the market.

\* list only adds to the history of offers and starts a call.
LEMMA ListKeepsInv ==
  ASSUME Inv, NEW c \in Calls, NEW i \in Tokens, NEW a \in Accounts,
         NEW p \in Prices \cup {None}, NEW own \in BOOLEAN,
         List(c, i, a, p, own)
  PROVE  Inv'
  <1> DEFINE call == [Idle EXCEPT !.pc = "canSettle", !.op = "list",
                                  !.index = i, !.own = own, !.who = a,
                                  !.price = p]
  <1>1. call \in Call /\ WellFormed(call) /\ call.op = "list" /\ call.tx = None
    BY MarketAssumption DEF Call, WellFormed, Idle
  <1>2. Goto(c, call)
    BY DEF List
  <1> HIDE DEF call
  <1>3. /\ calls' \in [Calls -> Call]
        /\ calls'[c] = call
        /\ \A d \in Calls \ {c} : calls'[d] = calls[d]
    BY <1>1, <1>2 DEF Goto, Inv, TypeOK
  <1>4. offers' \subseteq Offer
    BY DEF List, Inv, TypeOK, Offer
  <1>5. UNCHANGED <<owner, listings, pendingTransactions, transactions,
                    nextTxId, nextSubAccount, stats, pendingDisbursements,
                    balance, lapsed, orders, deposited, inTime, sold, passed>>
    BY DEF List
  <1>6. TypeOK'
    BY <1>1, <1>3, <1>4, <1>5 DEF Inv, TypeOK, stats
  <1>7. UniquePaymentAddress'
    BY <1>1, <1>3, <1>5 DEF Inv, UniquePaymentAddress
  <1>8. PaidInFull'
    BY <1>1, <1>3, <1>5 DEF Inv, PaidInFull
  <1> QED
    BY <1>6, <1>7, <1>8 DEF Inv

\* Steps of list that end its call, of owners, admins, time: they change
\* nothing that a transaction, an order or a call in flight depends on.
LEMMA SideStepKeepsInv ==
  ASSUME Inv,
         owner' \in [Tokens -> Accounts],
         listings' \in [Tokens -> Listing \cup {None}],
         nextTxId' \in Nat,
         lapsed' \in 0 .. MaxLocks,
         passed' \subseteq Locks,
         calls' = calls \/ \E c \in Calls : Goto(c, Idle),
         UNCHANGED <<pendingTransactions, transactions, nextSubAccount, stats,
                     pendingDisbursements, balance, offers, orders, deposited,
                     inTime, sold>>
  PROVE  Inv'
  <1>1. Idle.op # "lock" /\ Idle.tx = None
    BY MarketAssumption DEF Idle
  <1>2. /\ calls' \in [Calls -> Call]
        /\ \A c \in Calls : calls'[c] = calls[c] \/ calls'[c] = Idle
    BY IdleOK DEF Goto, Inv, TypeOK
  <1>3. TypeOK'
    BY <1>2, IdleOK DEF Inv, TypeOK, stats
  <1>4. UniquePaymentAddress'
    BY <1>1, <1>2 DEF Inv, UniquePaymentAddress
  <1>5. PaidInFull'
    BY <1>1, <1>2 DEF Inv, PaidInFull
  <1> QED
    BY <1>3, <1>4, <1>5 DEF Inv

\* list writes or deletes a listing.
LEMMA ListResumeKeepsInv ==
  ASSUME Inv, NEW c \in Calls, ListResume(c)
  PROVE  Inv'
  <1>1. /\ calls[c] \in Call
        /\ calls[c].index \in Tokens
        /\ calls[c].who \in Accounts
        /\ calls[c].price \in Prices \cup {None}
    BY CallFacts, MarketAssumption DEF ListResume, WellFormed, Call
  <1>2. listings' \in [Tokens -> Listing \cup {None}]
    BY <1>1, MarketAssumption DEF ListResume, Listing, Inv, TypeOK
  <1>3. pendingTransactions[calls[c].index] # None =>
          pendingTransactions[calls[c].index].sub \in Locks
    BY <1>1, PendingFacts
  <1>4. passed' \subseteq Locks
    BY <1>3 DEF ListResume, Inv, TypeOK
  <1> QED
    BY <1>2, <1>4, SideStepKeepsInv DEF ListResume, Inv, TypeOK, history, stats

\* An owner moves a token.
LEMMA TransferKeepsInv ==
  ASSUME Inv, NEW i \in Tokens, NEW a \in Accounts, NEW to \in Accounts,
         Transfer(i, a, to)
  PROVE  Inv'
  BY SideStepKeepsInv DEF Transfer, Inv, TypeOK, history, stats

\* An admin deletes a listing.
LEMMA DeleteListingKeepsInv ==
  ASSUME Inv, NEW i \in Tokens, DeleteListing(i)
  PROVE  Inv'
  BY SideStepKeepsInv DEF DeleteListing, Inv, TypeOK, history, stats

\* A deadline passes.
LEMMA LapseKeepsInv ==
  ASSUME Inv, Lapse
  PROVE  Inv'
  <1>1. lapsed' \in 0 .. MaxLocks
    BY MarketAssumption DEF Lapse, Inv, TypeOK
  <1> QED
    BY <1>1, SideStepKeepsInv DEF Lapse, Inv, TypeOK, history, stats

\* An upgrade starts the transaction ids at 0 again, which no part of the
\* invariant looks at.
LEMMA UpgradeKeepsInv ==
  ASSUME Inv, Upgrade
  PROVE  Inv'
  BY SideStepKeepsInv DEF Upgrade, Inv, TypeOK, history, stats

\* lock takes a payment subaccount that no order and no other lock in flight
\* has, since all theirs are at most nextSubAccount.
LEMMA LockKeepsInv ==
  ASSUME Inv, NEW c \in Calls, NEW i \in Tokens, NEW buyer \in Accounts,
         Lock(c, i, buyer)
  PROVE  Inv'
  <1> DEFINE sub == nextSubAccount + 1
             call == [Idle EXCEPT !.pc = "canSettle", !.op = "lock",
                        !.index = i, !.who = buyer,
                        !.seller = listings[i].seller,
                        !.price = listings[i].price, !.sub = sub]
  <1>1. /\ listings[i] \in Listing
        /\ sub \in Locks /\ sub \in 0 .. MaxLocks
        /\ nextSubAccount \in Nat
    BY MarketAssumption DEF Lock, Locks, Inv, TypeOK
  <1>2. Goto(c, call) /\ nextSubAccount' = sub
    BY DEF Lock
  <1>3. listings' \in [Tokens -> Listing \cup {None}]
    BY <1>1 DEF Lock, Listing, Inv, TypeOK
  <1>4. sub > nextSubAccount
    BY <1>1
  <1> HIDE DEF sub
  <1>5. /\ call \in Call /\ WellFormed(call)
        /\ call.op = "lock" /\ call.tx = None /\ call.sub = sub
    BY <1>1, MarketAssumption DEF Call, WellFormed, Idle, Listing
  <1> HIDE DEF call
  <1>6. /\ calls' \in [Calls -> Call]
        /\ calls'[c] = call
        /\ \A d \in Calls \ {c} : calls'[d] = calls[d]
    BY <1>2, <1>5 DEF Goto, Inv, TypeOK
  <1>7. UNCHANGED <<owner, pendingTransactions, transactions, nextTxId, stats,
                    pendingDisbursements, balance, lapsed, history>>
    BY DEF Lock
  <1>8. TypeOK'
    BY <1>1, <1>2, <1>3, <1>5, <1>6, <1>7 DEF Inv, TypeOK, history, stats
  <1>9. UniquePaymentAddress'
    <2>1. orders[sub] = None
      BY <1>1, <1>4 DEF Inv, UniquePaymentAddress
    <2>2. \A d \in Calls : calls[d].op = "lock" =>
            /\ calls[d].sub <= nextSubAccount
            /\ calls[d].sub \in Nat
      BY DEF Inv, UniquePaymentAddress, TypeOK, WellFormed, Locks
    <2>3. \A s \in Locks : s > sub => s > nextSubAccount
      BY <1>1, <1>4 DEF Locks
    <2>4. sub \in Nat
      BY <1>1 DEF Locks
    <2>5. ASSUME NEW d \in Calls, calls'[d].op = "lock"
          PROVE  /\ calls'[d].sub <= sub
                 /\ orders[calls'[d].sub] = None
                 /\ \A e \in Calls \ {d} : calls'[e].op = "lock" =>
                                             calls'[e].sub # calls'[d].sub
      BY <2>1, <2>2, <2>4, <2>5, <1>1, <1>4, <1>5, <1>6
      DEF Inv, UniquePaymentAddress
    <2>6. \A s \in Locks : s > sub => orders[s] = None
      BY <2>3 DEF Inv, UniquePaymentAddress
    <2>7. \A d \in Calls : calls'[d].tx # None =>
            /\ calls'[d].tx.token = calls'[d].index
            /\ orders[calls'[d].tx.sub] = OrderOf(calls'[d].tx)
      BY <1>5, <1>6 DEF Inv, UniquePaymentAddress
    <2> QED
      BY <2>5, <2>6, <2>7, <1>2, <1>7
      DEF Inv, UniquePaymentAddress, history
  <1>10. PaidInFull'
    BY <1>5, <1>6, <1>7 DEF Inv, PaidInFull, history
  <1> QED
    BY <1>8, <1>9, <1>10 DEF Inv

\* The order is made under the subaccount the lock has held, which nobody
\* else has used.
LEMMA LockResumeKeepsInv ==
  ASSUME Inv, NEW c \in Calls, LockResume(c)
  PROVE  Inv'
  <1> DEFINE sub == calls[c].sub
             i == calls[c].index
             tx == [id |-> nextTxId, token |-> i, seller |-> calls[c].seller,
                    to |-> calls[c].who, price |-> calls[c].price,
                    sub |-> sub]
             order == OrderOf(tx)
  <1>1. /\ sub \in Locks /\ i \in Tokens
        /\ calls[c].seller \in Accounts /\ calls[c].who \in Accounts
        /\ calls[c].price \in Prices
    BY CallFacts, MarketAssumption DEF LockResume, WellFormed
  <1>2. /\ orders[sub] = None
        /\ sub <= nextSubAccount
        /\ \A d \in Calls \ {c} : calls[d].op = "lock" => calls[d].sub # sub
    BY DEF LockResume, Inv, UniquePaymentAddress
  <1>3. nextTxId \in Nat
    BY DEF Inv, TypeOK
  <1>4. tx \in Transaction /\ tx.token = i /\ tx.sub = sub /\ order \in Order
    BY <1>1, <1>3 DEF Transaction, Order, OrderOf
  <1>5. /\ pendingTransactions' = [pendingTransactions EXCEPT ![i] = tx]
        /\ orders' = [orders EXCEPT ![sub] = order]
        /\ nextTxId' = nextTxId + 1
        /\ Goto(c, Idle)
        /\ UNCHANGED <<owner, listings, transactions, nextSubAccount, stats,
                       pendingDisbursements, balance, lapsed, offers,
                       deposited, inTime, sold, passed>>
    BY DEF LockResume, OrderOf
  <1> HIDE DEF tx, order, i
  <1>6. order # None /\ order = OrderOf(tx)
    BY <1>4, MarketAssumption DEF order
  <1>7. /\ calls' \in [Calls -> Call]
        /\ calls'[c] = Idle
        /\ \A d \in Calls \ {c} : calls'[d] = calls[d]
    BY <1>5, IdleOK DEF Goto, Inv, TypeOK
  <1>8. Idle.op # "lock" /\ Idle.tx = None
    BY MarketAssumption DEF Idle
  <1>9. TypeOK'
    <2>1. pendingTransactions' \in [Tokens -> Transaction \cup {None}]
      BY <1>4, <1>5 DEF Inv, TypeOK
    <2>2. orders' \in [Locks -> Order \cup {None}]
      BY <1>4, <1>5 DEF Inv, TypeOK
    <2>3. \A d \in Calls : WellFormed(calls'[d])
      BY <1>7, IdleOK DEF Inv, TypeOK
    <2>4. nextTxId' \in Nat
      BY <1>3, <1>5
    <2> QED
      BY <2>1, <2>2, <2>3, <2>4, <1>5, <1>7 DEF Inv, TypeOK, stats
  <1>10. UniquePaymentAddress'
    <2>1. orders \in [Locks -> Order \cup {None}]
      BY DEF Inv, TypeOK
    <2>2. \A s \in Locks : orders[s] # None => s # sub /\ orders'[s] = orders[s]
      BY <1>2, <1>5, <2>1
    <2>3. orders'[sub] = order
      BY <1>1, <1>5, <2>1
    <2>4. \A d \in Calls : calls'[d].op = "lock" =>
            /\ calls'[d].sub <= nextSubAccount
            /\ orders'[calls'[d].sub] = None
            /\ \A e \in Calls \ {d} : calls'[e].op = "lock" =>
                                        calls'[e].sub # calls'[d].sub
      <3>1. SUFFICES ASSUME NEW d \in Calls, calls'[d].op = "lock"
            PROVE  /\ calls'[d].sub <= nextSubAccount
                   /\ orders'[calls'[d].sub] = None
                   /\ \A e \in Calls \ {d} : calls'[e].op = "lock" =>
                                               calls'[e].sub # calls'[d].sub
        OBVIOUS
      <3>2. d # c /\ calls'[d] = calls[d]
        BY <1>7, <1>8, <3>1
      <3>3. calls[d].sub \in Locks /\ calls[d].sub # sub
        BY <1>2, <3>1, <3>2, CallFacts DEF WellFormed
      <3>4. orders'[calls[d].sub] = orders[calls[d].sub]
        BY <1>5, <2>1, <3>3
      <3> QED
        BY <1>7, <1>8, <3>1, <3>2, <3>3, <3>4 DEF Inv, UniquePaymentAddress
    <2>5. \A s \in Locks : s > nextSubAccount => orders'[s] = None
      <3>1. nextSubAccount \in Nat
        BY MarketAssumption DEF Inv, TypeOK
      <3>2. \A s \in Locks : s > nextSubAccount => s # sub /\ orders[s] = None
        BY <1>1, <1>2, <3>1 DEF Inv, UniquePaymentAddress, Locks
      <3> QED
        BY <1>5, <2>1, <3>2
    <2>6. ASSUME NEW j \in Tokens, pendingTransactions'[j] # None
          PROVE  /\ pendingTransactions'[j].token = j
                 /\ orders'[pendingTransactions'[j].sub]
                      = OrderOf(pendingTransactions'[j])
      <3>1. CASE j = i
        BY <1>4, <1>5, <1>6, <2>3, <3>1 DEF Inv, TypeOK
      <3>2. CASE j # i
        <4>1. pendingTransactions'[j] = pendingTransactions[j]
          BY <1>5, <3>2 DEF Inv, TypeOK
        <4>2. /\ pendingTransactions[j] \in Transaction
              /\ pendingTransactions[j].token = j
              /\ pendingTransactions[j].sub \in Locks
              /\ orders[pendingTransactions[j].sub]
                   = OrderOf(pendingTransactions[j])
          BY <2>6, <4>1, PendingFacts
        <4>3. OrderOf(pendingTransactions[j]) # None
          BY <4>2, MarketAssumption DEF OrderOf, Order, Transaction
        <4> QED
          BY <2>2, <4>1, <4>2, <4>3
      <3> QED
        BY <3>1, <3>2
    <2>7. ASSUME NEW t \in Transaction, orders[t.sub] = OrderOf(t)
          PROVE  orders'[t.sub] = OrderOf(t)
      <3>1. OrderOf(t) # None /\ t.sub \in Locks
        BY MarketAssumption DEF OrderOf, Order, Transaction
      <3> QED
        BY <2>2, <2>7, <3>1
    <2>8. \A d \in Calls : calls'[d].tx # None =>
            /\ calls'[d].tx.token = calls'[d].index
            /\ orders'[calls'[d].tx.sub] = OrderOf(calls'[d].tx)
      BY <1>7, <1>8, <2>7, CallFacts DEF Call
    <2>9. \A t \in transactions : orders'[t.sub] = OrderOf(t)
      BY <2>7 DEF Inv, TypeOK, UniquePaymentAddress
    <2> QED
      BY <2>4, <2>5, <2>6, <2>8, <2>9, <1>5 DEF UniquePaymentAddress
  <1>11. PaidInFull'
    BY <1>5, <1>7, <1>8 DEF Inv, PaidInFull
  <1> QED
    BY <1>9, <1>10, <1>11 DEF Inv

\* A settle that finds too little may drop the pending transaction of its
\* token.
LEMMA SettleShortKeepsInv ==
  ASSUME Inv, NEW c \in Calls, SettleShort(c)
  PROVE  Inv'
  <1> DEFINE call == AfterSettle(calls[c], "err")
  <1>1. /\ calls[c] \in Call /\ WellFormed(calls[c]) /\ calls[c].op # None
        /\ calls[c].index \in Tokens
    BY CallFacts DEF SettleShort, WellFormed, Idle
  <1>2. /\ call \in Call /\ WellFormed(call) /\ call.tx = None
        /\ call.op = "lock" => calls[c].op = "lock" /\ call.sub = calls[c].sub
    BY <1>1, AfterSettleOK
  <1>3. Goto(c, call)
    BY DEF SettleShort
  <1> HIDE DEF call
  <1>4. /\ calls' \in [Calls -> Call]
        /\ calls'[c] = call
        /\ \A d \in Calls \ {c} : calls'[d] = calls[d]
    BY <1>2, <1>3 DEF Goto, Inv, TypeOK
  <1>5. /\ pendingTransactions' \in [Tokens -> Transaction \cup {None}]
        /\ \A i \in Tokens : pendingTransactions'[i]
                               \in {pendingTransactions[i], None}
    BY <1>1 DEF SettleShort, Inv, TypeOK
  <1>6. UNCHANGED <<owner, listings, transactions, nextTxId, nextSubAccount,
                    stats, pendingDisbursements, balance, lapsed, history>>
    BY DEF SettleShort
  <1>7. TypeOK'
    BY <1>2, <1>4, <1>5, <1>6 DEF Inv, TypeOK, history, stats
  <1>8. UniquePaymentAddress'
    BY <1>2, <1>4, <1>5, <1>6 DEF Inv, UniquePaymentAddress, history
  <1>9. PaidInFull'
    BY <1>2, <1>4, <1>6 DEF Inv, PaidInFull, history
  <1> QED
    BY <1>7, <1>8, <1>9 DEF Inv

\* A sale finalizes the copy of the transaction its settle carries: it is the
\* order of its address, and what the ledger told was enough.
LEMMA SettleCommitKeepsInv ==
  ASSUME Inv, NEW c \in Calls, SettleCommit(c)
  PROVE  Inv'
  <1> DEFINE tx == calls[c].tx
             i == calls[c].index
             call == [calls[c] EXCEPT !.pc = "cap"]
  <1>1. /\ calls[c] \in Call /\ WellFormed(calls[c])
        /\ calls[c].op # None /\ calls[c].pc = "funds"
        /\ i \in Tokens /\ tx \in Transaction /\ tx # None
    BY CallFacts, MarketAssumption DEF SettleCommit, WellFormed, Idle
  <1>2. /\ tx.price \in Nat /\ tx.to \in Accounts /\ tx.sub \in Locks
    BY <1>1, MarketAssumption DEF Transaction
  <1>3. calls[c].funds - LedgerFees \in Nat
    BY <1>1 DEF SettleCommit, SettleTraps, LedgerFees, Call
  <1>4. deposited[tx.sub] >= tx.price
    <2>1. calls[c].funds <= deposited[tx.sub] /\ calls[c].funds >= tx.price
      BY <1>1, CallFacts DEF SettleCommit, IsPaid
    <2>2. calls[c].funds \in Nat /\ deposited[tx.sub] \in Nat
      BY <1>1, <1>2 DEF Call, Inv, TypeOK
    <2> QED
      BY <1>2, <2>1, <2>2
  <1>5. call \in Call /\ WellFormed(call) /\ call.op = calls[c].op
        /\ call.tx = tx /\ call.index = i /\ call.sub = calls[c].sub
        /\ call.funds = calls[c].funds
    BY <1>1 DEF Call, WellFormed
  <1>6. Goto(c, call)
    BY DEF SettleCommit
  <1> HIDE DEF call
  <1>7. /\ calls' \in [Calls -> Call]
        /\ calls'[c] = call
        /\ \A d \in Calls \ {c} : calls'[d] = calls[d]
    BY <1>5, <1>6 DEF Goto, Inv, TypeOK
  <1>8. /\ transactions' = {t \in transactions : t.id # tx.id} \cup {tx}
        /\ pendingTransactions' = [pendingTransactions EXCEPT ![i] = None]
        /\ UNCHANGED <<nextTxId, nextSubAccount, balance, lapsed, offers,
                       orders, deposited, inTime, passed>>
    BY DEF SettleCommit
  <1>9. /\ pendingTransactions' \in [Tokens -> Transaction \cup {None}]
        /\ \A j \in Tokens : pendingTransactions'[j]
                               \in {pendingTransactions[j], None}
    BY <1>1, <1>8 DEF Inv, TypeOK
  <1>10. TypeOK'
    <2>0. /\ owner' = [owner EXCEPT ![i] = tx.to]
          /\ listings' = [listings EXCEPT ![i] = None]
          /\ sold' = [sold EXCEPT ![tx.sub] = sold[tx.sub] + 1]
          /\ totalVolume' = totalVolume + tx.price
          /\ lowestPriceSale' \in {tx.price, lowestPriceSale}
          /\ highestPriceSale' \in {tx.price, highestPriceSale}
      BY DEF SettleCommit
    <2> HIDE DEF tx, i
    <2>1. /\ owner' \in [Tokens -> Accounts]
          /\ listings' \in [Tokens -> Listing \cup {None}]
          /\ sold' \in [Locks -> Nat]
      BY <1>1, <1>2, <2>0 DEF Inv, TypeOK
    <2>2. totalVolume' \in Nat /\ lowestPriceSale' \in Nat
          /\ highestPriceSale' \in Nat
      <3>1. totalVolume \in Nat /\ lowestPriceSale \in Nat
            /\ highestPriceSale \in Nat
        BY DEF Inv, TypeOK
      <3>2. tx.price \in Nat
        BY <1>2
      <3> HIDE DEF Inv
      <3> QED
        BY <3>1, <3>2, <2>0
    <2>3. pendingDisbursements' \in Seq(Disbursement)
      <3>1. Proceeds(tx, calls[c].funds - LedgerFees) \in Seq(Disbursement)
        BY <1>1, <1>3, ProceedsType
      <3>2. pendingDisbursements' = Proceeds(tx, calls[c].funds - LedgerFees)
                                    \o pendingDisbursements
        BY DEF SettleCommit, tx
      <3> QED
        BY <3>1, <3>2 DEF Inv, TypeOK
    <2>4. transactions' \subseteq Transaction
      BY <1>1, <1>8 DEF Inv, TypeOK
    <2>5. \A d \in Calls : WellFormed(calls'[d])
      BY <1>5, <1>7 DEF Inv, TypeOK
    <2> QED
      BY <2>1, <2>2, <2>3, <2>4, <2>5, <1>7, <1>8, <1>9 DEF Inv, TypeOK
  <1>11. UniquePaymentAddress'
    <2>1. tx.token = i /\ orders[tx.sub] = OrderOf(tx)
      BY <1>1, CallFacts
    <2>2. \A t \in transactions' : orders[t.sub] = OrderOf(t)
      BY <1>8, <2>1 DEF Inv, UniquePaymentAddress
    <2>3. \A d \in Calls : /\ calls'[d].op = calls[d].op
                           /\ calls'[d].sub = calls[d].sub
                           /\ calls'[d].tx = calls[d].tx
                           /\ calls'[d].index = calls[d].index
      BY <1>5, <1>7
    <2> HIDE DEF tx, i
    <2> QED
      BY <1>8, <1>9, <2>2, <2>3 DEF Inv, UniquePaymentAddress
  <1>12. PaidInFull'
    <2>1. \A d \in Calls : /\ calls'[d].tx = calls[d].tx
                           /\ calls'[d].funds = calls[d].funds
      BY <1>5, <1>7
    <2> HIDE DEF tx, i
    <2> QED
      BY <1>4, <1>8, <2>1 DEF Inv, PaidInFull
  <1> QED
    BY <1>10, <1>11, <1>12 DEF Inv

\* A payment only adds to what was deposited.
LEMMA PayKeepsInv ==
  ASSUME Inv, NEW s \in Locks, NEW amount \in Payments, Pay(s, amount)
  PROVE  Inv'
  <1>1. amount \in Nat
    BY MarketAssumption
  <1>2. /\ deposited' = [deposited EXCEPT ![s] = deposited[s] + amount]
        /\ balance' = [balance EXCEPT ![s] = balance[s] + amount]
        /\ UNCHANGED <<owner, listings, pendingTransactions, transactions,
                       nextTxId, nextSubAccount, stats, pendingDisbursements,
                       calls, lapsed, offers, orders, sold, passed>>
    BY DEF Pay
  <1>3. /\ deposited' \in [Locks -> Nat] /\ balance' \in [Locks -> Nat]
        /\ \A r \in Locks : deposited'[r] >= deposited[r]
        /\ \A r \in Locks : balance'[r] <= deposited'[r]
    BY <1>1, <1>2 DEF Inv, TypeOK, PaidInFull
  <1>4. inTime' \subseteq Locks
    BY DEF Pay, Inv, TypeOK
  <1>5. TypeOK'
    BY <1>2, <1>3, <1>4 DEF Inv, TypeOK, stats
  <1>6. UniquePaymentAddress'
    BY <1>2 DEF Inv, UniquePaymentAddress
  <1>7. PaidInFull'
    <2>1. ASSUME NEW c \in Calls, calls[c].tx # None
          PROVE  calls[c].funds <= deposited'[calls[c].tx.sub]
      <3>1. calls[c].tx.sub \in Locks /\ calls[c].funds \in Nat
        BY <2>1, CallFacts DEF Call, Transaction
      <3>2. calls[c].funds <= deposited[calls[c].tx.sub]
        BY <2>1, CallFacts
      <3> QED
        BY <1>3, <3>1, <3>2 DEF Inv, TypeOK
    <2>2. ASSUME NEW t \in transactions
          PROVE  deposited'[t.sub] >= t.price
      <3>1. t.sub \in Locks /\ t.price \in Nat
        BY MarketAssumption DEF Inv, TypeOK, Transaction
      <3>2. deposited[t.sub] >= t.price
        BY DEF Inv, PaidInFull
      <3> QED
        BY <1>3, <3>1, <3>2 DEF Inv, TypeOK
    <2> QED
      BY <1>2, <1>3, <2>1, <2>2 DEF PaidInFull
  <1> QED
    BY <1>5, <1>6, <1>7 DEF Inv

-----------------------------------------------------------------------------
\* The invariant is inductive.

\* The invariant holds of a fresh deployment.
LEMMA InitInv == Init => Inv
  <1> SUFFICES ASSUME Init
               PROVE  Inv
    OBVIOUS
  <1>1. \A c \in Calls : calls[c].op # "lock" /\ calls[c].tx = None
    BY MarketAssumption DEF Init, Idle
  <1>2. TypeOK
    BY IdleOK, MarketAssumption DEF Init, TypeOK
  <1>3. UniquePaymentAddress
    BY <1>1 DEF Init, UniquePaymentAddress
  <1>4. PaidInFull
    BY <1>1 DEF Init, PaidInFull
  <1> QED
    BY <1>2, <1>3, <1>4 DEF Inv

\* The messages of a call after its first.
LEMMA StepKeepsInv ==
  ASSUME Inv, NEW c \in Calls, Step(c)
  PROVE  Inv'
  <1>1. CASE CanSettle(c)
    BY <1>1, CanSettleKeepsInv
  <1>2. CASE CanSettleResume(c)
    BY <1>2, CanSettleResumeKeepsInv
  <1>3. CASE SettleBegin(c)
    BY <1>3, SettleBeginKeepsInv
  <1>4. CASE SettleShort(c)
    BY <1>4, SettleShortKeepsInv
  <1>5. CASE SettleTrap(c)
    BY <1>5, EndKeepsInv DEF SettleTrap
  <1>6. CASE SettleCommit(c)
    BY <1>6, SettleCommitKeepsInv
  <1>7. CASE CapReply(c)
    <2>1. calls[c].op # None
      BY <1>7, CallFacts DEF CapReply, WellFormed, Idle
    <2> QED
      BY <1>7, <2>1, ReturnKeepsInv DEF CapReply
  <1>8. CASE CapReject(c)
    BY <1>8, EndKeepsInv DEF CapReject
  <1>9. CASE ListResume(c)
    BY <1>9, ListResumeKeepsInv
  <1>10. CASE LockResume(c)
    BY <1>10, LockResumeKeepsInv
  <1>11. CASE Refuse(c)
    BY <1>11, EndKeepsInv DEF Refuse
  <1> QED
    BY <1>1, <1>2, <1>3, <1>4, <1>5, <1>6, <1>7, <1>8, <1>9, <1>10, <1>11
    DEF Step

\* Every step keeps it.
LEMMA NextInv == Inv /\ [Next]_vars => Inv'
  <1> SUFFICES ASSUME Inv, [Next]_vars
               PROVE  Inv'
    OBVIOUS
  <1>1. ASSUME NEW c \in Calls, Step(c) \/ BalanceReply(c) \/ BalanceReject(c)
        PROVE  Inv'
    BY <1>1, StepKeepsInv, BalanceReplyKeepsInv, EndKeepsInv DEF BalanceReject
  <1>2. ASSUME NEW c \in Calls, NEW i \in Tokens, Settle(c, i)
        PROVE  Inv'
    BY <1>2, SettleKeepsInv
  <1>3. ASSUME NEW c \in Calls, NEW i \in Tokens, NEW a \in Accounts,
               \/ Lock(c, i, a)
               \/ \E p \in Prices \cup {None}, own \in BOOLEAN :
                      List(c, i, a, p, own)
        PROVE  Inv'
    BY <1>3, LockKeepsInv, ListKeepsInv
  <1>4. CASE CronSettlements
    BY <1>4, CronSettlementsKeepsInv
  <1>5. ASSUME NEW s \in Locks, NEW amount \in Payments, Pay(s, amount)
        PROVE  Inv'
    BY <1>5, PayKeepsInv
  <1>6. ASSUME NEW i \in Tokens,
               DeleteListing(i) \/ \E a, to \in Accounts : Transfer(i, a, to)
        PROVE  Inv'
    BY <1>6, DeleteListingKeepsInv, TransferKeepsInv
  <1>7. CASE Lapse
    BY <1>7, LapseKeepsInv
  <1>8. CASE Upgrade
    BY <1>8, UpgradeKeepsInv
  <1>9. CASE UNCHANGED vars
    BY <1>9 DEF vars, market, history, stats, Inv, TypeOK,
                UniquePaymentAddress, PaidInFull
  <1> QED
    BY <1>1, <1>2, <1>3, <1>4, <1>5, <1>6, <1>7, <1>8, <1>9 DEF Next

\* The inductive invariant holds in every reachable state.
THEOREM Invariance == Spec => []Inv
  BY InitInv, NextInv, PTL DEF Spec

\* Every variable keeps its type, however calls, upgrades and deadlines
\* interleave.
THEOREM TypeCorrect == Spec => []TypeOK
  <1>1. Inv => TypeOK
    BY DEF Inv
  <1> QED
    BY <1>1, Invariance, PTL

\* A payment subaccount is never handed out for two orders, and nothing is
\* ever settled under an order that was not made for its address.
THEOREM AddressesAreUnique == Spec => []UniquePaymentAddress
  <1>1. Inv => UniquePaymentAddress
    BY DEF Inv
  <1> QED
    BY <1>1, Invariance, PTL

\* No sale is finalized below its price.
THEOREM SalesArePaid == Spec => []PaidInFull
  <1>1. Inv => PaidInFull
    BY DEF Inv
  <1> QED
    BY <1>1, Invariance, PTL

-----------------------------------------------------------------------------
\* The marketplace implements NftSale: every message is one step of NftSale or
\* none.  The invariant this needs beyond Inv says where listings come from:
\* lock turns into an order what it read from a listing some messages ago.

\* What a seller asks for a token.
OfferOf(index, seller, price) ==
  [token |-> index, seller |-> seller, price |-> price]

\* A list in flight will write, and a lock in flight has read, a listing that
\* an owner of the token asked for.
CallAsked(call) ==
  /\ call.op = "list" /\ call.price # None =>
       OfferOf(call.index, call.who, call.price) \in offers
  /\ call.op = "lock" =>
       OfferOf(call.index, call.seller, call.price) \in offers

\* So is every listing.
AskedFor ==
  /\ \A i \in Tokens : listings[i] # None =>
       OfferOf(i, listings[i].seller, listings[i].price) \in offers
  /\ \A c \in Calls : CallAsked(calls[c])

RInv == Inv /\ AskedFor

-----------------------------------------------------------------------------
\* Preservation of AskedFor.

\* A step that moves one call forward, does not touch the offers, and writes
\* only listings that were asked for.
LEMMA MoveAsked ==
  ASSUME RInv, UNCHANGED offers, NEW c \in Calls, NEW call \in Call,
         Goto(c, call), CallAsked(call),
         \A i \in Tokens : listings'[i] # None =>
           OfferOf(i, listings'[i].seller, listings'[i].price) \in offers
  PROVE  AskedFor'
  <1>1. /\ calls'[c] = call
        /\ \A d \in Calls \ {c} : calls'[d] = calls[d]
    BY DEF Goto, RInv, Inv, TypeOK
  <1>2. \A d \in Calls : CallAsked(calls'[d])
    BY <1>1 DEF RInv, AskedFor
  <1>3. \A d \in Calls : CallAsked(calls[d])'
    BY <1>2 DEF CallAsked
  <1> QED
    BY <1>3 DEF AskedFor

\* A call at rest has asked for nothing.
LEMMA IdleAsked == Idle \in Call /\ CallAsked(Idle)
  BY IdleOK, MarketAssumption DEF Idle, CallAsked

\* A call that keeps its function and arguments has asked for what it did.
LEMMA SameAsked ==
  ASSUME RInv, NEW c \in Calls, NEW call \in Call,
         call.op = calls[c].op, call.index = calls[c].index,
         call.who = calls[c].who, call.seller = calls[c].seller,
         call.price = calls[c].price
  PROVE  CallAsked(call)
  BY DEF RInv, AskedFor, CallAsked

\* A settle of its own asks for nothing.
LEMMA SettleAsked ==
  ASSUME NEW call \in Call, call.op = "settle"
  PROVE  CallAsked(call)
  BY DEF CallAsked

\* The messages of _canSettle and settle keep the arguments of their call, or
\* end it, and only ever delete listings.
LEMMA StepAsked ==
  ASSUME RInv, NEW c \in Calls,
         \/ CanSettle(c) \/ CanSettleResume(c) \/ SettleBegin(c)
         \/ BalanceReply(c) \/ BalanceReject(c)
         \/ SettleShort(c) \/ SettleTrap(c) \/ SettleCommit(c)
         \/ CapReply(c) \/ CapReject(c) \/ Refuse(c)
  PROVE  AskedFor'
  <1>1. calls \in [Calls -> Call] /\ listings \in [Tokens -> Listing \cup {None}]
    BY DEF RInv, Inv, TypeOK
  <1>2. calls'[c] \in Call
    <2>1. Inv'
      BY StepKeepsInv, BalanceReplyKeepsInv, EndKeepsInv
      DEF RInv, Step, BalanceReject
    <2> QED
      BY <2>1 DEF Inv, TypeOK
  <1>3. calls[c] \in Call
    BY <1>1
  <1> DEFINE Same(call) ==
        /\ call.op = calls[c].op /\ call.index = calls[c].index
        /\ call.who = calls[c].who /\ call.seller = calls[c].seller
        /\ call.price = calls[c].price
  <1>4. calls'[c] = Idle \/ Same(calls'[c])
    <2>1. \A res \in {"ok", "err"} :
            \/ AfterSettle(calls[c], res) = Idle
            \/ Same(AfterSettle(calls[c], res))
      BY <1>3 DEF AfterSettle, Call
    <2>2. CASE CanSettle(c)
      BY <2>2, <1>1, <1>3 DEF CanSettle, Goto, Call
    <2>3. CASE CanSettleResume(c)
      BY <2>3, <1>1, <1>3 DEF CanSettleResume, Goto, Call
    <2>4. CASE SettleBegin(c)
      <3>1. CASE ~calls[c].own \/ pendingTransactions[calls[c].index] = None
        BY <2>1, <2>4, <3>1, <1>1 DEF SettleBegin, Goto
      <3>2. CASE calls[c].own /\ pendingTransactions[calls[c].index] # None
        BY <2>4, <3>2, <1>1, <1>3 DEF SettleBegin, Goto, Call
      <3> QED
        BY <3>1, <3>2
    <2>5. CASE BalanceReply(c)
      BY <2>5, <1>1, <1>3 DEF BalanceReply, Goto, Call
    <2>6. CASE SettleCommit(c)
      BY <2>6, <1>1, <1>3 DEF SettleCommit, Goto, Call
    <2>7. CASE SettleShort(c) \/ CapReply(c)
      BY <2>1, <2>7, <1>1 DEF SettleShort, CapReply, Goto
    <2>8. CASE BalanceReject(c) \/ SettleTrap(c) \/ CapReject(c) \/ Refuse(c)
      BY <2>8, <1>1 DEF BalanceReject, SettleTrap, CapReject, Refuse, Goto
    <2> QED
      BY <2>2, <2>3, <2>4, <2>5, <2>6, <2>7, <2>8
  <1>5. CallAsked(calls'[c])
    BY <1>2, <1>4, IdleAsked, SameAsked
  <1>6. Goto(c, calls'[c])
    BY <1>1
    DEF CanSettle, CanSettleResume, SettleBegin, BalanceReply, BalanceReject,
        SettleShort, SettleTrap, SettleCommit, CapReply, CapReject, Refuse, Goto
  <1>7. UNCHANGED offers
    BY DEF CanSettle, CanSettleResume, SettleBegin, BalanceReply, BalanceReject,
        SettleShort, SettleTrap, SettleCommit, CapReply, CapReject, Refuse,
        market, history
  <1>8. \A i \in Tokens : listings'[i] # None => listings'[i] = listings[i]
    BY <1>1
    DEF CanSettle, CanSettleResume, SettleBegin, BalanceReply, BalanceReject,
        SettleShort, SettleTrap, SettleCommit, CapReply, CapReject, Refuse,
        market
  <1>9. \A i \in Tokens : listings'[i] # None =>
          OfferOf(i, listings'[i].seller, listings'[i].price) \in offers
    BY <1>8 DEF RInv, AskedFor
  <1> QED
    BY <1>2, <1>5, <1>6, <1>7, <1>9, MoveAsked

\* list asks for the price it will write.
LEMMA ListAsked ==
  ASSUME RInv, NEW c \in Calls, NEW i \in Tokens, NEW a \in Accounts,
         NEW p \in Prices \cup {None}, NEW own \in BOOLEAN,
         List(c, i, a, p, own)
  PROVE  AskedFor'
  <1> DEFINE call == [Idle EXCEPT !.pc = "canSettle", !.op = "list",
                                  !.index = i, !.own = own, !.who = a,
                                  !.price = p]
  <1>1. calls \in [Calls -> Call] /\ calls' = [calls EXCEPT ![c] = call]
    BY DEF List, Goto, RInv, Inv, TypeOK
  <1>2. /\ call.op = "list" /\ call.index = i /\ call.who = a
        /\ call.price = p
    BY DEF Idle
  <1>3. p # None => OfferOf(i, a, p) \in offers'
    BY DEF List, OfferOf
  <1>4. offers \subseteq offers' /\ listings' = listings
    BY DEF List
  <1> HIDE DEF call
  <1>5. CallAsked(calls[c])'
    BY <1>1, <1>2, <1>3 DEF CallAsked
  <1>6. ASSUME NEW d \in Calls \ {c}
        PROVE  CallAsked(calls[d])'
    BY <1>1, <1>4 DEF RInv, AskedFor, CallAsked
  <1> QED
    BY <1>4, <1>5, <1>6 DEF RInv, AskedFor

\* list writes what it has asked for.
LEMMA ListResumeAsked ==
  ASSUME RInv, NEW c \in Calls, ListResume(c)
  PROVE  AskedFor'
  <1> DEFINE listing == [seller |-> calls[c].who, price |-> calls[c].price,
                         locked |-> 0]
             i == calls[c].index
  <1>1. listings \in [Tokens -> Listing \cup {None}] /\ i \in Tokens
    BY CallFacts, MarketAssumption
    DEF ListResume, RInv, Inv, TypeOK, WellFormed
  <1>2. UNCHANGED offers /\ Goto(c, Idle)
    BY DEF ListResume, history
  <1>3. listings' = [listings EXCEPT ![i] =
                       IF calls[c].price = None THEN None ELSE listing]
    BY DEF ListResume
  <1>4. calls[c].price # None =>
          OfferOf(i, listing.seller, listing.price) \in offers
    BY DEF ListResume, RInv, AskedFor, CallAsked
  <1> HIDE DEF listing, i
  <1>5. \A j \in Tokens : listings'[j] # None =>
          OfferOf(j, listings'[j].seller, listings'[j].price) \in offers
    BY <1>1, <1>3, <1>4 DEF RInv, AskedFor
  <1> QED
    BY <1>2, <1>5, IdleAsked, MoveAsked

\* lock reads a listing that was asked for, and only writes the lock to it.
LEMMA LockAsked ==
  ASSUME RInv, NEW c \in Calls, NEW i \in Tokens, NEW buyer \in Accounts,
         Lock(c, i, buyer)
  PROVE  AskedFor'
  <1> DEFINE call == [Idle EXCEPT !.pc = "canSettle", !.op = "lock",
                        !.index = i, !.who = buyer,
                        !.seller = listings[i].seller,
                        !.price = listings[i].price,
                        !.sub = nextSubAccount + 1]
  <1>1. /\ listings \in [Tokens -> Listing \cup {None}]
        /\ listings[i] \in Listing
        /\ UNCHANGED offers /\ Goto(c, call)
        /\ listings' = [listings EXCEPT ![i].locked = nextSubAccount + 1]
    BY DEF Lock, RInv, Inv, TypeOK, history
  <1>2. call \in Call
    BY <1>1, IdleOK DEF Lock, Idle, Call, Listing
  <1>3. /\ call.op = "lock" /\ call.index = i
        /\ call.seller = listings[i].seller /\ call.price = listings[i].price
    BY DEF Idle
  <1> HIDE DEF call
  <1>4. OfferOf(i, listings[i].seller, listings[i].price) \in offers
    BY <1>1, MarketAssumption DEF RInv, AskedFor, Lock
  <1>5. CallAsked(call)
    BY <1>3, <1>4 DEF CallAsked
  <1>6. \A j \in Tokens : listings'[j] # None =>
          OfferOf(j, listings'[j].seller, listings'[j].price) \in offers
    <2>1. /\ listings'[i].seller = listings[i].seller
          /\ listings'[i].price = listings[i].price
      BY <1>1 DEF Listing
    <2>2. \A j \in Tokens \ {i} : listings'[j] = listings[j]
      BY <1>1
    <2> QED
      BY <1>4, <2>1, <2>2 DEF RInv, AskedFor
  <1> QED
    BY <1>1, <1>2, <1>5, <1>6, MoveAsked

\* The heartbeat's settles ask for nothing.
LEMMA CronSettlementsAsked ==
  ASSUME RInv, CronSettlements
  PROVE  AskedFor'
  <1>1. UNCHANGED <<offers, listings>>
    BY DEF CronSettlements, market, history
  <1>2. ASSUME NEW c \in Calls
        PROVE  calls'[c] = calls[c] \/ calls'[c].op = "settle"
    <2>1. PICK slot \in [Due -> {d \in Calls : calls[d].pc = "idle"}] :
            calls' = [d \in Calls |->
              IF \E i \in Due : slot[i] = d
              THEN [Idle EXCEPT !.pc = "settle", !.op = "settle",
                                !.index = CHOOSE i \in Due : slot[i] = d]
              ELSE calls[d]]
      BY DEF CronSettlements
    <2> QED
      BY <2>1 DEF Idle
  <1>3. \A c \in Calls : CallAsked(calls[c])'
    BY <1>1, <1>2 DEF RInv, AskedFor, CallAsked
  <1> QED
    BY <1>1, <1>3 DEF RInv, AskedFor

\* Every step keeps AskedFor.
LEMMA NextAsked == RInv /\ [Next]_vars => AskedFor'
  <1> SUFFICES ASSUME RInv, [Next]_vars
               PROVE  AskedFor'
    OBVIOUS
  <1>1. ASSUME NEW c \in Calls, Step(c) \/ BalanceReply(c) \/ BalanceReject(c)
        PROVE  AskedFor'
    <2>1. CASE LockResume(c)
      BY <2>1, IdleAsked, MoveAsked DEF LockResume, RInv, AskedFor
    <2> QED
      BY <1>1, <2>1, StepAsked, ListResumeAsked DEF Step
  <1>2. ASSUME NEW c \in Calls, NEW i \in Tokens, Settle(c, i)
        PROVE  AskedFor'
    <2> DEFINE call == [Idle EXCEPT !.pc = "balance", !.op = "settle",
                          !.index = i, !.tx = pendingTransactions[i]]
    <2>1. call.op = "settle" /\ Goto(c, call)
      BY <1>2 DEF Settle, Idle
    <2>2. calls' = [calls EXCEPT ![c] = call]
      BY <2>1 DEF Goto
    <2>3. call \in Call
      BY <1>2, IdleOK, PendingFacts DEF Settle, RInv, Idle, Call
    <2>4. UNCHANGED <<offers, listings>>
      BY <1>2 DEF Settle, market, history
    <2> HIDE DEF call
    <2> QED
      BY <2>1, <2>3, <2>4, SettleAsked, MoveAsked DEF RInv, AskedFor
  <1>3. ASSUME NEW c \in Calls, NEW i \in Tokens, NEW a \in Accounts,
               \/ Lock(c, i, a)
               \/ \E p \in Prices \cup {None}, own \in BOOLEAN :
                      List(c, i, a, p, own)
        PROVE  AskedFor'
    BY <1>3, LockAsked, ListAsked
  <1>4. CASE CronSettlements
    BY <1>4, CronSettlementsAsked
  <1>5. ASSUME UNCHANGED <<offers, calls>>,
               \A i \in Tokens :
                 listings'[i] # None => listings'[i] = listings[i]
        PROVE  AskedFor'
    BY <1>5 DEF RInv, AskedFor, CallAsked
  <1>6. ASSUME NEW i \in Tokens, DeleteListing(i)
        PROVE  AskedFor'
    BY <1>5, <1>6 DEF DeleteListing, history, RInv, Inv, TypeOK
  <1>7. CASE \/ \E s \in Locks, amount \in Payments : Pay(s, amount)
             \/ \E i \in Tokens, a, to \in Accounts : Transfer(i, a, to)
             \/ Lapse \/ Upgrade \/ UNCHANGED vars
    <2>1. UNCHANGED <<offers, calls, listings>>
      BY <1>7 DEF Pay, Transfer, Lapse, Upgrade, vars, market, history
    <2> QED
      BY <1>5, <2>1
  <1> QED
    BY <1>1, <1>2, <1>3, <1>4, <1>6, <1>7 DEF Next

\* RInv holds in every reachable state.
LEMMA RInvariance == Spec => []RInv
  <1>1. Init => RInv
    <2> SUFFICES ASSUME Init
                 PROVE  AskedFor
      BY InitInv DEF RInv
    <2>1. listings = [i \in Tokens |-> None] /\ calls = [c \in Calls |-> Idle]
      BY DEF Init
    <2> QED
      BY <2>1, IdleAsked DEF AskedFor
  <1>2. RInv /\ [Next]_vars => RInv'
    BY NextInv, NextAsked DEF RInv
  <1> QED
    BY <1>1, <1>2, PTL DEF Spec

-----------------------------------------------------------------------------
\* The refinement.

\* What NftSale says of the market.
saleVars == <<owner, offers, orders, deposited, sold>>

\* A fresh deployment is an initial state of NftSale.
LEMMA SaleInit == Init => Sale!Init
  BY DEF Init, Sale!Init

\* A list begins: the owner asks a price, or delists and asks nothing.
LEMMA ListIsAsk ==
  ASSUME NEW c \in Calls, NEW i \in Tokens, NEW a \in Accounts,
         NEW p \in Prices \cup {None}, NEW own \in BOOLEAN,
         List(c, i, a, p, own)
  PROVE  Sale!Next \/ UNCHANGED saleVars
  <1>1. CASE p = None
    BY <1>1 DEF List, saleVars
  <1>2. CASE p # None
    <2>1. p \in Prices /\ Sale!Ask(i, p)
      BY <1>2 DEF List, Sale!Ask
    <2> QED
      BY <2>1 DEF Sale!Next
  <1> QED
    BY <1>1, <1>2

\* A lock ends: the buyer gets an address no order has, for an offer that was
\* made.
LEMMA LockResumeIsReserve ==
  ASSUME RInv, NEW c \in Calls, LockResume(c)
  PROVE  Sale!Next
  <1> DEFINE call == calls[c]
             offer == OfferOf(call.index, call.seller, call.price)
  <1>1. call.op = "lock" /\ call.sub \in Locks /\ call.who \in Accounts
    BY CallFacts DEF LockResume, RInv, WellFormed
  <1>2. offer \in offers
    BY <1>1 DEF RInv, AskedFor, CallAsked
  <1>3. orders[call.sub] = None
    BY <1>1 DEF RInv, Inv, UniquePaymentAddress
  <1>4. orders' = [orders EXCEPT ![call.sub] =
                     [token |-> call.index, seller |-> call.seller,
                      to |-> call.who, price |-> call.price]]
    BY DEF LockResume
  <1>5. UNCHANGED <<owner, offers, deposited, sold>>
    BY DEF LockResume
  <1>6. Sale!Reserve(call.sub, offer, call.who)
    BY <1>3, <1>4, <1>5 DEF Sale!Reserve, OfferOf
  <1> QED
    BY <1>1, <1>2, <1>6 DEF Sale!Next

\* A settle commits: its order was paid, and the seller owns the token.
LEMMA SettleCommitIsSell ==
  ASSUME RInv, NEW c \in Calls, SettleCommit(c)
  PROVE  Sale!Next
  <1> DEFINE call == calls[c]
             tx == calls[c].tx
  <1>1. /\ tx \in Transaction /\ call \in Call
        /\ tx.token = call.index
        /\ orders[tx.sub] = OrderOf(tx)
        /\ call.funds <= deposited[tx.sub]
    BY CallFacts, MarketAssumption DEF SettleCommit, RInv, WellFormed
  <1>2. /\ call.funds >= tx.price
        /\ owner[call.index] = tx.seller
        /\ owner' = [owner EXCEPT ![call.index] = tx.to]
        /\ sold' = [sold EXCEPT ![tx.sub] = @ + 1]
        /\ UNCHANGED <<offers, orders, deposited>>
    BY DEF SettleCommit, IsPaid, SettleTraps
  <1>3. tx.sub \in Locks /\ tx.price \in Nat /\ call.funds \in Nat
    BY <1>1, MarketAssumption DEF Transaction, Call
  <1>4. deposited[tx.sub] \in Nat
    BY <1>3 DEF RInv, Inv, TypeOK
  <1>5. /\ orders[tx.sub] # None
        /\ orders[tx.sub].token = call.index
        /\ orders[tx.sub].seller = tx.seller
        /\ orders[tx.sub].to = tx.to
        /\ orders[tx.sub].price = tx.price
    <2>1. OrderOf(tx) \in Order
      BY <1>1 DEF OrderOf, Order, Transaction
    <2>2. OrderOf(tx) # None
      BY <2>1, MarketAssumption
    <2> QED
      BY <1>1, <2>2 DEF OrderOf
  <1>6. deposited[tx.sub] >= tx.price
    BY <1>1, <1>2, <1>3, <1>4
  <1> HIDE DEF call, tx
  <1>7. Sale!Sell(tx.sub)
    BY <1>2, <1>5, <1>6 DEF Sale!Sell
  <1> QED
    BY <1>3, <1>7 DEF Sale!Next

\* A buyer pays.
LEMMA PayIsDeposit ==
  ASSUME RInv, NEW s \in Locks, NEW amount \in Payments, Pay(s, amount)
  PROVE  Sale!Next
  <1>1. /\ deposited \in [Locks -> Nat] /\ deposited[s] \in Nat
        /\ amount \in Nat
    BY MarketAssumption DEF RInv, Inv, TypeOK
  <1>2. deposited' = [deposited EXCEPT ![s] = deposited[s] + amount]
    BY DEF Pay
  <1>3. deposited'[s] = deposited[s] + amount
    BY <1>1, <1>2
  <1>4. /\ deposited'[s] \in Nat /\ deposited'[s] >= deposited[s]
        /\ deposited' = [deposited EXCEPT ![s] = deposited'[s]]
    BY <1>1, <1>2, <1>3
  <1>5. Sale!Deposit(s)
    BY <1>4 DEF Pay, Sale!Deposit
  <1> QED
    BY <1>5 DEF Sale!Next

\* Every step of the market is a step of NftSale or leaves its state alone.
LEMMA SaleNext == RInv /\ [Next]_vars => Sale!Next \/ UNCHANGED saleVars
  <1> SUFFICES ASSUME RInv, [Next]_vars
               PROVE  Sale!Next \/ UNCHANGED saleVars
    OBVIOUS
  <1>1. ASSUME NEW c \in Calls, Step(c) \/ BalanceReply(c) \/ BalanceReject(c)
        PROVE  Sale!Next \/ UNCHANGED saleVars
    <2>1. CASE LockResume(c) \/ SettleCommit(c)
      BY <2>1, LockResumeIsReserve, SettleCommitIsSell
    <2>2. CASE ~(LockResume(c) \/ SettleCommit(c))
      BY <1>1, <2>2
      DEF Step, CanSettle, CanSettleResume, SettleBegin, SettleShort,
          SettleTrap, CapReply, CapReject, ListResume, Refuse, BalanceReply,
          BalanceReject, market, history, saleVars
    <2> QED
      BY <2>1, <2>2
  <1>2. ASSUME NEW c \in Calls, NEW i \in Tokens,
               \/ Settle(c, i)
               \/ \E a \in Accounts :
                    \/ Lock(c, i, a)
                    \/ \E p \in Prices \cup {None}, own \in BOOLEAN :
                      List(c, i, a, p, own)
        PROVE  Sale!Next \/ UNCHANGED saleVars
    BY <1>2, ListIsAsk DEF Settle, Lock, market, history, saleVars
  <1>3. ASSUME NEW s \in Locks, NEW amount \in Payments, Pay(s, amount)
        PROVE  Sale!Next
    BY <1>3, PayIsDeposit
  <1>4. ASSUME NEW i \in Tokens, NEW a \in Accounts, NEW to \in Accounts,
               Transfer(i, a, to)
        PROVE  Sale!Next
    <2>1. Sale!Give(i, to)
      BY <1>4 DEF Transfer, Sale!Give, history
    <2> QED
      BY <2>1 DEF Sale!Next
  <1>5. CASE \/ CronSettlements \/ Lapse \/ Upgrade \/ UNCHANGED vars
             \/ \E i \in Tokens : DeleteListing(i)
    BY <1>5 DEF CronSettlements, Lapse, Upgrade, DeleteListing, vars, market,
                history, saleVars
  <1> QED
    BY <1>1, <1>2, <1>3, <1>4, <1>5 DEF Next

\* The marketplace implements NftSale: whatever calls overlap, fail or are cut
\* off by upgrades, orders come from offers, addresses are given out once, and
\* a token is sold only for an order that was paid, by the owner it names.
THEOREM Refinement == Spec => SaleSpec
  <1>1. RInv /\ [Next]_vars => [Sale!Next]_(Sale!vars)
    BY SaleNext DEF saleVars, Sale!vars
  <1> QED
    BY <1>1, SaleInit, RInvariance, PTL DEF Spec, SaleSpec, Sale!Spec
=============================================================================
