------------------------------ MODULE Entrepot ------------------------------
(***************************************************************************)
(* The marketplace of the NFT canister: src/Entrepot/lib.mo, with the      *)
(* parts of Tokens, Ext and main it calls or is called by.                 *)
(*                                                                         *)
(* A canister runs one message at a time; an update call is cut into       *)
(* messages at each `await`, and other calls run in between.  Every action *)
(* below is one such message, from one `await` to the next.  A message     *)
(* that traps changes nothing, but what earlier messages of the same call  *)
(* did stays.  `await settle(...)` and `await _canSettle(...)` are calls   *)
(* of the canister to itself, so they too start with a message of their    *)
(* own.                                                                    *)
(*                                                                         *)
(* A principal and its subaccount are one account.  A lock, the payment    *)
(* subaccount reserved for it and the deadline it writes to the listing    *)
(* are identified by one number, the value nextSubAccount takes: numbers   *)
(* and deadlines grow together.                                            *)
(***************************************************************************)
EXTENDS Integers, Sequences

CONSTANTS
  Tokens,     \* token indices of the collection
  Accounts,   \* account identifiers of sellers and buyers
  Prices,     \* prices a seller may ask, in e8s
  Payments,   \* amounts a buyer may send in one ledger transfer, in e8s
  Calls,      \* slots for the marketplace calls in flight (a bound)
  MaxLocks,   \* bound: how many payment subaccounts are handed out
  MaxPaid,    \* bound: how much one payment subaccount receives
  None        \* Motoko's null

VARIABLES
  owner,                \* Tokens.ledger: the owner of each minted token
  listings,             \* token index -> listing or None
  pendingTransactions,  \* token index -> unfinalized transaction or None
  transactions,         \* finalized transactions, at most one per id
  nextTxId,
  nextSubAccount,       \* the last payment subaccount handed out
  totalVolume, lowestPriceSale, highestPriceSale,
  pendingDisbursements, \* the queue of ledger transfers still to make
  balance,              \* what the ledger holds on each payment subaccount
  calls,                \* the state of each call between its messages
  lapsed,               \* locks 1 .. lapsed are past their deadline
  \* History, which the code does not keep:
  offers,               \* what owners have asked for their tokens
  orders,               \* order of each payment address given to a buyer
  deposited,            \* what was ever paid to each payment address
  inTime,               \* orders paid in full before their deadline
  sold,                 \* how often each order was settled
  passed                \* orders a list went past that did not ask to settle

stats == <<totalVolume, lowestPriceSale, highestPriceSale>>
history == <<offers, orders, deposited, inTime, sold, passed>>
\* Everything but the calls: what a message changes when it does more than
\* move its call forward.
market == <<owner, listings, pendingTransactions, transactions, nextTxId,
            nextSubAccount, stats, pendingDisbursements, balance, lapsed,
            history>>
vars == <<calls, market>>

-----------------------------------------------------------------------------
\* Types.

Locks == 1 .. MaxLocks

Listing == [seller : Accounts, price : Prices, locked : 0 .. MaxLocks]

Transaction == [id : Nat, token : Tokens, seller : Accounts, to : Accounts,
                price : Prices, sub : Locks]

Disbursement == [token : Tokens, to : Accounts \cup {"royalty", "entrepot"},
                 sub : Locks, amount : Nat]

Order == [token : Tokens, seller : Accounts, to : Accounts, price : Prices]

Offer == [token : Tokens, seller : Accounts, price : Prices]

ASSUME MarketAssumption ==
  /\ Prices \subseteq Nat /\ Payments \subseteq Nat
  /\ MaxLocks \in Nat /\ MaxPaid \in Nat
  /\ None \notin Tokens \cup Accounts \cup Prices \cup Locks
  /\ None \notin Listing \cup Transaction \cup Order
  /\ None \notin {"list", "lock", "settle"}

\* A call in flight: what it will do next (pc), which function it is, its
\* arguments and local variables.
Call == [pc : {"idle", "canSettle", "settle", "balance", "funds", "cap",
               "settled", "resume"},
         op : {"list", "lock", "settle", None},
         index : Tokens \cup {None},
         own : BOOLEAN,     \* does its token identifier name this canister?
         who : Accounts \cup {None},        \* list: the caller; lock: the buyer
         seller : Accounts \cup {None},     \* lock: listing.seller
         price : Prices \cup {None},
         sub : Locks \cup {None},
         tx : Transaction \cup {None},      \* settle: the transaction it read
         funds : Nat,                       \* settle: the balance it was told
         res : {"ok", "err", None}]

Idle == [pc |-> "idle", op |-> None, index |-> None, own |-> TRUE,
         who |-> None, seller |-> None, price |-> None, sub |-> None,
         tx |-> None, funds |-> 0, res |-> None]

-----------------------------------------------------------------------------
\* Helpers of the code.

\* A listing is locked while the deadline of its lock has not passed; number 0
\* stands for a listing that no lock has touched.
IsLocked(i) == listings[i] # None /\ listings[i].locked > lapsed

\* Mutant: one ledger fee for three transfers.
LedgerFees_One == 10000

\* The ledger's fee for the transfers to the two fee accounts and the seller.
LedgerFees == 10000 * (1 + 2)

\* Mutant: the fees are read as per mille.
Cut_PerMille(funds, pct) == (funds * pct) \div 1000

RoyaltyFee == 2000
EntrepotFee == 1000
Cut(funds, pct) == (funds * pct) \div 100000

\* Mutant: the seller is sent all that is left after one fee.
Proceeds_Sweep(tx, funds) ==
  LET job(to, amount) ==
        [token |-> tx.token, to |-> to, sub |-> tx.sub, amount |-> amount]
  IN  << job(tx.seller, funds + LedgerFees - 10000),
         job("entrepot", Cut(funds, EntrepotFee)),
         job("royalty", Cut(funds, RoyaltyFee)) >>

\* The disbursements of a settlement, the last one pushed first: the seller
\* receives what the two fees leave.
Proceeds(tx, funds) ==
  LET job(to, amount) ==
        [token |-> tx.token, to |-> to, sub |-> tx.sub, amount |-> amount]
      royalty == Cut(funds, RoyaltyFee)
      entrepot == Cut(funds, EntrepotFee)
  IN  << job(tx.seller, funds - royalty - entrepot),
         job("entrepot", entrepot),
         job("royalty", royalty) >>

\* What becomes of a call when its `settle` returns res: list and lock go on
\* in _canSettle, a settle of its own ends.
AfterSettle(call, res) ==
  IF call.op = "settle" THEN Idle
  ELSE [call EXCEPT !.pc = "settled", !.tx = None, !.funds = 0, !.res = res]

-----------------------------------------------------------------------------
\* A fresh deployment after the mint: every token has an owner, nothing is
\* listed, the stable counters of main.mo have their first values.

Init ==
  /\ owner \in [Tokens -> Accounts]
  /\ listings = [i \in Tokens |-> None]
  /\ pendingTransactions = [i \in Tokens |-> None]
  /\ transactions = {}
  /\ nextTxId = 0
  /\ nextSubAccount = 0
  /\ totalVolume = 0 /\ lowestPriceSale = 0 /\ highestPriceSale = 0
  /\ pendingDisbursements = << >>
  /\ balance = [s \in Locks |-> 0]
  /\ calls = [c \in Calls |-> Idle]
  /\ lapsed = 0
  /\ offers = {}
  /\ orders = [s \in Locks |-> None]
  /\ deposited = [s \in Locks |-> 0]
  /\ inTime = {}
  /\ sold = [s \in Locks |-> 0]
  /\ passed = {}

\* Call c reaches its next message.
Goto(c, call) == calls' = [calls EXCEPT ![c] = call]

-----------------------------------------------------------------------------
\* list: put a token up for sale, reprice it, or (price None) delist it.

\* The first message of list checks owner and lock, then awaits _canSettle.  Of
\* the token identifier it reads the index only: own says whether it names this
\* canister.  (lock and settle at once return an error for one that does not.)
List(c, i, a, p, own) ==
  /\ calls[c].pc = "idle"
  /\ owner[i] = a
  /\ ~IsLocked(i)
  /\ Goto(c, [Idle EXCEPT !.pc = "canSettle", !.op = "list", !.index = i,
                          !.own = own, !.who = a, !.price = p])
  /\ offers' = IF p = None THEN offers
               ELSE offers \cup {[token |-> i, seller |-> a, price |-> p]}
  /\ UNCHANGED <<owner, listings, pendingTransactions, transactions, nextTxId,
                 nextSubAccount, stats, pendingDisbursements, balance, lapsed,
                 orders, deposited, inTime, sold, passed>>

\* The message after _canSettle answered #ok: nothing is checked again.  A list
\* that could not settle may go past an order that is still pending.
ListResume(c) ==
  LET call == calls[c]
      tx == pendingTransactions[call.index] IN
  /\ call.pc = "resume" /\ call.op = "list" /\ call.res = "ok"
  /\ listings' = [listings EXCEPT ![call.index] =
                    IF call.price = None THEN None
                    ELSE [seller |-> call.who, price |-> call.price,
                          locked |-> 0]]
  /\ passed' = IF call.own \/ tx = None THEN passed
               ELSE passed \cup {tx.sub}
  /\ Goto(c, Idle)
  /\ UNCHANGED <<owner, pendingTransactions, transactions, nextTxId,
                 nextSubAccount, stats, pendingDisbursements, balance, lapsed,
                 offers, orders, deposited, inTime, sold>>

-----------------------------------------------------------------------------
\* lock: reserve a listed token for a buyer, who is told where to pay.

\* The first message: the next payment subaccount, the lock written to the
\* listing, then await _canSettle.  The price argument has to equal the
\* listing's, so it is not a variable of its own.
Lock(c, i, buyer) ==
  LET listing == listings[i]
      sub == nextSubAccount + 1 IN
  /\ calls[c].pc = "idle"
  /\ ~IsLocked(i)
  /\ listing # None
  /\ sub \in Locks
  /\ nextSubAccount' = sub
  /\ listings' = [listings EXCEPT ![i].locked = sub]
  /\ Goto(c, [Idle EXCEPT !.pc = "canSettle", !.op = "lock", !.index = i,
                          !.who = buyer, !.seller = listing.seller,
                          !.price = listing.price, !.sub = sub])
  /\ UNCHANGED <<owner, pendingTransactions, transactions, nextTxId, stats,
                 pendingDisbursements, balance, lapsed, history>>

\* The message after _canSettle answered #ok: the pending transaction of the
\* token is put, whatever was there, and the buyer gets the payment address.
LockResume(c) ==
  LET call == calls[c]
      tx == [id |-> nextTxId, token |-> call.index, seller |-> call.seller,
             to |-> call.who, price |-> call.price, sub |-> call.sub] IN
  /\ call.pc = "resume" /\ call.op = "lock" /\ call.res = "ok"
  /\ pendingTransactions' = [pendingTransactions EXCEPT ![call.index] = tx]
  /\ nextTxId' = nextTxId + 1
  /\ orders' = [orders EXCEPT ![call.sub] =
                  [token |-> tx.token, seller |-> tx.seller, to |-> tx.to,
                   price |-> tx.price]]
  /\ Goto(c, Idle)
  /\ UNCHANGED <<owner, listings, transactions, nextSubAccount, stats,
                 pendingDisbursements, balance, lapsed, offers, deposited,
                 inTime, sold, passed>>

\* The message after _canSettle answered #err: list and lock return the error,
\* and the lock stays on the listing.
Refuse(c) ==
  /\ calls[c].pc = "resume" /\ calls[c].res = "err"
  /\ Goto(c, Idle)
  /\ UNCHANGED market

-----------------------------------------------------------------------------
\* _canSettle: settle what can be settled before list or lock goes on.

CanSettle(c) ==
  LET call == calls[c] IN
  /\ call.pc = "canSettle"
  /\ Goto(c, IF pendingTransactions[call.index] = None
             THEN [call EXCEPT !.pc = "resume", !.res = "ok"]
             ELSE [call EXCEPT !.pc = "settle"])
  /\ UNCHANGED market

\* settle returned: it is an error if it sold the token, or if it did not and
\* the listing is gone.  Any other error, also of an identifier that settle did
\* not accept, is as good as nothing to settle.
CanSettleResume(c) ==
  LET call == calls[c] IN
  /\ call.pc = "settled"
  /\ Goto(c, [call EXCEPT !.pc = "resume",
                !.res = IF call.res = "ok" \/ listings[call.index] = None
                        THEN "err" ELSE "ok"])
  /\ UNCHANGED market

-----------------------------------------------------------------------------
\* settle: check that an order was paid and carry out the sale.

\* Mutant: the heartbeat looks after locked tokens only.
Due_Locked == {i \in Tokens : pendingTransactions[i] # None /\ IsLocked(i)}

\* The tokens the heartbeat has to look after.
Due == {i \in Tokens : pendingTransactions[i] # None}

\* The heartbeat starts one settle for every pending transaction and waits for
\* none of them.
CronSettlements ==
  /\ Due # {}
  /\ \E slot \in [Due -> {c \in Calls : calls[c].pc = "idle"}] :
       /\ \A i, j \in Due : slot[i] = slot[j] => i = j
       /\ calls' = [c \in Calls |->
            IF \E i \in Due : slot[i] = c
            THEN [Idle EXCEPT !.pc = "settle", !.op = "settle",
                              !.index = CHOOSE i \in Due : slot[i] = c]
            ELSE calls[c]]
  /\ UNCHANGED market

\* Anyone may call settle on any token: the first message reads the pending
\* transaction (there is nothing to do without one) and asks the ledger.
Settle(c, i) ==
  /\ calls[c].pc = "idle"
  /\ pendingTransactions[i] # None
  /\ Goto(c, [Idle EXCEPT !.pc = "balance", !.op = "settle", !.index = i,
                          !.tx = pendingTransactions[i]])
  /\ UNCHANGED market

\* The same message of a settle that _canSettle or the heartbeat has called:
\* by now the pending transaction may be another one, or gone.  An identifier
\* that names another canister is refused (_unpackTokenIdentifier), whatever is
\* pending.
SettleBegin(c) ==
  LET call == calls[c]
      tx == pendingTransactions[call.index] IN
  /\ call.pc = "settle"
  /\ Goto(c, IF ~call.own \/ tx = None THEN AfterSettle(call, "err")
             ELSE [call EXCEPT !.pc = "balance", !.tx = tx])
  /\ UNCHANGED market

\* The ledger reads the balance and answers; the answer is a message that
\* settle takes later.
BalanceReply(c) ==
  /\ calls[c].pc = "balance"
  /\ Goto(c, [calls[c] EXCEPT !.pc = "funds",
                              !.funds = balance[calls[c].tx.sub]])
  /\ UNCHANGED market

\* The call to the ledger is rejected: settle throws, and so does whoever
\* awaits it.
BalanceReject(c) ==
  /\ calls[c].pc = "balance"
  /\ Goto(c, Idle)
  /\ UNCHANGED market

\* Mutant: any payment that covers the fees will do.
IsPaid_ForFees(call) == call.funds >= LedgerFees

\* The balance a settle was told covers the price.
IsPaid(call) == call.funds >= call.tx.price

\* Mutant: the pending transaction is dropped although the listing is locked.
SettleShort_Always(c) ==
  /\ calls[c].pc = "funds"
  /\ ~IsPaid(calls[c])
  /\ pendingTransactions' =
       [pendingTransactions EXCEPT ![calls[c].index] = None]
  /\ Goto(c, AfterSettle(calls[c], "err"))
  /\ UNCHANGED <<owner, listings, transactions, nextTxId, nextSubAccount,
                 stats, pendingDisbursements, balance, lapsed, history>>

\* Not paid: once the listing is not locked, the token's pending transaction
\* is dropped, whichever it is by now.
SettleShort(c) ==
  LET call == calls[c] IN
  /\ call.pc = "funds"
  /\ ~IsPaid(call)
  /\ pendingTransactions' =
       IF IsLocked(call.index) THEN pendingTransactions
       ELSE [pendingTransactions EXCEPT ![call.index] = None]
  /\ Goto(c, AfterSettle(call, "err"))
  /\ UNCHANGED <<owner, listings, transactions, nextTxId, nextSubAccount,
                 stats, pendingDisbursements, balance, lapsed, history>>

\* Mutant: Tokens.transfer does not check the owner.
SettleTraps_AnyOwner(call) == call.funds < LedgerFees

\* Paid, but the ledger fees underflow the Nat64, or Tokens.transfer asserts
\* that the seller owns the token: the message traps.
SettleTraps(call) ==
  \/ call.funds < LedgerFees
  \/ owner[call.index] # call.tx.seller

SettleTrap(c) ==
  LET call == calls[c] IN
  /\ call.pc = "funds"
  /\ IsPaid(call)
  /\ SettleTraps(call)
  /\ Goto(c, Idle)
  /\ UNCHANGED market

\* Paid: queue the proceeds, finalize the transaction, count it, hand the
\* token over, drop the listing; then await Cap.insert.
SettleCommit(c) ==
  LET call == calls[c]
      tx == call.tx IN
  /\ call.pc = "funds"
  /\ IsPaid(call)
  /\ ~SettleTraps(call)
  /\ pendingDisbursements' = Proceeds(tx, call.funds - LedgerFees)
                             \o pendingDisbursements
  /\ transactions' = {t \in transactions : t.id # tx.id} \cup {tx}
  /\ pendingTransactions' = [pendingTransactions EXCEPT ![call.index] = None]
  /\ totalVolume' = totalVolume + tx.price
  /\ lowestPriceSale' = IF tx.price < lowestPriceSale THEN tx.price
                        ELSE lowestPriceSale
  /\ highestPriceSale' = IF tx.price > highestPriceSale THEN tx.price
                         ELSE highestPriceSale
  /\ owner' = [owner EXCEPT ![call.index] = tx.to]
  /\ listings' = [listings EXCEPT ![call.index] = None]
  /\ sold' = [sold EXCEPT ![tx.sub] = @ + 1]
  /\ Goto(c, [call EXCEPT !.pc = "cap"])
  /\ UNCHANGED <<nextTxId, nextSubAccount, balance, lapsed, offers, orders,
                 deposited, inTime, passed>>

\* Cap stored the sale's event: settle returns #ok.
CapReply(c) ==
  /\ calls[c].pc = "cap"
  /\ Goto(c, AfterSettle(calls[c], "ok"))
  /\ UNCHANGED market

\* The call to Cap is rejected: `ignore` drops a result, not an error, so the
\* whole call throws.
CapReject(c) ==
  /\ calls[c].pc = "cap"
  /\ Goto(c, Idle)
  /\ UNCHANGED market

-----------------------------------------------------------------------------
\* Buyers, owners, admins, time and upgrades.

\* A buyer pays to the address lock returned, in one transfer or several, at
\* any time.
Pay(s, amount) ==
  LET paid == deposited[s] + amount IN
  /\ orders[s] # None
  /\ paid <= MaxPaid
  /\ deposited' = [deposited EXCEPT ![s] = paid]
  /\ balance' = [balance EXCEPT ![s] = @ + amount]
  /\ inTime' = IF paid >= orders[s].price /\ s > lapsed
               THEN inTime \cup {s} ELSE inTime
  /\ UNCHANGED <<owner, listings, pendingTransactions, transactions, nextTxId,
                 nextSubAccount, stats, pendingDisbursements, calls, lapsed,
                 offers, orders, sold, passed>>

\* Mutant: listed tokens can be moved.
Transfer_Listed(i, a, to) ==
  /\ owner[i] = a
  /\ owner' = [owner EXCEPT ![i] = to]
  /\ UNCHANGED <<listings, pendingTransactions, transactions, nextTxId,
                 nextSubAccount, stats, pendingDisbursements, balance, calls,
                 lapsed, history>>

\* EXT transfer: the owner moves a token that is not listed.  (The event it
\* then sends to Cap changes nothing here.)
Transfer(i, a, to) ==
  /\ owner[i] = a
  /\ listings[i] = None
  /\ owner' = [owner EXCEPT ![i] = to]
  /\ UNCHANGED <<listings, pendingTransactions, transactions, nextTxId,
                 nextSubAccount, stats, pendingDisbursements, balance, calls,
                 lapsed, history>>

\* An admin removes a listing, locked or not.
DeleteListing(i) ==
  /\ listings' = [listings EXCEPT ![i] = None]
  /\ UNCHANGED <<owner, pendingTransactions, transactions, nextTxId,
                 nextSubAccount, stats, pendingDisbursements, balance, calls,
                 lapsed, history>>

\* The deadline of the next lock passes: transactionTtl after it was written.
Lapse ==
  /\ lapsed < nextSubAccount
  /\ lapsed' = lapsed + 1
  /\ UNCHANGED <<owner, listings, pendingTransactions, transactions, nextTxId,
                 nextSubAccount, stats, pendingDisbursements, balance, calls,
                 history>>

\* Mutant: nextSubAccount is not stable either.
Upgrade_Forgets ==
  /\ \A c \in Calls : calls[c].pc = "idle"
  /\ nextTxId' = 0 /\ nextSubAccount' = 0
  /\ UNCHANGED <<owner, listings, pendingTransactions, transactions, stats,
                 pendingDisbursements, balance, calls, lapsed, history>>

\* An upgrade waits for the calls in flight, saves the state (toStable) and
\* starts from it (_restore): everything is kept but nextTxId, which begins
\* at 0 again.
Upgrade ==
  /\ \A c \in Calls : calls[c].pc = "idle"
  /\ nextTxId' = 0
  /\ UNCHANGED <<owner, listings, pendingTransactions, transactions,
                 nextSubAccount, stats, pendingDisbursements, balance, calls,
                 lapsed, history>>

-----------------------------------------------------------------------------
\* The messages of one call after its first.
Step(c) ==
  \/ CanSettle(c) \/ CanSettleResume(c)
  \/ SettleBegin(c) \/ SettleShort(c) \/ SettleTrap(c) \/ SettleCommit(c)
  \/ CapReply(c) \/ CapReject(c)
  \/ ListResume(c) \/ LockResume(c) \/ Refuse(c)

Next ==
  \/ \E c \in Calls :
       \/ Step(c) \/ BalanceReply(c) \/ BalanceReject(c)
       \/ \E i \in Tokens :
            \/ Settle(c, i)
            \/ \E a \in Accounts :
                 \/ Lock(c, i, a)
                 \/ \E p \in Prices \cup {None}, own \in BOOLEAN :
                      List(c, i, a, p, own)
  \/ CronSettlements
  \/ \E s \in Locks, amount \in Payments : Pay(s, amount)
  \/ \E i \in Tokens :
       DeleteListing(i) \/ \E a, to \in Accounts : Transfer(i, a, to)
  \/ Lapse
  \/ Upgrade

Spec == Init /\ [][Next]_vars
-----------------------------------------------------------------------------
\* Properties.

\* A call in flight has the arguments and local variables of its function.
WellFormed(call) ==
  /\ call.op = None => call = Idle
  /\ call.op # None => call.pc # "idle" /\ call.index \in Tokens
  /\ call.op # "list" => call.own
  /\ call.op \in {"list", "lock"} => call.who \in Accounts
  /\ call.op = "lock" =>
       call.seller \in Accounts /\ call.price \in Prices /\ call.sub \in Locks
  /\ call.pc \in {"balance", "funds", "cap"} => call.tx \in Transaction
  /\ call.pc \notin {"funds", "cap"} => call.funds = 0

\* Every variable has its type (src/Entrepot/types.mo) and every call in flight
\* the arguments and local variables its function needs.
TypeOK ==
  /\ owner \in [Tokens -> Accounts]
  /\ listings \in [Tokens -> Listing \cup {None}]
  /\ pendingTransactions \in [Tokens -> Transaction \cup {None}]
  /\ transactions \subseteq Transaction
  /\ nextTxId \in Nat
  /\ nextSubAccount \in 0 .. MaxLocks
  /\ totalVolume \in Nat /\ lowestPriceSale \in Nat /\ highestPriceSale \in Nat
  /\ pendingDisbursements \in Seq(Disbursement)
  /\ balance \in [Locks -> Nat]
  /\ calls \in [Calls -> Call]
  /\ \A c \in Calls : WellFormed(calls[c])
  /\ lapsed \in 0 .. MaxLocks
  /\ offers \subseteq Offer
  /\ orders \in [Locks -> Order \cup {None}]
  /\ deposited \in [Locks -> Nat]
  /\ inTime \subseteq Locks
  /\ sold \in [Locks -> Nat]
  /\ passed \subseteq Locks

\* The order a transaction was made for.
OrderOf(tx) == [token |-> tx.token, seller |-> tx.seller, to |-> tx.to,
                price |-> tx.price]

\* A payment subaccount belongs to one order for ever: a lock still in flight
\* holds a number that no other lock in flight and no order has, and every
\* transaction, pending, finalized or read by a settle in flight, is the order
\* its address was handed out for ("a unique address for each transaction").
UniquePaymentAddress ==
  /\ \A c \in Calls : calls[c].op = "lock" =>
       /\ calls[c].sub <= nextSubAccount
       /\ orders[calls[c].sub] = None
       /\ \A d \in Calls \ {c} : calls[d].op = "lock" =>
                                   calls[d].sub # calls[c].sub
  /\ \A s \in Locks : s > nextSubAccount => orders[s] = None
  /\ \A i \in Tokens : pendingTransactions[i] # None =>
       /\ pendingTransactions[i].token = i
       /\ orders[pendingTransactions[i].sub] = OrderOf(pendingTransactions[i])
  /\ \A c \in Calls : calls[c].tx # None =>
       /\ calls[c].tx.token = calls[c].index
       /\ orders[calls[c].tx.sub] = OrderOf(calls[c].tx)
  /\ \A tx \in transactions : orders[tx.sub] = OrderOf(tx)

\* No token is sold for less than its price: what the ledger holds, and what it
\* told a settle in flight, has been deposited, and a finalized transaction was paid in
\* full to its own address.
PaidInFull ==
  /\ \A s \in Locks : balance[s] <= deposited[s]
  /\ \A c \in Calls : calls[c].tx # None =>
                        calls[c].funds <= deposited[calls[c].tx.sub]
  /\ \A tx \in transactions : deposited[tx.sub] >= tx.price

\* The marketplace implements NftSale.
Sale == INSTANCE NftSale
SaleSpec == Sale!Spec
=============================================================================
