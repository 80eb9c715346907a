-------------------------- MODULE EntrepotOrderly --------------------------
(***************************************************************************)
(* What the marketplace keeps when calls do not get in each other's way.   *)
(* The code checks the state before an `await` and acts on it afterwards,  *)
(* so these properties need an order of messages that it does not enforce. *)
(* Each part of Orderly names one such order; MCEntrepotOrderly leaves     *)
(* some of them out and shows what is lost.                                *)
(***************************************************************************)
EXTENDS Entrepot, Functions

\* A call of function op on token i begins with this step.
Begins(c, op, i) ==
  /\ calls[c].op = None
  /\ calls'[c].op = op /\ calls'[c].index = i

Busy(i, ops) == \E c \in Calls : calls[c].op \in ops /\ calls[c].index = i

\* While its owner lists a token no other call runs on it, ...
ListAlone ==
  \A c \in Calls, i \in Tokens :
    /\ Begins(c, "list", i) => ~Busy(i, {"list", "lock", "settle"})
    /\ Begins(c, "lock", i) \/ Begins(c, "settle", i) => ~Busy(i, {"list"})

\* ... and no other lock or settle while a buyer locks it.
LockAlone ==
  \A c \in Calls, i \in Tokens :
    /\ Begins(c, "lock", i) => ~Busy(i, {"lock", "settle"})
    /\ Begins(c, "settle", i) => ~Busy(i, {"lock"})

\* A token changes hands outside the market only while no call runs on it, and
\* nobody buys his own.
TransferAlone ==
  /\ \A i \in Tokens :
       owner'[i] # owner[i] /\ UNCHANGED calls =>
         ~Busy(i, {"list", "lock", "settle"})
  /\ \A c \in Calls : calls'[c].op = "lock" => calls'[c].who # calls'[c].seller

\* The calls are quick: no deadline passes while the lock that set it is still
\* on its way, or while a settle has an answer of the ledger to look at.
Prompt ==
  lapsed' # lapsed =>
    \A c \in Calls : calls[c].sub # lapsed' /\ calls[c].pc # "funds"

\* No admin removes a listing.
HandsOff == listings' # listings => calls' # calls

Orderly == ListAlone /\ LockAlone /\ TransferAlone /\ Prompt /\ HandsOff

OrderlySpec == Init /\ [][Next /\ Orderly]_vars

\* Fairness: the canister takes its messages, the heartbeat goes on starting
\* settles, and the ledger and Cap, asked over and over, answer in the end.
\* (Strong for the heartbeat, since the slots of Calls may all be busy now and
\* then; the canister has no such slots.)
Fairness ==
  /\ \A c \in Calls : WF_vars(Step(c)) /\ SF_vars(BalanceReply(c))
  /\ SF_vars(CronSettlements)

-----------------------------------------------------------------------------
\* Properties.

\* A buyer who pays in full before the deadline of the lock is not forgotten:
\* the order is carried out or still pending ("Execute a lock on an NFT so
\* that we can safely conduct a transaction").
InTimePaymentIsKept ==
  \A s \in inTime :
    \/ sold[s] > 0
    \/ \E i \in Tokens : /\ pendingTransactions[i] # None
                         /\ pendingTransactions[i].sub = s

\* No payment address is settled twice ("these payment addresses can never be
\* used again").
SoldOnce == \A s \in Locks : sold[s] <= 1

\* The account that listed a token, and the seller of its pending order, own it
\* ("Verify token owner"), so that the transfer at the end of a sale cannot
\* trap: but for an order past its deadline that a list with an identifier of
\* another canister went past, which takes nothing for granted.
SellerOwns ==
  \A i \in Tokens :
    LET tx == pendingTransactions[i] IN
    /\ listings[i] # None => listings[i].seller = owner[i]
    /\ tx # None =>
         tx.seller = owner[i] \/ (tx.sub \in passed /\ tx.sub <= lapsed)

\* The disbursements queued for a payment address and their ledger fees never
\* exceed what was paid to it.
FullyCovered ==
  \A s \in Locks :
    SumFunction([k \in DOMAIN pendingDisbursements |->
                   IF pendingDisbursements[k].sub = s
                   THEN pendingDisbursements[k].amount + 10000 ELSE 0])
      <= balance[s]

\* Every order carried out has its finalized transaction ("Finalized
\* transactions", kept under an "incrementing transaction id").
SalesAreRecorded ==
  \A s \in Locks : sold[s] > 0 => \E tx \in transactions : tx.sub = s

\* No list goes past an order that was paid in time ("Ensure there isn't a
\* pending transaction which can be settled", lib.mo 534): it settles it first.
ListsSettleFirst == passed \cap inTime = {}

\* An order whose price covers the ledger's fees and is paid in time is carried
\* out in the end, whether or not the buyer ever calls settle; unless a list
\* goes past it and the seller gives the token away.  (One with a lower price
\* may trap on every settle.)
PaidIsSold ==
  \A s \in Locks :
    (s \in inTime /\ orders[s].price >= LedgerFees)
      ~> \/ sold[s] > 0
         \/ s \in passed /\ owner[orders[s].token] # orders[s].seller
=============================================================================
