------------------------------ MODULE SaleTest ------------------------------
(***************************************************************************)
(* The end-to-end test of the marketplace (src/node): users who each mint  *)
(* a token, list it, lock it for the admin and pay, all at once, against a *)
(* canister whose heartbeat settles and pays out.  The marketplace and the *)
(* disbursement queue run here over one queue and one set of ledger        *)
(* balances; the process of the test then polls the queue and reads the    *)
(* balances of the payment addresses.                                      *)
(*                                                                         *)
(* The helpers of the test ignore most of what they are answered: an error *)
(* of `mint` makes the token NaN, which is encoded as token 0; errors of   *)
(* `list` and of the ledger's transfer are passed over; an error of `lock` *)
(* makes the address undefined, on which `pay` throws.                     *)
(***************************************************************************)
EXTENDS EntrepotOrderly, FiniteSets

CONSTANTS
  Users,      \* the users of the test; each has a slot in Calls
  Admin,      \* the account all tokens are bought for
  Stranger,   \* the owner of what was minted before the test
  Nobody,     \* stands in `owner` for a token that is not minted
  Workers,    \* of Disbursements
  MaxFaults   \* bound: how many calls are refused or rejected

VARIABLES
  pendingCount, workers, paid, dropped, deleted,  \* of Disbursements
  key,       \* keys.json: the account of each user's key
  funded,    \* the users whose account holds the price and the fee
  price,     \* what every user asks and pays
  tester,    \* how far each user has come, with its token and address
  phase,     \* how far the process of the test has come
  verdict,   \* what it has printed for each user
  \* History:
  polled,    \* addresses settled by the time the queue was seen empty
  faults     \* calls refused or rejected so far

queueVars == <<pendingCount, workers, paid, dropped, deleted>>
setupVars == <<key, funded, price>>
processVars == <<phase, verdict, polled>>
testVars == <<vars, queueVars, setupVars, tester, processVars, faults>>

\* The fee of the ledger, in e8s.
LedgerFee == 10000

\* Every address of the test decodes: they come from keys and the canister.
Queue == INSTANCE Disbursements WITH Undecodable <- {}

\* Users have slots of their own, the heartbeat has the others; what is asked
\* can be paid, and is not nothing.
ASSUME SaleTestAssumption ==
  /\ Users \subseteq Calls
  /\ Tokens \subseteq Nat /\ 0 \in Tokens
  /\ Admin # Nobody /\ Admin \in Accounts
  /\ Prices \subseteq Payments /\ 0 \notin Prices
  /\ IsFiniteSet(Workers) /\ None \notin Nat \cup Queue!Answers
  /\ None \notin Disbursement \cup {"OK", "ERR"}

-----------------------------------------------------------------------------
\* Some tokens may have been minted.  A user's name is drawn at random and
\* names its key in keys.json: two users may share one.
TestInit ==
  /\ Init /\ Queue!Init
  /\ \A i, j \in Tokens :
       /\ owner[i] \in {Stranger, Nobody}
       /\ owner[i] = Nobody /\ i < j => owner[j] = Nobody
  /\ key \in [Users -> Accounts \ {Admin, Stranger, Nobody}]
  /\ funded \in SUBSET Users
  /\ price \in Prices
  /\ tester = [u \in Users |-> [pc |-> "mint", index |-> None, sub |-> None]]
  /\ phase = "selling"
  /\ verdict = [u \in Users |-> None]
  /\ polled = {}
  /\ faults = 0

-----------------------------------------------------------------------------
\* The users.

Advance(u, pc) == tester' = [tester EXCEPT ![u].pc = pc]

\* The admin mints for the user the first token there is.
Mint(u) ==
  LET free == {i \in Tokens : owner[i] = Nobody}
      index == IF free = {} THEN 0
               ELSE CHOOSE i \in free : \A j \in free : i <= j IN
  /\ tester[u].pc = "mint"
  /\ owner' = IF free = {} THEN owner ELSE [owner EXCEPT ![index] = key[u]]
  /\ tester' = [tester EXCEPT ![u].pc = "list", ![u].index = index]
  /\ UNCHANGED <<listings, pendingTransactions, transactions, nextTxId,
                 nextSubAccount, stats, pendingDisbursements, balance, lapsed,
                 history, calls, queueVars, setupVars, processVars, faults>>

\* The user lists its token, or is told at once that it may not.
ListToken(u) ==
  LET i == tester[u].index IN
  /\ tester[u].pc = "list"
  /\ \/ List(u, i, key[u], price, TRUE) /\ Advance(u, "listing")
     \/ /\ owner[i] # key[u] \/ IsLocked(i)
        /\ Advance(u, "lock")
        /\ UNCHANGED vars
  /\ UNCHANGED <<queueVars, setupVars, processVars, faults>>

\* The answer to list, whatever it is.
Listed(u) ==
  /\ tester[u].pc = "listing"
  /\ ListResume(u) \/ Refuse(u)
  /\ Advance(u, "lock")
  /\ UNCHANGED <<queueVars, setupVars, processVars, faults>>

LockToken(u) ==
  LET i == tester[u].index IN
  /\ tester[u].pc = "lock"
  /\ \/ Lock(u, i, Admin) /\ Advance(u, "locking")
     \/ /\ listings[i] = None \/ IsLocked(i)
        /\ Advance(u, "failed")
        /\ UNCHANGED vars
  /\ UNCHANGED <<queueVars, setupVars, processVars, faults>>

\* The answer to lock: an address, or none.
Locked(u) ==
  /\ tester[u].pc = "locking"
  /\ \/ LockResume(u) /\ tester' = [tester EXCEPT ![u].pc = "pay",
                                                  ![u].sub = calls[u].sub]
     \/ Refuse(u) /\ Advance(u, "failed")
  /\ UNCHANGED <<queueVars, setupVars, processVars, faults>>

\* The user pays if it can, and is done in either case.
PayOrder(u) ==
  /\ tester[u].pc = "pay"
  /\ IF u \in funded THEN Pay(tester[u].sub, price) ELSE UNCHANGED vars
  /\ Advance(u, "done")
  /\ UNCHANGED <<queueVars, setupVars, processVars, faults>>

-----------------------------------------------------------------------------
\* The canister and the ledger.

\* The messages of call c that neither begin nor end it for a user.
Message(c) ==
  /\ \/ CanSettle(c) \/ CanSettleResume(c) \/ SettleBegin(c)
     \/ BalanceReply(c) \/ SettleShort(c) \/ SettleCommit(c) \/ CapReply(c)
  /\ UNCHANGED <<queueVars, setupVars, tester, processVars, faults>>

\* A settle throws, and so does the user's call that awaits it.
Throw(c) ==
  /\ \/ SettleTrap(c) /\ UNCHANGED faults
     \/ /\ BalanceReject(c) \/ CapReject(c)
        /\ faults < MaxFaults
        /\ faults' = faults + 1
  /\ IF c \in Users THEN Advance(c, "failed") ELSE UNCHANGED tester
  /\ UNCHANGED <<queueVars, setupVars, processVars>>

\* The heartbeat: a settle for every pending transaction, whatever is in
\* flight, ...
Heartbeat ==
  /\ CronSettlements
  /\ \A u \in Users : UNCHANGED calls[u]
  /\ UNCHANGED <<queueVars, setupVars, tester, processVars, faults>>

\* ... and a worker for the queue.
QueueStep(step) ==
  /\ step
  /\ UNCHANGED <<owner, listings, pendingTransactions, transactions, nextTxId,
                 nextSubAccount, stats, lapsed, history, calls, setupVars,
                 tester, processVars>>

Disburse(w) == QueueStep(Queue!CronDisbursements(w)) /\ UNCHANGED faults
TakeAnswer(w) == QueueStep(Queue!Work(w)) /\ UNCHANGED faults
LedgerPays(w) == QueueStep(Queue!LedgerTransfer(w)) /\ UNCHANGED faults
LedgerRefuses(w) ==
  /\ QueueStep(Queue!LedgerRefusal(w))
  /\ faults' = IF workers'[w].answer = "InsufficientFunds" THEN faults
               ELSE faults + 1
  /\ faults' <= MaxFaults

Time ==
  /\ Lapse
  /\ UNCHANGED <<queueVars, setupVars, tester, processVars, faults>>

-----------------------------------------------------------------------------
\* The process of the test.

\* One user that fails fails the test.
Fail ==
  /\ phase = "selling"
  /\ \E u \in Users : tester[u].pc = "failed"
  /\ phase' = "failed"
  /\ UNCHANGED <<vars, queueVars, setupVars, tester, verdict, polled, faults>>

\* All users are done: the test passes, and only then waits for the queue.
AwaitQueue ==
  /\ phase = "selling"
  /\ \A u \in Users : tester[u].pc = "done"
  /\ phase' = "queue"
  /\ UNCHANGED <<vars, queueVars, setupVars, tester, verdict, polled, faults>>

\* disbursementQueueSize() === 0 ends the first loop, ...
PollQueueSize ==
  /\ phase = "queue"
  /\ pendingDisbursements = << >>
  /\ phase' = "count"
  /\ polled' = {s \in Locks : sold[s] > 0}
  /\ UNCHANGED <<vars, queueVars, setupVars, tester, verdict, faults>>

\* Mutant: the second loop looks at the queue again.
PollPendingCount_Queue ==
  /\ phase = "count"
  /\ pendingDisbursements = << >>
  /\ phase' = "verify"
  /\ UNCHANGED <<vars, queueVars, setupVars, tester, verdict, polled, faults>>

\* ... and then disbursementPendingCount() === 0 the second.
PollPendingCount ==
  /\ phase = "count"
  /\ pendingCount = 0
  /\ phase' = "verify"
  /\ UNCHANGED <<vars, queueVars, setupVars, tester, verdict, polled, faults>>

VerifyBalance(u) ==
  /\ phase = "verify"
  /\ verdict[u] = None
  /\ verdict' = [verdict EXCEPT ![u] =
                   IF balance[tester[u].sub] = 0 THEN "OK" ELSE "ERR"]
  /\ UNCHANGED <<vars, queueVars, setupVars, tester, phase, polled, faults>>

-----------------------------------------------------------------------------
UserStep(u) ==
  Mint(u) \/ ListToken(u) \/ Listed(u) \/ LockToken(u) \/ Locked(u)
  \/ PayOrder(u)

TestNext ==
  \/ \E u \in Users : UserStep(u) \/ VerifyBalance(u)
  \/ \E c \in Calls : Message(c) \/ Throw(c)
  \/ Heartbeat
  \/ \E w \in Workers :
       Disburse(w) \/ TakeAnswer(w) \/ LedgerPays(w) \/ LedgerRefuses(w)
  \/ Time
  \/ Fail \/ AwaitQueue \/ PollQueueSize \/ PollPendingCount

\* (ListAlone, LockAlone and Prompt: see EntrepotOrderly.)
TestSteps == [][TestNext /\ ListAlone /\ LockAlone /\ Prompt]_testVars

TestSpec == TestInit /\ TestSteps

\* Fairness: the canister takes its messages, the heartbeat goes on, and the
\* ledger answers.  Users and the process of the test may stop at any point.
TestFairness ==
  /\ \A c \in Calls :
       WF_testVars(Message(c) \/ Throw(c)
                   \/ (c \in Users /\ (Listed(c) \/ Locked(c))))
  /\ SF_testVars(Heartbeat)
  /\ \A w \in Workers :
       /\ SF_testVars(Disburse(w))
       /\ WF_testVars(TakeAnswer(w) \/ LedgerPays(w) \/ LedgerRefuses(w))

-----------------------------------------------------------------------------
\* Properties.

PaidFor(s) == {job \in DOMAIN paid : job.sub = s}

\* "OK!" means what it says of a user who paid: the order was carried out, once,
\* and its three disbursements were made, with nothing left on the address.
\* (Of a user who could not pay it says nothing: that address is empty, too.)
OkMeansPaidOut ==
  \A u \in Users :
    LET s == tester[u].sub IN
    verdict[u] = "OK" /\ u \in funded =>
      /\ sold[s] = 1
      /\ {job.to : job \in PaidFor(s)} =
           {orders[s].seller, "royalty", "entrepot"}

\* Polling the queue size first and the pending count after it is enough when
\* no call was refused: a user gets "ERR!" only for an order that was not
\* settled when the queue was seen empty.  (Polled the other way round, or with
\* a refused transfer back in the queue, it would be printed for good orders.)
ErrMeansUnsettled ==
  \A u \in Users :
    verdict[u] = "ERR" => tester[u].sub \notin polled \/ faults > 0

\* With payouts taken from the balances that settles read, no transfer ever
\* finds too little: jobs queued and held always fit the balance.
PayoutsFit ==
  /\ DOMAIN dropped = {}
  /\ FullyCovered

\* A user who pays in time a price that covers the ledger's fees is served to
\* the end, whoever else fails and whether or not the test goes on: the order
\* is carried out and everything paid on.
ServedToTheEnd ==
  \A s \in Locks :
    (s \in inTime /\ price >= 30000) ~> (sold[s] = 1 /\ balance[s] = 0)
=============================================================================
