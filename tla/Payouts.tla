------------------------------- MODULE Payouts -------------------------------
(***************************************************************************)
(* The disbursement queue fed by sales: each sale pushes the jobs of its   *)
(* proceeds, once, and its payment subaccount holds what they need.        *)
(***************************************************************************)
EXTENDS Disbursements, Functions

CONSTANTS
  Sales,   \* payment subaccounts of the sales
  Batch    \* Batch[s]: the jobs of sale s, in queue order

VARIABLE settled   \* the sales carried out so far

payoutVars == <<vars, settled>>

JobsOf(s) == {Batch[s][k] : k \in DOMAIN Batch[s]}

\* A sale pays its jobs from its own subaccount.
ASSUME PayoutAssumption ==
  \A s \in Sales :
    /\ Batch[s] \in Seq(JobsOf(s))
    /\ \A job \in JobsOf(s) : /\ job # None
                              /\ job.sub = s /\ job.amount \in Nat

\* What the ledger takes for these jobs.
Amounts(jobs) ==
  SumFunction([k \in DOMAIN jobs |-> jobs[k].amount + LedgerFee])

PayoutInit ==
  /\ Init
  /\ balance = [s \in Sales |-> Amounts(Batch[s])]
  /\ settled = {}

\* A settle carries a sale out and queues its proceeds.
Sell(s) ==
  /\ s \notin settled
  /\ settled' = settled \cup {s}
  /\ AddDisbursements(Batch[s])
  /\ UNCHANGED <<pendingCount, workers, balance, paid, dropped, deleted>>

PayoutNext ==
  \/ Next /\ UNCHANGED settled
  \/ \E s \in Sales : Sell(s)

PayoutSpec == PayoutInit /\ [][PayoutNext]_payoutVars

\* Fairness: the heartbeat goes on, workers take the answers they get, and the
\* ledger, asked again and again, carries a transfer out in the end.  (Strong
\* for the heartbeat, since Workers bounds how many workers may overlap.)
PayoutFairness ==
  \A w \in Workers :
    /\ SF_payoutVars(CronDisbursements(w) /\ UNCHANGED settled)
    /\ WF_payoutVars(Work(w) /\ UNCHANGED settled)
    /\ SF_payoutVars(LedgerTransfer(w) /\ UNCHANGED settled)

-----------------------------------------------------------------------------
\* Properties.

Copies(job, queue) == Cardinality({k \in DOMAIN queue : queue[k] = job})

\* How often a job is held: in the queue, by a worker (awaited or failed), by
\* the ledger as done, as dropped or as deleted.
Held(w, job) ==
  Copies(job, workers[w].failed)
  + IF workers[w].job = job /\ workers[w].answer # "Ok" THEN 1 ELSE 0

\* Every job of a sale is in exactly one place at any time, however workers,
\* sales and deletions overlap: none is lost, and none is carried out twice.
\* (Should a sale have two jobs that are alike, there are two of them.)
EveryJobInOnePlace ==
  \A s \in Sales : \A job \in JobsOf(s) :
    Copies(job, pendingDisbursements)
    + SumFunction([w \in Workers |-> Held(w, job)])
    + Times(job, paid) + Times(job, dropped) + Times(job, deleted)
      = IF s \in settled THEN Copies(job, Batch[s]) ELSE 0

\* pendingCount says how many transfers are awaited, so an operator who sees an
\* empty queue and a zero count in one moment knows that every sale is paid
\* out: no job hides in the failed list of a worker.
DrainedMeansDone ==
  /\ pendingCount = Cardinality({w \in Workers : workers[w].job # None})
  /\ pendingDisbursements = << >> /\ pendingCount = 0 =>
       \A s \in settled : \A job \in JobsOf(s) :
         Times(job, paid) + Times(job, deleted) = Copies(job, Batch[s])

\* The branch that drops a job for want of funds is never taken: what is left
\* on a payment subaccount always covers the jobs of its sale still to do,
\* whatever order the workers take them in.
NothingIsDropped == dropped = EmptyBag

\* Every job whose address decodes is paid in the end unless it is deleted:
\* one that cannot be paid never holds up the others.
EveryJobIsPaid ==
  \A s \in Sales : \A job \in JobsOf(s) :
    (s \in settled /\ job.to \notin Undecodable) ~>
      (Times(job, paid) > 0 \/ Times(job, deleted) > 0)
=============================================================================
