--------------------------- MODULE Disbursements ---------------------------
(***************************************************************************)
(* The queue of ledger transfers of src/Entrepot/lib.mo and the workers    *)
(* that empty it: cronDisbursements, started by the heartbeat of           *)
(* src/main.mo.  A worker pops one job at a time and awaits the ledger's   *)
(* answer to it; the heartbeat may start another worker meanwhile, a sale  *)
(* may push jobs and an admin may delete some.  A job that the ledger      *)
(* turns away for now waits in a local list of its worker, which goes back *)
(* to the queue when the worker finds the queue empty.                     *)
(***************************************************************************)
EXTENDS Integers, Sequences, FiniteSets, Bags

CONSTANTS
  Workers,       \* calls of cronDisbursements that may overlap (a bound)
  Undecodable,   \* addresses that Hex.decode refuses
  LedgerFee,     \* what the ledger charges for a transfer, in e8s
  None

VARIABLES
  pendingDisbursements, \* the queue, head first; a job is a record
                        \* [token, to, sub, amount]
  pendingCount,         \* how many transfers are awaited
  workers,              \* per worker: its job, its failed jobs, the answer
  balance,              \* what the ledger holds on each payment subaccount
  \* History, which the code does not keep:
  paid,                 \* bag of the jobs the ledger carried out
  dropped,              \* bag of the jobs the workers gave up
  deleted               \* bag of the jobs the admins deleted

vars == <<pendingDisbursements, pendingCount, workers, balance, paid, dropped,
          deleted>>

-----------------------------------------------------------------------------
\* What the ledger may answer: done, too little on the subaccount, another
\* error that may pass (BadFee, TxCreatedInFuture), or a reject of the call.
\* (TxDuplicate and TxTooOld, which the code drops, need a created_at_time;
\* the code sends none.)
Answers == {"Ok", "InsufficientFunds", "BadFee", "reject"}

ASSUME DisbursementAssumption ==
  /\ IsFiniteSet(Workers) /\ LedgerFee \in Nat
  /\ None \notin Nat \cup Answers

\* A worker at rest, and one that awaits the answer to job.
Resting == [job |-> None, failed |-> << >>, answer |-> None]
Awaiting(job, failed) == [job |-> job, failed |-> failed, answer |-> None]

One(job) == SetToBag({job})

\* How many times job is in a bag.
Times(job, bag) == IF job \in DOMAIN bag THEN bag[job] ELSE 0

\* The jobs at the head of the queue whose address does not decode: a worker
\* goes past all of them in one message.
Skipped(queue) ==
  LET bad == {n \in 0 .. Len(queue) :
                \A k \in 1 .. n : queue[k].to \in Undecodable}
  IN  CHOOSE n \in bad : \A m \in bad : m <= n

Reversed(s) == [k \in 1 .. Len(s) |-> s[Len(s) + 1 - k]]

\* The queue without its entries at the places in gone, in the same order.
Without(queue, gone) ==
  LET kept[k \in 0 .. Len(queue)] ==
        IF k = 0 THEN << >>
        ELSE IF k \in gone THEN kept[k - 1]
        ELSE Append(kept[k - 1], queue[k])
  IN  kept[Len(queue)]

\* Worker w, with these failed jobs, pops its next job from queue and calls
\* the ledger; without a next job it ends, and its failed jobs go back to the
\* queue.  awaited counts the transfers of the other workers.
PopNext(w, queue, failed, awaited) ==
  LET n == Skipped(queue)
      kept == Reversed(SubSeq(queue, 1, n)) \o failed IN
  IF n = Len(queue)
  THEN /\ pendingDisbursements' = kept
       /\ pendingCount' = awaited
       /\ workers' = [workers EXCEPT ![w] = Resting]
  ELSE /\ pendingDisbursements' = SubSeq(queue, n + 2, Len(queue))
       /\ pendingCount' = awaited + 1
       /\ workers' = [workers EXCEPT ![w] = Awaiting(queue[n + 1], kept)]

-----------------------------------------------------------------------------
Init ==
  /\ pendingDisbursements = << >>
  /\ pendingCount = 0
  /\ workers = [w \in Workers |-> Resting]
  /\ paid = EmptyBag /\ dropped = EmptyBag /\ deleted = EmptyBag

\* The heartbeat calls cronDisbursements; an empty queue ends the call at
\* once.  (The intervals of the heartbeat and of the cron only delay this.)
CronDisbursements(w) ==
  /\ workers[w] = Resting
  /\ pendingDisbursements # << >>
  /\ PopNext(w, pendingDisbursements, << >>, pendingCount)
  /\ UNCHANGED <<balance, paid, dropped, deleted>>

\* The ledger carries the transfer of worker w out.
LedgerTransfer(w) ==
  LET job == workers[w].job IN
  /\ job # None /\ workers[w].answer = None
  /\ balance[job.sub] >= job.amount + LedgerFee
  /\ balance' = [balance EXCEPT ![job.sub] = @ - (job.amount + LedgerFee)]
  /\ paid' = paid (+) One(job)
  /\ workers' = [workers EXCEPT ![w].answer = "Ok"]
  /\ UNCHANGED <<pendingDisbursements, pendingCount, dropped, deleted>>

\* The ledger, or the system, refuses the transfer: nothing moves.
LedgerRefusal(w) ==
  LET job == workers[w].job IN
  /\ job # None /\ workers[w].answer = None
  /\ \E answer \in Answers \ {"Ok"} :
       /\ answer = "InsufficientFunds" =>
            balance[job.sub] < job.amount + LedgerFee
       /\ workers' = [workers EXCEPT ![w].answer = answer]
  /\ UNCHANGED <<pendingDisbursements, pendingCount, balance, paid, dropped,
                 deleted>>

\* Mutant: a job that is done is kept for later, too.
Completed_Kept(w) ==
  /\ workers[w].answer = "Ok"
  /\ PopNext(w, pendingDisbursements,
             <<workers[w].job>> \o workers[w].failed, pendingCount - 1)
  /\ UNCHANGED <<balance, paid, dropped, deleted>>

\* The worker takes the answer to a job that is done: on to the next.
Completed(w) ==
  /\ workers[w].answer = "Ok"
  /\ PopNext(w, pendingDisbursements, workers[w].failed, pendingCount - 1)
  /\ UNCHANGED <<balance, paid, dropped, deleted>>

\* The subaccount does not hold enough: the job is dropped.
Drop(w) ==
  /\ workers[w].answer = "InsufficientFunds"
  /\ dropped' = dropped (+) One(workers[w].job)
  /\ PopNext(w, pendingDisbursements, workers[w].failed, pendingCount - 1)
  /\ UNCHANGED <<balance, paid, deleted>>

\* Mutant: a retry is still counted as awaited.
Retry_Uncounted(w) ==
  /\ workers[w].answer \in {"BadFee", "reject"}
  /\ PopNext(w, pendingDisbursements,
             <<workers[w].job>> \o workers[w].failed, pendingCount)
  /\ UNCHANGED <<balance, paid, dropped, deleted>>

\* Mutant: the job is forgotten.
Retry_Forgets(w) ==
  /\ workers[w].answer \in {"BadFee", "reject"}
  /\ PopNext(w, pendingDisbursements, workers[w].failed, pendingCount - 1)
  /\ UNCHANGED <<balance, paid, dropped, deleted>>

\* Another error, or a reject that is caught: the job is kept for later.
Retry(w) ==
  /\ workers[w].answer \in {"BadFee", "reject"}
  /\ PopNext(w, pendingDisbursements,
             <<workers[w].job>> \o workers[w].failed, pendingCount - 1)
  /\ UNCHANGED <<balance, paid, dropped, deleted>>

\* An admin deletes the queued jobs for this token, address and amount, of
\* whatever subaccount; jobs the workers hold are not looked at.
DeleteDisbursementJob(token, to, amount) ==
  LET matches(job) == job.token = token /\ job.to = to /\ job.amount = amount
      gone == {k \in DOMAIN pendingDisbursements :
                 matches(pendingDisbursements[k])} IN
  /\ gone # {}
  /\ pendingDisbursements' = Without(pendingDisbursements, gone)
  /\ deleted' = deleted (+) [job \in {pendingDisbursements[k] : k \in gone} |->
                   Cardinality({k \in gone : pendingDisbursements[k] = job})]
  /\ UNCHANGED <<pendingCount, workers, balance, paid, dropped>>

\* A sale pushes a job (_addDisbursement); used by whoever settles.
AddDisbursements(jobs) ==
  pendingDisbursements' = jobs \o pendingDisbursements

Work(w) == Completed(w) \/ Drop(w) \/ Retry(w)

Next ==
  \/ \E w \in Workers :
       CronDisbursements(w) \/ LedgerTransfer(w) \/ LedgerRefusal(w) \/ Work(w)
  \/ \E k \in DOMAIN pendingDisbursements :
       LET job == pendingDisbursements[k]
       IN  DeleteDisbursementJob(job.token, job.to, job.amount)
=============================================================================
