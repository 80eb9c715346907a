--------------------------- MODULE PayoutsProofs ---------------------------
(***************************************************************************)
(* Proofs about the disbursement queue fed by sales (Payouts): every job   *)
(* is in one place, an empty queue and a zero count mean that all is done, *)
(* and no job is ever dropped.                                             *)
(*                                                                         *)
(* All three come from one observation.  Give each job a weight, whatever  *)
(* it is.  What the jobs in the queue and with the workers weigh together  *)
(* changes only when a job is paid, dropped or deleted, or a sale is made; *)
(* moving jobs between queue and workers leaves it alone.  With weight 1   *)
(* for one job and 0 for the others it counts that job; with the costs of  *)
(* the jobs of one sale it is what the subaccount of the sale still owes.  *)
(***************************************************************************)
EXTENDS Payouts, Sums

\* A queue back to front.
LEMMA WeightReversed ==
  ASSUME NEW Job, NEW weight \in [Job -> Nat], NEW queue \in Seq(Job)
  PROVE  /\ Reversed(queue) \in Seq(Job)
         /\ Weight(Reversed(queue), weight) = Weight(queue, weight)
  <1> DEFINE n == Len(queue)
             D == 1 .. n
             h == [k \in D |-> n + 1 - k]
             r == [k \in D |-> queue[n + 1 - k]]
  <1>1. /\ n \in Nat /\ \A k \in D : queue[k] \in Job
        /\ \A k \in D : n + 1 - k \in D
    OBVIOUS
  <1>2. r \in [D -> Job]
    BY <1>1
  <1>3. r \in Seq(Job) /\ Len(r) = n
    BY <1>1, <1>2
  <1>4. h \in Bijection(D, D)
    <2>1. h \in [D -> D] /\ \A k \in D : h[k] = n + 1 - k
      BY <1>1
    <2>2. \A a, b \in D : h[a] = h[b] => a = b
      BY <1>1, <2>1
    <2>3. \A t \in D : h[n + 1 - t] = t
      BY <1>1, <2>1
    <2> HIDE DEF h
    <2> QED
      BY <1>1, <2>1, <2>2, <2>3
        DEF Bijection, Injection, IsInjective, Surjection
  <1>5. \A k \in D : r[h[k]] = queue[k]
    BY <1>1
  <1>6. Reversed(queue) = r
    BY DEF Reversed
  <1> HIDE DEF h, r
  <1>7. Weight(r, weight) = Weight(queue, weight)
    BY <1>3, <1>4, <1>5, WeightReordered
  <1> QED
    BY <1>3, <1>6, <1>7
\* Skipped is a number of entries at the head of the queue.
LEMMA SkippedType ==
  ASSUME NEW Job, NEW queue \in Seq(Job)
  PROVE  Skipped(queue) \in 0 .. Len(queue)
  <1> DEFINE all == Len(queue)
             bad == {n \in 0 .. all :
                       \A k \in 1 .. n : queue[k].to \in Undecodable}
             left == {m \in Nat : m <= all /\ all - m \in bad}
  <1>1. all \in Nat
    OBVIOUS
  <1>2. 0 \in bad
    BY <1>1
  <1>3. bad \subseteq 0 .. all
    OBVIOUS
  <1>4. Skipped(queue) = CHOOSE n \in bad : \A m \in bad : m <= n
    BY DEF Skipped
  <1> HIDE DEF bad, all
  <1>5. all \in left
    BY <1>1, <1>2
  <1>6. PICK m \in left : \A j \in left : m <= j
    BY <1>5, LeastNatural
  <1>7. ASSUME NEW n \in bad PROVE n <= all - m
    <2>1. n \in 0 .. all /\ all - n \in left
      BY <1>1, <1>3
    <2>2. m <= all - n
      BY <1>6, <2>1
    <2> QED
      BY <1>1, <1>6, <2>1, <2>2
  <1>8. \E n \in bad : \A k \in bad : k <= n
    BY <1>6, <1>7
  <1>9. Skipped(queue) \in bad
    BY <1>4, <1>8
  <1> QED
    BY <1>3, <1>9 DEF all

-----------------------------------------------------------------------------
\* Deleting entries of a queue.

\* What Without computes, entry by entry.
Keeps(queue, gone, n, kept) ==
  kept = [k \in 0 .. n |->
            IF k = 0 THEN << >>
            ELSE IF k \in gone THEN kept[k - 1]
            ELSE Append(kept[k - 1], queue[k])]

\* Without is the last step of such a computation, if there is one; ...
LEMMA WithoutKeeps ==
  ASSUME NEW queue, NEW gone, NEW g, Keeps(queue, gone, Len(queue), g)
  PROVE  \E kept : /\ Keeps(queue, gone, Len(queue), kept)
                   /\ Without(queue, gone) = kept[Len(queue)]
  <1> DEFINE h == CHOOSE kept : Keeps(queue, gone, Len(queue), kept)
  <1>1. Keeps(queue, gone, Len(queue), h)
    BY Zenon
  <1>2. Without(queue, gone) = h[Len(queue)]
    BY Zenon DEF Without, Keeps
  <1> QED
    BY <1>1, <1>2, Zenon

\* ... and there is one.
LEMMA KeepsExists ==
  ASSUME NEW queue, NEW gone, NEW all \in Nat
  PROVE  \E kept : Keeps(queue, gone, all, kept)
  <1> DEFINE S == {n \in Nat : \E kept : Keeps(queue, gone, n, kept)}
  <1>1. 0 \in S
    <2> DEFINE e == [k \in 0 .. 0 |-> << >>]
    <2>1. Keeps(queue, gone, 0, e)
      BY DEF Keeps
    <2> QED
      BY <2>1
  <1>2. ASSUME NEW n \in Nat, n \in S PROVE n + 1 \in S
    <2>1. PICK g : Keeps(queue, gone, n, g)
      BY <1>2
    <2> DEFINE next == IF n + 1 \in gone THEN g[n]
                       ELSE Append(g[n], queue[n + 1])
    <2>2. PICK last : last = next
      OBVIOUS
    <2> HIDE DEF next
    <2> DEFINE h == [k \in 0 .. n + 1 |-> IF k = n + 1 THEN last ELSE g[k]]
    <2>3. \A k \in 0 .. n :
            g[k] = IF k = 0 THEN << >>
                   ELSE IF k \in gone THEN g[k - 1]
                   ELSE Append(g[k - 1], queue[k])
      BY <2>1 DEF Keeps
    <2>4. \A k \in 0 .. n : h[k] = g[k]
      OBVIOUS
    <2>5. h[n + 1] = last
      OBVIOUS
    <2>6. h = [k \in 0 .. n + 1 |-> h[k]]
      OBVIOUS
    <2> HIDE DEF h
    <2>7. ASSUME NEW k \in 0 .. n + 1
          PROVE  h[k] = IF k = 0 THEN << >>
                        ELSE IF k \in gone THEN h[k - 1]
                        ELSE Append(h[k - 1], queue[k])
      <3>1. CASE k \in 0 .. n
        <4>1. k # 0 => k - 1 \in 0 .. n
          BY <3>1
        <4> QED
          BY <2>3, <2>4, <3>1, <4>1
      <3>2. CASE k = n + 1
        <4>1. k # 0 /\ k - 1 = n /\ n \in 0 .. n
          BY <3>2
        <4>2. h[k] = next /\ h[n] = g[n]
          BY <2>2, <2>4, <2>5, <3>2, <4>1
        <4> QED
          BY <3>2, <4>1, <4>2 DEF next
      <3> QED
        BY <3>1, <3>2
    <2>8. Keeps(queue, gone, n + 1, h)
      BY <2>6, <2>7 DEF Keeps
    <2> QED
      BY <2>8
  <1>3. Nat \subseteq S
    <2> HIDE DEF S
    <2> QED
      BY <1>1, <1>2, SetInduction
  <1> QED
    BY <1>3

\* An entry after the others.
LEMMA WeightOfLast ==
  ASSUME NEW Job, NEW weight \in [Job -> Nat],
         NEW queue \in Seq(Job), NEW job \in Job
  PROVE  /\ Append(queue, job) \in Seq(Job)
         /\ Weight(Append(queue, job), weight)
              = Weight(queue, weight) + weight[job]
  <1>1. <<job>> \in Seq(Job)
    OBVIOUS
  <1>2. Append(queue, job) = queue \o <<job>>
    BY AppendProperties, AppendIsConcat
  <1>3. Append(queue, job) \in Seq(Job)
    BY AppendProperties
  <1>4. Weight(queue \o <<job>>, weight)
          = Weight(queue, weight) + Weight(<<job>>, weight)
    BY <1>1, WeightOfTwo
  <1>5. Weight(<<job>>, weight) = weight[job]
    BY WeightOfOne
  <1> QED
    BY <1>2, <1>3, <1>4, <1>5, Zenon

\* What stays in the queue, and what is taken out of it.
LEMMA WeightWithout ==
  ASSUME NEW Job, NEW weight \in [Job -> Nat], NEW queue \in Seq(Job),
         NEW gone \in SUBSET (1 .. Len(queue))
  PROVE  /\ Without(queue, gone) \in Seq(Job)
         /\ Weight(queue, weight)
              = Weight(Without(queue, gone), weight)
                + SumFunctionOnSet(Weights(queue, weight), gone)
  <1> DEFINE all == Len(queue)
             f == Weights(queue, weight)
  <1>1. /\ all \in Nat /\ IsFiniteSet(1 .. all)
        /\ \A k \in 1 .. all :
             queue[k] \in Job /\ f[k] = weight[queue[k]] /\ f[k] \in Nat
        /\ Weight(queue, weight) = SumFunctionOnSet(f, 1 .. all)
    BY WeightIsSum
  <1>2. PICK g : /\ Keeps(queue, gone, all, g)
                 /\ Without(queue, gone) = g[all]
    BY <1>1, KeepsExists, WithoutKeeps, Zenon
  <1>3. \A k \in 0 .. all :
          g[k] = IF k = 0 THEN << >>
                 ELSE IF k \in gone THEN g[k - 1]
                 ELSE Append(g[k - 1], queue[k])
    BY <1>2 DEF Keeps
  <1> HIDE DEF f, all
  <1> DEFINE Stays(n) == (1 .. n) \ gone
             S == {n \in Nat : n <= all =>
                     /\ g[n] \in Seq(Job)
                     /\ Weight(g[n], weight) = SumFunctionOnSet(f, Stays(n))}
  <1>4. ASSUME NEW n \in Nat, n <= all
        PROVE  IsFiniteSet(Stays(n)) /\ \A k \in Stays(n) : f[k] \in Nat
    <2>1. 1 .. n \subseteq 1 .. all
      BY <1>1, <1>4
    <2>2. IsFiniteSet(Stays(n))
      BY <1>1, <2>1, FS_Subset
    <2> QED
      BY <1>1, <2>1, <2>2
  <1>5. 0 \in S
    <2>1. Stays(0) = {} /\ g[0] = << >> /\ << >> \in Seq(Job)
      BY <1>1, <1>3
    <2>2. Weight(g[0], weight) = 0
      BY <2>1, WeightType
    <2>3. 0 \in Nat /\ 0 <= all
      BY <1>1
    <2>4. IsFiniteSet(Stays(0)) /\ \A k \in Stays(0) : f[k] \in Nat
      BY <1>4, <2>3
    <2> HIDE DEF Stays
    <2>5. SumFunctionOnSet(f, Stays(0)) = 0
      BY <2>1, <2>4, SumOfOne
    <2> QED
      BY <2>1, <2>2, <2>5
  <1>6. ASSUME NEW n \in Nat, n \in S PROVE n + 1 \in S
    <2> SUFFICES ASSUME n + 1 <= all
                 PROVE  /\ g[n + 1] \in Seq(Job)
                        /\ Weight(g[n + 1], weight)
                             = SumFunctionOnSet(f, Stays(n + 1))
      OBVIOUS
    <2>1. /\ g[n] \in Seq(Job)
          /\ Weight(g[n], weight) = SumFunctionOnSet(f, Stays(n))
      BY <1>1, <1>6
    <2>2. n + 1 \in 1 .. all /\ n + 1 \in 0 .. all /\ n + 1 # 0
      BY <1>1
    <2>3. CASE n + 1 \in gone
      <3>1. Stays(n + 1) = Stays(n)
        BY <2>3
      <3>2. g[n + 1] = g[n]
        BY <1>3, <2>2, <2>3
      <3> QED
        BY <2>1, <3>1, <3>2
    <2>4. CASE n + 1 \notin gone
      <3>1. /\ Stays(n + 1) \ {n + 1} = Stays(n)
            /\ n + 1 \in Stays(n + 1)
        BY <2>4
      <3>2. g[n + 1] = Append(g[n], queue[n + 1])
        <4>1. g[n + 1] = Append(g[(n + 1) - 1], queue[n + 1])
          BY <1>3, <2>2, <2>4, Zenon
        <4>2. (n + 1) - 1 = n
          OBVIOUS
        <4> QED
          BY <4>1, <4>2, Zenon
      <3>3. IsFiniteSet(Stays(n + 1)) /\ \A k \in Stays(n + 1) : f[k] \in Nat
        <4>1. n + 1 \in Nat /\ n + 1 <= all
          OBVIOUS
        <4> QED
          BY <1>4, <4>1
      <3> HIDE DEF Stays
      <3>4. SumFunctionOnSet(f, Stays(n + 1))
              = f[n + 1] + SumFunctionOnSet(f, Stays(n))
        BY <3>1, <3>3, SumOfOne
      <3>5. queue[n + 1] \in Job /\ f[n + 1] = weight[queue[n + 1]]
        BY <1>1, <2>2
      <3>6. /\ g[n + 1] \in Seq(Job)
            /\ Weight(g[n + 1], weight)
                 = Weight(g[n], weight) + weight[queue[n + 1]]
        <4>1. /\ Append(g[n], queue[n + 1]) \in Seq(Job)
              /\ Weight(Append(g[n], queue[n + 1]), weight)
                   = Weight(g[n], weight) + weight[queue[n + 1]]
          BY <2>1, <3>5, WeightOfLast
        <4> QED
          BY <3>2, <4>1, Zenon
      <3>7. Weight(g[n], weight) \in Nat /\ weight[queue[n + 1]] \in Nat
        BY <2>1, <3>5, WeightType
      <3> QED
        BY <2>1, <3>4, <3>5, <3>6, <3>7
    <2> QED
      BY <2>3, <2>4
  <1>7. Nat \subseteq S
    <2> HIDE DEF S
    <2> QED
      BY <1>5, <1>6, SetInduction
  <1>8. /\ g[all] \in Seq(Job)
        /\ Weight(g[all], weight) = SumFunctionOnSet(f, Stays(all))
    <2>1. all \in S /\ all <= all
      BY <1>1, <1>7
    <2> HIDE DEF Stays
    <2> QED
      BY <2>1
  <1>9. gone \subseteq 1 .. all
    BY DEF all
  <1>10. IsFiniteSet(gone)
    BY <1>1, <1>9, FS_Subset
  <1>11. SumFunctionOnSet(f, Stays(all) \cup gone)
           = SumFunctionOnSet(f, Stays(all)) + SumFunctionOnSet(f, gone)
    <2>1. Stays(all) \cap gone = {}
      OBVIOUS
    <2>2. \A k \in Stays(all) \cup gone : f[k] \in Nat
      BY <1>1, <1>9
    <2>3. IsFiniteSet(Stays(all))
      BY <1>1, <1>4
    <2> HIDE DEF Stays
    <2> QED
      BY <1>10, <2>1, <2>2, <2>3, SumOfTwo
  <1>12. Stays(all) \cup gone = 1 .. all
    BY <1>9
  <1> QED
    BY <1>1, <1>2, <1>8, <1>11, <1>12 DEF f
-----------------------------------------------------------------------------
\* What the jobs in the queue and with the workers weigh.

Jobs == UNION {JobsOf(s) : s \in Sales}
Rates == [Jobs -> Nat]

\* Weight 1 for one job; what the jobs of one sale cost.
Only(job) == [other \in Jobs |-> IF other = job THEN 1 ELSE 0]
Costs(s) ==
  [job \in Jobs |-> IF job.sub = s THEN job.amount + LedgerFee ELSE 0]

\* A worker, and what it still has to do of its jobs.
Worker == [job : Jobs \cup {None}, failed : Seq(Jobs),
           answer : Answers \cup {None}]
Asking(record) == record.job # None /\ record.answer # "Ok"
Load(record, rate) ==
  Weight(record.failed, rate)
  + IF Asking(record) THEN rate[record.job] ELSE 0
Loads(records, rate) == [w \in Workers |-> Load(records[w], rate)]
Carried(records, rate) == SumFunction(Loads(records, rate))
Open(rate) == Weight(pendingDisbursements, rate) + Carried(workers, rate)

Awaited(records) == {w \in Workers : records[w].job # None}

\* A job's parts, and two weights.
LEMMA JobParts ==
  /\ None \notin Jobs
  /\ \A s \in Sales : Batch[s] \in Seq(Jobs) /\ JobsOf(s) \subseteq Jobs
  /\ \A job \in Jobs : /\ job.sub \in Sales /\ job \in JobsOf(job.sub)
                       /\ job.amount + LedgerFee \in Nat
                       /\ Only(job) \in Rates
  /\ \A s \in Sales : Costs(s) \in Rates
  <1>1. \A s \in Sales : JobsOf(s) \subseteq Jobs
    BY DEF Jobs
  <1>2. ASSUME NEW s \in Sales PROVE Batch[s] \in Seq(Jobs)
    <2>1. Batch[s] \in Seq(JobsOf(s))
      BY PayoutAssumption
    <2>2. JobsOf(s) \subseteq Jobs
      BY <1>1
    <2> HIDE DEF Jobs
    <2> QED
      BY <2>1, <2>2
  <1>3. ASSUME NEW job \in Jobs
        PROVE  /\ job # None /\ job.sub \in Sales /\ job \in JobsOf(job.sub)
               /\ job.amount + LedgerFee \in Nat
    <2>1. PICK s \in Sales : job \in JobsOf(s)
      BY DEF Jobs
    <2>2. job # None /\ job.sub = s /\ job.amount \in Nat
      BY <2>1, PayoutAssumption
    <2> QED
      BY <2>1, <2>2, DisbursementAssumption
  <1>4. \A job \in Jobs : Only(job) \in Rates
    BY DEF Only, Rates
  <1>5. \A s \in Sales : Costs(s) \in Rates
    BY <1>3 DEF Costs, Rates
  <1> QED
    BY <1>1, <1>2, <1>3, <1>4, <1>5

\* Weighing with Only counts; with Costs it sums what the ledger takes.
LEMMA OnlyCounts ==
  ASSUME NEW queue \in Seq(Jobs), NEW job \in Jobs
  PROVE  /\ Weight(queue, Only(job)) = Copies(job, queue)
         /\ Copies(job, queue) \in Nat
  <1> DEFINE D == 1 .. Len(queue)
             T == {k \in D : queue[k] = job}
             f == Weights(queue, Only(job))
  <1>1. Only(job) \in [Jobs -> Nat]
    BY JobParts DEF Rates
  <1>2. /\ IsFiniteSet(D) /\ Weight(queue, Only(job)) = SumFunctionOnSet(f, D)
        /\ \A k \in D : f[k] = Only(job)[queue[k]]
    BY <1>1, WeightIsSum
  <1>3. \A k \in D : f[k] = IF k \in T THEN 1 ELSE 0
    <2>1. \A k \in D : queue[k] \in Jobs
      OBVIOUS
    <2> HIDE DEF f
    <2> QED
      BY <1>2, <2>1 DEF Only
  <1>4. Copies(job, queue) = Cardinality(T)
    <2>1. DOMAIN queue = D
      OBVIOUS
    <2> QED
      BY <2>1 DEF Copies
  <1>5. T \in SUBSET D
    OBVIOUS
  <1> HIDE DEF D, T, f
  <1> QED
    BY <1>2, <1>3, <1>4, <1>5, SumCounts

\* A worker's load, and the sum of the loads.
LEMMA LoadType ==
  ASSUME NEW rate \in Rates, NEW records \in [Workers -> Worker]
  PROVE  /\ IsFiniteSet(Workers)
         /\ \A w \in Workers : /\ Load(records[w], rate) \in Nat
                               /\ Weight(records[w].failed, rate) \in Nat
                               /\ Load(records[w], rate)
                                    = Loads(records, rate)[w]
         /\ Carried(records, rate)
              = SumFunctionOnSet(Loads(records, rate), Workers)
         /\ Carried(records, rate) \in Nat
  <1>1. IsFiniteSet(Workers)
    BY DisbursementAssumption
  <1>2. ASSUME NEW w \in Workers
        PROVE  /\ Load(records[w], rate) \in Nat
               /\ Weight(records[w].failed, rate) \in Nat
    <2>1. records[w].failed \in Seq(Jobs) /\ records[w].job \in Jobs \cup {None}
      BY DEF Worker
    <2>2. Weight(records[w].failed, rate) \in Nat
      BY <2>1, WeightType DEF Rates
    <2>3. Asking(records[w]) => rate[records[w].job] \in Nat
      BY <2>1 DEF Rates, Asking
    <2> QED
      BY <2>2, <2>3 DEF Load
  <1>3. \A w \in Workers : Loads(records, rate)[w] = Load(records[w], rate)
    BY DEF Loads
  <1>4. DOMAIN Loads(records, rate) = Workers
    BY DEF Loads
  <1>5. Carried(records, rate) = SumFunctionOnSet(Loads(records, rate), Workers)
    BY <1>4 DEF Carried, SumFunction
  <1>6. Carried(records, rate) \in Nat
    BY <1>1, <1>2, <1>3, <1>5, SumOfOne
  <1> QED
    BY <1>1, <1>2, <1>3, <1>5, <1>6

\* When one worker changes, so does its load.
LEMMA LoadChanged ==
  ASSUME NEW rate \in Rates, NEW old \in [Workers -> Worker],
         NEW new \in [Workers -> Worker], NEW w \in Workers,
         \A v \in Workers \ {w} : new[v] = old[v]
  PROVE  Carried(new, rate) + Load(old[w], rate)
           = Carried(old, rate) + Load(new[w], rate)
  <1> DEFINE f == Loads(old, rate)
             g == Loads(new, rate)
  <1>1. IsFiniteSet(Workers) /\ \A v \in Workers : f[v] \in Nat /\ g[v] \in Nat
    BY LoadType
  <1>2. \A v \in Workers \ {w} : f[v] = g[v]
    BY DEF Loads
  <1>3. /\ Carried(old, rate) = SumFunctionOnSet(f, Workers)
        /\ Carried(new, rate) = SumFunctionOnSet(g, Workers)
        /\ f[w] = Load(old[w], rate) /\ g[w] = Load(new[w], rate)
    BY LoadType
  <1> HIDE DEF f, g
  <1>4. SumFunctionOnSet(g, Workers) + f[w] = SumFunctionOnSet(f, Workers) + g[w]
    BY <1>1, <1>2, SumChanged
  <1> QED
    BY <1>3, <1>4

\* The loads, and the count of awaited transfers, of workers at rest.
LEMMA LoadAtRest ==
  ASSUME NEW rate \in Rates
  PROVE  Load(Resting, rate) = 0 /\ Resting \in Worker
  <1>1. << >> \in Seq(Jobs)
    OBVIOUS
  <1>2. Weight(<< >>, rate) = 0
    BY <1>1, WeightType DEF Rates
  <1>3. Load(Resting, rate) = Weight(<< >>, rate) + 0
    BY DEF Load, Asking, Resting
  <1>4. Resting \in Worker
    BY <1>1 DEF Resting, Worker
  <1> QED
    BY <1>2, <1>3, <1>4
\* A worker that asks the ledger has its job and its failed jobs to do.
LEMMA LoadAwaiting ==
  ASSUME NEW rate \in Rates, NEW job \in Jobs, NEW failed \in Seq(Jobs)
  PROVE  /\ Awaiting(job, failed) \in Worker
         /\ Load(Awaiting(job, failed), rate)
              = Weight(failed, rate) + rate[job]
  <1>1. job # None /\ None # "Ok"
    BY JobParts, DisbursementAssumption DEF Answers
  <1> DEFINE record == Awaiting(job, failed)
  <1>2. record.job = job /\ record.failed = failed /\ record.answer = None
    BY DEF Awaiting
  <1>3. record \in Worker
    BY DEF Awaiting, Worker
  <1> HIDE DEF record
  <1>4. Load(record, rate) = Weight(failed, rate) + rate[job]
    BY <1>1, <1>2 DEF Load, Asking
  <1> QED
    BY <1>3, <1>4 DEF record

-----------------------------------------------------------------------------
\* The inductive invariant.

\* Types; a worker without a job is at rest, the count is right, and the
\* ledger has found too little for no job.
Kinds ==
  /\ pendingDisbursements \in Seq(Jobs)
  /\ workers \in [Workers -> Worker]
  /\ \A w \in Workers : /\ workers[w].job = None => workers[w] = Resting
                        /\ workers[w].answer # "InsufficientFunds"
  /\ pendingCount = Cardinality(Awaited(workers))
  /\ settled \subseteq Sales
  /\ balance \in [Sales -> Nat]
  /\ \A job \in Jobs : Times(job, paid) \in Nat /\ Times(job, deleted) \in Nat
  /\ dropped = EmptyBag

\* Every job is in one place.
Placed ==
  \A job \in Jobs :
    Open(Only(job)) + Times(job, paid) + Times(job, deleted)
      = IF job.sub \in settled THEN Copies(job, Batch[job.sub]) ELSE 0

\* A payment covers the jobs of its sale, before they are queued and after.
Funded ==
  \A s \in Sales :
    /\ s \in settled => Open(Costs(s)) <= balance[s]
    /\ s \notin settled => /\ Open(Costs(s)) = 0
                           /\ balance[s] = Amounts(Batch[s])

PInv == Kinds /\ Placed /\ Funded

\* What is open is a natural number, and covers what each worker holds.
LEMMA OpenType ==
  ASSUME Kinds, NEW rate \in Rates
  PROVE  /\ Open(rate) \in Nat
         /\ \A w \in Workers : Load(workers[w], rate) <= Open(rate)
  <1>1. /\ IsFiniteSet(Workers) /\ Carried(workers, rate) \in Nat
        /\ \A w \in Workers : /\ Load(workers[w], rate) \in Nat
                              /\ Loads(workers, rate)[w] = Load(workers[w], rate)
        /\ Carried(workers, rate)
             = SumFunctionOnSet(Loads(workers, rate), Workers)
    BY LoadType DEF Kinds
  <1>2. Weight(pendingDisbursements, rate) \in Nat
    BY WeightType DEF Kinds, Rates
  <1>3. \A w \in Workers : Load(workers[w], rate) <= Carried(workers, rate)
    BY <1>1, SumBounds
  <1> QED
    BY <1>1, <1>2, <1>3 DEF Open

\* Counting the workers that await an answer, when one of them changes.
LEMMA AwaitedChanged ==
  ASSUME NEW old \in [Workers -> Worker], NEW new \in [Workers -> Worker],
         NEW w \in Workers, \A v \in Workers \ {w} : new[v] = old[v]
  PROVE  /\ Cardinality(Awaited(old) \ {w}) \in Nat
         /\ Cardinality(Awaited(new))
              = Cardinality(Awaited(old) \ {w})
                + IF new[w].job # None THEN 1 ELSE 0
  <1>1. IsFiniteSet(Workers)
    BY DisbursementAssumption
  <1> DEFINE rest == Awaited(old) \ {w}
  <1>2. rest \subseteq Workers /\ w \notin rest
    BY DEF Awaited
  <1>3. Awaited(new) = IF new[w].job # None THEN rest \cup {w} ELSE rest
    BY DEF Awaited
  <1> HIDE DEF rest
  <1>4. IsFiniteSet(rest) /\ Cardinality(rest) \in Nat
    BY <1>1, <1>2, FS_Subset, FS_CardinalityType
  <1>5. Cardinality(rest \cup {w}) = Cardinality(rest) + 1
    BY <1>2, <1>4, FS_AddElement
  <1> QED
    BY <1>3, <1>4, <1>5 DEF rest

\* A worker goes on to its next job: what it held, and now has failed, stays.
LEMMA PopMoves ==
  ASSUME Kinds, NEW w \in Workers, NEW failed \in Seq(Jobs), NEW awaited,
         awaited = Cardinality(Awaited(workers) \ {w}),
         PopNext(w, pendingDisbursements, failed, awaited)
  PROVE  /\ pendingDisbursements' \in Seq(Jobs)
         /\ workers' \in [Workers -> Worker]
         /\ \A v \in Workers : /\ workers'[v].job = None => workers'[v] = Resting
                               /\ workers'[v].answer # "InsufficientFunds"
         /\ pendingCount' = Cardinality(Awaited(workers'))
         /\ \A rate \in Rates :
              Open(rate)' + Load(workers[w], rate)
                = Open(rate) + Weight(failed, rate)
  <1> DEFINE queue == pendingDisbursements
             n == Skipped(queue)
             head == SubSeq(queue, 1, n)
             kept == Reversed(head) \o failed
             job == queue[n + 1]
             rest == SubSeq(queue, n + 2, Len(queue))
             new == workers'[w]
  <1>1. queue \in Seq(Jobs) /\ n \in 0 .. Len(queue) /\ n \in Nat
    BY SkippedType DEF Kinds
  <1>2. /\ head \in Seq(Jobs)
        /\ n # Len(queue) => job \in Jobs /\ rest \in Seq(Jobs)
    <2>1. Only(None) \in [Jobs -> Nat]
      BY DEF Only
    <2> QED
      BY <1>1, <2>1, WeightOfParts
  <1>3. ASSUME NEW rate \in Rates
        PROVE  /\ n = Len(queue) => head = queue
               /\ n # Len(queue) =>
                    Weight(queue, rate)
                      = Weight(head, rate) + rate[job] + Weight(rest, rate)
               /\ kept \in Seq(Jobs)
               /\ Weight(kept, rate) = Weight(head, rate) + Weight(failed, rate)
    <2>1. rate \in [Jobs -> Nat]
      BY DEF Rates
    <2>2. /\ n = Len(queue) => head = queue
          /\ n # Len(queue) =>
               Weight(queue, rate)
                 = Weight(head, rate) + rate[job] + Weight(rest, rate)
      BY <1>1, <2>1, WeightOfParts
    <2>3. /\ Reversed(head) \in Seq(Jobs)
          /\ Weight(Reversed(head), rate) = Weight(head, rate)
      BY <1>2, <2>1, WeightReversed
    <2>4. /\ kept \in Seq(Jobs)
          /\ Weight(kept, rate)
               = Weight(Reversed(head), rate) + Weight(failed, rate)
      <3> HIDE DEF head
      <3>1. Reversed(head) \o failed \in Seq(Jobs)
        BY <2>3
      <3> QED
        BY <2>1, <2>3, <3>1, WeightOfTwo
    <2> QED
      BY <2>2, <2>3, <2>4
  <1>4. kept \in Seq(Jobs)
    <2>1. Only(None) \in Rates
      BY DEF Only, Rates
    <2> QED
      BY <1>3, <2>1
  <1>5. PopNext(w, queue, failed, awaited)
          <=> IF n = Len(queue)
              THEN /\ pendingDisbursements' = kept
                   /\ pendingCount' = awaited
                   /\ workers' = [workers EXCEPT ![w] = Resting]
              ELSE /\ pendingDisbursements' = rest
                   /\ pendingCount' = awaited + 1
                   /\ workers' = [workers EXCEPT ![w] = Awaiting(job, kept)]
    BY DEF PopNext
  <1>6. workers \in [Workers -> Worker]
    BY DEF Kinds
  <1> HIDE DEF head, kept, rest, job, n, queue
  <1>7. /\ pendingDisbursements' \in Seq(Jobs)
        /\ workers' \in [Workers -> Worker]
        /\ \A v \in Workers \ {w} : workers'[v] = workers[v]
        /\ new = IF n = Len(queue) THEN Resting ELSE Awaiting(job, kept)
    <2>1. Resting \in Worker /\ (n # Len(queue) => Awaiting(job, kept) \in Worker)
      <3>1. Only(None) \in Rates
        BY DEF Only, Rates
      <3> QED
        BY <1>2, <1>4, <3>1, LoadAtRest, LoadAwaiting
    <2> QED
      BY <1>2, <1>4, <1>5, <1>6, <2>1 DEF queue
  <1>8. /\ Resting.job = None /\ Resting.answer = None
        /\ Awaiting(job, kept).job = job /\ Awaiting(job, kept).answer = None
        /\ None # "InsufficientFunds"
    BY DisbursementAssumption DEF Resting, Awaiting, Answers
  <1>9. \A v \in Workers : /\ workers'[v].job = None => workers'[v] = Resting
                           /\ workers'[v].answer # "InsufficientFunds"
    BY <1>2, <1>7, <1>8, JobParts DEF Kinds
  <1>10. pendingCount' = Cardinality(Awaited(workers'))
    <2>1. /\ awaited \in Nat
          /\ Cardinality(Awaited(workers'))
               = awaited + IF new.job # None THEN 1 ELSE 0
      BY <1>6, <1>7, AwaitedChanged
    <2>2. (n = Len(queue)) <=> (new.job = None)
      BY <1>2, <1>7, <1>8, JobParts
    <2> QED
      BY <1>5, <2>1, <2>2 DEF queue
  <1>11. ASSUME NEW rate \in Rates
         PROVE  Open(rate)' + Load(workers[w], rate)
                  = Open(rate) + Weight(failed, rate)
    <2>1. Carried(workers', rate) + Load(workers[w], rate)
            = Carried(workers, rate) + Load(new, rate)
      BY <1>6, <1>7, LoadChanged
    <2>2. /\ Load(workers[w], rate) \in Nat /\ Load(new, rate) \in Nat
          /\ Carried(workers, rate) \in Nat /\ Carried(workers', rate) \in Nat
      BY <1>6, <1>7, LoadType
    <2>3. Weight(queue, rate) \in Nat /\ Weight(head, rate) \in Nat
          /\ Weight(kept, rate) \in Nat /\ Weight(failed, rate) \in Nat
          /\ (n # Len(queue) => Weight(rest, rate) \in Nat /\ rate[job] \in Nat)
      <3>1. rate \in [Jobs -> Nat]
        BY DEF Rates
      <3>2. queue \in Seq(Jobs)
        BY <1>1
      <3> QED
        BY <1>2, <1>4, <3>1, <3>2, WeightType
    <2>4. Open(rate)' = Weight(pendingDisbursements', rate)
                        + Carried(workers', rate)
      BY DEF Open
    <2>5. Open(rate) = Weight(queue, rate) + Carried(workers, rate)
      BY DEF Open, queue
    <2>6. CASE n = Len(queue)
      <3>1. pendingDisbursements' = kept /\ Load(new, rate) = 0
        BY <1>5, <1>7, <2>6, LoadAtRest DEF queue
      <3>2. Weight(kept, rate) = Weight(queue, rate) + Weight(failed, rate)
        BY <1>3, <2>6
      <3> QED
        BY <2>1, <2>2, <2>3, <2>4, <2>5, <3>1, <3>2
    <2>7. CASE n # Len(queue)
      <3>1. /\ pendingDisbursements' = rest
            /\ Load(new, rate) = Weight(kept, rate) + rate[job]
        BY <1>2, <1>4, <1>5, <1>7, <2>7, LoadAwaiting DEF queue
      <3>2. /\ Weight(kept, rate) = Weight(head, rate) + Weight(failed, rate)
            /\ Weight(queue, rate)
                 = Weight(head, rate) + rate[job] + Weight(rest, rate)
        BY <1>3, <2>7
      <3>3. /\ Weight(rest, rate) \in Nat /\ rate[job] \in Nat
            /\ Weight(head, rate) \in Nat /\ Weight(failed, rate) \in Nat
        BY <2>3, <2>7
      <3>4. Open(rate)' = Weight(rest, rate) + Carried(workers', rate)
        BY <2>4, <3>1
      <3>5. PICK h \in Nat : h = Weight(head, rate)
        BY <3>3
      <3>6. PICK f \in Nat : f = Weight(failed, rate)
        BY <3>3
      <3>7. PICK j \in Nat : j = rate[job]
        BY <3>3
      <3>8. PICK r \in Nat : r = Weight(rest, rate)
        BY <3>3
      <3>9. PICK l \in Nat : l = Load(workers[w], rate)
        BY <2>2
      <3>10. PICK c \in Nat : c = Carried(workers, rate)
        BY <2>2
      <3>11. PICK d \in Nat : d = Carried(workers', rate)
        BY <2>2
      <3>12. Load(new, rate) = (h + f) + j
        BY <3>1, <3>2, <3>5, <3>6, <3>7
      <3>13. d + l = c + ((h + f) + j)
        BY <2>1, <3>9, <3>10, <3>11, <3>12
      <3>14. Open(rate) = ((h + j) + r) + c
        BY <2>5, <3>2, <3>5, <3>7, <3>8, <3>10
      <3>15. (r + d) + l = (((h + j) + r) + c) + f
        BY <3>13
      <3> QED
        BY <3>4, <3>6, <3>8, <3>9, <3>11, <3>14, <3>15
    <2> QED
      BY <2>6, <2>7
  <1> QED
    BY <1>7, <1>9, <1>10, <1>11
-----------------------------------------------------------------------------
\* One action at a time.

\* What is left on a payment covers what a worker is about to ask for.
LEMMA AskingIsCovered ==
  ASSUME PInv, NEW w \in Workers, Asking(workers[w])
  PROVE  LET job == workers[w].job
         IN  /\ job \in Jobs /\ job.sub \in Sales
             /\ job.amount + LedgerFee \in Nat
             /\ balance[job.sub] \in Nat
             /\ job.amount + LedgerFee <= balance[job.sub]
  <1> DEFINE job == workers[w].job
             s == job.sub
             cost == job.amount + LedgerFee
  <1>1. job \in Jobs
    BY DEF PInv, Kinds, Worker, Asking
  <1>2. s \in Sales /\ cost \in Nat /\ Costs(s) \in Rates
    BY <1>1, JobParts
  <1>3. Costs(s)[job] = cost
    BY <1>1 DEF Costs
  <1>4. Load(workers[w], Costs(s))
          = Weight(workers[w].failed, Costs(s)) + Costs(s)[job]
    BY DEF Load
  <1>5. Weight(workers[w].failed, Costs(s)) \in Nat
    BY <1>2, LoadType DEF PInv, Kinds
  <1>6. /\ Open(Costs(s)) \in Nat
        /\ Load(workers[w], Costs(s)) <= Open(Costs(s))
    BY <1>2, OpenType DEF PInv
  <1>7. balance[s] \in Nat
    BY <1>2 DEF PInv, Kinds
  <1>8. Open(Costs(s)) <= balance[s]
    BY <1>2, <1>7 DEF PInv, Funded
  <1> HIDE DEF job, s, cost
  <1>9. cost <= Open(Costs(s))
    BY <1>2, <1>3, <1>4, <1>5, <1>6
  <1>10. cost <= balance[s]
    BY <1>2, <1>6, <1>7, <1>8, <1>9
  <1> QED
    BY <1>1, <1>2, <1>7, <1>10 DEF job, s, cost

\* A step that pays, deletes and sells nothing keeps the jobs in place and
\* the payments covered.
LEMMA QuietStep ==
  ASSUME PInv, \A rate \in Rates : Open(rate)' = Open(rate),
         UNCHANGED <<balance, paid, deleted, settled>>
  PROVE  Placed' /\ Funded'
  <1>1. \A job \in Jobs : Open(Only(job))' = Open(Only(job))
    BY JobParts
  <1>2. \A s \in Sales : Open(Costs(s))' = Open(Costs(s))
    BY JobParts
  <1>3. Placed'
    BY <1>1 DEF PInv, Placed
  <1>4. Funded'
    BY <1>2 DEF PInv, Funded
  <1> QED
    BY <1>3, <1>4

\* A worker that pops keeps the types.
LEMMA PopKinds ==
  ASSUME PInv, NEW w \in Workers, NEW failed \in Seq(Jobs), NEW awaited,
         awaited = Cardinality(Awaited(workers) \ {w}),
         PopNext(w, pendingDisbursements, failed, awaited),
         \A rate \in Rates : Load(workers[w], rate) = Weight(failed, rate),
         UNCHANGED <<balance, paid, dropped, deleted, settled>>
  PROVE  PInv'
  <1>1. Kinds
    BY DEF PInv
  <1>2. /\ pendingDisbursements' \in Seq(Jobs)
        /\ workers' \in [Workers -> Worker]
        /\ \A v \in Workers : /\ workers'[v].job = None => workers'[v] = Resting
                              /\ workers'[v].answer # "InsufficientFunds"
        /\ pendingCount' = Cardinality(Awaited(workers'))
    BY <1>1, PopMoves
  <1>3. ASSUME NEW rate \in Rates PROVE Open(rate)' = Open(rate)
    <2>1. Open(rate)' + Load(workers[w], rate)
            = Open(rate) + Weight(failed, rate)
      BY <1>1, PopMoves
    <2>2. Load(workers[w], rate) = Weight(failed, rate)
      OBVIOUS
    <2>3. Weight(failed, rate) \in Nat
      BY WeightType DEF Rates
    <2>4. Open(rate) \in Nat
      BY <1>1, OpenType
    <2>5. Open(rate)' \in Nat
      <3>1. Weight(pendingDisbursements', rate) \in Nat
        BY <1>2, WeightType DEF Rates
      <3>2. Carried(workers', rate) \in Nat
        BY <1>2, LoadType
      <3> QED
        BY <3>1, <3>2 DEF Open
    <2> QED
      BY <2>1, <2>2, <2>3, <2>4, <2>5
  <1>4. Kinds'
    BY <1>1, <1>2 DEF Kinds
  <1>5. Placed' /\ Funded'
    BY <1>3, QuietStep
  <1> QED
    BY <1>4, <1>5 DEF PInv

\* The heartbeat starts a worker.
LEMMA CronKeeps ==
  ASSUME PInv, NEW w \in Workers, CronDisbursements(w), UNCHANGED settled
  PROVE  PInv'
  <1> DEFINE none == << >>
  <1>1. none \in Seq(Jobs) /\ workers[w] = Resting /\ workers[w].job = None
    BY DEF CronDisbursements, Resting
  <1>2. PICK awaited : awaited = pendingCount
    OBVIOUS
  <1>3. awaited = Cardinality(Awaited(workers) \ {w})
    <2>1. Awaited(workers) \ {w} = Awaited(workers)
      BY <1>1 DEF Awaited
    <2> QED
      BY <1>2, <2>1 DEF PInv, Kinds
  <1>4. PopNext(w, pendingDisbursements, none, awaited)
    BY <1>2 DEF CronDisbursements
  <1>5. ASSUME NEW rate \in Rates
        PROVE  Load(workers[w], rate) = Weight(none, rate)
    <2>1. Weight(none, rate) = 0
      BY <1>1, WeightType DEF Rates
    <2> QED
      BY <1>1, <2>1, LoadAtRest
  <1> HIDE DEF none
  <1>6. UNCHANGED <<balance, paid, dropped, deleted, settled>>
    BY DEF CronDisbursements
  <1> QED
    BY <1>1, <1>3, <1>4, <1>5, <1>6, PopKinds

\* A worker with an answer has a job, and is one of those that are counted.
LEMMA Answered ==
  ASSUME Kinds, NEW w \in Workers, workers[w].answer # None
  PROVE  /\ workers[w].job \in Jobs
         /\ workers[w].failed \in Seq(Jobs)
         /\ pendingCount - 1 = Cardinality(Awaited(workers) \ {w})
  <1>1. Resting.answer = None
    BY DEF Resting
  <1>2. workers[w].job # None /\ workers[w] \in Worker
    BY <1>1 DEF Kinds
  <1>3. workers[w].job \in Jobs /\ workers[w].failed \in Seq(Jobs)
    BY <1>2 DEF Worker
  <1>4. pendingCount - 1 = Cardinality(Awaited(workers) \ {w})
    <2>1. /\ Cardinality(Awaited(workers) \ {w}) \in Nat
          /\ Cardinality(Awaited(workers))
               = Cardinality(Awaited(workers) \ {w})
                 + IF workers[w].job # None THEN 1 ELSE 0
      BY AwaitedChanged DEF Kinds
    <2> QED
      BY <1>2, <2>1 DEF Kinds
  <1> QED
    BY <1>3, <1>4

\* A worker takes the answer to a job that is done.
LEMMA CompletedKeeps ==
  ASSUME PInv, NEW w \in Workers, Completed(w), UNCHANGED settled
  PROVE  PInv'
  <1>1. workers[w].answer = "Ok" /\ workers[w].answer # None
    BY DisbursementAssumption DEF Completed, Answers
  <1>2. /\ workers[w].failed \in Seq(Jobs)
        /\ pendingCount - 1 = Cardinality(Awaited(workers) \ {w})
    BY <1>1, Answered DEF PInv
  <1>3. PICK failed \in Seq(Jobs) : failed = workers[w].failed
    BY <1>2
  <1>4. PICK awaited : awaited = pendingCount - 1
    OBVIOUS
  <1>5. PopNext(w, pendingDisbursements, failed, awaited)
    BY <1>3, <1>4 DEF Completed
  <1>6. ASSUME NEW rate \in Rates
        PROVE  Load(workers[w], rate) = Weight(failed, rate)
    <2>1. Weight(failed, rate) \in Nat
      BY WeightType DEF Rates
    <2> QED
      BY <1>1, <1>3, <2>1 DEF Load, Asking
  <1>7. UNCHANGED <<balance, paid, dropped, deleted, settled>>
    BY DEF Completed
  <1>8. awaited = Cardinality(Awaited(workers) \ {w})
    BY <1>2, <1>4
  <1> QED
    BY <1>5, <1>6, <1>7, <1>8, PopKinds

\* A worker keeps a job for later.
LEMMA RetryKeeps ==
  ASSUME PInv, NEW w \in Workers, Retry(w), UNCHANGED settled
  PROVE  PInv'
  <1>1. /\ workers[w].answer \in {"BadFee", "reject"}
        /\ workers[w].answer # None /\ workers[w].answer # "Ok"
    BY DisbursementAssumption DEF Retry, Answers
  <1>2. /\ workers[w].failed \in Seq(Jobs) /\ workers[w].job \in Jobs
        /\ pendingCount - 1 = Cardinality(Awaited(workers) \ {w})
    BY <1>1, Answered DEF PInv
  <1>3. PICK failed \in Seq(Jobs) : failed = workers[w].failed
    BY <1>2
  <1>4. PICK job \in Jobs : job = workers[w].job
    BY <1>2
  <1>5. PICK awaited : awaited = pendingCount - 1
    OBVIOUS
  <1>6. PICK kept : kept = <<job>> \o failed
    OBVIOUS
  <1>7. kept \in Seq(Jobs)
    BY <1>6
  <1>8. PopNext(w, pendingDisbursements, kept, awaited)
    BY <1>3, <1>4, <1>5, <1>6 DEF Retry
  <1>9. ASSUME NEW rate \in Rates
        PROVE  Load(workers[w], rate) = Weight(kept, rate)
    <2>1. Weight(kept, rate) = rate[job] + Weight(failed, rate)
      BY <1>6, WeightOfHead DEF Rates
    <2>2. Weight(failed, rate) \in Nat /\ rate[job] \in Nat
      BY WeightType DEF Rates
    <2>3. Asking(workers[w])
      BY <1>1, <1>2, JobParts DEF Asking
    <2>4. Load(workers[w], rate) = Weight(failed, rate) + rate[job]
      BY <1>3, <1>4, <2>3 DEF Load
    <2> QED
      BY <2>1, <2>2, <2>4
  <1>10. UNCHANGED <<balance, paid, dropped, deleted, settled>>
    BY DEF Retry
  <1>11. awaited = Cardinality(Awaited(workers) \ {w})
    BY <1>2, <1>5
  <1> QED
    BY <1>7, <1>8, <1>9, <1>10, <1>11, PopKinds
\* The ledger answers a worker: only the answer changes.
LEMMA AnswerMoves ==
  ASSUME Kinds, NEW w \in Workers, workers[w].job # None,
         workers[w].answer = None, NEW answer \in Answers,
         answer # "InsufficientFunds",
         workers' = [workers EXCEPT ![w].answer = answer],
         UNCHANGED <<pendingDisbursements, pendingCount>>
  PROVE  /\ pendingDisbursements' \in Seq(Jobs)
         /\ workers' \in [Workers -> Worker]
         /\ \A v \in Workers : /\ workers'[v].job = None => workers'[v] = Resting
                               /\ workers'[v].answer # "InsufficientFunds"
         /\ pendingCount' = Cardinality(Awaited(workers'))
         /\ workers[w].job \in Jobs
         /\ \A rate \in Rates :
              Open(rate)' + (IF answer = "Ok" THEN rate[workers[w].job] ELSE 0)
                = Open(rate)
  <1> DEFINE old == workers[w]
             new == workers'[w]
  <1>1. workers \in [Workers -> Worker] /\ old \in Worker
    BY DEF Kinds
  <1>2. old.job \in Jobs /\ old.failed \in Seq(Jobs) /\ Asking(old)
    BY <1>1, DisbursementAssumption DEF Worker, Asking, Answers
  <1>3. new = [old EXCEPT !.answer = answer]
    BY <1>1
  <1>4. /\ new \in Worker
        /\ new.job = old.job /\ new.failed = old.failed /\ new.answer = answer
    BY <1>1, <1>3 DEF Worker
  <1>5. /\ workers' \in [Workers -> Worker]
        /\ \A v \in Workers \ {w} : workers'[v] = workers[v]
    BY <1>1, <1>3, <1>4
  <1> HIDE DEF old, new
  <1>6. \A v \in Workers : /\ workers'[v].job = None => workers'[v] = Resting
                           /\ workers'[v].answer # "InsufficientFunds"
    BY <1>2, <1>4, <1>5, JobParts DEF Kinds, new
  <1>7. Awaited(workers') = Awaited(workers)
    BY <1>4, <1>5 DEF Awaited, old, new
  <1>8. pendingDisbursements' \in Seq(Jobs)
    BY DEF Kinds
  <1>9. pendingCount' = Cardinality(Awaited(workers'))
    BY <1>7 DEF Kinds
  <1>10. ASSUME NEW rate \in Rates
         PROVE  Open(rate)' + (IF answer = "Ok" THEN rate[old.job] ELSE 0)
                  = Open(rate)
    <2>1. Carried(workers', rate) + Load(old, rate)
            = Carried(workers, rate) + Load(new, rate)
      <3>1. Carried(workers', rate) + Load(workers[w], rate)
              = Carried(workers, rate) + Load(workers'[w], rate)
        <4>1. PICK ws : ws = workers'
          OBVIOUS
        <4>2. /\ workers \in [Workers -> Worker] /\ ws \in [Workers -> Worker]
              /\ \A v \in Workers \ {w} : ws[v] = workers[v]
          BY <1>1, <1>5, <4>1, Zenon
        <4>3. Carried(ws, rate) + Load(workers[w], rate)
                = Carried(workers, rate) + Load(ws[w], rate)
          BY <4>2, LoadChanged, Zenon
        <4> QED
          BY <4>1, <4>3, Zenon
      <3> QED
        BY <3>1 DEF old, new
    <2>2. PICK f \in Nat : f = Weight(old.failed, rate)
      BY <1>2, WeightType DEF Rates
    <2>3. PICK j \in Nat : j = rate[old.job]
      BY <1>2 DEF Rates
    <2>4. Load(old, rate) = f + j
      BY <1>2, <2>2, <2>3 DEF Load
    <2>5. Load(new, rate) = f + IF answer = "Ok" THEN 0 ELSE j
      <3>1. Asking(new) <=> answer # "Ok"
        BY <1>2, <1>4 DEF Asking
      <3> QED
        BY <1>4, <2>2, <2>3, <3>1 DEF Load
    <2>6. PICK c \in Nat : c = Carried(workers, rate)
      BY <1>1, LoadType
    <2>7. PICK d \in Nat : d = Carried(workers', rate)
      BY <1>5, LoadType
    <2>8. PICK q \in Nat : q = Weight(pendingDisbursements, rate)
      BY WeightType DEF Rates, Kinds
    <2>9. d + (f + j) = c + (f + IF answer = "Ok" THEN 0 ELSE j)
      BY <2>1, <2>4, <2>5, <2>6, <2>7
    <2>10. (q + d) + (IF answer = "Ok" THEN j ELSE 0) = q + c
      BY <2>9
    <2>11. Open(rate) = q + c /\ Open(rate)' = q + d
      BY <2>6, <2>7, <2>8 DEF Open
    <2> QED
      BY <2>3, <2>10, <2>11
  <1> QED
    BY <1>2, <1>5, <1>6, <1>8, <1>9, <1>10 DEF old

\* The ledger turns a transfer away, and not for want of funds.
LEMMA RefusalKeeps ==
  ASSUME PInv, NEW w \in Workers, LedgerRefusal(w), UNCHANGED settled
  PROVE  PInv'
  <1>1. /\ workers[w].job # None /\ workers[w].answer = None
        /\ UNCHANGED <<pendingDisbursements, pendingCount, balance, paid,
                       dropped, deleted>>
    BY DEF LedgerRefusal
  <1>2. PICK answer \in Answers \ {"Ok"} :
          /\ answer = "InsufficientFunds" =>
               balance[workers[w].job.sub] < workers[w].job.amount + LedgerFee
          /\ workers' = [workers EXCEPT ![w].answer = answer]
    BY DEF LedgerRefusal
  <1>3. Asking(workers[w])
    BY <1>1, DisbursementAssumption DEF Asking, Answers
  <1>4. answer # "InsufficientFunds"
    BY <1>2, <1>3, AskingIsCovered
  <1>5. Kinds
    BY DEF PInv
  <1>6. /\ pendingDisbursements' \in Seq(Jobs)
        /\ workers' \in [Workers -> Worker]
        /\ \A v \in Workers : /\ workers'[v].job = None => workers'[v] = Resting
                              /\ workers'[v].answer # "InsufficientFunds"
        /\ pendingCount' = Cardinality(Awaited(workers'))
        /\ \A rate \in Rates : Open(rate)' + 0 = Open(rate)
    BY <1>1, <1>2, <1>4, <1>5, AnswerMoves
  <1>7. \A rate \in Rates : Open(rate)' = Open(rate)
    <2> SUFFICES ASSUME NEW rate \in Rates PROVE Open(rate)' = Open(rate)
      OBVIOUS
    <2>1. Weight(pendingDisbursements', rate) \in Nat
      BY <1>6, WeightType DEF Rates
    <2>2. Carried(workers', rate) \in Nat
      BY <1>6, LoadType
    <2> QED
      BY <1>6, <2>1, <2>2 DEF Open
  <1>8. Kinds'
    BY <1>1, <1>5, <1>6 DEF Kinds
  <1>9. Placed' /\ Funded'
    BY <1>1, <1>7, QuietStep
  <1> QED
    BY <1>8, <1>9 DEF PInv

\* A job goes into a bag.
LEMMA TimesOfOne ==
  ASSUME NEW bag, NEW job, NEW other, Times(other, bag) \in Nat
  PROVE  Times(other, bag (+) One(job))
           = Times(other, bag) + IF other = job THEN 1 ELSE 0
  <1>1. DOMAIN (bag (+) One(job)) = DOMAIN bag \cup {job}
    BY DEF (+), One, SetToBag
  <1>2. other \in DOMAIN bag \cup {job} =>
          (bag (+) One(job))[other]
            = (IF other \in DOMAIN bag THEN bag[other] ELSE 0)
              + (IF other \in {job} THEN 1 ELSE 0)
    BY DEF (+), One, SetToBag
  <1> QED
    BY <1>1, <1>2 DEF Times

\* The ledger carries a transfer out.
LEMMA TransferKeeps ==
  ASSUME PInv, NEW w \in Workers, LedgerTransfer(w), UNCHANGED settled
  PROVE  PInv'
  <1> DEFINE job == workers[w].job
             s == job.sub
             cost == job.amount + LedgerFee
  <1>1. /\ job # None /\ workers[w].answer = None
        /\ balance[s] >= cost
        /\ balance' = [balance EXCEPT ![s] = @ - cost]
        /\ paid' = paid (+) One(job)
        /\ workers' = [workers EXCEPT ![w].answer = "Ok"]
        /\ UNCHANGED <<pendingDisbursements, pendingCount, dropped, deleted>>
    BY DEF LedgerTransfer
  <1>2. Kinds
    BY DEF PInv
  <1>3. "Ok" \in Answers
    BY DEF Answers
  <1>4. /\ pendingDisbursements' \in Seq(Jobs)
        /\ workers' \in [Workers -> Worker]
        /\ \A v \in Workers : /\ workers'[v].job = None => workers'[v] = Resting
                              /\ workers'[v].answer # "InsufficientFunds"
        /\ pendingCount' = Cardinality(Awaited(workers'))
        /\ job \in Jobs
        /\ \A rate \in Rates : Open(rate)' + rate[job] = Open(rate)
    BY <1>1, <1>2, <1>3, AnswerMoves
  <1>5. s \in Sales /\ cost \in Nat
    BY <1>4, JobParts
  <1>6. \A rate \in Rates : Open(rate)' \in Nat /\ Open(rate) \in Nat
    <2> SUFFICES ASSUME NEW rate \in Rates
                 PROVE  Open(rate)' \in Nat /\ Open(rate) \in Nat
      OBVIOUS
    <2>1. Weight(pendingDisbursements', rate) \in Nat
      BY <1>4, WeightType DEF Rates
    <2>2. Carried(workers', rate) \in Nat
      BY <1>4, LoadType
    <2> QED
      BY <1>2, <2>1, <2>2, OpenType DEF Open
  <1>7. /\ balance \in [Sales -> Nat] /\ balance' \in [Sales -> Nat]
        /\ balance'[s] = balance[s] - cost
        /\ \A r \in Sales \ {s} : balance'[r] = balance[r]
    <2> HIDE DEF s, cost
    <2>1. balance \in [Sales -> Nat] /\ balance[s] - cost \in Nat
      BY <1>1, <1>2, <1>5 DEF Kinds
    <2> QED
      BY <1>1, <1>5, <2>1
  <1>8. \A other \in Jobs :
          /\ Times(other, paid) \in Nat
          /\ Times(other, deleted) \in Nat
          /\ Times(other, paid)'
               = Times(other, paid) + IF other = job THEN 1 ELSE 0
          /\ Times(other, deleted)' = Times(other, deleted)
    <2> SUFFICES ASSUME NEW other \in Jobs
                 PROVE  /\ Times(other, paid) \in Nat
                        /\ Times(other, deleted) \in Nat
                        /\ Times(other, paid)'
                             = Times(other, paid) + IF other = job THEN 1 ELSE 0
                        /\ Times(other, deleted)' = Times(other, deleted)
      OBVIOUS
    <2>1. Times(other, paid) \in Nat /\ Times(other, deleted) \in Nat
      BY <1>2 DEF Kinds
    <2>2. Times(other, paid)' = Times(other, paid (+) One(job))
      BY <1>1 DEF Times
    <2>3. Times(other, deleted)' = Times(other, deleted)
      BY <1>1 DEF Times
    <2>4. Times(other, paid (+) One(job))
            = Times(other, paid) + IF other = job THEN 1 ELSE 0
      BY <2>1, TimesOfOne
    <2> QED
      BY <2>1, <2>2, <2>3, <2>4
  <1> HIDE DEF job
  <1>9. Kinds'
    BY <1>1, <1>2, <1>4, <1>7, <1>8 DEF Kinds
  <1>10. Placed'
    <2> SUFFICES ASSUME NEW other \in Jobs
                 PROVE  (Open(Only(other)) + Times(other, paid)
                         + Times(other, deleted)
                           = IF other.sub \in settled
                             THEN Copies(other, Batch[other.sub]) ELSE 0)'
      BY DEF Placed
    <2>1. Only(other) \in Rates
      BY JobParts
    <2>2. Only(other)[job] = IF other = job THEN 1 ELSE 0
      BY <1>4 DEF Only
    <2>3. Open(Only(other))' + (IF other = job THEN 1 ELSE 0)
            = Open(Only(other))
      BY <1>4, <2>1, <2>2
    <2>4. PICK a \in Nat : a = Open(Only(other))
      BY <1>6, <2>1
    <2>5. PICK b \in Nat : b = Open(Only(other))'
      BY <1>6, <2>1
    <2>6. PICK p \in Nat : p = Times(other, paid)
      BY <1>8
    <2>7. PICK d \in Nat : d = Times(other, deleted)
      BY <1>8
    <2>8. a + p + d = IF other.sub \in settled
                      THEN Copies(other, Batch[other.sub]) ELSE 0
      BY <2>4, <2>6, <2>7 DEF PInv, Placed
    <2>9. b + (p + IF other = job THEN 1 ELSE 0) + d = a + p + d
      BY <2>3, <2>4, <2>5
    <2>10. Open(Only(other))' + Times(other, paid)' + Times(other, deleted)'
             = IF other.sub \in settled
               THEN Copies(other, Batch[other.sub]) ELSE 0
      BY <1>8, <2>5, <2>6, <2>7, <2>8, <2>9
    <2> QED
      BY <2>10
  <1>11. Funded'
    <2> SUFFICES ASSUME NEW r \in Sales
                 PROVE  (/\ r \in settled => Open(Costs(r)) <= balance[r]
                         /\ r \notin settled =>
                              /\ Open(Costs(r)) = 0
                              /\ balance[r] = Amounts(Batch[r]))'
      BY DEF Funded
    <2>1. Costs(r) \in Rates
      BY JobParts
    <2>2. PICK c \in Nat : c = IF r = s THEN cost ELSE 0
      BY <1>5
    <2>3. Costs(r)[job] = c
      BY <1>4, <2>2 DEF Costs
    <2>4. PICK a \in Nat : a = Open(Costs(r))
      BY <1>6, <2>1
    <2>5. PICK b \in Nat : b = Open(Costs(r))'
      BY <1>6, <2>1
    <2>6. b + c = a
      BY <1>4, <2>1, <2>3, <2>4, <2>5
    <2>7. PICK m \in Nat : m = balance[r]
      BY <1>7
    <2>8. balance'[r] = m - c
      <3> HIDE DEF s, cost
      <3>1. CASE r = s
        BY <1>7, <2>2, <2>7, <3>1
      <3>2. CASE r # s
        BY <1>7, <2>2, <2>7, <3>2
      <3> QED
        BY <3>1, <3>2
    <2>9. /\ r \in settled => a <= m
          /\ r \notin settled => a = 0 /\ m = Amounts(Batch[r])
      BY <2>4, <2>7 DEF PInv, Funded
    <2>10. /\ r \in settled => b <= m - c
           /\ r \notin settled => b = 0 /\ m - c = Amounts(Batch[r])
      BY <2>6, <2>9
    <2>11. /\ r \in settled => Open(Costs(r))' <= balance'[r]
           /\ r \notin settled => /\ Open(Costs(r))' = 0
                                  /\ balance'[r] = Amounts(Batch[r])
      BY <2>5, <2>8, <2>10
    <2> QED
      BY <2>11
  <1> QED
    BY <1>9, <1>10, <1>11 DEF PInv
\* An admin deletes jobs of the queue.
LEMMA DeleteKeeps ==
  ASSUME PInv, NEW token, NEW to, NEW amount,
         DeleteDisbursementJob(token, to, amount), UNCHANGED settled
  PROVE  PInv'
  <1> DEFINE queue == pendingDisbursements
             gone == {k \in DOMAIN queue :
                        /\ queue[k].token = token /\ queue[k].to = to
                        /\ queue[k].amount = amount}
             taken == [job \in {queue[k] : k \in gone} |->
                         Cardinality({k \in gone : queue[k] = job})]
  <1>1. /\ pendingDisbursements' = Without(queue, gone)
        /\ deleted' = deleted (+) taken
        /\ UNCHANGED <<pendingCount, workers, balance, paid, dropped>>
    BY DEF DeleteDisbursementJob
  <1>2. Kinds /\ queue \in Seq(Jobs)
    BY DEF PInv, Kinds
  <1>3. /\ DOMAIN queue = 1 .. Len(queue) /\ Len(queue) \in Nat
        /\ gone \in SUBSET (1 .. Len(queue))
    BY <1>2
  <1>4. IsFiniteSet(gone)
    <2>1. IsFiniteSet(1 .. Len(queue))
      BY <1>3, FS_Interval
    <2> QED
      BY <1>3, <2>1, FS_Subset
  <1> HIDE DEF gone
  <1>5. /\ pendingDisbursements' \in Seq(Jobs)
        /\ \A rate \in Rates :
             Weight(queue, rate)
               = Weight(pendingDisbursements', rate)
                 + SumFunctionOnSet(Weights(queue, rate), gone)
    <2>1. Only(None) \in [Jobs -> Nat]
      BY DEF Only
    <2>2. Without(queue, gone) \in Seq(Jobs)
      BY <1>2, <1>3, <2>1, WeightWithout
    <2>3. \A rate \in Rates :
            Weight(queue, rate)
              = Weight(Without(queue, gone), rate)
                + SumFunctionOnSet(Weights(queue, rate), gone)
      BY <1>2, <1>3, WeightWithout DEF Rates
    <2> HIDE DEF queue
    <2> QED
      BY <1>1, <2>2, <2>3
  <1>6. ASSUME NEW rate \in Rates
        PROVE  /\ SumFunctionOnSet(Weights(queue, rate), gone) \in Nat
               /\ Open(rate) \in Nat /\ Open(rate)' \in Nat
               /\ Open(rate) = Open(rate)'
                               + SumFunctionOnSet(Weights(queue, rate), gone)
    <2>1. \A k \in gone : Weights(queue, rate)[k] \in Nat
      BY <1>2, <1>3, WeightIsSum DEF Rates
    <2>2. PICK g \in Nat : g = SumFunctionOnSet(Weights(queue, rate), gone)
      BY <1>4, <2>1, SumOfOne
    <2>3. PICK a \in Nat : a = Weight(queue, rate)
      BY <1>2, WeightType DEF Rates
    <2>4. PICK b \in Nat : b = Weight(pendingDisbursements', rate)
      BY <1>5, WeightType DEF Rates
    <2>5. PICK c \in Nat : c = Carried(workers, rate)
      BY <1>2, LoadType DEF Kinds
    <2>6. a = b + g
      BY <1>5, <2>2, <2>3, <2>4
    <2>7. Open(rate) = a + c /\ Open(rate)' = b + c
      BY <1>1, <2>3, <2>4, <2>5 DEF Open
    <2> QED
      BY <2>2, <2>6, <2>7
  <1>7. ASSUME NEW job \in Jobs
        PROVE  /\ Times(job, deleted)' \in Nat
               /\ Times(job, deleted)'
                    = Times(job, deleted)
                      + SumFunctionOnSet(Weights(queue, Only(job)), gone)
    <2> DEFINE T == {k \in gone : queue[k] = job}
               f == Weights(queue, Only(job))
    <2>1. \A k \in gone : f[k] = IF k \in T THEN 1 ELSE 0
      <3>1. Only(job) \in [Jobs -> Nat]
        BY DEF Only
      <3>2. \A k \in 1 .. Len(queue) : f[k] = Only(job)[queue[k]]
        BY <1>2, <3>1, WeightIsSum
      <3>3. \A k \in gone : k \in 1 .. Len(queue) /\ queue[k] \in Jobs
        BY <1>2, <1>3
      <3> HIDE DEF f
      <3> QED
        BY <3>2, <3>3 DEF Only
    <2>2. SumFunctionOnSet(f, gone) = Cardinality(T) /\ Cardinality(T) \in Nat
      <3>1. T \in SUBSET gone
        OBVIOUS
      <3> HIDE DEF f, T
      <3> QED
        BY <1>4, <2>1, <3>1, SumCounts
    <2>3. Times(job, deleted (+) taken) = Times(job, deleted) + Cardinality(T)
      <3>1. DOMAIN taken = {queue[k] : k \in gone}
        OBVIOUS
      <3>2. job \in DOMAIN taken => taken[job] = Cardinality(T)
        OBVIOUS
      <3>3. job \notin DOMAIN taken => Cardinality(T) = 0
        <4>1. job \notin DOMAIN taken => T = {}
          OBVIOUS
        <4> HIDE DEF taken, T
        <4> QED
          BY <4>1, FS_EmptySet
      <3>4. Times(job, deleted) \in Nat
        BY <1>2 DEF Kinds
      <3> HIDE DEF taken, T
      <3>5. /\ DOMAIN (deleted (+) taken) = DOMAIN deleted \cup DOMAIN taken
            /\ job \in DOMAIN deleted \cup DOMAIN taken =>
                 (deleted (+) taken)[job]
                   = (IF job \in DOMAIN deleted THEN deleted[job] ELSE 0)
                     + (IF job \in DOMAIN taken THEN taken[job] ELSE 0)
        BY DEF (+)
      <3>6. Times(job, deleted)
              = IF job \in DOMAIN deleted THEN deleted[job] ELSE 0
        BY DEF Times
      <3>7. Times(job, deleted (+) taken)
              = Times(job, deleted)
                + IF job \in DOMAIN taken THEN taken[job] ELSE 0
        <4>1. CASE job \in DOMAIN deleted \cup DOMAIN taken
          BY <3>5, <3>6, <4>1 DEF Times
        <4>2. CASE job \notin DOMAIN deleted \cup DOMAIN taken
          BY <3>4, <3>5, <3>6, <4>2 DEF Times
        <4> QED
          BY <4>1, <4>2
      <3> QED
        BY <2>2, <3>2, <3>3, <3>4, <3>7
    <2>4. Times(job, deleted)' = Times(job, deleted (+) taken)
      BY <1>1 DEF Times
    <2>5. Times(job, deleted) \in Nat
      BY <1>2 DEF Kinds
    <2> HIDE DEF f, T, taken
    <2> QED
      BY <2>2, <2>3, <2>4, <2>5 DEF f
  <1> HIDE DEF taken, queue
  <1>8. Kinds'
    <2>1. \A job \in Jobs : /\ Times(job, deleted)' \in Nat
                            /\ Times(job, paid)' \in Nat
      <3> SUFFICES ASSUME NEW job \in Jobs
                   PROVE  /\ Times(job, deleted)' \in Nat
                          /\ Times(job, paid)' \in Nat
        OBVIOUS
      <3>1. Times(job, paid)' = Times(job, paid)
        BY <1>1 DEF Times
      <3> QED
        BY <1>2, <1>7, <3>1 DEF Kinds
    <2> QED
      BY <1>1, <1>2, <1>5, <2>1 DEF Kinds
  <1>9. Placed'
    <2> SUFFICES ASSUME NEW job \in Jobs
                 PROVE  (Open(Only(job)) + Times(job, paid) + Times(job, deleted)
                           = IF job.sub \in settled
                             THEN Copies(job, Batch[job.sub]) ELSE 0)'
      BY DEF Placed
    <2>1. Only(job) \in Rates
      BY JobParts
    <2>2. PICK g \in Nat :
            g = SumFunctionOnSet(Weights(queue, Only(job)), gone)
      BY <1>6, <2>1
    <2>3. PICK b \in Nat : b = Open(Only(job))'
      BY <1>6, <2>1
    <2>4. Open(Only(job)) = b + g
      BY <1>6, <2>1, <2>2, <2>3
    <2>5. PICK p \in Nat : p = Times(job, paid)
      BY <1>2 DEF Kinds
    <2>6. PICK d \in Nat : d = Times(job, deleted)
      BY <1>2 DEF Kinds
    <2>7. (b + g) + p + d = IF job.sub \in settled
                            THEN Copies(job, Batch[job.sub]) ELSE 0
      BY <2>4, <2>5, <2>6 DEF PInv, Placed
    <2>8. b + p + (d + g) = (b + g) + p + d
      OBVIOUS
    <2>9. Times(job, deleted)' = d + g /\ Times(job, paid)' = p
      BY <1>1, <1>7, <2>2, <2>5, <2>6 DEF Times
    <2>10. Open(Only(job))' + Times(job, paid)' + Times(job, deleted)'
             = IF job.sub \in settled
               THEN Copies(job, Batch[job.sub]) ELSE 0
      BY <2>3, <2>7, <2>8, <2>9
    <2> QED
      BY <2>10
  <1>10. Funded'
    <2> SUFFICES ASSUME NEW r \in Sales
                 PROVE  (/\ r \in settled => Open(Costs(r)) <= balance[r]
                         /\ r \notin settled =>
                              /\ Open(Costs(r)) = 0
                              /\ balance[r] = Amounts(Batch[r]))'
      BY DEF Funded
    <2>1. Costs(r) \in Rates
      BY JobParts
    <2>2. PICK g \in Nat : g = SumFunctionOnSet(Weights(queue, Costs(r)), gone)
      BY <1>6, <2>1
    <2>3. PICK b \in Nat : b = Open(Costs(r))'
      BY <1>6, <2>1
    <2>4. Open(Costs(r)) = b + g
      BY <1>6, <2>1, <2>2, <2>3
    <2>5. PICK m \in Nat : m = balance[r]
      BY <1>2 DEF Kinds
    <2>6. /\ r \in settled => b + g <= m
          /\ r \notin settled => b + g = 0 /\ m = Amounts(Batch[r])
      BY <2>4, <2>5 DEF PInv, Funded
    <2>7. /\ r \in settled => b <= m
          /\ r \notin settled => b = 0 /\ m = Amounts(Batch[r])
      BY <2>6
    <2> QED
      BY <1>1, <2>3, <2>5, <2>7
  <1> QED
    BY <1>8, <1>9, <1>10 DEF PInv
\* What the jobs of a sale weigh.
LEMMA WeightOfBatch ==
  ASSUME NEW s \in Sales
  PROVE  /\ Batch[s] \in Seq(Jobs)
         /\ \A job \in Jobs :
              /\ Weight(Batch[s], Only(job)) = Copies(job, Batch[s])
              /\ Copies(job, Batch[s]) \in Nat
              /\ job.sub # s => Copies(job, Batch[s]) = 0
         /\ Weight(Batch[s], Costs(s)) = Amounts(Batch[s])
         /\ \A r \in Sales \ {s} : Weight(Batch[s], Costs(r)) = 0
         /\ Amounts(Batch[s]) \in Nat
  <1> DEFINE q == Batch[s]
             D == 1 .. Len(q)
  <1>1. q \in Seq(Jobs)
    BY JobParts
  <1>2. /\ DOMAIN q = D /\ IsFiniteSet(D)
        /\ \A k \in D : q[k] \in Jobs
    <2>1. IsFiniteSet(D)
      BY <1>1, FS_Interval
    <2> QED
      BY <1>1, <2>1
  <1>3. \A k \in D : q[k].sub = s
    <2>1. \A k \in D : q[k] \in JobsOf(s)
      BY <1>2 DEF JobsOf
    <2> QED
      BY <2>1, PayoutAssumption
  <1> HIDE DEF q
  <1>4. ASSUME NEW job \in Jobs
        PROVE  /\ Weight(q, Only(job)) = Copies(job, q)
               /\ Copies(job, q) \in Nat
               /\ job.sub # s => Copies(job, q) = 0
    <2>1. Weight(q, Only(job)) = Copies(job, q) /\ Copies(job, q) \in Nat
      BY <1>1, OnlyCounts
    <2>2. ASSUME job.sub # s PROVE Copies(job, q) = 0
      <3>1. {k \in DOMAIN q : q[k] = job} = {}
        BY <1>2, <1>3, <2>2
      <3> QED
        BY <3>1, FS_EmptySet DEF Copies
    <2> QED
      BY <2>1, <2>2
  <1>5. ASSUME NEW r \in Sales
        PROVE  /\ Costs(r) \in [Jobs -> Nat]
               /\ Weight(q, Costs(r)) = SumFunctionOnSet(Weights(q, Costs(r)), D)
               /\ Weight(q, Costs(r)) \in Nat
               /\ \A k \in D : Weights(q, Costs(r))[k]
                                 = IF s = r THEN q[k].amount + LedgerFee ELSE 0
    <2>1. Costs(r) \in [Jobs -> Nat]
      BY JobParts DEF Rates
    <2>2. /\ Weight(q, Costs(r)) = SumFunctionOnSet(Weights(q, Costs(r)), D)
          /\ \A k \in D : Weights(q, Costs(r))[k] = Costs(r)[q[k]]
      BY <1>1, <2>1, WeightIsSum
    <2>3. \A k \in D : Costs(r)[q[k]]
                         = IF s = r THEN q[k].amount + LedgerFee ELSE 0
      BY <1>2, <1>3 DEF Costs
    <2>4. Weight(q, Costs(r)) \in Nat
      BY <1>1, <2>1, WeightType
    <2> QED
      BY <2>1, <2>2, <2>3, <2>4
  <1>6. Weight(q, Costs(s)) = Amounts(q)
    <2> DEFINE f == Weights(q, Costs(s))
               g == [k \in DOMAIN q |-> q[k].amount + LedgerFee]
    <2>1. DOMAIN g = D /\ \A k \in D : g[k] = q[k].amount + LedgerFee
      BY <1>2
    <2>2. Amounts(q) = SumFunction(g)
      BY DEF Amounts
    <2>3. \A k \in D : g[k] \in Nat
      BY <1>2, <2>1, JobParts
    <2> HIDE DEF f, g
    <2>4. Amounts(q) = SumFunctionOnSet(g, D)
      BY <2>1, <2>2 DEF SumFunction
    <2>5. \A k \in D : g[k] = f[k]
      BY <1>5, <2>1 DEF f
    <2>6. SumFunctionOnSet(g, D) = SumFunctionOnSet(f, D)
      BY <1>2, <2>3, <2>5, SumSame
    <2> QED
      BY <1>5, <2>4, <2>6 DEF f
  <1>7. ASSUME NEW r \in Sales \ {s} PROVE Weight(q, Costs(r)) = 0
    <2> DEFINE f == Weights(q, Costs(r))
    <2>1. \A k \in D : f[k] = IF k \in {} THEN 1 ELSE 0
      BY <1>5
    <2>2. Weight(q, Costs(r)) = SumFunctionOnSet(f, D)
      BY <1>5
    <2> HIDE DEF f, D
    <2>3. SumFunctionOnSet(f, D) = Cardinality({})
      BY <1>2, <2>1, SumCounts
    <2> QED
      BY <2>2, <2>3, FS_EmptySet
  <1>8. Amounts(q) \in Nat
    BY <1>5, <1>6
  <1> QED
    BY <1>1, <1>4, <1>6, <1>7, <1>8 DEF q

\* A sale queues its jobs.
LEMMA SellKeeps ==
  ASSUME PInv, NEW s \in Sales, Sell(s)
  PROVE  PInv'
  <1>1. /\ s \notin settled /\ settled' = settled \cup {s}
        /\ pendingDisbursements' = Batch[s] \o pendingDisbursements
        /\ UNCHANGED <<pendingCount, workers, balance, paid, dropped, deleted>>
    BY DEF Sell, AddDisbursements
  <1>2. Kinds
    BY DEF PInv
  <1>3. /\ Batch[s] \in Seq(Jobs) /\ pendingDisbursements \in Seq(Jobs)
        /\ Batch[s] \o pendingDisbursements \in Seq(Jobs)
    BY <1>2, WeightOfBatch DEF Kinds
  <1>4. ASSUME NEW rate \in Rates
        PROVE  /\ Weight(Batch[s], rate) \in Nat
               /\ Open(rate) \in Nat
               /\ Open(rate)' = Weight(Batch[s], rate) + Open(rate)
    <2>1. PICK a \in Nat : a = Weight(Batch[s], rate)
      BY <1>3, WeightType DEF Rates
    <2>2. PICK b \in Nat : b = Weight(pendingDisbursements, rate)
      BY <1>3, WeightType DEF Rates
    <2>3. PICK c \in Nat : c = Carried(workers, rate)
      BY <1>2, LoadType DEF Kinds
    <2>4. Weight(Batch[s] \o pendingDisbursements, rate) = a + b
      BY <1>3, <2>1, <2>2, WeightOfTwo DEF Rates
    <2>5. Open(rate) = b + c /\ Open(rate)' = (a + b) + c
      BY <1>1, <2>2, <2>3, <2>4 DEF Open
    <2> QED
      BY <2>1, <2>5
  <1>5. Kinds'
    BY <1>1, <1>2, <1>3 DEF Kinds, Times
  <1>6. Placed'
    <2> SUFFICES ASSUME NEW job \in Jobs
                 PROVE  (Open(Only(job)) + Times(job, paid) + Times(job, deleted)
                           = IF job.sub \in settled
                             THEN Copies(job, Batch[job.sub]) ELSE 0)'
      BY DEF Placed
    <2>1. Only(job) \in Rates
      BY JobParts
    <2>2. PICK n \in Nat : n = Copies(job, Batch[s])
      BY WeightOfBatch
    <2>3. PICK a \in Nat : a = Open(Only(job))
      BY <1>4, <2>1
    <2>4. PICK p \in Nat : p = Times(job, paid)
      BY <1>2 DEF Kinds
    <2>5. PICK d \in Nat : d = Times(job, deleted)
      BY <1>2 DEF Kinds
    <2>6. Open(Only(job))' = n + a
      BY <1>4, <2>1, <2>2, <2>3, WeightOfBatch
    <2>7. a + p + d = IF job.sub \in settled
                      THEN Copies(job, Batch[job.sub]) ELSE 0
      BY <2>3, <2>4, <2>5 DEF PInv, Placed
    <2>8. (n + a) + p + d = IF job.sub \in settled'
                            THEN Copies(job, Batch[job.sub]) ELSE 0
      <3>1. CASE job.sub = s
        <4>1. a + p + d = 0
          BY <1>1, <2>7, <3>1
        <4>2. (n + a) + p + d = n
          BY <4>1
        <4> QED
          BY <1>1, <2>2, <3>1, <4>2
      <3>2. CASE job.sub # s
        <4>1. n = 0
          BY <2>2, <3>2, WeightOfBatch
        <4>2. (n + a) + p + d = a + p + d
          BY <4>1
        <4> QED
          BY <1>1, <2>7, <3>2, <4>2
      <3> QED
        BY <3>1, <3>2
    <2>9. Times(job, paid)' = p /\ Times(job, deleted)' = d
      BY <1>1, <2>4, <2>5 DEF Times
    <2> QED
      BY <2>6, <2>8, <2>9
  <1>7. Funded'
    <2> SUFFICES ASSUME NEW r \in Sales
                 PROVE  (/\ r \in settled => Open(Costs(r)) <= balance[r]
                         /\ r \notin settled =>
                              /\ Open(Costs(r)) = 0
                              /\ balance[r] = Amounts(Batch[r]))'
      BY DEF Funded
    <2>1. Costs(r) \in Rates
      BY JobParts
    <2>2. PICK a \in Nat : a = Open(Costs(r))
      BY <1>4, <2>1
    <2>3. PICK n \in Nat : n = Weight(Batch[s], Costs(r))
      BY <1>4, <2>1
    <2>4. Open(Costs(r))' = n + a
      BY <1>4, <2>1, <2>2, <2>3
    <2>5. CASE r = s
      <3>1. a = 0 /\ balance[r] = n
        BY <1>1, <2>2, <2>3, <2>5, WeightOfBatch DEF PInv, Funded
      <3>2. n + a <= n
        BY <3>1
      <3> QED
        BY <1>1, <2>4, <2>5, <3>1, <3>2
    <2>6. CASE r # s
      <3>1. n = 0
        BY <2>3, <2>6, WeightOfBatch
      <3>2. n + a = a
        BY <3>1
      <3> QED
        BY <1>1, <2>2, <2>4, <2>6, <3>2 DEF PInv, Funded
    <2> QED
      BY <2>5, <2>6
  <1> QED
    BY <1>5, <1>6, <1>7 DEF PInv

-----------------------------------------------------------------------------
\* At the start.
LEMMA PInvInit == PayoutInit => PInv
  <1> SUFFICES ASSUME PayoutInit PROVE PInv
    OBVIOUS
  <1>1. /\ pendingDisbursements = << >> /\ pendingCount = 0
        /\ workers = [w \in Workers |-> Resting]
        /\ paid = EmptyBag /\ dropped = EmptyBag /\ deleted = EmptyBag
        /\ balance = [s \in Sales |-> Amounts(Batch[s])]
        /\ settled = {}
    BY DEF PayoutInit, Init
  <1>2. << >> \in Seq(Jobs) /\ Resting.job = None /\ Resting.answer = None
    BY DEF Resting
  <1>3. Only(None) \in Rates
    BY DEF Only, Rates
  <1>4. workers \in [Workers -> Worker]
    <2>1. Resting \in Worker
      BY <1>3, LoadAtRest
    <2> HIDE DEF Worker
    <2> QED
      BY <1>1, <2>1
  <1>5. Cardinality(Awaited(workers)) = 0
    <2>1. Awaited(workers) = {}
      BY <1>1, <1>2 DEF Awaited
    <2> QED
      BY <2>1, FS_EmptySet
  <1>6. ASSUME NEW rate \in Rates PROVE Open(rate) = 0
    <2> DEFINE f == Loads(workers, rate)
    <2>1. IsFiniteSet(Workers) /\ Carried(workers, rate) = SumFunctionOnSet(f, Workers)
      BY <1>4, LoadType
    <2>2. \A w \in Workers : f[w] = IF w \in {} THEN 1 ELSE 0
      BY <1>1, LoadAtRest DEF Loads
    <2> HIDE DEF f
    <2>3. SumFunctionOnSet(f, Workers) = Cardinality({})
      BY <2>1, <2>2, SumCounts
    <2>4. Weight(pendingDisbursements, rate) = 0
      BY <1>1, <1>2, WeightType DEF Rates
    <2> QED
      BY <2>1, <2>3, <2>4, FS_EmptySet DEF Open
  <1>7. \A job \in Jobs : Times(job, paid) = 0 /\ Times(job, deleted) = 0
    BY <1>1 DEF Times, EmptyBag, SetToBag
  <1>8. Kinds
    <2>1. None # "InsufficientFunds"
      BY DisbursementAssumption DEF Answers
    <2>2. balance \in [Sales -> Nat]
      BY <1>1, WeightOfBatch
    <2> QED
      BY <1>1, <1>2, <1>4, <1>5, <1>7, <2>1, <2>2 DEF Kinds
  <1>9. Placed
    BY <1>1, <1>6, <1>7, JobParts DEF Placed
  <1>10. Funded
    BY <1>1, <1>6, JobParts DEF Funded
  <1> QED
    BY <1>8, <1>9, <1>10 DEF PInv

\* Every step keeps the invariant.
LEMMA PInvStep == PInv /\ [PayoutNext]_payoutVars => PInv'
  <1> SUFFICES ASSUME PInv, [PayoutNext]_payoutVars PROVE PInv'
    OBVIOUS
  <1>1. ASSUME NEW w \in Workers, CronDisbursements(w), UNCHANGED settled
        PROVE  PInv'
    BY <1>1, CronKeeps
  <1>2. ASSUME NEW w \in Workers, LedgerTransfer(w), UNCHANGED settled
        PROVE  PInv'
    BY <1>2, TransferKeeps
  <1>3. ASSUME NEW w \in Workers, LedgerRefusal(w), UNCHANGED settled
        PROVE  PInv'
    BY <1>3, RefusalKeeps
  <1>4. ASSUME NEW w \in Workers, Work(w), UNCHANGED settled
        PROVE  PInv'
    <2>1. CASE Completed(w)
      BY <1>4, <2>1, CompletedKeeps
    <2>2. CASE Drop(w)
      BY <2>2 DEF Drop, PInv, Kinds
    <2>3. CASE Retry(w)
      BY <1>4, <2>3, RetryKeeps
    <2> QED
      BY <1>4, <2>1, <2>2, <2>3 DEF Work
  <1>5. ASSUME NEW k \in DOMAIN pendingDisbursements,
               DeleteDisbursementJob(pendingDisbursements[k].token,
                                     pendingDisbursements[k].to,
                                     pendingDisbursements[k].amount),
               UNCHANGED settled
        PROVE  PInv'
    <2>1. PICK job : job = pendingDisbursements[k]
      OBVIOUS
    <2>2. DeleteDisbursementJob(job.token, job.to, job.amount)
      BY <1>5, <2>1
    <2> QED
      BY <1>5, <2>2, DeleteKeeps
  <1>6. ASSUME NEW s \in Sales, Sell(s) PROVE PInv'
    BY <1>6, SellKeeps
  <1>7. CASE UNCHANGED payoutVars
    <2>1. UNCHANGED <<pendingDisbursements, pendingCount, workers, balance,
                      paid, dropped, deleted, settled>>
      BY <1>7 DEF payoutVars, vars
    <2>2. Kinds'
      BY <2>1 DEF PInv, Kinds, Times
    <2>3. \A rate \in Rates : Open(rate)' = Open(rate)
      BY <2>1 DEF Open
    <2>4. Placed' /\ Funded'
      BY <2>1, <2>3, QuietStep
    <2> QED
      BY <2>2, <2>4 DEF PInv
  <1> QED
    BY <1>1, <1>2, <1>3, <1>4, <1>5, <1>6, <1>7 DEF PayoutNext, Next

\* The invariant holds throughout.
LEMMA PInvHolds == PayoutSpec => []PInv
  BY PInvInit, PInvStep, PTL DEF PayoutSpec

-----------------------------------------------------------------------------
\* A worker's load counts how often it holds a job.
LEMMA OpenCounts ==
  ASSUME PInv, NEW job \in Jobs
  PROVE  Open(Only(job)) = Copies(job, pendingDisbursements)
                           + SumFunction([w \in Workers |-> Held(w, job)])
  <1> DEFINE f == Loads(workers, Only(job))
             g == [w \in Workers |-> Held(w, job)]
  <1>1. Kinds /\ Only(job) \in Rates
    BY JobParts DEF PInv
  <1>2. /\ IsFiniteSet(Workers) /\ \A w \in Workers : f[w] \in Nat
        /\ Carried(workers, Only(job)) = SumFunctionOnSet(f, Workers)
    BY <1>1, LoadType DEF Kinds
  <1>3. ASSUME NEW w \in Workers PROVE f[w] = g[w]
    <2>1. workers[w] \in Worker
      BY <1>1 DEF Kinds
    <2>2. /\ workers[w].failed \in Seq(Jobs)
          /\ workers[w].job \in Jobs \cup {None}
      BY <2>1 DEF Worker
    <2>3. Weight(workers[w].failed, Only(job)) = Copies(job, workers[w].failed)
      BY <2>2, OnlyCounts
    <2>4. (IF Asking(workers[w]) THEN Only(job)[workers[w].job] ELSE 0)
            = IF workers[w].job = job /\ workers[w].answer # "Ok" THEN 1 ELSE 0
      BY <2>2, JobParts DEF Asking, Only
    <2>5. f[w] = Load(workers[w], Only(job))
      BY DEF Loads
    <2> QED
      BY <2>3, <2>4, <2>5 DEF Load, Held
  <1>4. DOMAIN g = Workers
    OBVIOUS
  <1> HIDE DEF f, g
  <1>5. SumFunctionOnSet(f, Workers) = SumFunctionOnSet(g, Workers)
    BY <1>2, <1>3, SumSame
  <1>6. Carried(workers, Only(job)) = SumFunction(g)
    BY <1>2, <1>4, <1>5 DEF SumFunction
  <1>7. Weight(pendingDisbursements, Only(job))
          = Copies(job, pendingDisbursements)
    BY <1>1, OnlyCounts DEF Kinds
  <1> QED
    BY <1>6, <1>7 DEF Open, g

\* Every job of a sale is in exactly one place at any time: none is lost, and
\* none is carried out twice.
THEOREM EveryJobIsInOnePlace == PayoutSpec => []EveryJobInOnePlace
  <1>1. PInv => EveryJobInOnePlace
    <2> SUFFICES ASSUME PInv, NEW s \in Sales, NEW job \in JobsOf(s)
                 PROVE  Copies(job, pendingDisbursements)
                        + SumFunction([w \in Workers |-> Held(w, job)])
                        + Times(job, paid) + Times(job, dropped)
                        + Times(job, deleted)
                          = IF s \in settled THEN Copies(job, Batch[s]) ELSE 0
      BY DEF EveryJobInOnePlace
    <2>1. job \in Jobs /\ job.sub = s
      BY JobParts, PayoutAssumption
    <2>2. Times(job, dropped) = 0
      BY DEF PInv, Kinds, Times, EmptyBag, SetToBag
    <2>3. PICK p \in Nat : p = Times(job, paid)
      BY <2>1 DEF PInv, Kinds
    <2>4. PICK d \in Nat : d = Times(job, deleted)
      BY <2>1 DEF PInv, Kinds
    <2>5. PICK a \in Nat : a = Open(Only(job))
      BY <2>1, OpenType, JobParts DEF PInv
    <2>6. a = Copies(job, pendingDisbursements)
              + SumFunction([w \in Workers |-> Held(w, job)])
      BY <2>1, <2>5, OpenCounts
    <2>7. a + p + d = IF s \in settled THEN Copies(job, Batch[s]) ELSE 0
      BY <2>1, <2>3, <2>4, <2>5 DEF PInv, Placed
    <2>8. a + p + 0 + d = a + p + d
      OBVIOUS
    <2> QED
      BY <2>2, <2>3, <2>4, <2>6, <2>7, <2>8
  <1> QED
    BY <1>1, PInvHolds, PTL

\* pendingCount counts the transfers that are awaited, and with the queue empty
\* and the count zero, every sale is paid out.
THEOREM DrainedIsDone == PayoutSpec => []DrainedMeansDone
  <1>1. PInv => DrainedMeansDone
    <2> SUFFICES ASSUME PInv PROVE DrainedMeansDone
      OBVIOUS
    <2>1. pendingCount = Cardinality({w \in Workers : workers[w].job # None})
      BY DEF PInv, Kinds, Awaited
    <2>2. ASSUME pendingDisbursements = << >>, pendingCount = 0,
                 NEW s \in settled, NEW job \in JobsOf(s)
          PROVE  Times(job, paid) + Times(job, deleted) = Copies(job, Batch[s])
      <3>1. s \in Sales /\ Kinds
        BY DEF PInv, Kinds
      <3>2. job \in Jobs /\ job.sub = s
        BY <3>1, JobParts, PayoutAssumption
      <3>3. Only(job) \in Rates
        BY <3>2, JobParts
      <3>4. Awaited(workers) = {}
        <4>1. IsFiniteSet(Awaited(workers))
          BY DisbursementAssumption, FS_Subset DEF Awaited
        <4> QED
          BY <2>2, <3>1, <4>1, FS_EmptySet DEF Kinds
      <3>5. \A w \in Workers : workers[w] = Resting
        BY <3>1, <3>4 DEF Kinds, Awaited
      <3>6. Open(Only(job)) = 0
        <4> DEFINE f == Loads(workers, Only(job))
        <4>1. /\ IsFiniteSet(Workers)
              /\ Carried(workers, Only(job)) = SumFunctionOnSet(f, Workers)
          BY <3>1, <3>3, LoadType DEF Kinds
        <4>2. \A w \in Workers : f[w] = IF w \in {} THEN 1 ELSE 0
          BY <3>3, <3>5, LoadAtRest DEF Loads
        <4> HIDE DEF f
        <4>3. SumFunctionOnSet(f, Workers) = Cardinality({})
          BY <4>1, <4>2, SumCounts
        <4>4. Weight(pendingDisbursements, Only(job)) = 0
          BY <2>2, <3>1, <3>3, WeightType DEF Rates, Kinds
        <4> QED
          BY <4>1, <4>3, <4>4, FS_EmptySet DEF Open
      <3>7. PICK p \in Nat : p = Times(job, paid)
        BY <3>1, <3>2 DEF Kinds
      <3>8. PICK d \in Nat : d = Times(job, deleted)
        BY <3>1, <3>2 DEF Kinds
      <3>9. 0 + p + d = Copies(job, Batch[s])
        BY <2>2, <3>2, <3>6, <3>7, <3>8 DEF PInv, Placed
      <3>10. 0 + p + d = p + d
        OBVIOUS
      <3> QED
        BY <3>7, <3>8, <3>9, <3>10
    <2> QED
      BY <2>1, <2>2 DEF DrainedMeansDone
  <1> QED
    BY <1>1, PInvHolds, PTL

\* No job is ever dropped for want of funds.
THEOREM NothingIsEverDropped == PayoutSpec => []NothingIsDropped
  <1>1. PInv => NothingIsDropped
    BY DEF PInv, Kinds, NothingIsDropped
  <1> QED
    BY <1>1, PInvHolds, PTL
=============================================================================
