--------------------------- MODULE SaleTestProofs ---------------------------
(***************************************************************************)
(* Proofs about the end-to-end test (SaleTest), for any number of users,   *)
(* tokens, workers and faults: what the test prints is true, and no        *)
(* transfer ever finds too little.  The marketplace is orderly under the   *)
(* test, so what OrderlyProofs knows of it holds here; to that comes what  *)
(* ties the users to their calls, the payments to the users, and the jobs  *)
(* of the queue to the payments: once an order is sold, the jobs still     *)
(* open for its address cost exactly what the address holds.               *)
(***************************************************************************)
EXTENDS SaleTest, OrderlyProofs

-----------------------------------------------------------------------------
\* What the jobs in the queue and with the workers weigh.

\* A worker, and what it still has to do of its jobs.
Worker == [job : Disbursement \cup {None}, failed : Seq(Disbursement),
           answer : Queue!Answers \cup {None}]
Asking(record) == record.job # None /\ record.answer # "Ok"
Load(record, rate) ==
  Weight(record.failed, rate)
  + IF Asking(record) THEN rate[record.job] ELSE 0
Loads(records, rate) == [w \in Workers |-> Load(records[w], rate)]
Carried(records, rate) == SumFunction(Loads(records, rate))
StillOpen(rate) == Weight(pendingDisbursements, rate) + Carried(workers, rate)

Awaited(records) == {w \in Workers : records[w].job # None}

\* Weight 1 for the jobs that pay someone from one address.
Share(s, to) ==
  [job \in Disbursement |-> IF job.sub = s /\ job.to = to THEN 1 ELSE 0]

Payees(s) == {orders[s].seller, "royalty", "entrepot"}
Recipients == Accounts \cup {"royalty", "entrepot"}

-----------------------------------------------------------------------------
\* The inductive invariant.

\* Those who sell in the test.
Traders == Accounts \ {Admin, Stranger, Nobody}

UserTypes ==
  /\ key \in [Users -> Traders]
  /\ funded \subseteq Users
  /\ price \in Prices
  /\ tester \in [Users -> [pc : {"mint", "list", "listing", "lock", "locking",
                                 "pay", "done", "failed"},
                           index : Tokens \cup {None},
                           sub : Locks \cup {None}]]

\* A user's call is the one it waits for, ...
UserRight(u) ==
  LET t == tester[u] IN
  /\ t.pc # "mint" => t.index \in Tokens
  /\ IF t.pc = "listing" THEN calls[u].op = "list"
     ELSE IF t.pc = "locking" THEN calls[u].op = "lock"
     ELSE calls[u] = Idle
  /\ t.pc \in {"pay", "done"} => t.sub # None
  /\ t.sub # None => orders[t.sub] # None

\* ... and the other slots are the heartbeat's.
Slots ==
  /\ \A u \in Users : UserRight(u)
  /\ \A c \in Calls \ Users : calls[c].op \in {"settle", None}
  /\ \A u, v \in Users : u # v /\ tester[u].sub # None =>
                           tester[u].sub # tester[v].sub

\* All prices are the same, users sell, and the admin buys; all name tokens of
\* this canister, so that no order is gone past.
TradeRight(call) ==
  /\ call.op = "list" => /\ call.who \in Traders /\ call.price = price
                         /\ call.own
  /\ call.op = "lock" => /\ call.seller \in Traders /\ call.price = price
                         /\ call.who = Admin

Trade ==
  /\ \A i \in Tokens : listings[i] # None =>
       listings[i].seller \in Traders /\ listings[i].price = price
  /\ \A c \in Calls : TradeRight(calls[c])
  /\ \A s \in Locks : orders[s] # None =>
       orders[s].price = price /\ orders[s].to = Admin
  /\ passed = {}

\* Nobody's tokens are left alone.
Untouched ==
  \A i \in Tokens, c \in Calls :
    owner[i] = Nobody /\ calls[c].op # None => calls[c].index # i

\* A user pays once, and what others asked.
Deposits ==
  /\ \A s \in Locks : /\ deposited[s] \in {0, price}
                      /\ orders[s] = None => deposited[s] = 0
  /\ \A u \in Users :
       /\ tester[u].pc = "pay" => deposited[tester[u].sub] = 0
       /\ tester[u].pc = "done" /\ u \in funded =>
            deposited[tester[u].sub] = price
  /\ \A s \in Locks : sold[s] > 0 => deposited[s] = price

\* Types of the queue; a worker without a job is at rest, the count is right,
\* and the ledger has found too little for no job.
Kinds ==
  /\ workers \in [Workers -> Worker]
  /\ \A w \in Workers :
       /\ workers[w].job = None => workers[w] = Queue!Resting
       /\ workers[w].answer # "InsufficientFunds"
  /\ pendingCount = Cardinality(Awaited(workers))
  /\ DOMAIN paid \subseteq Disbursement
  /\ DOMAIN dropped = {}

\* What is open for an address costs what it holds, from the sale on.
Owed(s) ==
  StillOpen(Cost(s)) = IF sold[s] > 0 THEN balance[s] ELSE 0

\* The three jobs of a sold order are open or paid, and there are no others.
Shared(s) ==
  /\ \A job \in DOMAIN paid :
       job.sub = s => sold[s] > 0 /\ job.to \in Payees(s)
  /\ sold[s] > 0 =>
       /\ \A to \in Recipients \ Payees(s) : StillOpen(Share(s, to)) = 0
       /\ \A to \in Payees(s) :
            \/ StillOpen(Share(s, to)) > 0
            \/ \E job \in DOMAIN paid : job.sub = s /\ job.to = to

\* Without faults a worker keeps no jobs for later, ...
Faultless ==
  faults = 0 => \A w \in Workers : /\ workers[w].failed = << >>
                                   /\ workers[w].answer \in {None, "Ok"}

\* ... and an address that was settled when the queue was seen empty has no jobs
\* in it any more, and none at all when the count was seen at zero.
Drained(s) ==
  /\ sold[s] > 0
  /\ faults = 0 /\ phase \in {"count", "verify"} =>
       Weight(pendingDisbursements, Cost(s)) = 0
  /\ faults = 0 /\ phase = "verify" => StillOpen(Cost(s)) = 0

Process ==
  /\ phase \in {"selling", "failed", "queue", "count", "verify"}
  /\ polled \subseteq Locks
  /\ polled # {} => phase \in {"count", "verify"}
  /\ faults \in Nat
  /\ phase \in {"queue", "count", "verify"} =>
       \A u \in Users : tester[u].pc = "done"
  /\ verdict \in [Users -> {None, "OK", "ERR"}]
  /\ \A u \in Users : verdict[u] # None => phase = "verify"
  /\ Faultless
  /\ \A s \in polled : Drained(s)

TInv ==
  /\ Inv /\ OInv
  /\ UserTypes /\ Slots /\ Trade /\ Untouched /\ Deposits
  /\ Kinds /\ \A s \in Locks : Owed(s) /\ Shared(s)
  /\ Process /\ OkMeansPaidOut /\ ErrMeansUnsettled

-----------------------------------------------------------------------------
\* Loads of workers.

Rates == [Disbursement -> Nat]

\* A job costs something, and is a share of someone.
LEMMA RateTypes ==
  /\ None \notin Disbursement
  /\ \A s \in Locks : Cost(s) \in Rates
  /\ \A s \in Locks, to \in Recipients : Share(s, to) \in Rates
  /\ Queue!Resting \in Worker
  BY SaleTestAssumption DEF Cost, Share, Rates, Disbursement, Queue!Resting,
                            Worker

\* A worker's load, and the sum of the loads.
LEMMA LoadType ==
  ASSUME NEW rate \in Rates, NEW records \in [Workers -> Worker]
  PROVE  /\ \A w \in Workers : /\ Load(records[w], rate) \in Nat
                               /\ Weight(records[w].failed, rate) \in Nat
                               /\ Load(records[w], rate) <= Carried(records, rate)
         /\ Carried(records, rate)
              = SumFunctionOnSet(Loads(records, rate), Workers)
         /\ Carried(records, rate) \in Nat
  <1> DEFINE f == Loads(records, rate)
  <1>1. IsFiniteSet(Workers)
    BY SaleTestAssumption
  <1>2. ASSUME NEW w \in Workers
        PROVE  /\ Load(records[w], rate) \in Nat
               /\ Weight(records[w].failed, rate) \in Nat
    <2>1. /\ records[w].failed \in Seq(Disbursement)
          /\ records[w].job \in Disbursement \cup {None}
      BY DEF Worker
    <2>2. Weight(records[w].failed, rate) \in Nat
      BY <2>1, WeightType DEF Rates
    <2>3. Asking(records[w]) => rate[records[w].job] \in Nat
      BY <2>1 DEF Rates, Asking
    <2> QED
      BY <2>2, <2>3 DEF Load
  <1>3. DOMAIN f = Workers /\ \A w \in Workers : f[w] = Load(records[w], rate)
    BY DEF Loads
  <1>4. Carried(records, rate) = SumFunctionOnSet(f, Workers)
    BY <1>3 DEF Carried, SumFunction
  <1> HIDE DEF f
  <1>5. \A w \in Workers : f[w] <= SumFunctionOnSet(f, Workers)
    BY <1>1, <1>2, <1>3, SumBounds
  <1>6. SumFunctionOnSet(f, Workers) \in Nat
    BY <1>1, <1>2, <1>3, SumOfOne
  <1> QED
    BY <1>2, <1>3, <1>4, <1>5, <1>6 DEF f

\* When one worker changes, so does its load.
LEMMA LoadChanged ==
  ASSUME NEW rate \in Rates, NEW old \in [Workers -> Worker],
         NEW new \in [Workers -> Worker], NEW w \in Workers,
         \A v \in Workers \ {w} : new[v] = old[v]
  PROVE  Carried(new, rate) + Load(old[w], rate)
           = Carried(old, rate) + Load(new[w], rate)
  <1> DEFINE f == Loads(old, rate)
             g == Loads(new, rate)
  <1>1. /\ \A v \in Workers : f[v] = Load(old[v], rate)
        /\ \A v \in Workers : g[v] = Load(new[v], rate)
    BY DEF Loads
  <1>2. IsFiniteSet(Workers) /\ \A v \in Workers : f[v] \in Nat /\ g[v] \in Nat
    BY <1>1, SaleTestAssumption, LoadType
  <1>3. \A v \in Workers \ {w} : f[v] = g[v]
    BY <1>1
  <1>4. /\ Carried(old, rate) = SumFunctionOnSet(f, Workers)
        /\ Carried(new, rate) = SumFunctionOnSet(g, Workers)
    BY LoadType
  <1> HIDE DEF f, g
  <1>5. SumFunctionOnSet(g, Workers) + f[w] = SumFunctionOnSet(f, Workers) + g[w]
    BY <1>2, <1>3, SumChanged
  <1> QED
    BY <1>1, <1>4, <1>5

\* The load of a worker at rest, and of one that asks the ledger.
LEMMA LoadOfOne ==
  ASSUME NEW rate \in Rates
  PROVE  /\ Load(Queue!Resting, rate) = 0
         /\ \A job \in Disbursement, failed \in Seq(Disbursement) :
              /\ Queue!Awaiting(job, failed) \in Worker
              /\ Load(Queue!Awaiting(job, failed), rate)
                   = Weight(failed, rate) + rate[job]
  <1>1. << >> \in Seq(Disbursement)
    OBVIOUS
  <1>2. Weight(<< >>, rate) = 0
    BY <1>1, WeightType DEF Rates
  <1>3. Load(Queue!Resting, rate) = Weight(<< >>, rate) + 0
    BY DEF Load, Asking, Queue!Resting
  <1>4. ASSUME NEW job \in Disbursement, NEW failed \in Seq(Disbursement)
        PROVE  /\ Queue!Awaiting(job, failed) \in Worker
               /\ Load(Queue!Awaiting(job, failed), rate)
                    = Weight(failed, rate) + rate[job]
    <2> DEFINE record == Queue!Awaiting(job, failed)
    <2>1. job # None /\ None # "Ok"
      BY RateTypes, SaleTestAssumption DEF Queue!Answers
    <2>2. record.job = job /\ record.failed = failed /\ record.answer = None
      BY DEF Queue!Awaiting
    <2>3. record \in Worker
      BY DEF Queue!Awaiting, Worker
    <2> HIDE DEF record
    <2>4. Load(record, rate) = Weight(failed, rate) + rate[job]
      BY <2>1, <2>2 DEF Load, Asking
    <2> QED
      BY <2>3, <2>4 DEF record
  <1> QED
    BY <1>2, <1>3, <1>4

\* All workers at rest carry nothing.
LEMMA RestCarriesNothing ==
  ASSUME NEW rate \in Rates, NEW records \in [Workers -> Worker],
         \A w \in Workers : records[w] = Queue!Resting
  PROVE  Carried(records, rate) = 0
  <1> DEFINE f == Loads(records, rate)
  <1>1. \A w \in Workers : f[w] = 0
    BY LoadOfOne DEF Loads
  <1>2. Carried(records, rate) = SumFunctionOnSet(f, Workers)
    BY LoadType
  <1>3. IsFiniteSet(Workers)
    BY SaleTestAssumption
  <1> HIDE DEF f
  <1>4. PICK T \in SUBSET Workers : T = {}
    OBVIOUS
  <1>5. SumFunctionOnSet(f, Workers) = Cardinality(T)
    BY <1>1, <1>3, <1>4, SumCounts
  <1> QED
    BY <1>2, <1>4, <1>5, FS_EmptySet

\* Counting the workers that await an answer, when one of them changes.
LEMMA AwaitedChanged ==
  ASSUME NEW old \in [Workers -> Worker], NEW new \in [Workers -> Worker],
         NEW w \in Workers, \A v \in Workers \ {w} : new[v] = old[v]
  PROVE  /\ Cardinality(Awaited(old) \ {w}) \in Nat
         /\ Cardinality(Awaited(new))
              = Cardinality(Awaited(old) \ {w})
                + IF new[w].job # None THEN 1 ELSE 0
  <1>1. IsFiniteSet(Workers)
    BY SaleTestAssumption
  <1> DEFINE rest == Awaited(old) \ {w}
  <1>2. rest \subseteq Workers /\ w \notin rest
    BY DEF Awaited
  <1>3. Awaited(new) = IF new[w].job # None THEN rest \cup {w} ELSE rest
    BY DEF Awaited
  <1> HIDE DEF rest
  <1>4. IsFiniteSet(rest) /\ Cardinality(rest) \in Nat
    BY <1>1, <1>2, FS_Subset, FS_CardinalityType
  <1>5. Cardinality(rest \cup {w}) = Cardinality(rest) + 1
    BY <1>2, <1>4, FS_AddElement
  <1> QED
    BY <1>3, <1>4, <1>5 DEF rest

-----------------------------------------------------------------------------
\* The steps of a worker.

\* A worker ends, or takes the head of the queue.
Popped(w, queue, failed, awaited) ==
  \/ /\ queue = << >>
     /\ pendingDisbursements' = failed
     /\ pendingCount' = awaited
     /\ workers' = [workers EXCEPT ![w] = Queue!Resting]
  \/ \E job \in Disbursement, rest \in Seq(Disbursement) :
       /\ \A rate \in Rates :
            Weight(queue, rate) = rate[job] + Weight(rest, rate)
       /\ pendingDisbursements' = rest
       /\ pendingCount' = awaited + 1
       /\ workers' = [workers EXCEPT ![w] = Queue!Awaiting(job, failed)]

\* No address is passed over, so nothing else may become of it.
LEMMA Pops ==
  ASSUME NEW queue \in Seq(Disbursement), NEW failed \in Seq(Disbursement),
         NEW w \in Workers, NEW awaited,
         Queue!PopNext(w, queue, failed, awaited)
  PROVE  Popped(w, queue, failed, awaited)
  <1>1. Queue!Skipped(queue) = 0
    <2> DEFINE bad == {n \in 0 .. Len(queue) :
                         \A k \in 1 .. n : queue[k].to \in {}}
    <2>1. Len(queue) \in Nat
      OBVIOUS
    <2>2. bad = {0}
      <3>1. ASSUME NEW n \in bad PROVE n = 0
        <4>1. n # 0 => 1 \in 1 .. n
          BY <2>1
        <4> QED
          BY <4>1
      <3>2. 0 \in bad
        BY <2>1
      <3> QED
        BY <3>1, <3>2
    <2>3. Queue!Skipped(queue) = CHOOSE n \in bad : \A m \in bad : m <= n
      BY DEF Queue!Skipped
    <2> HIDE DEF bad
    <2> QED
      BY <2>2, <2>3
  <1> DEFINE none == SubSeq(queue, 1, 0)
             kept == Queue!Reversed(none) \o failed
  <1>2. kept = failed
    <2>1. none = << >>
      OBVIOUS
    <2>2. Queue!Reversed(<< >>) = << >>
      BY DEF Queue!Reversed
    <2> HIDE DEF none
    <2>3. << >> \o failed = failed
      OBVIOUS
    <2> QED
      BY <2>1, <2>2, <2>3
  <1>3. IF 0 = Len(queue)
        THEN /\ pendingDisbursements' = kept
             /\ pendingCount' = awaited
             /\ workers' = [workers EXCEPT ![w] = Queue!Resting]
        ELSE /\ pendingDisbursements' = SubSeq(queue, 0 + 2, Len(queue))
             /\ pendingCount' = awaited + 1
             /\ workers' = [workers EXCEPT
                              ![w] = Queue!Awaiting(queue[0 + 1], kept)]
    BY <1>1 DEF Queue!PopNext
  <1>4. Len(queue) = 0 <=> queue = << >>
    OBVIOUS
  <1> HIDE DEF kept
  <1>5. CASE queue = << >>
    BY <1>2, <1>3, <1>4, <1>5 DEF Popped
  <1>6. CASE queue # << >>
    <2>1. /\ pendingDisbursements' = SubSeq(queue, 2, Len(queue))
          /\ pendingCount' = awaited + 1
          /\ workers' = [workers EXCEPT ![w] = Queue!Awaiting(queue[1], failed)]
      BY <1>2, <1>3, <1>4, <1>6
    <2> DEFINE rest == SubSeq(queue, 2, Len(queue))
               head == SubSeq(queue, 1, 0)
    <2>2. Len(queue) \in Nat /\ Len(queue) # 0
      BY <1>4, <1>6
    <2>3. head = << >> /\ head \in Seq(Disbursement)
      OBVIOUS
    <2>4. ASSUME NEW rate \in Rates
          PROVE  /\ queue[1] \in Disbursement /\ rest \in Seq(Disbursement)
                 /\ Weight(queue, rate) = rate[queue[1]] + Weight(rest, rate)
      <3>1. rate \in [Disbursement -> Nat] /\ 0 \in 0 .. Len(queue)
        BY <2>2 DEF Rates
      <3>2. /\ queue[0 + 1] \in Disbursement
            /\ SubSeq(queue, 0 + 2, Len(queue)) \in Seq(Disbursement)
            /\ Weight(queue, rate)
                 = Weight(head, rate) + rate[queue[0 + 1]]
                   + Weight(SubSeq(queue, 0 + 2, Len(queue)), rate)
        BY <2>2, <3>1, WeightOfParts
      <3>3. /\ queue[1] \in Disbursement /\ rest \in Seq(Disbursement)
            /\ Weight(queue, rate)
                 = Weight(head, rate) + rate[queue[1]] + Weight(rest, rate)
        BY <3>2
      <3>4. Weight(head, rate) = 0
        BY <2>3, <3>1, WeightType
      <3>5. rate[queue[1]] \in Nat /\ Weight(rest, rate) \in Nat
        BY <3>1, <3>3, WeightType
      <3> QED
        BY <3>3, <3>4, <3>5
    <2>5. queue[1] \in Disbursement /\ rest \in Seq(Disbursement)
      <3>1. Share(1, "royalty") \in Rates
        BY DEF Share, Rates
      <3> QED
        BY <2>4, <3>1
    <2> HIDE DEF rest, head
    <2>6. pendingDisbursements' = rest
      BY <2>1 DEF rest
    <2> QED
      BY <2>1, <2>4, <2>5, <2>6 DEF Popped
  <1> QED
    BY <1>5, <1>6

\* What is open is a natural number, and more than each part of it.
LEMMA OpenType ==
  ASSUME Kinds, pendingDisbursements \in Seq(Disbursement), NEW rate \in Rates
  PROVE  /\ StillOpen(rate) \in Nat
         /\ Weight(pendingDisbursements, rate) \in Nat
         /\ Weight(pendingDisbursements, rate) <= StillOpen(rate)
         /\ \A w \in Workers : /\ Load(workers[w], rate) \in Nat
                               /\ Load(workers[w], rate) <= StillOpen(rate)
  <1>1. Weight(pendingDisbursements, rate) \in Nat
    BY WeightType DEF Rates
  <1>2. PICK a \in Nat : a = Weight(pendingDisbursements, rate)
    BY <1>1
  <1>3. PICK b \in Nat : b = Carried(workers, rate)
    BY LoadType DEF Kinds
  <1>4. \A w \in Workers : /\ Load(workers[w], rate) \in Nat
                           /\ Load(workers[w], rate) <= b
    BY <1>3, LoadType DEF Kinds
  <1>5. StillOpen(rate) = a + b
    BY <1>2, <1>3 DEF StillOpen
  <1> QED
    BY <1>2, <1>4, <1>5

\* What weighs nothing for a heavier rate weighs nothing for a lighter one.
LEMMA NothingOpen ==
  ASSUME Kinds, pendingDisbursements \in Seq(Disbursement),
         NEW light \in Rates, NEW heavy \in Rates,
         \A job \in Disbursement : light[job] <= heavy[job],
         StillOpen(heavy) = 0
  PROVE  StillOpen(light) = 0
  <1>1. Weight(pendingDisbursements, light)
          <= Weight(pendingDisbursements, heavy)
    BY WeightGrows DEF Rates
  <1>2. Carried(workers, light) <= Carried(workers, heavy)
    <2> DEFINE f == Loads(workers, light)
               g == Loads(workers, heavy)
    <2>1. /\ \A w \in Workers : f[w] = Load(workers[w], light)
          /\ \A w \in Workers : g[w] = Load(workers[w], heavy)
      BY DEF Loads
    <2>2. ASSUME NEW w \in Workers
          PROVE  /\ f[w] \in Nat /\ g[w] \in Nat /\ f[w] <= g[w]
      <3>1. /\ workers[w].failed \in Seq(Disbursement)
            /\ workers[w].job \in Disbursement \cup {None}
        BY DEF Kinds, Worker
      <3>2. PICK a \in Nat : a = Weight(workers[w].failed, light)
        BY <3>1, WeightType DEF Rates
      <3>3. PICK b \in Nat : b = Weight(workers[w].failed, heavy)
        BY <3>1, WeightType DEF Rates
      <3>4. a <= b
        BY <3>1, <3>2, <3>3, WeightGrows DEF Rates
      <3>5. PICK x \in Nat :
              x = IF Asking(workers[w]) THEN light[workers[w].job] ELSE 0
        BY <3>1 DEF Asking, Rates
      <3>6. PICK y \in Nat :
              y = IF Asking(workers[w]) THEN heavy[workers[w].job] ELSE 0
        BY <3>1 DEF Asking, Rates
      <3>7. x <= y
        BY <3>1, <3>5, <3>6 DEF Asking
      <3>8. f[w] = a + x /\ g[w] = b + y
        BY <2>1, <3>2, <3>3, <3>5, <3>6 DEF Load
      <3> QED
        BY <3>4, <3>7, <3>8
    <2>3. /\ Carried(workers, light) = SumFunctionOnSet(f, Workers)
          /\ Carried(workers, heavy) = SumFunctionOnSet(g, Workers)
          /\ IsFiniteSet(Workers)
      BY LoadType, SaleTestAssumption DEF Kinds
    <2> HIDE DEF f, g
    <2>4. SumFunctionOnSet(f, Workers) <= SumFunctionOnSet(g, Workers)
      BY <2>2, <2>3, SumGrows
    <2> QED
      BY <2>3, <2>4
  <1>3. PICK a \in Nat : a = Weight(pendingDisbursements, light)
    BY WeightType DEF Rates
  <1>4. PICK b \in Nat : b = Carried(workers, light)
    BY LoadType DEF Kinds
  <1>5. PICK c \in Nat : c = Weight(pendingDisbursements, heavy)
    BY WeightType DEF Rates
  <1>6. PICK d \in Nat : d = Carried(workers, heavy)
    BY LoadType DEF Kinds
  <1>7. a <= c /\ b <= d /\ c + d = 0
    BY <1>1, <1>2, <1>3, <1>4, <1>5, <1>6 DEF StillOpen
  <1>8. a + b = 0
    BY <1>7
  <1> QED
    BY <1>3, <1>4, <1>8 DEF StillOpen

\* A share is less than what the job costs.
LEMMA ShareIsLess ==
  ASSUME NEW s \in Locks, NEW to \in Recipients, NEW job \in Disbursement
  PROVE  /\ Share(s, to)[job] <= Cost(s)[job]
         /\ Cost(s)[job] \in Nat
         /\ job.sub = s => Cost(s)[job] = job.amount + 10000
         /\ job.sub # s => Cost(s)[job] = 0
  BY DEF Share, Cost, Disbursement

\* A worker that pops its next job, or ends, with the failed jobs it has: what
\* it did before is done.
LEMMA WorkerMoves ==
  ASSUME Kinds, pendingDisbursements \in Seq(Disbursement), NEW w \in Workers,
         NEW failed \in Seq(Disbursement), NEW awaited,
         Queue!PopNext(w, pendingDisbursements, failed, awaited),
         awaited = Cardinality(Awaited(workers) \ {w}),
         UNCHANGED <<paid, dropped>>
  PROVE  /\ Kinds' /\ pendingDisbursements' \in Seq(Disbursement)
         /\ \A v \in Workers \ {w} : workers'[v] = workers[v]
         /\ workers'[w].answer = None
         /\ workers'[w].failed \in {failed, << >>}
         /\ \A rate \in Rates :
              /\ StillOpen(rate)' + Load(workers[w], rate)
                   = StillOpen(rate) + Weight(failed, rate)
              /\ Weight(pendingDisbursements', rate)
                   <= Weight(pendingDisbursements, rate) + Weight(failed, rate)
  <1>1. workers \in [Workers -> Worker]
    BY DEF Kinds
  <1> DEFINE Ok(ws, queue, count) ==
               /\ ws \in [Workers -> Worker] /\ queue \in Seq(Disbursement)
               /\ \A v \in Workers \ {w} : ws[v] = workers[v]
               /\ ws[w].answer = None
               /\ ws[w].job = None => ws[w] = Queue!Resting
               /\ ws[w].failed \in {failed, << >>}
               /\ count = awaited + IF ws[w].job # None THEN 1 ELSE 0
               /\ \A rate \in Rates :
                    /\ Weight(queue, rate) + Load(ws[w], rate)
                         = Weight(pendingDisbursements, rate)
                           + Weight(failed, rate)
                    /\ Weight(queue, rate)
                         <= Weight(pendingDisbursements, rate)
                            + Weight(failed, rate)
  <1>2. awaited \in Nat
    BY <1>1, AwaitedChanged
  <1>3. Ok(workers', pendingDisbursements', pendingCount')
    <2>1. CASE /\ pendingDisbursements = << >>
               /\ pendingDisbursements' = failed
               /\ pendingCount' = awaited
               /\ workers' = [workers EXCEPT ![w] = Queue!Resting]
      <3>1. /\ workers'[w] = Queue!Resting
            /\ \A v \in Workers \ {w} : workers'[v] = workers[v]
            /\ workers' \in [Workers -> Worker]
        BY <1>1, <2>1, RateTypes
      <3>2. /\ workers'[w].answer = None /\ workers'[w].job = None
            /\ workers'[w].failed = << >>
        BY <3>1 DEF Queue!Resting
      <3>3. ASSUME NEW rate \in Rates
            PROVE  /\ Weight(pendingDisbursements', rate)
                        + Load(workers'[w], rate)
                         = Weight(pendingDisbursements, rate)
                           + Weight(failed, rate)
                   /\ Weight(pendingDisbursements', rate)
                         <= Weight(pendingDisbursements, rate)
                            + Weight(failed, rate)
        <4>1. Weight(pendingDisbursements, rate) = 0
          BY <2>1, WeightType DEF Rates
        <4>2. Load(workers'[w], rate) = 0
          BY <3>1, LoadOfOne
        <4>3. PICK a \in Nat : a = Weight(failed, rate)
          BY WeightType DEF Rates
        <4> QED
          BY <2>1, <4>1, <4>2, <4>3
      <3> QED
        BY <1>2, <2>1, <3>1, <3>2, <3>3
    <2>2. ASSUME NEW job \in Disbursement, NEW rest \in Seq(Disbursement),
                 \A rate \in Rates :
                   Weight(pendingDisbursements, rate)
                     = rate[job] + Weight(rest, rate),
                 pendingDisbursements' = rest, pendingCount' = awaited + 1,
                 workers' = [workers EXCEPT ![w] = Queue!Awaiting(job, failed)]
          PROVE  Ok(workers', pendingDisbursements', pendingCount')
      <3>1. /\ workers'[w] = Queue!Awaiting(job, failed)
            /\ \A v \in Workers \ {w} : workers'[v] = workers[v]
            /\ workers' \in [Workers -> Worker]
        <4>1. Share(1, "royalty") \in Rates
          BY RateTypes DEF Share, Rates
        <4>2. Queue!Awaiting(job, failed) \in Worker
          BY <4>1, LoadOfOne
        <4> QED
          BY <1>1, <2>2, <4>2
      <3>2. /\ workers'[w].answer = None /\ workers'[w].job # None
            /\ workers'[w].failed = failed
        BY <3>1, RateTypes DEF Queue!Awaiting
      <3>3. ASSUME NEW rate \in Rates
            PROVE  /\ Weight(rest, rate) + Load(workers'[w], rate)
                         = Weight(pendingDisbursements, rate)
                           + Weight(failed, rate)
                   /\ Weight(rest, rate)
                         <= Weight(pendingDisbursements, rate)
                            + Weight(failed, rate)
        <4>1. PICK a \in Nat : a = Weight(failed, rate)
          BY WeightType DEF Rates
        <4>2. PICK b \in Nat : b = Weight(rest, rate)
          BY WeightType DEF Rates
        <4>3. PICK c \in Nat : c = rate[job]
          BY DEF Rates
        <4>4. Load(workers'[w], rate) = a + c
          BY <3>1, <4>1, <4>3, LoadOfOne
        <4>5. Weight(pendingDisbursements, rate) = c + b
          BY <2>2, <4>2, <4>3
        <4>6. b + (a + c) = (c + b) + a /\ b <= (c + b) + a
          OBVIOUS
        <4> QED
          BY <4>1, <4>2, <4>4, <4>5, <4>6
      <3> QED
        BY <2>2, <3>1, <3>2, <3>3
    <2> HIDE DEF Ok
    <2>3. Popped(w, pendingDisbursements, failed, awaited)
      <3>1. PICK queue \in Seq(Disbursement) : queue = pendingDisbursements
        OBVIOUS
      <3>2. Queue!PopNext(w, queue, failed, awaited)
        BY <3>1
      <3>3. Popped(w, queue, failed, awaited)
        BY <3>2, Pops
      <3> QED
        BY <3>1, <3>3
    <2> QED
      BY <2>1, <2>2, <2>3 DEF Popped
  <1>4. PICK ws : ws = workers'
    OBVIOUS
  <1>5. Ok(ws, pendingDisbursements', pendingCount')
    BY <1>3, <1>4
  <1>6. /\ ws \in [Workers -> Worker]
        /\ \A v \in Workers \ {w} : ws[v] = workers[v]
    BY <1>5
  <1>7. Cardinality(Awaited(ws)) = awaited + IF ws[w].job # None THEN 1 ELSE 0
    BY <1>1, <1>6, AwaitedChanged
  <1>8. Kinds'
    <2>1. pendingCount' = Cardinality(Awaited(workers'))
      BY <1>4, <1>5, <1>7
    <2>2. /\ \A v \in Workers : workers'[v].job = None
                                  => workers'[v] = Queue!Resting
          /\ \A v \in Workers : workers'[v].answer # "InsufficientFunds"
      <3>1. None # "InsufficientFunds"
        BY SaleTestAssumption DEF Queue!Answers
      <3> QED
        BY <1>4, <1>5, <3>1 DEF Kinds
    <2> HIDE DEF Ok
    <2> QED
      BY <1>4, <1>6, <2>1, <2>2 DEF Kinds, Queue!Resting
  <1>9. ASSUME NEW rate \in Rates
        PROVE  StillOpen(rate)' + Load(workers[w], rate)
                 = StillOpen(rate) + Weight(failed, rate)
    <2>1. PICK a \in Nat : a = Weight(pendingDisbursements, rate)
      BY WeightType DEF Rates
    <2>2. PICK b \in Nat : b = Weight(pendingDisbursements', rate)
      BY <1>5, WeightType DEF Rates
    <2>3. PICK c \in Nat : c = Carried(workers, rate)
      BY <1>1, LoadType
    <2>4. PICK d \in Nat : d = Carried(ws, rate)
      BY <1>6, LoadType
    <2>5. PICK l \in Nat : l = Load(workers[w], rate)
      BY <1>1, LoadType
    <2>6. PICK m \in Nat : m = Load(ws[w], rate)
      BY <1>6, LoadType
    <2>7. PICK f \in Nat : f = Weight(failed, rate)
      BY WeightType DEF Rates
    <2>8. d + l = c + m
      BY <1>1, <1>6, <2>3, <2>4, <2>5, <2>6, LoadChanged
    <2>9. b + m = a + f
      BY <1>5, <2>1, <2>2, <2>6, <2>7
    <2>10. (b + d) + l = (a + c) + f
      BY <2>8, <2>9
    <2>11. StillOpen(rate) = a + c /\ StillOpen(rate)' = b + d
      BY <1>4, <2>1, <2>2, <2>3, <2>4 DEF StillOpen
    <2> QED
      BY <2>5, <2>7, <2>10, <2>11
  <1> QED
    BY <1>4, <1>5, <1>8, <1>9

-----------------------------------------------------------------------------
\* The steps of the queue.

\* What the queue leaves alone.
QueueAside ==
  UNCHANGED <<owner, listings, pendingTransactions, transactions, nextTxId,
              nextSubAccount, stats, lapsed, history, calls, setupVars,
              tester, processVars>>

\* The marketplace knows of the balances of sold orders only that they are not
\* more than what was paid.
LEMMA MarketAside ==
  ASSUME Inv, OInv, QueueAside, pendingDisbursements' \in Seq(Disbursement),
         balance' \in [Locks -> Nat],
         \A s \in Locks : /\ balance'[s] <= balance[s]
                          /\ sold[s] = 0 => balance'[s] = balance[s]
  PROVE  Inv' /\ OInv'
  <1>1. UNCHANGED <<owner, listings, pendingTransactions, transactions,
                    nextTxId, nextSubAccount, totalVolume, lowestPriceSale,
                    highestPriceSale, lapsed, offers, orders, deposited,
                    inTime, sold, passed, calls>>
    BY DEF QueueAside, stats, history
  <1>2. TypeOK' /\ UniquePaymentAddress'
    BY <1>1 DEF Inv, TypeOK, UniquePaymentAddress
  <1>3. PaidInFull'
    <2>1. /\ \A s \in Locks : balance'[s] <= deposited[s]
      <3>1. \A s \in Locks : /\ balance[s] \in Nat /\ balance'[s] \in Nat
                             /\ deposited[s] \in Nat
        BY DEF Inv, TypeOK
      <3> QED
        BY <3>1 DEF Inv, PaidInFull
    <2> QED
      BY <1>1, <2>1 DEF Inv, PaidInFull
  <1>4. /\ \A i \in Tokens : Offered(i)' /\ Open(i)'
        /\ Alone' /\ Agreed'
        /\ \A c \in Calls : CallRight(calls[c])'
    BY <1>1 DEF OInv, Offered, Open, Alone, Agreed, CallRight, ListRight,
                LockRight, SettleRight, Unsold, IsLocked
  <1>5. \A s \in Locks : Kept(s)'
    BY <1>1 DEF OInv, Kept
  <1> QED
    BY <1>1, <1>2, <1>3, <1>4, <1>5 DEF Inv, OInv

\* The users and the prices are not its business.
LEMMA UsersAside ==
  ASSUME TInv, QueueAside
  PROVE  UserTypes' /\ Slots' /\ Trade' /\ Untouched' /\ Deposits'
  <1>1. UNCHANGED <<owner, listings, calls, orders, deposited, sold, passed,
                    key, funded, price, tester>>
    BY DEF QueueAside, history, setupVars
  <1>2. UserTypes'
    BY <1>1 DEF TInv, UserTypes
  <1>3. Slots'
    BY <1>1 DEF TInv, Slots, UserRight
  <1>4. Trade' /\ Untouched'
    BY <1>1 DEF TInv, Trade, TradeRight, Untouched
  <1>5. Deposits'
    BY <1>1 DEF TInv, Deposits
  <1> QED
    BY <1>2, <1>3, <1>4, <1>5

\* While nothing is paid out, a step of the queue that moves jobs to and fro
\* keeps the invariant.
LEMMA QueueMoves ==
  ASSUME TInv, QueueAside, UNCHANGED <<balance, paid>>, Kinds', faults' \in Nat,
         faults <= faults', pendingDisbursements' \in Seq(Disbursement),
         \A rate \in Rates : StillOpen(rate)' = StillOpen(rate),
         faults' = 0 => \A w \in Workers : /\ workers'[w].failed = << >>
                                           /\ workers'[w].answer \in {None, "Ok"},
         faults' = 0 => \A rate \in Rates :
                          Weight(pendingDisbursements', rate)
                            <= Weight(pendingDisbursements, rate)
  PROVE  TInv'
  <1>1. UNCHANGED <<orders, sold, funded, tester, phase, verdict, polled>>
    BY DEF QueueAside, history, setupVars, processVars
  <1>2. Inv' /\ OInv'
    <2>1. balance' \in [Locks -> Nat] /\ \A s \in Locks : balance[s] \in Nat
      BY DEF TInv, Inv, TypeOK
    <2>2. \A s \in Locks : balance'[s] <= balance[s]
      BY <2>1
    <2> QED
      BY <2>1, <2>2, MarketAside DEF TInv
  <1>3. UserTypes' /\ Slots' /\ Trade' /\ Untouched' /\ Deposits'
    BY UsersAside
  <1>4. ASSUME NEW s \in Locks PROVE Owed(s)' /\ Shared(s)'
    <2>1. Owed(s)'
      <3>1. Cost(s) \in Rates
        BY RateTypes
      <3>2. Owed(s)
        BY DEF TInv
      <3> QED
        BY <1>1, <3>1, <3>2 DEF Owed
    <2>2. Shared(s)'
      <3>1. Shared(s) /\ Payees(s)' = Payees(s)
        BY <1>1 DEF TInv, Payees
      <3>2. \A to \in Recipients : Share(s, to) \in Rates
        BY RateTypes
      <3>3. sold[s] > 0 => \A to \in Payees(s) : Share(s, to) \in Rates
        <4>1. sold[s] > 0 => Payees(s) \subseteq Recipients
          <5>1. sold[s] > 0 => orders[s] # None
            BY DEF TInv, OInv, Kept
          <5> QED
            BY <5>1 DEF TInv, Inv, TypeOK, Order, Payees, Recipients
        <4> QED
          BY <3>2, <4>1
      <3> QED
        BY <1>1, <3>1, <3>2, <3>3 DEF Shared
    <2> QED
      BY <2>1, <2>2
  <1>5. Process'
    <2>1. Process /\ faults \in Nat
      BY DEF TInv, Process
    <2>2. faults' = 0 => faults = 0
      BY <2>1
    <2>3. Faultless'
      BY DEF Faultless
    <2>4. ASSUME NEW s \in polled PROVE Drained(s)'
      <3>1. Drained(s) /\ s \in Locks
        BY <2>1 DEF Process
      <3>2. Cost(s) \in Rates
        BY <3>1, RateTypes
      <3>3. /\ Weight(pendingDisbursements', Cost(s)) \in Nat
            /\ Weight(pendingDisbursements, Cost(s)) \in Nat
        BY <3>2, WeightType DEF Rates, TInv, Inv, TypeOK
      <3>4. faults' = 0 =>
              Weight(pendingDisbursements', Cost(s))
                <= Weight(pendingDisbursements, Cost(s))
        BY <3>2
      <3>5. StillOpen(Cost(s))' = StillOpen(Cost(s))
        BY <3>2
      <3> QED
        BY <1>1, <2>2, <3>1, <3>3, <3>4, <3>5 DEF Drained
    <2> QED
      BY <1>1, <2>1, <2>3, <2>4 DEF Process
  <1>6. OkMeansPaidOut' /\ ErrMeansUnsettled'
    <2>1. OkMeansPaidOut'
      BY <1>1 DEF TInv, OkMeansPaidOut, PaidFor
    <2>2. ErrMeansUnsettled'
      BY <1>1 DEF TInv, ErrMeansUnsettled, Process
    <2> QED
      BY <2>1, <2>2
  <1> QED
    BY <1>2, <1>3, <1>4, <1>5, <1>6 DEF TInv

\* The other workers that await an answer.
LEMMA OthersAwait ==
  ASSUME Kinds, NEW w \in Workers
  PROVE  Cardinality(Awaited(workers) \ {w})
           = IF workers[w].job # None THEN pendingCount - 1 ELSE pendingCount
  <1>1. /\ IsFiniteSet(Awaited(workers))
        /\ pendingCount = Cardinality(Awaited(workers))
    BY SaleTestAssumption, FS_Subset DEF Kinds, Awaited
  <1>2. w \in Awaited(workers) <=> workers[w].job # None
    BY DEF Awaited
  <1> DEFINE A == Awaited(workers)
  <1> HIDE DEF A
  <1>3. w \in A => Cardinality(A \ {w}) = Cardinality(A) - 1
    BY <1>1, FS_RemoveElement DEF A
  <1>4. w \notin A => A \ {w} = A
    OBVIOUS
  <1> QED
    BY <1>1, <1>2, <1>3, <1>4 DEF A

\* A worker that pops its next job with the jobs that failed so far, which is
\* all it had left to do.
LEMMA PopKeeps ==
  ASSUME TInv, QueueAside, UNCHANGED <<balance, paid, dropped, faults>>,
         NEW w \in Workers, NEW failed \in Seq(Disbursement), NEW awaited,
         Queue!PopNext(w, pendingDisbursements, failed, awaited),
         awaited = Cardinality(Awaited(workers) \ {w}),
         \A rate \in Rates : Load(workers[w], rate) = Weight(failed, rate),
         faults = 0 => failed = << >>
  PROVE  TInv'
  <1>1. Kinds /\ pendingDisbursements \in Seq(Disbursement) /\ faults \in Nat
    BY DEF TInv, Inv, TypeOK, Process
  <1>2. /\ Kinds' /\ pendingDisbursements' \in Seq(Disbursement)
        /\ \A v \in Workers \ {w} : workers'[v] = workers[v]
        /\ workers'[w].answer = None
        /\ workers'[w].failed \in {failed, << >>}
        /\ \A rate \in Rates :
             /\ StillOpen(rate)' + Load(workers[w], rate)
                  = StillOpen(rate) + Weight(failed, rate)
             /\ Weight(pendingDisbursements', rate)
                  <= Weight(pendingDisbursements, rate) + Weight(failed, rate)
    BY <1>1, WorkerMoves
  <1>3. ASSUME NEW rate \in Rates
        PROVE  /\ StillOpen(rate)' = StillOpen(rate)
               /\ faults' = 0 => Weight(pendingDisbursements', rate)
                                   <= Weight(pendingDisbursements, rate)
    <2>1. PICK a \in Nat : a = StillOpen(rate)
      BY <1>1, OpenType
    <2>2. PICK b \in Nat : b = StillOpen(rate)'
      <3>1. PICK n \in Nat : n = Weight(pendingDisbursements', rate)
        BY <1>2, WeightType DEF Rates
      <3>2. PICK ws \in [Workers -> Worker] : ws = workers'
        BY <1>2 DEF Kinds
      <3>3. PICK m \in Nat : m = Carried(ws, rate)
        BY LoadType
      <3> QED
        BY <3>1, <3>2, <3>3 DEF StillOpen
    <2>3. PICK f \in Nat : f = Weight(failed, rate)
      BY WeightType DEF Rates
    <2>4. b + f = a + f
      BY <1>2, <2>1, <2>2, <2>3
    <2>5. PICK c \in Nat : c = Weight(pendingDisbursements, rate)
      BY <1>1, OpenType
    <2>6. faults' = 0 => f = 0
      BY <2>3, WeightType DEF Rates
    <2>7. Weight(pendingDisbursements', rate) <= c + f
      BY <1>2, <2>3, <2>5
    <2> QED
      BY <2>1, <2>2, <2>4, <2>5, <2>6, <2>7
  <1>4. faults' = 0 => \A v \in Workers : /\ workers'[v].failed = << >>
                                          /\ workers'[v].answer \in {None, "Ok"}
    <2> SUFFICES ASSUME faults = 0, NEW v \in Workers
                 PROVE  /\ workers'[v].failed = << >>
                        /\ workers'[v].answer \in {None, "Ok"}
      OBVIOUS
    <2>1. /\ workers[v].failed = << >>
          /\ workers[v].answer \in {None, "Ok"}
      BY DEF TInv, Process, Faultless
    <2>2. CASE v = w
      BY <1>2, <2>2
    <2>3. CASE v # w
      BY <1>2, <2>1, <2>3
    <2> QED
      BY <2>2, <2>3
  <1>5. faults' \in Nat /\ faults <= faults'
    BY <1>1
  <1> QED
    BY <1>2, <1>3, <1>4, <1>5, QueueMoves

\* The heartbeat starts a worker.
LEMMA DisburseKeeps ==
  ASSUME TInv, NEW w \in Workers, Disburse(w)
  PROVE  TInv'
  <1>1. /\ workers[w] = Queue!Resting
        /\ Queue!PopNext(w, pendingDisbursements, << >>, pendingCount)
        /\ UNCHANGED <<balance, paid, dropped, faults>>
        /\ QueueAside
    BY DEF Disburse, QueueStep, Queue!CronDisbursements, QueueAside
  <1>2. Kinds
    BY DEF TInv
  <1>3. pendingCount = Cardinality(Awaited(workers) \ {w})
    BY <1>1, <1>2, OthersAwait DEF Queue!Resting
  <1>4. << >> \in Seq(Disbursement)
    OBVIOUS
  <1>5. \A rate \in Rates : Load(workers[w], rate) = Weight(<< >>, rate)
    BY <1>1, <1>4, LoadOfOne, WeightType DEF Rates
  <1> QED
    BY <1>1, <1>3, <1>4, <1>5, PopKeeps

\* A worker takes the answer to its job.
LEMMA TakeAnswerKeeps ==
  ASSUME TInv, NEW w \in Workers, TakeAnswer(w)
  PROVE  TInv'
  <1>1. Queue!Work(w) /\ QueueAside /\ UNCHANGED faults
    BY DEF TakeAnswer, QueueStep, QueueAside
  <1>2. /\ Kinds /\ workers[w] \in Worker
        /\ workers[w].answer # "InsufficientFunds"
        /\ workers[w].failed \in Seq(Disbursement)
    BY DEF TInv, Kinds, Worker
  <1>3. workers[w].answer # None => workers[w].job \in Disbursement
    BY <1>2 DEF Kinds, Worker, Queue!Resting
  <1>4. \A rate \in Rates : Weight(workers[w].failed, rate) \in Nat
    BY <1>2, WeightType DEF Rates
  <1>5. CASE Queue!Completed(w)
    <2>1. /\ workers[w].answer = "Ok"
          /\ Queue!PopNext(w, pendingDisbursements, workers[w].failed,
                           pendingCount - 1)
          /\ UNCHANGED <<balance, paid, dropped>>
      BY <1>5 DEF Queue!Completed
    <2>2. workers[w].job # None
      BY <1>3, <2>1, RateTypes, SaleTestAssumption DEF Queue!Answers
    <2>3. pendingCount - 1 = Cardinality(Awaited(workers) \ {w})
      BY <1>2, <2>2, OthersAwait
    <2>4. ASSUME NEW rate \in Rates
          PROVE  Load(workers[w], rate) = Weight(workers[w].failed, rate)
      <3>1. Load(workers[w], rate) = Weight(workers[w].failed, rate) + 0
        BY <2>1 DEF Load, Asking
      <3> QED
        BY <1>4, <3>1
    <2>5. faults = 0 => workers[w].failed = << >>
      BY DEF TInv, Process, Faultless
    <2>6. PICK failed \in Seq(Disbursement) : failed = workers[w].failed
      BY <1>2
    <2> QED
      BY <1>1, <2>1, <2>3, <2>4, <2>5, <2>6, PopKeeps
  <1>6. CASE Queue!Retry(w)
    <2>1. /\ workers[w].answer \in {"BadFee", "reject"}
          /\ Queue!PopNext(w, pendingDisbursements,
                           <<workers[w].job>> \o workers[w].failed,
                           pendingCount - 1)
          /\ UNCHANGED <<balance, paid, dropped>>
      BY <1>6 DEF Queue!Retry
    <2>2. workers[w].job \in Disbursement /\ workers[w].job # None
      BY <1>3, <2>1, RateTypes, SaleTestAssumption DEF Queue!Answers
    <2>3. pendingCount - 1 = Cardinality(Awaited(workers) \ {w})
      BY <1>2, <2>2, OthersAwait
    <2>4. PICK failed : failed = <<workers[w].job>> \o workers[w].failed
      OBVIOUS
    <2>5. failed \in Seq(Disbursement)
      <3>1. PICK job \in Disbursement : job = workers[w].job
        BY <2>2
      <3>2. PICK q \in Seq(Disbursement) : q = workers[w].failed
        BY <1>2
      <3>3. <<job>> \in Seq(Disbursement) /\ failed = <<job>> \o q
        BY <2>4, <3>1, <3>2
      <3> QED
        BY <3>2, <3>3, EntriesOfTwo
    <2>6. ASSUME NEW rate \in Rates
          PROVE  Load(workers[w], rate) = Weight(failed, rate)
      <3>1. Load(workers[w], rate)
              = Weight(workers[w].failed, rate) + rate[workers[w].job]
        BY <2>1, <2>2 DEF Load, Asking
      <3>2. Weight(failed, rate)
              = rate[workers[w].job] + Weight(workers[w].failed, rate)
        BY <1>2, <2>2, <2>4, WeightOfHead DEF Rates
      <3>3. rate[workers[w].job] \in Nat
        BY <2>2 DEF Rates
      <3> QED
        BY <1>4, <3>1, <3>2, <3>3
    <2>7. faults # 0
      <3>1. None \notin {"BadFee", "reject"}
        BY SaleTestAssumption DEF Queue!Answers
      <3> QED
        BY <2>1, <3>1 DEF TInv, Process, Faultless
    <2> QED
      BY <1>1, <2>1, <2>3, <2>4, <2>5, <2>6, <2>7, PopKeeps
  <1> QED
    BY <1>1, <1>2, <1>5, <1>6 DEF Queue!Work, Queue!Drop

\* The ledger's answer arrives: what was asked of it is open, unless it is done.
LEMMA AnswerMoves ==
  ASSUME Kinds, pendingDisbursements \in Seq(Disbursement), NEW w \in Workers,
         workers[w].job # None, workers[w].answer = None,
         NEW answer \in Queue!Answers, answer # "InsufficientFunds",
         workers' = [workers EXCEPT ![w].answer = answer],
         UNCHANGED <<pendingDisbursements, pendingCount>>
  PROVE  /\ workers' \in [Workers -> Worker]
         /\ \A v \in Workers : /\ workers'[v].failed = workers[v].failed
                               /\ workers'[v].answer \in
                                    {workers[v].answer, answer}
                               /\ workers'[v].job = None =>
                                    workers'[v] = Queue!Resting
                               /\ workers'[v].answer # "InsufficientFunds"
         /\ pendingCount' = Cardinality(Awaited(workers'))
         /\ workers[w].job \in Disbursement
         /\ \A rate \in Rates :
              /\ StillOpen(rate)'
                   + (IF answer = "Ok" THEN rate[workers[w].job] ELSE 0)
                     = StillOpen(rate)
              /\ StillOpen(rate)' \in Nat
              /\ rate[workers[w].job] <= StillOpen(rate)
  <1> DEFINE old == workers[w]
             new == workers'[w]
  <1>1. workers \in [Workers -> Worker] /\ old \in Worker
    BY DEF Kinds
  <1>2. /\ old.job \in Disbursement /\ old.failed \in Seq(Disbursement)
        /\ Asking(old)
    BY <1>1, SaleTestAssumption DEF Worker, Asking, Queue!Answers
  <1>3. new = [old EXCEPT !.answer = answer]
    BY <1>1
  <1>4. /\ new \in Worker
        /\ new.job = old.job /\ new.failed = old.failed /\ new.answer = answer
    BY <1>1, <1>3 DEF Worker
  <1>5. /\ workers' \in [Workers -> Worker]
        /\ \A v \in Workers \ {w} : workers'[v] = workers[v]
    BY <1>1, <1>3, <1>4
  <1> HIDE DEF old, new
  <1>6. \A v \in Workers : /\ workers'[v].failed = workers[v].failed
                           /\ workers'[v].answer \in
                                {workers[v].answer, answer}
                           /\ workers'[v].job = None =>
                                workers'[v] = Queue!Resting
                           /\ workers'[v].answer # "InsufficientFunds"
    BY <1>2, <1>4, <1>5, RateTypes DEF Kinds, old, new
  <1>7. Awaited(workers') = Awaited(workers)
    BY <1>4, <1>5 DEF Awaited, old, new
  <1>8. pendingCount' = Cardinality(Awaited(workers'))
    BY <1>7 DEF Kinds
  <1>9. ASSUME NEW rate \in Rates
        PROVE  /\ StillOpen(rate)' + (IF answer = "Ok" THEN rate[old.job] ELSE 0)
                    = StillOpen(rate)
               /\ StillOpen(rate)' \in Nat
               /\ rate[old.job] <= StillOpen(rate)
    <2>1. Carried(workers', rate) + Load(old, rate)
            = Carried(workers, rate) + Load(new, rate)
      <3>1. Carried(workers', rate) + Load(workers[w], rate)
              = Carried(workers, rate) + Load(workers'[w], rate)
        <4>1. PICK ws : ws = workers'
          OBVIOUS
        <4>2. /\ workers \in [Workers -> Worker] /\ ws \in [Workers -> Worker]
              /\ \A v \in Workers \ {w} : ws[v] = workers[v]
          BY <1>1, <1>5, <4>1, Zenon
        <4>3. Carried(ws, rate) + Load(workers[w], rate)
                = Carried(workers, rate) + Load(ws[w], rate)
          BY <4>2, LoadChanged, Zenon
        <4> QED
          BY <4>1, <4>3, Zenon
      <3> QED
        BY <3>1 DEF old, new
    <2>2. PICK f \in Nat : f = Weight(old.failed, rate)
      BY <1>2, WeightType DEF Rates
    <2>3. PICK j \in Nat : j = rate[old.job]
      BY <1>2 DEF Rates
    <2>4. Load(old, rate) = f + j
      BY <1>2, <2>2, <2>3 DEF Load
    <2>5. Load(new, rate) = f + IF answer = "Ok" THEN 0 ELSE j
      <3>1. Asking(new) <=> answer # "Ok"
        BY <1>2, <1>4 DEF Asking
      <3> QED
        BY <1>4, <2>2, <2>3, <3>1 DEF Load
    <2>6. PICK c \in Nat : c = Carried(workers, rate)
      BY <1>1, LoadType
    <2>7. PICK d \in Nat : d = Carried(workers', rate)
      BY <1>5, LoadType
    <2>8. PICK q \in Nat : q = Weight(pendingDisbursements, rate)
      BY WeightType DEF Rates
    <2>9. d + (f + j) = c + (f + IF answer = "Ok" THEN 0 ELSE j)
      BY <2>1, <2>4, <2>5, <2>6, <2>7
    <2>10. (q + d) + (IF answer = "Ok" THEN j ELSE 0) = q + c
      <3>1. d + (f + j) = c + (f + 0) => (q + d) + j = q + c
        OBVIOUS
      <3>2. d + (f + j) = c + (f + j) => (q + d) + 0 = q + c
        OBVIOUS
      <3> QED
        BY <2>9, <3>1, <3>2
    <2>11. StillOpen(rate) = q + c /\ StillOpen(rate)' = q + d
      BY <2>6, <2>7, <2>8 DEF StillOpen
    <2>12. j <= q + c
      <3>1. Load(old, rate) <= c
        BY <1>1, <2>6, LoadType DEF old
      <3> QED
        BY <2>4, <3>1
    <2> QED
      BY <2>3, <2>10, <2>11, <2>12
  <1> QED
    BY <1>2, <1>5, <1>6, <1>8, <1>9 DEF old

\* A job that asks the ledger is one of a sold order's, and the address holds
\* what it costs.
LEMMA AskingIsCovered ==
  ASSUME TInv, NEW w \in Workers, Asking(workers[w])
  PROVE  LET job == workers[w].job
             s == job.sub IN
         /\ job \in Disbursement /\ s \in Locks
         /\ sold[s] > 0 /\ job.to \in Payees(s)
         /\ job.amount + 10000 \in Nat
         /\ job.amount + 10000 <= balance[s]
  <1>1. Kinds /\ workers[w] \in Worker
        /\ pendingDisbursements \in Seq(Disbursement)
    BY DEF TInv, Inv, TypeOK, Kinds
  <1>2. PICK job \in Disbursement : job = workers[w].job
    BY <1>1 DEF Asking, Worker
  <1>3. PICK s \in Locks : s = job.sub
    BY DEF Disbursement
  <1>4. ASSUME NEW rate \in Rates
        PROVE  rate[job] <= StillOpen(rate) /\ StillOpen(rate) \in Nat
    <2>1. PICK f \in Nat : f = Weight(workers[w].failed, rate)
      BY <1>1, WeightType DEF Rates, Worker
    <2>2. PICK j \in Nat : j = rate[job]
      BY DEF Rates
    <2>3. Load(workers[w], rate) = f + j
      BY <1>2, <2>1, <2>2 DEF Load
    <2>4. PICK a \in Nat : a = StillOpen(rate)
      BY <1>1, OpenType
    <2>5. f + j <= a
      BY <1>1, <2>3, <2>4, OpenType
    <2>6. j <= a
      BY <2>5
    <2> QED
      BY <2>2, <2>4, <2>6
  <1>5. job.amount \in Nat /\ job.to \in Recipients
    BY DEF Disbursement, Recipients
  <1>6. Cost(s)[job] = job.amount + 10000 /\ Share(s, job.to)[job] = 1
    BY <1>3 DEF Cost, Share
  <1>7. Cost(s) \in Rates /\ Share(s, job.to) \in Rates
    BY <1>5, RateTypes
  <1>8. /\ job.amount + 10000 <= StillOpen(Cost(s))
        /\ 1 <= StillOpen(Share(s, job.to))
    BY <1>4, <1>6, <1>7
  <1>9. Owed(s) /\ Shared(s) /\ sold[s] \in Nat
    BY DEF TInv, Inv, TypeOK
  <1>10. sold[s] > 0 /\ StillOpen(Cost(s)) = balance[s]
    <2>1. StillOpen(Cost(s)) # 0
      BY <1>5, <1>8
    <2> QED
      BY <1>9, <2>1 DEF Owed
  <1>11. job.to \in Payees(s)
    <2>1. StillOpen(Share(s, job.to)) # 0
      BY <1>8
    <2> QED
      BY <1>5, <1>9, <1>10, <2>1 DEF Shared
  <1> QED
    BY <1>2, <1>3, <1>5, <1>8, <1>10, <1>11

\* The ledger turns a transfer away, and not for want of funds.
LEMMA LedgerRefusesKeeps ==
  ASSUME TInv, NEW w \in Workers, LedgerRefuses(w)
  PROVE  TInv'
  <1>1. /\ Queue!LedgerRefusal(w) /\ QueueAside
        /\ faults' = IF workers'[w].answer = "InsufficientFunds" THEN faults
                     ELSE faults + 1
    BY DEF LedgerRefuses, QueueStep, QueueAside
  <1>2. /\ workers[w].job # None /\ workers[w].answer = None
        /\ UNCHANGED <<pendingDisbursements, pendingCount, balance, paid,
                       dropped>>
    BY <1>1 DEF Queue!LedgerRefusal
  <1>3. PICK answer \in Queue!Answers \ {"Ok"} :
          /\ answer = "InsufficientFunds" =>
               balance[workers[w].job.sub] < workers[w].job.amount + LedgerFee
          /\ workers' = [workers EXCEPT ![w].answer = answer]
    BY <1>1, Zenon DEF Queue!LedgerRefusal
  <1>4. Asking(workers[w])
    BY <1>2, SaleTestAssumption DEF Asking, Queue!Answers
  <1>5. answer # "InsufficientFunds"
    <2>1. balance[workers[w].job.sub] \in Nat
      BY <1>4, AskingIsCovered DEF TInv, Inv, TypeOK
    <2> QED
      BY <1>3, <1>4, <2>1, AskingIsCovered DEF LedgerFee
  <1>6. Kinds /\ pendingDisbursements \in Seq(Disbursement) /\ faults \in Nat
    BY DEF TInv, Inv, TypeOK, Process
  <1>7. /\ workers' \in [Workers -> Worker]
        /\ \A v \in Workers : /\ workers'[v].failed = workers[v].failed
                              /\ workers'[v].answer \in
                                   {workers[v].answer, answer}
                              /\ workers'[v].job = None =>
                                   workers'[v] = Queue!Resting
                              /\ workers'[v].answer # "InsufficientFunds"
        /\ pendingCount' = Cardinality(Awaited(workers'))
        /\ workers[w].job \in Disbursement
        /\ \A rate \in Rates :
             /\ StillOpen(rate)'
                  + (IF answer = "Ok" THEN rate[workers[w].job] ELSE 0)
                    = StillOpen(rate)
             /\ StillOpen(rate)' \in Nat
             /\ rate[workers[w].job] <= StillOpen(rate)
    <2>1. /\ answer \in Queue!Answers /\ UNCHANGED pendingDisbursements
          /\ UNCHANGED pendingCount
          /\ workers' = [workers EXCEPT ![w].answer = answer]
      BY <1>2, <1>3
    <2> QED
      BY <1>2, <1>5, <1>6, <2>1, AnswerMoves, Zenon
  <1>8. Kinds'
    BY <1>2, <1>6, <1>7 DEF Kinds
  <1>9. faults' \in Nat /\ faults <= faults' /\ faults' # 0
    <2>1. workers'[w].answer # "InsufficientFunds"
      BY <1>7
    <2> QED
      BY <1>1, <1>6, <2>1
  <1>10. ASSUME NEW rate \in Rates PROVE StillOpen(rate)' = StillOpen(rate)
    <2>1. answer # "Ok"
      BY <1>3
    <2>2. PICK n \in Nat : n = StillOpen(rate)'
      BY <1>7
    <2>3. n + 0 = StillOpen(rate)
      BY <1>7, <2>1, <2>2
    <2> QED
      BY <2>2, <2>3
  <1> QED
    BY <1>1, <1>2, <1>6, <1>8, <1>9, <1>10, QueueMoves

\* "OK!" stays true while the paid jobs of an address are its payees'.
LEMMA OkStays ==
  ASSUME TInv, UNCHANGED <<orders, sold, tester, funded, verdict>>,
         DOMAIN paid \subseteq DOMAIN paid', \A s \in Locks : Shared(s)'
  PROVE  OkMeansPaidOut'
  <1> SUFFICES ASSUME NEW u \in Users, NEW s, s = tester[u].sub,
                      verdict[u] = "OK", u \in funded
               PROVE  /\ sold[s] = 1
                      /\ {job.to : job \in PaidFor(s)'} = Payees(s)
    BY DEF OkMeansPaidOut, Payees
  <1>1. tester[u].pc = "done" /\ s \in Locks
    <2>1. verdict[u] # None
      BY SaleTestAssumption
    <2>2. tester[u].pc = "done"
      BY <2>1 DEF TInv, Process
    <2> QED
      BY <2>2 DEF TInv, Slots, UserRight, UserTypes
  <1>2. sold[s] = 1 /\ {job.to : job \in PaidFor(s)} = Payees(s)
    BY DEF TInv, OkMeansPaidOut, Payees
  <1>3. PaidFor(s) \subseteq PaidFor(s)'
    BY DEF PaidFor
  <1>4. \A job \in PaidFor(s)' : job.to \in Payees(s)
    BY <1>1 DEF PaidFor, Shared, Payees
  <1> QED
    BY <1>2, <1>3, <1>4

\* The ledger carries a transfer out: a job less to pay, from an address that
\* holds what it costs.
LEMMA LedgerPaysKeeps ==
  ASSUME TInv, NEW w \in Workers, LedgerPays(w)
  PROVE  TInv'
  <1>1. Queue!LedgerTransfer(w) /\ QueueAside /\ UNCHANGED faults
    BY DEF LedgerPays, QueueStep, QueueAside
  <1>2. /\ workers[w].job # None /\ workers[w].answer = None
        /\ UNCHANGED <<pendingDisbursements, pendingCount, dropped>>
        /\ workers' = [workers EXCEPT ![w].answer = "Ok"]
    BY <1>1 DEF Queue!LedgerTransfer
  <1>3. Asking(workers[w]) /\ "Ok" \in Queue!Answers /\ None # "Ok"
    BY <1>2, SaleTestAssumption DEF Asking, Queue!Answers
  <1>4. UNCHANGED <<orders, sold, deposited, funded, tester, phase, verdict,
                    polled>>
    BY <1>1 DEF QueueAside, history, setupVars, processVars
  <1>5. Kinds /\ pendingDisbursements \in Seq(Disbursement) /\ faults \in Nat
    BY DEF TInv, Inv, TypeOK, Process
  <1>6. PICK job \in Disbursement : job = workers[w].job
    BY <1>3, AskingIsCovered
  <1>7. PICK t \in Locks : t = job.sub
    BY DEF Disbursement
  <1>8. PICK cost \in Nat : cost = job.amount + 10000
    BY DEF Disbursement
  <1>9. sold[t] > 0 /\ job.to \in Payees(t) /\ cost <= balance[t]
    BY <1>3, <1>6, <1>7, <1>8, AskingIsCovered
  <1>10. balance' = [balance EXCEPT ![t] = balance[t] - cost]
    BY <1>1, <1>6, <1>7, <1>8 DEF Queue!LedgerTransfer, LedgerFee
  <1>11. DOMAIN paid' = DOMAIN paid \cup {job}
    <2>1. paid' = Queue!(+)(paid, Queue!SetToBag({job}))
      BY <1>1, <1>6 DEF Queue!LedgerTransfer, Queue!One
    <2> QED
      BY <2>1 DEF Queue!(+), Queue!SetToBag
  <1>12. /\ workers' \in [Workers -> Worker]
         /\ \A v \in Workers : /\ workers'[v].failed = workers[v].failed
                               /\ workers'[v].answer \in
                                    {workers[v].answer, "Ok"}
                               /\ workers'[v].job = None =>
                                    workers'[v] = Queue!Resting
                               /\ workers'[v].answer # "InsufficientFunds"
         /\ pendingCount' = Cardinality(Awaited(workers'))
         /\ \A rate \in Rates :
              /\ StillOpen(rate)'
                   + (IF "Ok" = "Ok" THEN rate[workers[w].job] ELSE 0)
                     = StillOpen(rate)
              /\ StillOpen(rate)' \in Nat
              /\ rate[workers[w].job] <= StillOpen(rate)
    <2>1. PICK answer \in Queue!Answers : answer = "Ok"
      BY <1>3
    <2>2. /\ workers' = [workers EXCEPT ![w].answer = answer]
          /\ answer # "InsufficientFunds"
      BY <1>2, <2>1
    <2>3. /\ workers' \in [Workers -> Worker]
          /\ \A v \in Workers : /\ workers'[v].failed = workers[v].failed
                                /\ workers'[v].answer \in
                                     {workers[v].answer, answer}
                                /\ workers'[v].job = None =>
                                     workers'[v] = Queue!Resting
                                /\ workers'[v].answer # "InsufficientFunds"
          /\ pendingCount' = Cardinality(Awaited(workers'))
          /\ workers[w].job \in Disbursement
          /\ \A rate \in Rates :
               /\ StillOpen(rate)'
                    + (IF answer = "Ok" THEN rate[workers[w].job] ELSE 0)
                      = StillOpen(rate)
               /\ StillOpen(rate)' \in Nat
               /\ rate[workers[w].job] <= StillOpen(rate)
      BY <1>2, <1>5, <2>2, AnswerMoves, Zenon
    <2> QED
      BY <2>1, <2>3, Zenon
  <1>13. \A rate \in Rates : /\ StillOpen(rate)' \in Nat
                             /\ rate[job] \in Nat
                             /\ StillOpen(rate)' + rate[job] = StillOpen(rate)
    BY <1>6, <1>12 DEF Rates
  <1>14. Kinds'
    <2>1. DOMAIN paid' \subseteq Disbursement
      BY <1>5, <1>11 DEF Kinds
    <2> QED
      BY <1>2, <1>5, <1>12, <2>1 DEF Kinds, Queue!Resting
  <1>15. Inv' /\ OInv'
    <2>1. balance \in [Locks -> Nat] /\ sold \in [Locks -> Nat]
      BY DEF TInv, Inv, TypeOK
    <2>2. balance[t] \in Nat /\ balance[t] - cost \in Nat
      BY <1>9, <2>1
    <2>3. balance' \in [Locks -> Nat]
      BY <1>10, <2>1, <2>2
    <2>4. \A s \in Locks : /\ balance'[s] <= balance[s]
                           /\ sold[s] = 0 => balance'[s] = balance[s]
      BY <1>9, <1>10, <2>1, <2>2
    <2> QED
      BY <1>1, <1>2, <1>5, <2>3, <2>4, MarketAside DEF TInv
  <1>16. UserTypes' /\ Slots' /\ Trade' /\ Untouched' /\ Deposits'
    BY <1>1, UsersAside
  <1>17. ASSUME NEW s \in Locks PROVE Owed(s)'
    <2>1. Cost(s) \in Rates /\ Owed(s)
      BY RateTypes DEF TInv
    <2>2. PICK n \in Nat : n = StillOpen(Cost(s))'
      BY <1>13, <2>1
    <2>3. balance \in [Locks -> Nat]
      BY DEF TInv, Inv, TypeOK
    <2>4. CASE s = t
      <3>1. Cost(s)[job] = cost
        BY <1>7, <1>8, <2>4 DEF Cost
      <3>2. n + cost = balance[t]
        BY <1>9, <1>13, <2>1, <2>2, <2>4, <3>1 DEF Owed
      <3>3. balance'[t] = balance[t] - cost
        BY <1>10, <2>3
      <3>4. n = balance'[t]
        BY <2>3, <3>2, <3>3
      <3> QED
        BY <1>4, <1>9, <2>2, <2>4, <3>4 DEF Owed
    <2>5. CASE s # t
      <3>1. Cost(s)[job] = 0
        BY <1>7, <2>5 DEF Cost
      <3>2. n = StillOpen(Cost(s))
        BY <1>13, <2>1, <2>2, <3>1
      <3>3. balance'[s] = balance[s]
        BY <1>10, <2>3, <2>5
      <3> QED
        BY <1>4, <2>1, <2>2, <3>2, <3>3 DEF Owed
    <2> QED
      BY <2>4, <2>5
  <1>18. ASSUME NEW s \in Locks PROVE Shared(s)'
    <2>1. Shared(s) /\ Payees(s)' = Payees(s)
      BY <1>4 DEF TInv, Payees
    <2>2. \A j \in DOMAIN paid' :
            j.sub = s => sold[s] > 0 /\ j.to \in Payees(s)
      BY <1>7, <1>9, <1>11, <2>1 DEF Shared
    <2>3. ASSUME NEW to \in Recipients
          PROVE  /\ StillOpen(Share(s, to)) = 0 => StillOpen(Share(s, to))' = 0
                 /\ StillOpen(Share(s, to)) > 0 =>
                      \/ StillOpen(Share(s, to))' > 0
                      \/ job.sub = s /\ job.to = to
      <3>1. Share(s, to) \in Rates
        BY RateTypes
      <3>2. PICK n \in Nat : n = StillOpen(Share(s, to))'
        BY <1>13, <3>1
      <3>3. PICK j \in Nat : j = Share(s, to)[job]
        BY <1>13, <3>1
      <3>4. n + j = StillOpen(Share(s, to))
        BY <1>13, <3>1, <3>2, <3>3
      <3>5. j # 0 => job.sub = s /\ job.to = to
        BY <3>3 DEF Share
      <3> QED
        BY <3>2, <3>4, <3>5
    <2>4. sold[s] > 0 => Payees(s) \subseteq Recipients
      <3>1. sold[s] > 0 => orders[s] # None
        BY DEF TInv, OInv, Kept
      <3> QED
        BY <3>1 DEF TInv, Inv, TypeOK, Order, Payees, Recipients
    <2>5. sold[s] > 0 =>
            /\ \A to \in Recipients \ Payees(s) : StillOpen(Share(s, to))' = 0
            /\ \A to \in Payees(s) :
                 \/ StillOpen(Share(s, to))' > 0
                 \/ \E j \in DOMAIN paid' : j.sub = s /\ j.to = to
      BY <1>11, <2>1, <2>3, <2>4 DEF Shared
    <2> QED
      BY <1>4, <2>1, <2>2, <2>5 DEF Shared
  <1>19. Process'
    <2>1. Process
      BY DEF TInv
    <2>2. Faultless'
      BY <1>1, <1>12, <2>1 DEF Process, Faultless
    <2>3. ASSUME NEW s \in polled PROVE Drained(s)'
      <3>1. Drained(s) /\ s \in Locks
        BY <2>1 DEF Process
      <3>2. Cost(s) \in Rates
        BY <3>1, RateTypes
      <3>3. PICK n \in Nat : n = StillOpen(Cost(s))'
        BY <1>13, <3>2
      <3>4. PICK j \in Nat : j = Cost(s)[job]
        BY <1>13, <3>2
      <3>5. n + j = StillOpen(Cost(s))
        BY <1>13, <3>2, <3>3, <3>4
      <3>6. StillOpen(Cost(s)) = 0 => StillOpen(Cost(s))' = 0
        BY <3>3, <3>5
      <3> QED
        BY <1>1, <1>2, <1>4, <3>1, <3>6 DEF Drained
    <2> QED
      BY <1>1, <1>4, <2>1, <2>2, <2>3 DEF Process
  <1>20. OkMeansPaidOut'
    BY <1>4, <1>11, <1>18, OkStays
  <1>21. ErrMeansUnsettled'
    BY <1>1, <1>4 DEF TInv, ErrMeansUnsettled
  <1> QED
    BY <1>14, <1>15, <1>16, <1>17, <1>18, <1>19, <1>20, <1>21 DEF TInv

-----------------------------------------------------------------------------
\* The steps of the users and of the canister.

\* What a step that touches neither the queue nor what was sold leaves alone.
SalesAside ==
  /\ UNCHANGED <<queueVars, pendingDisbursements, sold, setupVars, processVars>>
  /\ faults' \in Nat /\ faults <= faults'
  /\ \A s \in Locks : sold[s] > 0 => /\ balance'[s] = balance[s]
                                     /\ orders'[s] = orders[s]
  /\ UNCHANGED tester \/ \E u \in Users : tester[u].pc # "done"

\* Such a step keeps what is known of the queue and of the test's process: the
\* process begins when all users are done.
LEMMA AsideKeeps ==
  ASSUME TInv, SalesAside
  PROVE  /\ Kinds' /\ \A s \in Locks : Owed(s)' /\ Shared(s)'
         /\ Process' /\ OkMeansPaidOut' /\ ErrMeansUnsettled'
  <1>1. /\ UNCHANGED <<pendingCount, workers, paid, dropped, funded, phase,
                       verdict, polled, sold, pendingDisbursements>>
        /\ faults \in Nat
    BY DEF SalesAside, queueVars, setupVars, processVars, TInv, Process
  <1>2. Kinds'
    BY <1>1 DEF TInv, Kinds, Queue!Resting
  <1>3. \A rate : StillOpen(rate)' = StillOpen(rate)
    BY <1>1 DEF StillOpen
  <1>4. ASSUME NEW s \in Locks PROVE Owed(s)' /\ Shared(s)'
    <2>1. Owed(s) /\ Shared(s) /\ sold[s] \in Nat
      BY DEF TInv, Inv, TypeOK
    <2>2. sold[s] > 0 => /\ balance'[s] = balance[s]
                         /\ Payees(s)' = Payees(s)
      BY DEF SalesAside, Payees
    <2>3. Owed(s)'
      BY <1>1, <1>3, <2>1, <2>2 DEF Owed
    <2> QED
      BY <1>1, <1>3, <2>1, <2>2, <2>3 DEF Shared
  <1>5. UNCHANGED tester \/ phase \in {"selling", "failed"}
    BY DEF SalesAside, TInv, Process
  <1>6. phase \in {"selling", "failed"} =>
          polled = {} /\ \A u \in Users : verdict[u] = None
    BY DEF TInv, Process
  <1>7. Process'
    <2>1. Process /\ \A s \in polled : Drained(s)
      BY DEF TInv, Process
    <2>2. (faults' = 0 => faults = 0) /\ faults' \in Nat
      BY <1>1 DEF SalesAside
    <2>3. \A s \in polled : Drained(s)'
      BY <1>1, <1>3, <2>1, <2>2 DEF Drained
    <2> QED
      BY <1>1, <1>5, <1>6, <2>1, <2>2, <2>3 DEF Process, Faultless
  <1>8. OkMeansPaidOut'
    <2> SUFFICES ASSUME NEW u \in Users, verdict[u] = "OK", u \in funded,
                        NEW s, s = tester'[u].sub
                 PROVE  /\ sold[s] = 1
                        /\ {job.to : job \in PaidFor(s)'} = Payees(s)'
      BY <1>1 DEF OkMeansPaidOut, Payees
    <2>1. verdict[u] # None
      BY SaleTestAssumption
    <2>2. UNCHANGED tester /\ tester[u].pc = "done"
      BY <1>5, <1>6, <2>1 DEF TInv, Process
    <2>3. s \in Locks /\ s = tester[u].sub
      BY <2>2 DEF TInv, Slots, UserRight, UserTypes
    <2>4. sold[s] = 1 /\ {job.to : job \in PaidFor(s)} = Payees(s)
      BY <2>3 DEF TInv, OkMeansPaidOut, Payees
    <2>5. PaidFor(s)' = PaidFor(s)
      BY <1>1 DEF PaidFor
    <2>6. Payees(s)' = Payees(s)
      BY <2>3, <2>4 DEF SalesAside, Payees
    <2> QED
      BY <2>4, <2>5, <2>6
  <1>9. ErrMeansUnsettled'
    <2> SUFFICES ASSUME NEW u \in Users, verdict[u] = "ERR"
                 PROVE  tester'[u].sub \notin polled \/ faults' > 0
      BY <1>1 DEF ErrMeansUnsettled
    <2>1. UNCHANGED tester
      BY <1>5, <1>6, SaleTestAssumption
    <2>2. tester[u].sub \notin polled \/ faults > 0
      BY DEF TInv, ErrMeansUnsettled
    <2> QED
      BY <1>1, <2>1, <2>2 DEF SalesAside
  <1> QED
    BY <1>2, <1>4, <1>7, <1>8, <1>9

\* No payment, no order and no sale: the deposits are right as before.
LEMMA DepositsKept ==
  ASSUME TInv, UNCHANGED <<orders, deposited, sold, setupVars>>,
         \A u \in Users : tester'[u].pc \in {"pay", "done"} =>
                            tester'[u] = tester[u]
  PROVE  Deposits'
  <1>1. UNCHANGED <<price, funded>>
    BY DEF setupVars
  <1> QED
    BY <1>1 DEF TInv, Deposits

\* A step of one slot keeps every slot right, if its own is.
LEMMA SlotsKept ==
  ASSUME TInv, NEW c \in Calls,
         \A d \in Calls \ {c} : calls'[d] = calls[d],
         \A u \in Users \ {c} : tester'[u] = tester[u],
         \A s \in Locks : orders[s] # None => orders'[s] # None,
         c \notin Users => calls'[c].op \in {"settle", None},
         c \in Users =>
           /\ UserRight(c)'
           /\ \/ tester'[c].sub = tester[c].sub
              \/ tester'[c].sub # None /\
                 \A v \in Users \ {c} : tester[v].sub # tester'[c].sub
  PROVE  Slots'
  <1>1. Users \subseteq Calls
    BY SaleTestAssumption
  <1>2. ASSUME NEW u \in Users PROVE UserRight(u)'
    <2>1. CASE u # c
      <3>1. UserRight(u) /\ tester[u].sub \in Locks \cup {None}
        BY DEF TInv, Slots, UserTypes
      <3> QED
        BY <1>1, <2>1, <3>1 DEF UserRight, Idle
    <2> QED
      BY <2>1
  <1>3. \A d \in Calls \ Users : calls'[d].op \in {"settle", None}
    BY DEF TInv, Slots
  <1>4. \A u, v \in Users : u # v /\ tester'[u].sub # None =>
                              tester'[u].sub # tester'[v].sub
    BY DEF TInv, Slots
  <1> QED
    BY <1>2, <1>3, <1>4 DEF Slots

\* A step of one slot keeps the trade right, and leaves nobody's tokens alone,
\* if what it changes is.
LEMMA TradeKept ==
  ASSUME TInv, NEW c \in Calls, UNCHANGED price, passed' = {},
         \A d \in Calls \ {c} : calls'[d] = calls[d],
         TradeRight(calls'[c]),
         \A i \in Tokens : listings'[i] # None =>
           listings'[i].seller \in Traders /\ listings'[i].price = price,
         \A s \in Locks : orders'[s] # None =>
           orders'[s].price = price /\ orders'[s].to = Admin,
         \A i \in Tokens : owner'[i] = Nobody => owner[i] = Nobody,
         calls'[c].op # None =>
           \/ calls[c].op # None /\ calls'[c].index = calls[c].index
           \/ owner[calls'[c].index] # Nobody
  PROVE  Trade' /\ Untouched'
  <1>1. Trade'
    BY DEF TInv, Trade, TradeRight
  <1>2. Untouched'
    BY DEF TInv, Untouched
  <1> QED
    BY <1>1, <1>2

\* A call that goes on keeps its function and arguments; the call of a settle
\* that ends is over.
SameCall(old, new) ==
  /\ new.op = old.op /\ new.index = old.index /\ new.who = old.who
  /\ new.price = old.price /\ new.seller = old.seller /\ new.own = old.own

GoesOnAs(c, call) ==
  /\ Goto(c, call)
  /\ calls[c].op # None
  /\ \/ SameCall(calls[c], call)
     \/ call = Idle /\ calls[c].op = "settle"

\* What settle returns to.
LEMMA ReturnGoesOn ==
  ASSUME Inv, NEW c \in Calls, calls[c].op # None, NEW res,
         Goto(c, AfterSettle(calls[c], res))
  PROVE  \E call : GoesOnAs(c, call)
  <1>1. calls[c] \in Call
    BY CallFacts
  <1>2. CASE calls[c].op = "settle"
    BY <1>2 DEF AfterSettle, GoesOnAs
  <1>3. CASE calls[c].op # "settle"
    <2>1. PICK call : call = AfterSettle(calls[c], res)
      OBVIOUS
    <2>2. SameCall(calls[c], call)
      BY <1>1, <1>3, <2>1 DEF AfterSettle, SameCall, Call
    <2> QED
      BY <2>1, <2>2 DEF GoesOnAs
  <1> QED
    BY <1>2, <1>3

\* Every message of a call is one it goes on with.
LEMMA MessageGoesOn ==
  ASSUME Inv, NEW c \in Calls, Message(c)
  PROVE  \E call : GoesOnAs(c, call)
  <1>1. calls[c] \in Call /\ WellFormed(calls[c])
    BY CallFacts
  <1>2. calls[c].pc # "idle" => calls[c].op # None
    BY <1>1 DEF WellFormed, Idle
  <1>4. CASE CanSettle(c)
    <2>1. PICK call : call = IF pendingTransactions[calls[c].index] = None
                             THEN [calls[c] EXCEPT !.pc = "resume",
                                                   !.res = "ok"]
                             ELSE [calls[c] EXCEPT !.pc = "settle"]
      OBVIOUS
    <2>2. Goto(c, call) /\ calls[c].op # None
      BY <1>2, <1>4, <2>1 DEF CanSettle
    <2>3. SameCall(calls[c], call)
      BY <1>1, <2>1 DEF SameCall, Call
    <2> QED
      BY <2>2, <2>3 DEF GoesOnAs
  <1>5. CASE CanSettleResume(c)
    <2>1. PICK res : res = IF \/ calls[c].res = "ok"
                              \/ listings[calls[c].index] = None
                           THEN "err" ELSE "ok"
      OBVIOUS
    <2>2. PICK call : call = [calls[c] EXCEPT !.pc = "resume", !.res = res]
      OBVIOUS
    <2>3. Goto(c, call) /\ calls[c].op # None
      BY <1>2, <1>5, <2>1, <2>2 DEF CanSettleResume
    <2>4. SameCall(calls[c], call)
      BY <1>1, <2>2 DEF SameCall, Call
    <2> QED
      BY <2>3, <2>4 DEF GoesOnAs
  <1>6. CASE SettleBegin(c)
    <2>1. CASE ~calls[c].own \/ pendingTransactions[calls[c].index] = None
      BY <1>2, <1>6, <2>1, ReturnGoesOn DEF SettleBegin
    <2>2. CASE calls[c].own /\ pendingTransactions[calls[c].index] # None
      <3>1. PICK tx : tx = pendingTransactions[calls[c].index]
        OBVIOUS
      <3>2. PICK call : call = [calls[c] EXCEPT !.pc = "balance", !.tx = tx]
        OBVIOUS
      <3>3. Goto(c, call) /\ calls[c].op # None
        BY <1>2, <1>6, <2>2, <3>1, <3>2 DEF SettleBegin
      <3>4. SameCall(calls[c], call)
        BY <1>1, <3>2 DEF SameCall, Call
      <3> QED
        BY <3>3, <3>4 DEF GoesOnAs
    <2> QED
      BY <2>1, <2>2
  <1>7. CASE BalanceReply(c)
    <2>1. PICK funds : funds = balance[calls[c].tx.sub]
      OBVIOUS
    <2>2. PICK call : call = [calls[c] EXCEPT !.pc = "funds", !.funds = funds]
      OBVIOUS
    <2>3. Goto(c, call) /\ calls[c].op # None
      BY <1>2, <1>7, <2>1, <2>2 DEF BalanceReply
    <2>4. SameCall(calls[c], call)
      BY <1>1, <2>2 DEF SameCall, Call
    <2> QED
      BY <2>3, <2>4 DEF GoesOnAs
  <1>8. CASE SettleShort(c)
    BY <1>2, <1>8, ReturnGoesOn DEF SettleShort
  <1>9. CASE SettleCommit(c)
    <2>1. PICK call : call = [calls[c] EXCEPT !.pc = "cap"]
      OBVIOUS
    <2>2. Goto(c, call) /\ calls[c].op # None
      BY <1>2, <1>9, <2>1 DEF SettleCommit
    <2>3. SameCall(calls[c], call)
      BY <1>1, <2>1 DEF SameCall, Call
    <2> QED
      BY <2>2, <2>3 DEF GoesOnAs
  <1>10. CASE CapReply(c)
    BY <1>2, <1>10, ReturnGoesOn DEF CapReply
  <1> QED
    BY <1>4, <1>5, <1>6, <1>7, <1>8, <1>9, <1>10 DEF Message

\* A call that goes on is the one its user waits for.
LEMMA GoesOnRight ==
  ASSUME TInv, NEW c \in Calls, NEW call, GoesOnAs(c, call),
         UNCHANGED <<tester, setupVars, orders, passed>>,
         \A i \in Tokens : listings'[i] \in {None, listings[i]},
         \A i \in Tokens : owner'[i] = Nobody => owner[i] = Nobody
  PROVE  UserTypes' /\ Slots' /\ Trade' /\ Untouched'
  <1>1. UNCHANGED <<key, funded, price>>
    BY DEF setupVars
  <1>2. calls'[c] = call /\ \A d \in Calls \ {c} : calls'[d] = calls[d]
    BY OneMoves DEF GoesOnAs, TInv
  <1>3. UserTypes'
    BY <1>1 DEF TInv, UserTypes
  <1>4. CASE call = Idle /\ calls[c].op = "settle"
    <2>1. c \notin Users
      BY <1>4, SaleTestAssumption DEF TInv, Slots, UserRight, Idle, GoesOnAs
    <2>2. Slots'
      BY <1>2, <1>4, <2>1, SlotsKept DEF Idle
    <2>3. TradeRight(calls'[c]) /\ calls'[c].op = None
      BY <1>2, <1>4, MarketAssumption DEF TradeRight, Idle
    <2>4. Trade' /\ Untouched'
      BY <1>1, <1>2, <2>3, TradeKept DEF TInv, Trade
    <2> QED
      BY <1>3, <2>2, <2>4
  <1>5. CASE SameCall(calls[c], call)
    <2> USE DEF SameCall
    <2>1. c \in Users => UserRight(c)'
      <3> SUFFICES ASSUME c \in Users PROVE UserRight(c)'
        OBVIOUS
      <3>1. UserRight(c) /\ calls[c].op # None
        BY DEF TInv, Slots, GoesOnAs
      <3>2. tester[c].pc \in {"listing", "locking"}
        BY <3>1 DEF UserRight, Idle
      <3> QED
        BY <1>2, <1>5, <3>1, <3>2 DEF UserRight
    <2>2. c \notin Users => calls'[c].op \in {"settle", None}
      BY <1>2, <1>5 DEF TInv, Slots
    <2>3. Slots'
      BY <1>2, <2>1, <2>2, SlotsKept
    <2>4. TradeRight(calls'[c])
      BY <1>2, <1>5 DEF TInv, Trade, TradeRight
    <2>5. Trade' /\ Untouched'
      BY <1>1, <1>2, <1>5, <2>4, TradeKept DEF TInv, Trade, GoesOnAs
    <2> QED
      BY <1>3, <2>3, <2>5
  <1> QED
    BY <1>4, <1>5 DEF GoesOnAs

\* The messages of a call that sell nothing.
LEMMA MessageKeeps ==
  ASSUME TInv, NEW c \in Calls, Message(c), ~SettleCommit(c)
  PROVE  TInv'
  <1>1. /\ UNCHANGED <<owner, listings, orders, deposited, sold, passed,
                       balance, pendingDisbursements>>
        /\ UNCHANGED <<queueVars, setupVars, tester, processVars, faults>>
    BY DEF Message, CanSettle, CanSettleResume, SettleBegin, BalanceReply,
           SettleShort, CapReply, market, history
  <1>2. Step(c) \/ BalanceReply(c)
    BY DEF Message, Step
  <1>3. Inv' /\ OInv'
    BY <1>2, NextInv, StepOrderly, BalanceReplyOrderly DEF TInv, Next
  <1>4. PICK call : GoesOnAs(c, call)
    BY MessageGoesOn DEF TInv
  <1>5. UserTypes' /\ Slots' /\ Trade' /\ Untouched'
    BY <1>1, <1>4, GoesOnRight
  <1>6. Deposits'
    BY <1>1, DepositsKept
  <1>7. faults \in Nat
    BY DEF TInv, Process
  <1>8. SalesAside
    BY <1>1, <1>7 DEF SalesAside
  <1> QED
    BY <1>3, <1>5, <1>6, <1>8, AsideKeeps DEF TInv

\* A settle throws: whoever waits for it is told.
LEMMA ThrowKeeps ==
  ASSUME TInv, NEW c \in Calls, Throw(c)
  PROVE  TInv'
  <1>1. /\ Goto(c, Idle) /\ UNCHANGED market /\ calls[c].pc # "idle"
        /\ Step(c) \/ BalanceReject(c)
        /\ UNCHANGED <<queueVars, setupVars, processVars>>
        /\ faults' \in {faults, faults + 1}
        /\ IF c \in Users THEN Advance(c, "failed") ELSE UNCHANGED tester
    BY DEF Throw, SettleTrap, BalanceReject, CapReject, Step
  <1>2. UNCHANGED <<owner, listings, orders, deposited, sold, passed, balance,
                    pendingDisbursements, key, funded, price>>
    BY <1>1 DEF market, history, setupVars
  <1>3. Inv' /\ OInv'
    BY <1>1, NextInv, EndOrderly DEF TInv, Next
  <1>4. calls'[c] = Idle /\ \A d \in Calls \ {c} : calls'[d] = calls[d]
    BY <1>1, OneMoves DEF TInv
  <1>5. c \in Users => tester[c].pc \in {"listing", "locking"}
    <2>1. calls[c] # Idle
      BY <1>1 DEF Idle
    <2> QED
      BY <2>1 DEF TInv, Slots, UserRight
  <1>6. /\ \A u \in Users \ {c} : tester'[u] = tester[u]
        /\ c \in Users => /\ tester'[c].pc = "failed"
                          /\ tester'[c].sub = tester[c].sub
                          /\ tester'[c].index = tester[c].index
        /\ UserTypes'
    BY <1>1, <1>2 DEF TInv, UserTypes, Advance
  <1>7. Slots'
    <2>1. c \in Users => UserRight(c)'
      BY <1>2, <1>4, <1>5, <1>6 DEF TInv, Slots, UserRight
    <2> QED
      BY <1>2, <1>4, <1>6, <2>1, SlotsKept DEF Idle
  <1>8. Trade' /\ Untouched'
    <2>1. TradeRight(calls'[c]) /\ calls'[c].op = None
      BY <1>4, MarketAssumption DEF TradeRight, Idle
    <2> QED
      BY <1>2, <1>4, <2>1, TradeKept DEF TInv, Trade
  <1>9. Deposits'
    <2>1. \A u \in Users : tester'[u].pc \in {"pay", "done"} =>
                             tester'[u] = tester[u]
      BY <1>6
    <2> QED
      BY <1>1, <1>2, <2>1, DepositsKept
  <1>10. SalesAside
    <2>1. faults \in Nat
      BY DEF TInv, Process
    <2> QED
      BY <1>1, <1>2, <1>5, <2>1 DEF SalesAside
  <1> QED
    BY <1>3, <1>6, <1>7, <1>8, <1>9, <1>10, AsideKeeps DEF TInv

\* A listed token is not nobody's.
LEMMA ListedIsOwned ==
  ASSUME TInv, NEW i \in Tokens, listings[i] # None
  PROVE  owner[i] \in Traders /\ owner[i] # Nobody
  BY DEF TInv, OInv, Offered, Trade, Traders

\* The heartbeat starts settles, in slots of its own.
LEMMA HeartbeatKeeps ==
  ASSUME TInv, Heartbeat, ListAlone, LockAlone
  PROVE  TInv'
  <1>1. /\ CronSettlements /\ UNCHANGED market
        /\ UNCHANGED <<queueVars, setupVars, tester, processVars, faults>>
        /\ \A u \in Users : calls'[u] = calls[u]
    BY DEF Heartbeat, CronSettlements
  <1>2. UNCHANGED <<owner, listings, orders, deposited, sold, passed, balance,
                    pendingDisbursements, key, funded, price>>
    BY <1>1 DEF market, history, setupVars
  <1>3. Inv' /\ OInv'
    BY <1>1, NextInv, CronSettlementsOrderly DEF TInv, Next
  <1>4. ASSUME NEW c \in Calls
        PROVE  \/ calls'[c] = calls[c]
               \/ /\ calls'[c].op = "settle" /\ calls'[c].index \in Due
                  /\ c \notin Users
    <2>1. PICK slot \in [Due -> {d \in Calls : calls[d].pc = "idle"}] :
            calls' = [d \in Calls |->
              IF \E i \in Due : slot[i] = d
              THEN [Idle EXCEPT !.pc = "settle", !.op = "settle",
                                !.index = CHOOSE i \in Due : slot[i] = d]
              ELSE calls[d]]
      BY <1>1 DEF CronSettlements
    <2>2. CASE \E i \in Due : slot[i] = c
      <3>1. PICK j \in Due : j = CHOOSE i \in Due : slot[i] = c
        BY <2>2
      <3>2. calls'[c] = [Idle EXCEPT !.pc = "settle", !.op = "settle",
                                     !.index = j]
        BY <2>1, <2>2, <3>1
      <3>3. calls'[c].op = "settle" /\ calls'[c].index = j
        BY <3>2 DEF Idle
      <3>4. c \notin Users \/ calls'[c] = calls[c]
        BY <1>1
      <3> QED
        BY <3>3, <3>4
    <2>3. CASE ~\E i \in Due : slot[i] = c
      BY <2>1, <2>3
    <2> QED
      BY <2>2, <2>3
  <1>5. \A i \in Due : i \in Tokens /\ owner[i] # Nobody
    <2> SUFFICES ASSUME NEW i \in Due
                 PROVE  i \in Tokens /\ owner[i] # Nobody
      OBVIOUS
    <2>1. i \in Tokens /\ listings[i] # None
      BY DEF Due, TInv, Trade, OInv, Open
    <2> QED
      BY <2>1, ListedIsOwned
  <1>6. UserTypes'
    BY <1>1, <1>2 DEF TInv, UserTypes
  <1>7. Slots'
    <2>1. \A u \in Users : calls'[u] = calls[u]
      BY <1>4, SaleTestAssumption
    <2> QED
      BY <1>1, <1>2, <1>4, <2>1 DEF TInv, Slots, UserRight
  <1>8. Trade'
    BY <1>2, <1>4 DEF TInv, Trade, TradeRight
  <1>9. Untouched'
    BY <1>2, <1>4, <1>5 DEF TInv, Untouched
  <1>10. Deposits'
    BY <1>1, <1>2, DepositsKept
  <1>11. SalesAside
    BY <1>1, <1>2 DEF SalesAside, TInv, Process
  <1> QED
    BY <1>3, <1>6, <1>7, <1>8, <1>9, <1>10, <1>11, AsideKeeps DEF TInv

\* A step of the market that the users and the canister's calls do not notice.
LEMMA AsideMarket ==
  ASSUME TInv, UNCHANGED <<owner, listings, calls, orders, deposited, sold,
                           passed, balance, pendingDisbursements, queueVars,
                           setupVars, tester, processVars, faults>>,
         Inv', OInv'
  PROVE  TInv'
  <1>1. UNCHANGED <<key, funded, price>>
    BY DEF setupVars
  <1>2. UserTypes' /\ Slots' /\ Trade' /\ Untouched'
    BY <1>1 DEF TInv, UserTypes, Slots, UserRight, Trade, TradeRight, Untouched
  <1>3. Deposits'
    BY DepositsKept
  <1>4. SalesAside
    BY DEF SalesAside, TInv, Process
  <1> QED
    BY <1>2, <1>3, <1>4, AsideKeeps DEF TInv

\* Time passes.
LEMMA TimeKeeps ==
  ASSUME TInv, Time, Prompt
  PROVE  TInv'
  <1>1. Inv' /\ OInv'
    BY NextInv, LapseOrderly DEF TInv, Time, Next
  <1> QED
    BY <1>1, AsideMarket DEF Time, Lapse, history

\* A user that moves on, and no other.
Stages == {"mint", "list", "listing", "lock", "locking", "pay", "done",
           "failed"}
MovesOn(u, pc) ==
  /\ \A v \in Users \ {u} : tester'[v] = tester[v]
  /\ tester'[u].pc = pc
  /\ tester'[u].index = tester[u].index
  /\ tester'[u].sub = tester[u].sub

\* A user who advances is one.
LEMMA AdvanceMovesOn ==
  ASSUME TInv, NEW u \in Users, NEW pc \in Stages, Advance(u, pc),
         UNCHANGED setupVars
  PROVE  MovesOn(u, pc) /\ UserTypes'
  BY DEF TInv, UserTypes, Advance, MovesOn, Stages, setupVars

\* A step of a user keeps the invariant, when it is right for that user.
LEMMA UserKeeps ==
  ASSUME TInv, NEW u \in Users, tester[u].pc # "done",
         \A v \in Users \ {u} : tester'[v] = tester[v],
         \A d \in Calls \ {u} : calls'[d] = calls[d],
         UNCHANGED <<queueVars, pendingDisbursements, sold, setupVars,
                     processVars, faults>>,
         Inv', OInv', UserTypes', UserRight(u)', Deposits', passed' = {},
         TradeRight(calls'[u]),
         \/ tester'[u].sub = tester[u].sub
         \/ tester'[u].sub # None /\
            \A v \in Users \ {u} : tester[v].sub # tester'[u].sub,
         \A i \in Tokens : listings'[i] # None =>
           listings'[i].seller \in Traders /\ listings'[i].price = price,
         \A s \in Locks : orders'[s] # None =>
           orders'[s].price = price /\ orders'[s].to = Admin,
         \A s \in Locks : orders[s] # None => orders'[s] # None,
         \A s \in Locks : sold[s] > 0 => /\ balance'[s] = balance[s]
                                         /\ orders'[s] = orders[s],
         \A i \in Tokens : owner'[i] = Nobody => owner[i] = Nobody,
         calls'[u].op # None =>
           \/ calls[u].op # None /\ calls'[u].index = calls[u].index
           \/ owner[calls'[u].index] # Nobody
  PROVE  TInv'
  <1>1. u \in Calls /\ UNCHANGED price
    BY SaleTestAssumption DEF setupVars
  <1>2. Slots'
    BY <1>1, SlotsKept
  <1>3. Trade' /\ Untouched'
    BY <1>1, TradeKept
  <1>4. SalesAside
    BY DEF SalesAside, TInv, Process
  <1> QED
    BY <1>2, <1>3, <1>4, AsideKeeps DEF TInv

\* A user that moves on with the market as it was.
LEMMA UserWaits ==
  ASSUME TInv, NEW u \in Users, NEW pc \in {"lock", "failed", "done"},
         Advance(u, pc),
         tester[u].pc \notin {"mint", "listing", "locking", "done"},
         pc = "done" => u \notin funded /\ tester[u].sub # None,
         UNCHANGED vars,
         UNCHANGED <<queueVars, setupVars, processVars, faults>>
  PROVE  TInv'
  <1>1. /\ UNCHANGED <<owner, listings, calls, orders, deposited, sold, balance,
                       pendingDisbursements, pendingTransactions,
                       nextSubAccount, lapsed, inTime, passed, key, funded,
                       price>>
    BY DEF vars, market, history, setupVars
  <1>2. MovesOn(u, pc) /\ UserTypes'
    BY AdvanceMovesOn DEF Stages
  <1>3. Inv' /\ OInv'
    BY <1>1, NextInv, StillOrderly DEF TInv
  <1>4. UserRight(u)'
    BY <1>1, <1>2 DEF TInv, Slots, UserRight, MovesOn
  <1>5. Deposits'
    BY <1>1, <1>2 DEF TInv, Deposits, MovesOn
  <1>6. u \in Calls /\ TradeRight(calls'[u])
    BY <1>1, SaleTestAssumption DEF TInv, Trade, TradeRight
  <1> QED
    BY <1>1, <1>2, <1>3, <1>4, <1>5, <1>6, UserKeeps DEF TInv, Trade, MovesOn

\* The admin mints the first token there is for a user, or token 0 is NaN.
LEMMA MintKeeps ==
  ASSUME TInv, NEW u \in Users, Mint(u), ListAlone, LockAlone
  PROVE  TInv'
  <1> DEFINE free == {i \in Tokens : owner[i] = Nobody}
  <1>1. /\ tester[u].pc = "mint"
        /\ UNCHANGED <<listings, pendingTransactions, transactions, nextTxId,
                       nextSubAccount, stats, pendingDisbursements, balance,
                       lapsed, history, calls, queueVars, setupVars,
                       processVars, faults>>
    BY DEF Mint
  <1>2. UNCHANGED <<orders, deposited, sold, inTime, passed, key, funded,
                    price>>
    BY <1>1 DEF history, setupVars
  <1>3. PICK index : index = IF free = {} THEN 0
                             ELSE CHOOSE i \in free : \A j \in free : i <= j
    OBVIOUS
  <1>4. /\ owner' = IF free = {} THEN owner ELSE [owner EXCEPT ![index] = key[u]]
        /\ tester' = [tester EXCEPT ![u].pc = "list", ![u].index = index]
    BY <1>3 DEF Mint
  <1>5. index \in Tokens /\ (free # {} => index \in free)
    <2>1. free # {} => \E i \in free : \A j \in free : i <= j
      BY SaleTestAssumption, LeastNatural
    <2> HIDE DEF free
    <2>2. free # {} => index \in free
      BY <1>3, <2>1
    <2> QED
      BY <1>3, <2>2, SaleTestAssumption DEF free
  <1>6. /\ \A v \in Users \ {u} : tester'[v] = tester[v]
        /\ tester'[u].pc = "list" /\ tester'[u].index = index
        /\ tester'[u].sub = tester[u].sub
        /\ UserTypes'
    BY <1>2, <1>4, <1>5 DEF TInv, UserTypes
  <1>7. key[u] \in Traders
    BY DEF TInv, UserTypes
  <1>8. Inv' /\ OInv'
    <2>1. CASE free = {}
      <3>1. UNCHANGED owner
        BY <1>4, <2>1
      <3>2. UNCHANGED vars
        BY <1>1, <3>1 DEF vars, market
      <3> QED
        BY <1>1, <1>2, <3>1, <3>2, NextInv, StillOrderly DEF TInv
    <2>2. CASE free # {}
      <3>1. index \in Tokens /\ owner[index] = Nobody
        BY <1>5, <2>2
      <3>2. owner' = [owner EXCEPT ![index] = key[u]]
        BY <1>4, <2>2
      <3>3. Nobody \in Accounts /\ key[u] \in Accounts
        BY <1>7, <3>1 DEF Traders, TInv, Inv, TypeOK
      <3>4. listings[index] = None
        BY <3>1, ListedIsOwned
      <3>5. Transfer(index, Nobody, key[u])
        BY <1>1, <3>1, <3>2, <3>4 DEF Transfer
      <3>6. TransferAlone
        <4>1. ASSUME NEW i \in Tokens, owner'[i] # owner[i]
              PROVE  ~Busy(i, {"list", "lock", "settle"})
          <5>1. owner[i] = Nobody
            BY <3>1, <3>2, <4>1 DEF TInv, Inv, TypeOK
          <5> QED
            BY <5>1, MarketAssumption DEF Busy, TInv, Untouched
        <4>2. \A c \in Calls : calls[c].op = "lock" =>
                                 calls[c].who # calls[c].seller
          BY DEF TInv, Trade, TradeRight, Traders
        <4> QED
          BY <1>1, <4>1, <4>2 DEF TransferAlone
      <3> QED
        BY <3>1, <3>3, <3>5, <3>6, NextInv, TransferOrderly DEF TInv, Next
    <2> QED
      BY <2>1, <2>2
  <1>9. UserRight(u)'
    BY <1>1, <1>2, <1>5, <1>6 DEF TInv, Slots, UserRight
  <1>10. Deposits'
    BY <1>1, <1>2, <1>6, DepositsKept
  <1>11. \A i \in Tokens : owner'[i] = Nobody => owner[i] = Nobody
    BY <1>4, <1>7 DEF Traders, TInv, Inv, TypeOK
  <1>12. u \in Calls /\ TradeRight(calls'[u])
    BY <1>1, <1>2, SaleTestAssumption DEF TInv, Trade, TradeRight
  <1> QED
    BY <1>1, <1>2, <1>6, <1>8, <1>9, <1>10, <1>11, <1>12, UserKeeps
    DEF TInv, Trade

\* A user lists its token, or is told that it may not.
LEMMA ListTokenKeeps ==
  ASSUME TInv, NEW u \in Users, ListToken(u), ListAlone, LockAlone
  PROVE  TInv'
  <1>1. /\ tester[u].pc = "list"
        /\ UNCHANGED <<queueVars, setupVars, processVars, faults>>
    BY DEF ListToken
  <1>2. PICK i \in Tokens : i = tester[u].index
    BY <1>1 DEF TInv, Slots, UserRight
  <1>3. u \in Calls /\ key[u] \in Traders /\ price \in Prices
    BY SaleTestAssumption DEF TInv, UserTypes
  <1>4. CASE List(u, i, key[u], price, TRUE) /\ Advance(u, "listing")
    <2> DEFINE call == [Idle EXCEPT !.pc = "canSettle", !.op = "list",
                                    !.index = i, !.own = TRUE, !.who = key[u],
                                    !.price = price]
    <2>1. /\ owner[i] = key[u] /\ Goto(u, call)
          /\ UNCHANGED <<owner, listings, pendingDisbursements, balance,
                         orders, deposited, sold, passed>>
          /\ Advance(u, "listing")
      BY <1>4 DEF List
    <2>2. /\ call.op = "list" /\ call.index = i /\ call.who = key[u]
          /\ call.price = price /\ call.own
      BY DEF Idle
    <2> HIDE DEF call
    <2>3. calls'[u] = call /\ \A d \in Calls \ {u} : calls'[d] = calls[d]
      BY <1>3, <2>1, OneMoves DEF TInv
    <2>4. MovesOn(u, "listing") /\ UserTypes'
      BY <1>1, <2>1, AdvanceMovesOn DEF Stages
    <2>5. Inv' /\ OInv'
      BY <1>3, <1>4, NextInv, ListOrderly DEF TInv, Next, Traders
    <2>6. UserRight(u)'
      BY <1>1, <1>2, <2>1, <2>2, <2>3, <2>4
      DEF TInv, Slots, UserRight, MovesOn
    <2>7. UNCHANGED <<key, funded, price>>
      BY <1>1 DEF setupVars
    <2>8. Deposits'
      BY <1>1, <2>1, <2>4, DepositsKept DEF MovesOn
    <2>9. TradeRight(calls'[u]) /\ owner[calls'[u].index] # Nobody
      BY <1>3, <2>1, <2>2, <2>3 DEF TradeRight, Traders
    <2> QED
      BY <1>1, <2>1, <2>3, <2>4, <2>5, <2>6, <2>7, <2>8, <2>9, UserKeeps
      DEF TInv, Trade, MovesOn
  <1>5. CASE Advance(u, "lock") /\ UNCHANGED vars
    BY <1>1, <1>5, UserWaits
  <1> QED
    BY <1>2, <1>4, <1>5 DEF ListToken

\* The answer to list: the token is listed at the price, or is not.
LEMMA ListedKeeps ==
  ASSUME TInv, NEW u \in Users, Listed(u)
  PROVE  TInv'
  <1>1. /\ tester[u].pc = "listing" /\ Advance(u, "lock")
        /\ UNCHANGED <<queueVars, setupVars, processVars, faults>>
        /\ ListResume(u) \/ Refuse(u)
    BY DEF Listed
  <1>2. /\ u \in Calls /\ calls[u].op = "list" /\ UserRight(u)
        /\ calls[u].who \in Traders /\ calls[u].price = price /\ calls[u].own
        /\ price \in Prices /\ price # None
    <2>1. u \in Calls /\ calls[u].op = "list" /\ UserRight(u)
      BY <1>1, SaleTestAssumption DEF TInv, Slots, UserRight
    <2>2. price \in Prices
      BY DEF TInv, UserTypes
    <2> QED
      BY <2>1, <2>2, MarketAssumption DEF TInv, Trade, TradeRight
  <1>3. /\ Goto(u, Idle)
        /\ UNCHANGED <<owner, pendingDisbursements, balance, orders, deposited,
                       sold, passed>>
        /\ \/ UNCHANGED listings
           \/ listings' = [listings EXCEPT ![calls[u].index] =
                             [seller |-> calls[u].who, price |-> calls[u].price,
                              locked |-> 0]]
    BY <1>1, <1>2 DEF ListResume, Refuse, market, history
  <1>4. calls'[u] = Idle /\ \A d \in Calls \ {u} : calls'[d] = calls[d]
    BY <1>2, <1>3, OneMoves DEF TInv
  <1>5. MovesOn(u, "lock") /\ UserTypes'
    BY <1>1, AdvanceMovesOn DEF Stages
  <1>6. Inv' /\ OInv'
    <2>1. Step(u)
      BY <1>1 DEF Step
    <2> QED
      BY <1>2, <2>1, NextInv, StepOrderly DEF TInv, Next
  <1>7. UserRight(u)'
    BY <1>1, <1>2, <1>3, <1>4, <1>5 DEF UserRight, MovesOn
  <1>8. UNCHANGED <<key, funded, price>>
    BY <1>1 DEF setupVars
  <1>9. Deposits'
    BY <1>1, <1>3, <1>5, DepositsKept DEF MovesOn
  <1>10. TradeRight(calls'[u]) /\ calls'[u].op = None
    BY <1>4, MarketAssumption DEF TradeRight, Idle
  <1>11. \A i \in Tokens : listings'[i] # None =>
           listings'[i].seller \in Traders /\ listings'[i].price = price
    <2> SUFFICES ASSUME NEW i \in Tokens, listings'[i] # None
                 PROVE  listings'[i].seller \in Traders
                        /\ listings'[i].price = price
      OBVIOUS
    <2>1. CASE listings'[i] = listings[i]
      BY <2>1 DEF TInv, Trade
    <2>2. CASE listings'[i] # listings[i]
      <3>1. listings'[i] = [seller |-> calls[u].who, price |-> calls[u].price,
                            locked |-> 0]
        BY <1>3, <2>2 DEF TInv, Inv, TypeOK
      <3> QED
        BY <1>2, <3>1
    <2> QED
      BY <2>1, <2>2
  <1> QED
    BY <1>1, <1>3, <1>4, <1>5, <1>6, <1>7, <1>8, <1>9, <1>10, <1>11, UserKeeps
    DEF TInv, Trade, MovesOn

\* A user locks its token for the admin, or fails.
LEMMA LockTokenKeeps ==
  ASSUME TInv, NEW u \in Users, LockToken(u), ListAlone, LockAlone
  PROVE  TInv'
  <1>1. /\ tester[u].pc = "lock"
        /\ UNCHANGED <<queueVars, setupVars, processVars, faults>>
    BY DEF LockToken
  <1>2. PICK i \in Tokens : i = tester[u].index
    BY <1>1 DEF TInv, Slots, UserRight
  <1>3. u \in Calls /\ Admin \in Accounts
    BY SaleTestAssumption
  <1>4. CASE Lock(u, i, Admin) /\ Advance(u, "locking")
    <2> DEFINE sub == nextSubAccount + 1
               call == [Idle EXCEPT !.pc = "canSettle", !.op = "lock",
                                    !.index = i, !.who = Admin,
                                    !.seller = listings[i].seller,
                                    !.price = listings[i].price, !.sub = sub]
    <2>1. /\ listings[i] # None /\ Goto(u, call)
          /\ listings' = [listings EXCEPT ![i].locked = sub]
          /\ UNCHANGED <<owner, pendingDisbursements, balance, orders,
                         deposited, sold, passed>>
          /\ Advance(u, "locking")
      BY <1>4 DEF Lock, history
    <2>2. /\ call.op = "lock" /\ call.index = i /\ call.who = Admin
          /\ call.seller = listings[i].seller /\ call.price = listings[i].price
      BY DEF Idle
    <2>3. \A j \in Tokens :
            /\ listings'[j] # None => listings[j] # None
            /\ listings[j] # None => /\ listings'[j].seller = listings[j].seller
                                     /\ listings'[j].price = listings[j].price
      BY <2>1 DEF TInv, Inv, TypeOK, Listing
    <2> HIDE DEF call
    <2>4. calls'[u] = call /\ \A d \in Calls \ {u} : calls'[d] = calls[d]
      BY <1>3, <2>1, OneMoves DEF TInv
    <2>5. MovesOn(u, "locking") /\ UserTypes'
      BY <1>1, <2>1, AdvanceMovesOn DEF Stages
    <2>6. TradeRight(calls'[u]) /\ owner[calls'[u].index] # Nobody
      BY <2>1, <2>2, <2>4, ListedIsOwned DEF TradeRight, TInv, Trade
    <2>7. TransferAlone
      <3>1. ASSUME NEW c \in Calls, calls'[c].op = "lock"
            PROVE  calls'[c].who = Admin /\ calls'[c].seller \in Traders
        BY <2>4, <2>6, <3>1 DEF TInv, Trade, TradeRight
      <3> QED
        BY <2>1, <3>1 DEF TransferAlone, Traders
    <2>8. Inv' /\ OInv'
      BY <1>3, <1>4, <2>7, NextInv, LockOrderly DEF TInv, Next
    <2>9. UserRight(u)'
      BY <1>1, <1>2, <2>1, <2>2, <2>4, <2>5
      DEF TInv, Slots, UserRight, MovesOn
    <2>10. UNCHANGED <<key, funded, price>>
      BY <1>1 DEF setupVars
    <2>11. Deposits'
      BY <1>1, <2>1, <2>5, DepositsKept DEF MovesOn
    <2>12. \A j \in Tokens : listings'[j] # None =>
             listings'[j].seller \in Traders /\ listings'[j].price = price
      BY <2>3 DEF TInv, Trade
    <2> QED
      BY <1>1, <2>1, <2>4, <2>5, <2>6, <2>8, <2>9, <2>10, <2>11, <2>12,
         UserKeeps
      DEF TInv, Trade, MovesOn
  <1>5. CASE Advance(u, "failed") /\ UNCHANGED vars
    BY <1>1, <1>5, UserWaits
  <1> QED
    BY <1>2, <1>4, <1>5 DEF LockToken

\* The answer to lock: an address that nobody has yet, or none.
LEMMA LockedKeeps ==
  ASSUME TInv, NEW u \in Users, Locked(u)
  PROVE  TInv'
  <1>1. /\ tester[u].pc = "locking"
        /\ UNCHANGED <<queueVars, setupVars, processVars, faults>>
    BY DEF Locked
  <1>2. /\ u \in Calls /\ calls[u].op = "lock" /\ UserRight(u)
        /\ calls[u].seller \in Traders /\ calls[u].price = price
        /\ calls[u].who = Admin
    <2>1. u \in Calls /\ calls[u].op = "lock" /\ UserRight(u)
      BY <1>1, SaleTestAssumption DEF TInv, Slots, UserRight
    <2> QED
      BY <2>1 DEF TInv, Trade, TradeRight
  <1>3. PICK s \in Locks : s = calls[u].sub
    BY <1>2, CallFacts DEF TInv, WellFormed
  <1>4. UNCHANGED <<key, funded, price>>
    BY <1>1 DEF setupVars
  <1>5. orders[s] = None /\ deposited[s] = 0 /\ sold[s] = 0
    <2>1. orders[s] = None
      BY <1>2, <1>3 DEF TInv, Inv, UniquePaymentAddress
    <2>2. sold[s] \in Nat /\ ~(sold[s] > 0)
      BY <2>1 DEF TInv, Inv, TypeOK, OInv, Kept
    <2> QED
      BY <2>1, <2>2 DEF TInv, Deposits
  <1>6. Goto(u, Idle)
    BY <1>1 DEF Locked, LockResume, Refuse
  <1>7. calls'[u] = Idle /\ \A d \in Calls \ {u} : calls'[d] = calls[d]
    BY <1>2, <1>6, OneMoves DEF TInv
  <1>8. TradeRight(calls'[u]) /\ calls'[u].op = None
    BY <1>7, MarketAssumption DEF TradeRight, Idle
  <1>9. Inv' /\ OInv'
    <2>1. Step(u)
      BY <1>1 DEF Locked, Step
    <2> QED
      BY <1>2, <2>1, NextInv, StepOrderly DEF TInv, Next
  <1>10. CASE LockResume(u) /\ tester' = [tester EXCEPT ![u].pc = "pay",
                                                        ![u].sub = calls[u].sub]
    <2>1. PICK order : order = [token |-> calls[u].index,
                                seller |-> calls[u].seller,
                                to |-> calls[u].who, price |-> calls[u].price]
      OBVIOUS
    <2>2. /\ orders' = [orders EXCEPT ![s] = order]
          /\ UNCHANGED <<owner, listings, pendingDisbursements, balance,
                         deposited, sold, passed>>
      BY <1>3, <1>10, <2>1 DEF LockResume
    <2>3. order.price = price /\ order.to = Admin /\ order # None
      <3>1. order.price = price /\ order.to = Admin
        BY <1>2, <2>1
      <3>2. orders'[s] = order /\ orders' \in [Locks -> Order \cup {None}]
        BY <1>9, <2>2 DEF TInv, Inv, TypeOK
      <3>3. order \in Order
        <4>1. WellFormed(calls[u]) /\ calls[u].op # None
          BY <1>2, CallFacts, MarketAssumption DEF TInv
        <4>2. calls[u].index \in Tokens /\ price \in Prices
          BY <4>1 DEF TInv, WellFormed, UserTypes
        <4> QED
          BY <1>2, <2>1, <4>2, SaleTestAssumption DEF Order, Traders
      <3> QED
        BY <3>1, <3>3, MarketAssumption
    <2>4. /\ orders'[s] = order
          /\ \A r \in Locks \ {s} : orders'[r] = orders[r]
      BY <2>2 DEF TInv, Inv, TypeOK
    <2>5. /\ \A v \in Users \ {u} : tester'[v] = tester[v]
          /\ tester'[u].pc = "pay" /\ tester'[u].sub = s
          /\ tester'[u].index = tester[u].index
          /\ UserTypes'
      BY <1>3, <1>4, <1>10 DEF TInv, UserTypes
    <2>6. UserRight(u)'
      BY <1>1, <1>2, <1>7, <2>3, <2>4, <2>5, MarketAssumption DEF UserRight
    <2>7. \A v \in Users : tester[v].sub # s
      BY <1>5, MarketAssumption DEF TInv, Slots, UserRight
    <2>8. Deposits'
      <3>1. ASSUME NEW v \in Users, v # u
            PROVE  /\ tester'[v].pc = "pay" => deposited[tester'[v].sub] = 0
                   /\ tester'[v].pc = "done" /\ v \in funded =>
                        deposited[tester'[v].sub] = price
        BY <2>5, <3>1 DEF TInv, Deposits
      <3>2. /\ tester'[u].pc = "pay" => deposited[tester'[u].sub] = 0
            /\ tester'[u].pc # "done"
        BY <1>5, <2>5
      <3>3. \A r \in Locks : /\ deposited[r] \in {0, price}
                             /\ orders'[r] = None => deposited[r] = 0
                             /\ sold[r] > 0 => deposited[r] = price
        BY <1>5, <2>4 DEF TInv, Deposits
      <3> QED
        BY <1>4, <2>2, <3>1, <3>2, <3>3 DEF Deposits
    <2>9. /\ \A r \in Locks : orders'[r] # None =>
               orders'[r].price = price /\ orders'[r].to = Admin
          /\ \A r \in Locks : orders[r] # None => orders'[r] # None
          /\ \A r \in Locks : sold[r] > 0 => orders'[r] = orders[r]
      BY <1>5, <2>3, <2>4 DEF TInv, Trade
    <2>10. tester'[u].sub # None
      BY <2>5, MarketAssumption
    <2> QED
      BY <1>1, <1>4, <1>7, <1>8, <1>9, <2>2, <2>5, <2>6, <2>7, <2>8, <2>9,
         <2>10, UserKeeps
      DEF TInv, Trade
  <1>11. CASE Refuse(u) /\ Advance(u, "failed")
    <2>1. UNCHANGED <<owner, listings, pendingDisbursements, balance, orders,
                      deposited, sold, passed>>
      BY <1>11 DEF Refuse, market, history
    <2>2. MovesOn(u, "failed") /\ UserTypes'
      BY <1>1, <1>11, AdvanceMovesOn DEF Stages
    <2>3. UserRight(u)'
      BY <1>1, <1>2, <1>7, <2>1, <2>2 DEF UserRight, MovesOn
    <2>4. Deposits'
      BY <1>1, <2>1, <2>2, DepositsKept DEF MovesOn
    <2> QED
      BY <1>1, <1>4, <1>7, <1>8, <1>9, <2>1, <2>2, <2>3, <2>4, UserKeeps
      DEF TInv, Trade, MovesOn
  <1> QED
    BY <1>10, <1>11 DEF Locked

\* A user pays, once, to an address of its own that was not sold; or cannot.
LEMMA PayOrderKeeps ==
  ASSUME TInv, NEW u \in Users, PayOrder(u)
  PROVE  TInv'
  <1>1. /\ tester[u].pc = "pay" /\ Advance(u, "done")
        /\ UNCHANGED <<queueVars, setupVars, processVars, faults>>
    BY DEF PayOrder
  <1>2. PICK t \in Locks : t = tester[u].sub
    BY <1>1 DEF TInv, Slots, UserRight, UserTypes
  <1>3. CASE u \in funded
    <2>1. /\ Pay(t, price)
          /\ UNCHANGED <<owner, listings, calls, pendingDisbursements, orders,
                         sold, passed, key, funded, price>>
          /\ deposited' = [deposited EXCEPT ![t] = deposited[t] + price]
          /\ balance' = [balance EXCEPT ![t] = balance[t] + price]
      BY <1>1, <1>2, <1>3 DEF PayOrder, Pay, setupVars
    <2>2. deposited[t] = 0 /\ price \in Nat /\ price # 0 /\ price \in Payments
      BY <1>1, <1>2, SaleTestAssumption, MarketAssumption
      DEF TInv, Deposits, UserTypes
    <2>3. sold[t] = 0
      <3>1. sold[t] \in Nat
        BY DEF TInv, Inv, TypeOK
      <3>2. ~(sold[t] > 0)
        BY <2>2 DEF TInv, Deposits
      <3> QED
        BY <3>1, <3>2
    <2>4. /\ deposited'[t] = price
          /\ \A s \in Locks \ {t} : /\ deposited'[s] = deposited[s]
                                    /\ balance'[s] = balance[s]
      BY <2>1, <2>2 DEF TInv, Inv, TypeOK
    <2>5. MovesOn(u, "done") /\ UserTypes'
      BY <1>1, AdvanceMovesOn DEF Stages
    <2>6. u \in Calls /\ TradeRight(calls'[u])
      BY <2>1, SaleTestAssumption DEF TInv, Trade, TradeRight
    <2>7. UserRight(u)'
      BY <1>1, <2>1, <2>5 DEF TInv, Slots, UserRight, MovesOn
    <2>8. Inv' /\ OInv'
      BY <2>1, <2>2, NextInv, PayOrderly DEF TInv, Next
    <2>9. Deposits'
      <3>1. orders[t] # None
        BY <1>2, MarketAssumption DEF TInv, Slots, UserRight
      <3>2. \A s \in Locks : /\ deposited'[s] \in {0, price}
                             /\ orders[s] = None => deposited'[s] = 0
                             /\ sold[s] > 0 => deposited'[s] = price
        BY <2>3, <2>4, <3>1 DEF TInv, Deposits
      <3>3. ASSUME NEW v \in Users
            PROVE  /\ tester'[v].pc = "pay" => deposited'[tester'[v].sub] = 0
                   /\ tester'[v].pc = "done" /\ v \in funded =>
                        deposited'[tester'[v].sub] = price
        <4>1. CASE v = u
          BY <1>2, <2>4, <2>5, <4>1 DEF MovesOn
        <4>2. CASE v # u
          <5>1. tester'[v] = tester[v] /\ tester[v].sub # t
            BY <1>2, <2>5, <4>2, MarketAssumption DEF TInv, Slots, MovesOn
          <5>2. tester[v].pc \in {"pay", "done"} => tester[v].sub \in Locks
            BY DEF TInv, Slots, UserRight, UserTypes
          <5> QED
            BY <2>4, <5>1, <5>2 DEF TInv, Deposits
        <4> QED
          BY <4>1, <4>2
      <3> QED
        BY <2>1, <3>2, <3>3 DEF Deposits
    <2>10. \A s \in Locks : sold[s] > 0 => balance'[s] = balance[s]
      BY <2>3, <2>4
    <2> QED
      BY <1>1, <2>1, <2>5, <2>6, <2>7, <2>8, <2>9, <2>10, UserKeeps
      DEF TInv, Trade, MovesOn
  <1>4. CASE u \notin funded
    <2>1. tester[u].sub # None
      BY <1>2, MarketAssumption
    <2> QED
      BY <1>1, <1>4, <2>1, UserWaits DEF PayOrder, Stages
  <1> QED
    BY <1>3, <1>4

\* The proceeds of an order have a job for each of its payees, and no other.
LEMMA ProceedsShare ==
  ASSUME NEW tx \in Transaction, NEW funds \in Nat, NEW s \in Locks,
         NEW to \in Recipients
  PROVE  /\ Weight(Proceeds(tx, funds), Share(s, to)) \in Nat
         /\ Weight(Proceeds(tx, funds), Share(s, to)) > 0
              <=> tx.sub = s /\ to \in {tx.seller, "royalty", "entrepot"}
  <1> DEFINE job(who, amount) ==
               [token |-> tx.token, to |-> who, sub |-> tx.sub,
                amount |-> amount]
             royalty == Cut(funds, RoyaltyFee)
             entrepot == Cut(funds, EntrepotFee)
             rest == funds - royalty - entrepot
             j1 == job(tx.seller, rest)
             j2 == job("entrepot", entrepot)
             j3 == job("royalty", royalty)
  <1>1. royalty \in Nat /\ entrepot \in Nat /\ rest \in Nat
    BY FeesFit
  <1>2. Proceeds(tx, funds) = <<j1, j2, j3>>
    BY DEF Proceeds
  <1> HIDE DEF royalty, entrepot
  <1>3. j1 \in Disbursement /\ j2 \in Disbursement /\ j3 \in Disbursement
    BY <1>1 DEF Disbursement, Transaction
  <1>4. /\ j1.sub = tx.sub /\ j1.to = tx.seller
        /\ j2.sub = tx.sub /\ j2.to = "entrepot"
        /\ j3.sub = tx.sub /\ j3.to = "royalty"
    OBVIOUS
  <1> HIDE DEF job, j1, j2, j3
  <1>5. Share(s, to) \in [Disbursement -> Nat]
    BY RateTypes DEF Rates
  <1>6. Weight(<<j1, j2, j3>>, Share(s, to))
          = Share(s, to)[j1] + Share(s, to)[j2] + Share(s, to)[j3]
    BY <1>3, <1>5, WeightOfThree
  <1>7. PICK a \in {0, 1}, b \in {0, 1}, d \in {0, 1} :
          /\ a = Share(s, to)[j1] /\ (a = 1 <=> tx.sub = s /\ tx.seller = to)
          /\ b = Share(s, to)[j2] /\ (b = 1 <=> tx.sub = s /\ "entrepot" = to)
          /\ d = Share(s, to)[j3] /\ (d = 1 <=> tx.sub = s /\ "royalty" = to)
    BY <1>3, <1>4 DEF Share
  <1>8. Weight(Proceeds(tx, funds), Share(s, to)) = a + b + d
    BY <1>2, <1>6, <1>7, Zenon
  <1>9. PICK n \in Nat : n = a + b + d
    OBVIOUS
  <1>10. n > 0 <=> a = 1 \/ b = 1 \/ d = 1
    BY <1>9
  <1>11. n > 0 <=> tx.sub = s /\ to \in {tx.seller, "royalty", "entrepot"}
    BY <1>7, <1>10
  <1> QED
    BY <1>8, <1>9, <1>11

\* A sale: the address holds the price, for which nothing was open yet, and the
\* proceeds are open now.
LEMMA SettleCommitKeeps ==
  ASSUME TInv, NEW c \in Calls, SettleCommit(c),
         UNCHANGED <<queueVars, setupVars, tester, processVars, faults>>
  PROVE  TInv'
  <1>1. /\ calls[c].pc = "funds" /\ calls[c] \in Call
        /\ WellFormed(calls[c])
    BY CallFacts DEF SettleCommit, TInv
  <1>2. PICK tx \in Transaction : tx = calls[c].tx
    BY <1>1 DEF WellFormed
  <1>3. PICK t \in Locks : t = tx.sub
    BY DEF Transaction
  <1>4. PICK funds \in Nat : funds = calls[c].funds
    BY <1>1 DEF Call
  <1>5. tx # None /\ calls[c].index \in Tokens
    BY <1>1, MarketAssumption DEF WellFormed, Idle
  <1>6. /\ orders[t] = OrderOf(tx) /\ orders[t] # None /\ orders[t] \in Order
        /\ tx.seller = orders[t].seller /\ tx.to = orders[t].to
        /\ tx.price = orders[t].price
    <2>1. orders[t] = OrderOf(tx)
      BY <1>2, <1>3, <1>5 DEF TInv, Inv, UniquePaymentAddress
    <2>2. orders[t] # None
      BY <2>1, OrderIsOne
    <2>3. orders[t] \in Order
      BY <2>2 DEF TInv, Inv, TypeOK
    <2> QED
      BY <2>1, <2>2, <2>3 DEF OrderOf
  <1>7. /\ pendingDisbursements' = Proceeds(tx, funds - LedgerFees)
                                   \o pendingDisbursements
        /\ funds >= tx.price /\ ~(funds < LedgerFees)
        /\ owner[calls[c].index] = tx.seller
        /\ owner' = [owner EXCEPT ![calls[c].index] = tx.to]
        /\ listings' = [listings EXCEPT ![calls[c].index] = None]
        /\ sold' = [sold EXCEPT ![t] = sold[t] + 1]
        /\ UNCHANGED <<balance, orders, deposited, passed>>
    BY <1>2, <1>3, <1>4 DEF SettleCommit, IsPaid, SettleTraps
  <1>8. UNCHANGED <<pendingCount, workers, paid, dropped, key, funded, price,
                    phase, verdict, polled>>
    BY DEF queueVars, setupVars, processVars
  <1>9. sold[t] = 0
    <2>1. SettleRight(calls[c])
      BY DEF TInv, OInv, CallRight
    <2> QED
      BY <1>2, <1>3, <1>5, <1>7, <2>1 DEF SettleRight
  <1>10. /\ tx.to = Admin /\ Admin # Nobody /\ tx.price = price
         /\ price \in Nat /\ price # 0
    BY <1>6, SaleTestAssumption, MarketAssumption DEF TInv, Trade, UserTypes
  <1>11. deposited[t] = price /\ balance[t] = price /\ funds = price
    <2>1. funds <= deposited[t] /\ deposited[t] \in {0, price}
      BY <1>2, <1>3, <1>4, <1>5 DEF TInv, Inv, PaidInFull, Deposits
    <2>2. balance[t] = deposited[t]
      BY <1>9 DEF TInv, OInv, Kept
    <2> QED
      BY <1>7, <1>10, <2>1, <2>2
  <1>12. PICK net \in Nat : net = funds - LedgerFees
    BY <1>7 DEF LedgerFees
  <1>13. net + LedgerFees = price
    BY <1>11, <1>12 DEF LedgerFees
  <1>14. PICK jobs : jobs = Proceeds(tx, net)
    OBVIOUS
  <1>15. /\ jobs \in Seq(Disbursement)
         /\ pendingDisbursements \in Seq(Disbursement)
         /\ pendingDisbursements' = jobs \o pendingDisbursements
    BY <1>7, <1>12, <1>14, ProceedsType DEF TInv, Inv, TypeOK
  <1>16. Kinds
    BY DEF TInv
  <1>17. ASSUME NEW rate \in Rates
         PROVE  /\ Weight(jobs, rate) \in Nat
                /\ Weight(pendingDisbursements, rate) \in Nat
                /\ Weight(pendingDisbursements', rate)
                     = Weight(jobs, rate) + Weight(pendingDisbursements, rate)
                /\ StillOpen(rate) \in Nat
                /\ StillOpen(rate)' = Weight(jobs, rate) + StillOpen(rate)
    <2>1. PICK a \in Nat : a = Weight(jobs, rate)
      BY <1>15, WeightType DEF Rates
    <2>2. PICK b \in Nat : b = Weight(pendingDisbursements, rate)
      BY <1>15, WeightType DEF Rates
    <2>3. PICK d \in Nat : d = Carried(workers, rate)
      BY <1>16, LoadType DEF Kinds
    <2>4. Weight(pendingDisbursements', rate) = a + b
      BY <1>15, <2>1, <2>2, WeightOfTwo DEF Rates
    <2>5. StillOpen(rate) = b + d
      BY <2>2, <2>3 DEF StillOpen
    <2>6. StillOpen(rate)' = (a + b) + d
      BY <1>8, <2>3, <2>4 DEF StillOpen
    <2> QED
      BY <2>1, <2>2, <2>3, <2>4, <2>5, <2>6
  <1>18. \A s \in Locks : Weight(jobs, Cost(s)) = IF s = t THEN price ELSE 0
    BY <1>3, <1>13, <1>14, ProceedsCost
  <1>19. StillOpen(Cost(t)) = 0 /\ \A s \in Locks \ {t} : sold'[s] = sold[s]
    BY <1>7, <1>9 DEF TInv, Owed, Inv, TypeOK
  <1>20. sold'[t] = 1
    BY <1>7, <1>9 DEF TInv, Inv, TypeOK
  <1>21. Inv' /\ OInv'
    BY NextInv, StepOrderly DEF TInv, Next, Step
  <1>22. UserTypes' /\ Slots' /\ Trade' /\ Untouched'
    <2>1. PICK call : GoesOnAs(c, call)
      BY MessageGoesOn DEF TInv, Message
    <2>2. \A i \in Tokens : listings'[i] \in {None, listings[i]}
      BY <1>5, <1>7 DEF TInv, Inv, TypeOK
    <2>3. \A i \in Tokens : owner'[i] = Nobody => owner[i] = Nobody
      BY <1>5, <1>7, <1>10 DEF TInv, Inv, TypeOK
    <2> QED
      BY <1>7, <2>1, <2>2, <2>3, GoesOnRight
  <1>23. Deposits'
    <2>1. \A s \in Locks : sold'[s] > 0 => deposited[s] = price
      BY <1>11, <1>19 DEF TInv, Deposits
    <2> QED
      BY <1>7, <1>8, <2>1 DEF TInv, Deposits
  <1>24. Kinds'
    BY <1>8, <1>16 DEF Kinds, Queue!Resting
  <1>25. ASSUME NEW s \in Locks PROVE Owed(s)'
    <2>1. Cost(s) \in Rates /\ Owed(s)
      BY RateTypes DEF TInv
    <2>2. CASE s = t
      BY <1>7, <1>11, <1>17, <1>18, <1>19, <1>20, <2>1, <2>2, <1>10 DEF Owed
    <2>3. CASE s # t
      <3>1. StillOpen(Cost(s))' = StillOpen(Cost(s))
        BY <1>17, <1>18, <2>1, <2>3
      <3> QED
        BY <1>7, <1>19, <2>1, <2>3, <3>1 DEF Owed
    <2> QED
      BY <2>2, <2>3
  <1>26. ASSUME NEW s \in Locks PROVE Shared(s)'
    <2>1. Shared(s) /\ Payees(s)' = Payees(s)
      BY <1>7 DEF TInv, Payees
    <2>2. Payees(t) = {tx.seller, "royalty", "entrepot"}
      BY <1>6 DEF Payees
    <2>3. ASSUME NEW to \in Recipients
          PROVE  /\ Share(s, to) \in Rates
                 /\ Weight(jobs, Share(s, to)) \in Nat
                 /\ Weight(jobs, Share(s, to)) > 0
                      <=> s = t /\ to \in Payees(t)
                 /\ s = t => StillOpen(Share(s, to)) = 0
      <3>1. Share(s, to) \in Rates
        BY RateTypes
      <3>2. s = t => StillOpen(Share(s, to)) = 0
        BY <1>15, <1>16, <1>19, <3>1, RateTypes, ShareIsLess, NothingOpen
      <3> QED
        BY <1>3, <1>14, <2>2, <3>1, <3>2, ProceedsShare
    <2>4. Payees(t) \subseteq Recipients
      BY <1>6 DEF Payees, Recipients, Order
    <2>5. CASE s = t
      <3>1. \A to \in Payees(s) : StillOpen(Share(s, to))' > 0
        BY <1>17, <2>3, <2>4, <2>5
      <3>2. \A to \in Recipients \ Payees(s) : StillOpen(Share(s, to))' = 0
        <4> SUFFICES ASSUME NEW to \in Recipients \ Payees(s)
                     PROVE  StillOpen(Share(s, to))' = 0
          OBVIOUS
        <4>1. Weight(jobs, Share(s, to)) = 0 /\ StillOpen(Share(s, to)) = 0
          BY <2>3, <2>5
        <4> QED
          BY <1>17, <2>3, <4>1
      <3>3. \A job \in DOMAIN paid : job.sub # s
        BY <1>9, <2>1, <2>5 DEF Shared
      <3> QED
        BY <1>8, <2>1, <3>1, <3>2, <3>3 DEF Shared
    <2>6. CASE s # t
      <3>1. \A to \in Recipients :
              StillOpen(Share(s, to))' = StillOpen(Share(s, to))
        <4> SUFFICES ASSUME NEW to \in Recipients
                     PROVE  StillOpen(Share(s, to))' = StillOpen(Share(s, to))
          OBVIOUS
        <4>1. Weight(jobs, Share(s, to)) = 0
          BY <2>3, <2>6
        <4> QED
          BY <1>17, <2>3, <4>1
      <3>2. sold[s] > 0 => Payees(s) \subseteq Recipients
        <4>1. sold[s] > 0 => orders[s] # None
          BY DEF TInv, OInv, Kept
        <4> QED
          BY <4>1 DEF TInv, Inv, TypeOK, Order, Payees, Recipients
      <3> QED
        BY <1>8, <1>19, <2>1, <2>6, <3>1, <3>2 DEF Shared
    <2> QED
      BY <2>5, <2>6
  <1>27. Process'
    <2>1. Process
      BY DEF TInv
    <2>2. ASSUME NEW s \in polled PROVE Drained(s)'
      <3>1. Drained(s) /\ s \in Locks
        BY <2>1 DEF Process
      <3>2. s # t
        BY <1>9, <3>1 DEF Drained
      <3>3. Cost(s) \in Rates
        BY <3>1, RateTypes
      <3>4. Weight(jobs, Cost(s)) = 0
        BY <1>18, <3>1, <3>2
      <3>5. /\ Weight(pendingDisbursements', Cost(s))
                 = Weight(pendingDisbursements, Cost(s))
            /\ StillOpen(Cost(s))' = StillOpen(Cost(s))
        BY <1>17, <3>3, <3>4
      <3> QED
        BY <1>8, <1>19, <3>1, <3>2, <3>5 DEF Drained
    <2> QED
      BY <1>8, <2>1, <2>2 DEF Process, Faultless
  <1>28. OkMeansPaidOut'
    <2> SUFFICES ASSUME NEW u \in Users, verdict[u] = "OK", u \in funded,
                        NEW s, s = tester[u].sub
                 PROVE  /\ sold'[s] = 1
                        /\ {job.to : job \in PaidFor(s)'} = Payees(s)'
      BY <1>8 DEF OkMeansPaidOut, Payees
    <2>1. sold[s] = 1 /\ {job.to : job \in PaidFor(s)} = Payees(s)
      BY DEF TInv, OkMeansPaidOut, Payees
    <2>2. PaidFor(s)' = PaidFor(s)
      BY <1>8 DEF PaidFor
    <2>3. Payees(s)' = Payees(s)
      BY <1>7 DEF Payees
    <2>4. sold'[s] = 1
      <3>1. verdict[u] # None
        BY SaleTestAssumption
      <3>2. tester[u].pc = "done"
        BY <3>1 DEF TInv, Process
      <3>3. s \in Locks
        BY <3>2 DEF TInv, Slots, UserRight, UserTypes
      <3> QED
        BY <1>9, <1>19, <2>1, <3>3
    <2> QED
      BY <2>1, <2>2, <2>3, <2>4
  <1>29. ErrMeansUnsettled'
    BY <1>8 DEF TInv, ErrMeansUnsettled
  <1> QED
    BY <1>21, <1>22, <1>23, <1>24, <1>25, <1>26, <1>27, <1>28, <1>29 DEF TInv

-----------------------------------------------------------------------------
\* The steps of the process of the test.

\* What the process leaves alone.
ProcessAside ==
  UNCHANGED <<vars, queueVars, setupVars, tester, faults>>

\* A step of the process that does not make its lines untrue keeps the
\* invariant.
LEMMA ProcessKeeps ==
  ASSUME TInv, ProcessAside, Process', OkMeansPaidOut', ErrMeansUnsettled'
  PROVE  TInv'
  <1>1. UNCHANGED <<owner, listings, calls, orders, deposited, sold, passed,
                    balance, pendingDisbursements, pendingTransactions,
                    nextSubAccount, lapsed, inTime, pendingCount, workers,
                    paid, dropped, key, funded, price, tester>>
    BY DEF ProcessAside, vars, market, history, queueVars, setupVars
  <1>2. Inv' /\ OInv'
    BY <1>1, NextInv, StillOrderly DEF TInv, ProcessAside
  <1>3. UserTypes' /\ Slots' /\ Trade' /\ Untouched' /\ Deposits'
    BY <1>1 DEF TInv, UserTypes, Slots, UserRight, Trade, TradeRight,
                Untouched, Deposits
  <1>4. Kinds'
    BY <1>1 DEF TInv, Kinds, Queue!Resting
  <1>5. \A s \in Locks : Owed(s)' /\ Shared(s)'
    BY <1>1 DEF TInv, Owed, Shared, StillOpen, Payees
  <1> QED
    BY <1>2, <1>3, <1>4, <1>5 DEF TInv

\* A user has failed, all are done, or the queue is seen empty.
LEMMA PollKeeps ==
  ASSUME TInv, Fail \/ AwaitQueue \/ PollQueueSize
  PROVE  TInv'
  <1>1. /\ ProcessAside /\ UNCHANGED verdict
        /\ phase \in {"selling", "queue"}
        /\ phase' \in {"failed", "queue", "count"}
        /\ phase' # "failed" => \A u \in Users : tester[u].pc = "done"
        /\ \/ UNCHANGED polled
           \/ /\ pendingDisbursements = << >> /\ phase' = "count"
              /\ polled' = {s \in Locks : sold[s] > 0}
    BY DEF Fail, AwaitQueue, PollQueueSize, ProcessAside, TInv, Process
  <1>2. UNCHANGED <<sold, pendingDisbursements, workers, paid, orders, tester,
                    funded, faults>>
    BY <1>1 DEF ProcessAside, vars, market, history, queueVars, setupVars
  <1>3. polled = {} /\ \A u \in Users : verdict[u] = None
    BY <1>1 DEF TInv, Process
  <1>4. Process'
    <2>1. Process
      BY DEF TInv
    <2>2. ASSUME NEW s \in polled' PROVE Drained(s)'
      <3>1. /\ s \in Locks /\ sold[s] > 0
            /\ pendingDisbursements = << >> /\ phase' = "count"
        BY <1>1, <1>3
      <3>2. Weight(pendingDisbursements, Cost(s)) = 0
        <4>1. Cost(s) \in Rates /\ pendingDisbursements \in Seq(Disbursement)
          BY <3>1, RateTypes DEF TInv, Inv, TypeOK
        <4> QED
          BY <3>1, <4>1, WeightType DEF Rates
      <3> QED
        BY <1>2, <3>1, <3>2 DEF Drained
    <2>3. polled' \subseteq Locks /\ (polled' # {} => phase' = "count")
      BY <1>1, <1>3
    <2> QED
      BY <1>1, <1>2, <1>3, <2>1, <2>2, <2>3 DEF Process, Faultless
  <1>5. OkMeansPaidOut' /\ ErrMeansUnsettled'
    BY <1>1, <1>3, SaleTestAssumption DEF OkMeansPaidOut, ErrMeansUnsettled
  <1> QED
    BY <1>1, <1>4, <1>5, ProcessKeeps

\* The count is seen at zero: no worker has a job left.
LEMMA PollCountKeeps ==
  ASSUME TInv, PollPendingCount
  PROVE  TInv'
  <1>1. /\ ProcessAside /\ UNCHANGED <<verdict, polled>>
        /\ phase = "count" /\ phase' = "verify" /\ pendingCount = 0
    BY DEF PollPendingCount, ProcessAside
  <1>2. UNCHANGED <<sold, pendingDisbursements, workers, paid, orders, tester,
                    funded, faults>>
    BY <1>1 DEF ProcessAside, vars, market, history, queueVars, setupVars
  <1>3. \A w \in Workers : workers[w] = Queue!Resting
    <2>1. Cardinality(Awaited(workers)) = 0 /\ IsFiniteSet(Awaited(workers))
      BY <1>1, SaleTestAssumption, FS_Subset DEF TInv, Kinds, Awaited
    <2>2. Awaited(workers) = {}
      BY <2>1, FS_EmptySet
    <2> QED
      BY <2>2 DEF Awaited, TInv, Kinds
  <1>4. ASSUME NEW rate \in Rates
        PROVE  StillOpen(rate) = Weight(pendingDisbursements, rate)
    <2>1. Carried(workers, rate) = 0
      BY <1>3, RestCarriesNothing DEF TInv, Kinds
    <2>2. PICK a \in Nat : a = Weight(pendingDisbursements, rate)
      BY WeightType DEF Rates, TInv, Inv, TypeOK
    <2> QED
      BY <2>1, <2>2 DEF StillOpen
  <1>5. Process'
    <2>1. Process
      BY DEF TInv
    <2>2. ASSUME NEW s \in polled PROVE Drained(s)'
      <3>1. Drained(s) /\ s \in Locks
        BY <2>1 DEF Process
      <3>2. StillOpen(Cost(s)) = Weight(pendingDisbursements, Cost(s))
        BY <1>4, <3>1, RateTypes
      <3>3. StillOpen(Cost(s))' = StillOpen(Cost(s))
        BY <1>2 DEF StillOpen
      <3> QED
        BY <1>1, <1>2, <3>1, <3>2, <3>3 DEF Drained
    <2> QED
      BY <1>1, <1>2, <2>1, <2>2 DEF Process, Faultless
  <1>6. OkMeansPaidOut' /\ ErrMeansUnsettled'
    BY <1>1, <1>2 DEF TInv, OkMeansPaidOut, ErrMeansUnsettled, PaidFor
  <1> QED
    BY <1>1, <1>5, <1>6, ProcessKeeps

\* An empty address of a user who paid was sold, and its jobs are done; an
\* address with something on it still has jobs.
LEMMA VerifyKeeps ==
  ASSUME TInv, NEW u \in Users, VerifyBalance(u)
  PROVE  TInv'
  <1>1. /\ ProcessAside /\ UNCHANGED <<phase, polled>>
        /\ phase = "verify"
        /\ verdict' = [verdict EXCEPT ![u] =
                         IF balance[tester[u].sub] = 0 THEN "OK" ELSE "ERR"]
    BY DEF VerifyBalance, ProcessAside
  <1>2. UNCHANGED <<sold, pendingDisbursements, workers, paid, orders, tester,
                    funded, faults>>
    BY <1>1 DEF ProcessAside, vars, market, history, queueVars, setupVars
  <1>3. Process /\ faults \in Nat /\ verdict \in [Users -> {None, "OK", "ERR"}]
    BY DEF TInv, Process
  <1>4. PICK s \in Locks : s = tester[u].sub
    BY <1>1, <1>3 DEF Process, TInv, Slots, UserRight, UserTypes
  <1>5. /\ verdict'[u] = IF balance[s] = 0 THEN "OK" ELSE "ERR"
        /\ \A v \in Users \ {u} : verdict'[v] = verdict[v]
    BY <1>1, <1>3, <1>4
  <1>6. Process'
    <2>1. verdict' \in [Users -> {None, "OK", "ERR"}]
      BY <1>1, <1>3
    <2>2. \A r \in polled : Drained(r)'
      BY <1>1, <1>2, <1>3 DEF Process, Drained, StillOpen
    <2> QED
      BY <1>1, <1>2, <1>3, <2>1, <2>2 DEF Process, Faultless
  <1>7. ASSUME balance[s] = 0, u \in funded
        PROVE  sold[s] = 1 /\ {job.to : job \in PaidFor(s)} = Payees(s)
    <2>1. deposited[s] = price /\ price # 0
      BY <1>1, <1>3, <1>4, <1>7, SaleTestAssumption
      DEF Process, TInv, Deposits, UserTypes
    <2>2. sold[s] = 1
      <3>1. sold[s] # 0 /\ sold[s] <= 1 /\ sold[s] \in Nat
        BY <1>7, <2>1 DEF TInv, OInv, Kept, Inv, TypeOK
      <3> QED
        BY <3>1
    <2>3. Kinds /\ pendingDisbursements \in Seq(Disbursement)
      BY DEF TInv, Inv, TypeOK
    <2>4. StillOpen(Cost(s)) = 0
      BY <1>7, <2>2 DEF TInv, Owed
    <2>5. ASSUME NEW to \in Recipients PROVE StillOpen(Share(s, to)) = 0
      BY <2>3, <2>4, RateTypes, ShareIsLess, NothingOpen
    <2>6. Payees(s) \subseteq Recipients
      <3>1. orders[s] # None
        BY <2>2 DEF TInv, OInv, Kept
      <3> QED
        BY <3>1 DEF TInv, Inv, TypeOK, Order, Payees, Recipients
    <2>7. \A to \in Payees(s) :
            \E job \in DOMAIN paid : job.sub = s /\ job.to = to
      BY <2>2, <2>5, <2>6 DEF TInv, Shared
    <2>8. \A job \in PaidFor(s) : job.to \in Payees(s)
      BY DEF TInv, Shared, PaidFor
    <2>9. \A to \in Payees(s) : \E job \in PaidFor(s) : job.to = to
      BY <2>7 DEF PaidFor
    <2> QED
      BY <2>2, <2>8, <2>9
  <1>8. OkMeansPaidOut'
    <2> SUFFICES ASSUME NEW v \in Users, verdict'[v] = "OK", v \in funded,
                        NEW r, r = tester[v].sub
                 PROVE  /\ sold[r] = 1
                        /\ {job.to : job \in PaidFor(r)'} = Payees(r)
      BY <1>2 DEF OkMeansPaidOut, Payees
    <2>1. PaidFor(r)' = PaidFor(r)
      BY <1>2 DEF PaidFor
    <2>2. CASE v = u
      <3>1. balance[s] = 0 /\ r = s
        BY <1>4, <1>5, <2>2
      <3> QED
        BY <1>7, <2>1, <2>2, <3>1
    <2>3. CASE v # u
      BY <1>5, <2>1, <2>3 DEF TInv, OkMeansPaidOut, Payees
    <2> QED
      BY <2>2, <2>3
  <1>9. ErrMeansUnsettled'
    <2> SUFFICES ASSUME NEW v \in Users, verdict'[v] = "ERR",
                        tester[v].sub \in polled, ~(faults > 0)
                 PROVE  FALSE
      BY <1>1, <1>2 DEF ErrMeansUnsettled
    <2>1. v = u
      BY <1>5 DEF TInv, ErrMeansUnsettled
    <2>2. balance[s] # 0 /\ s \in polled /\ faults = 0
      BY <1>3, <1>4, <1>5, <2>1
    <2>3. Drained(s)
      BY <1>3, <2>2 DEF Process
    <2>4. sold[s] > 0 /\ StillOpen(Cost(s)) = 0
      BY <1>1, <2>2, <2>3 DEF Drained
    <2> QED
      BY <2>2, <2>4 DEF TInv, Owed
  <1> QED
    BY <1>1, <1>6, <1>8, <1>9, ProcessKeeps

-----------------------------------------------------------------------------
\* The theorems.

\* The test begins in a state of the invariant.
LEMMA TestInitInv == TestInit => TInv
  <1> SUFFICES ASSUME TestInit
               PROVE  TInv
    OBVIOUS
  <1>1. Init /\ Queue!Init
    BY DEF TestInit
  <1>2. /\ listings = [i \in Tokens |-> None]
        /\ calls = [c \in Calls |-> Idle]
        /\ orders = [s \in Locks |-> None]
        /\ deposited = [s \in Locks |-> 0]
        /\ sold = [s \in Locks |-> 0] /\ passed = {}
        /\ pendingDisbursements = << >>
        /\ pendingCount = 0 /\ workers = [w \in Workers |-> Queue!Resting]
    BY <1>1 DEF Init, Queue!Init
  <1>3. DOMAIN paid = {} /\ DOMAIN dropped = {}
    BY <1>1 DEF Queue!Init, Queue!EmptyBag, Queue!SetToBag
  <1>4. /\ tester = [u \in Users |-> [pc |-> "mint", index |-> None,
                                      sub |-> None]]
        /\ phase = "selling" /\ verdict = [u \in Users |-> None]
        /\ polled = {} /\ faults = 0
        /\ key \in [Users -> Traders] /\ funded \in SUBSET Users
        /\ price \in Prices
    BY DEF TestInit, Traders
  <1>5. Inv /\ OInv
    BY <1>1, InitInv, InitOrderly
  <1>6. UserTypes
    BY <1>4 DEF UserTypes
  <1>7. Slots
    BY <1>2, <1>4, SaleTestAssumption DEF Slots, UserRight, Idle
  <1>8. Trade /\ Untouched
    BY <1>2, MarketAssumption DEF Trade, TradeRight, Untouched, Idle
  <1>9. Deposits
    BY <1>2, <1>4 DEF Deposits
  <1>10. workers \in [Workers -> Worker]
    BY <1>2, RateTypes
  <1>11. Kinds
    <2>1. Awaited(workers) = {}
      BY <1>2 DEF Awaited, Queue!Resting
    <2>2. \A w \in Workers : workers[w].answer = None
      BY <1>2 DEF Queue!Resting
    <2>3. None # "InsufficientFunds"
      BY SaleTestAssumption DEF Queue!Answers
    <2> QED
      BY <1>2, <1>3, <1>10, <2>1, <2>2, <2>3, FS_EmptySet DEF Kinds
  <1>12. ASSUME NEW rate \in Rates PROVE StillOpen(rate) = 0
    <2>1. Weight(pendingDisbursements, rate) = 0
      BY <1>2, <1>5, WeightType DEF Rates, Inv, TypeOK
    <2>2. Carried(workers, rate) = 0
      BY <1>2, <1>10, RestCarriesNothing
    <2> QED
      BY <2>1, <2>2 DEF StillOpen
  <1>13. \A s \in Locks : Owed(s) /\ Shared(s)
    BY <1>2, <1>3, <1>12, RateTypes DEF Owed, Shared
  <1>14. Process
    <2>1. Faultless
      BY <1>2 DEF Faultless, Queue!Resting
    <2> QED
      BY <1>4, <2>1 DEF Process
  <1>15. OkMeansPaidOut /\ ErrMeansUnsettled
    BY <1>4, SaleTestAssumption DEF OkMeansPaidOut, ErrMeansUnsettled
  <1> QED
    BY <1>5, <1>6, <1>7, <1>8, <1>9, <1>11, <1>13, <1>14, <1>15 DEF TInv

\* Nothing happens.
LEMMA TestStutters ==
  ASSUME TInv, UNCHANGED testVars
  PROVE  TInv'
  <1>1. /\ ProcessAside
        /\ UNCHANGED <<phase, verdict, polled, sold, pendingDisbursements,
                       workers, paid, orders, tester, funded, faults>>
    BY DEF testVars, ProcessAside, processVars, vars, market, history,
           queueVars, setupVars
  <1>2. Process'
    BY <1>1 DEF TInv, Process, Faultless, Drained, StillOpen
  <1>3. OkMeansPaidOut' /\ ErrMeansUnsettled'
    BY <1>1 DEF TInv, OkMeansPaidOut, ErrMeansUnsettled, PaidFor
  <1> QED
    BY <1>1, <1>2, <1>3, ProcessKeeps

\* Every step of the test keeps the invariant.
LEMMA TestNextInv ==
  TInv /\ [TestNext /\ ListAlone /\ LockAlone /\ Prompt]_testVars => TInv'
  <1> SUFFICES ASSUME TInv,
                      [TestNext /\ ListAlone /\ LockAlone /\ Prompt]_testVars
               PROVE  TInv'
    OBVIOUS
  <1>1. CASE UNCHANGED testVars
    BY <1>1, TestStutters
  <1>2. CASE TestNext /\ ListAlone /\ LockAlone /\ Prompt
    <2>1. ASSUME NEW u \in Users, UserStep(u) \/ VerifyBalance(u)
          PROVE  TInv'
      BY <1>2, <2>1, MintKeeps, ListTokenKeeps, ListedKeeps, LockTokenKeeps,
         LockedKeeps, PayOrderKeeps, VerifyKeeps DEF UserStep
    <2>2. ASSUME NEW c \in Calls, Message(c)
          PROVE  TInv'
      <3>1. CASE SettleCommit(c)
        BY <2>2, <3>1, SettleCommitKeeps DEF Message
      <3> QED
        BY <2>2, <3>1, MessageKeeps
    <2>3. ASSUME NEW c \in Calls, Throw(c)
          PROVE  TInv'
      BY <2>3, ThrowKeeps
    <2>4. ASSUME NEW w \in Workers, \/ Disburse(w) \/ TakeAnswer(w)
                                    \/ LedgerPays(w) \/ LedgerRefuses(w)
          PROVE  TInv'
      BY <2>4, DisburseKeeps, TakeAnswerKeeps, LedgerPaysKeeps,
         LedgerRefusesKeeps
    <2>5. CASE Heartbeat \/ Time
      BY <1>2, <2>5, HeartbeatKeeps, TimeKeeps
    <2>6. CASE Fail \/ AwaitQueue \/ PollQueueSize \/ PollPendingCount
      BY <2>6, PollKeeps, PollCountKeeps
    <2> QED
      BY <1>2, <2>1, <2>2, <2>3, <2>4, <2>5, <2>6 DEF TestNext
  <1> QED
    BY <1>1, <1>2

\* The invariant holds in every state the test reaches.
THEOREM TestInvariance == TestSpec => []TInv
  BY TestInitInv, TestNextInv, PTL DEF TestSpec, TestSteps

\* "OK!" means what it says: the order of a user who paid was carried out, once,
\* and each of its three disbursements was made.
THEOREM OkIsTrue == TestSpec => []OkMeansPaidOut
  <1>1. TInv => OkMeansPaidOut
    BY DEF TInv
  <1> QED
    BY <1>1, TestInvariance, PTL

\* "ERR!" is printed, when no call was refused, only for an order that was not
\* settled when the queue was seen empty: polling the size of the queue first
\* and the pending count after it is enough.
THEOREM ErrIsTrue == TestSpec => []ErrMeansUnsettled
  <1>1. TInv => ErrMeansUnsettled
    BY DEF TInv
  <1> QED
    BY <1>1, TestInvariance, PTL

\* No transfer ever finds too little, and what is queued for an address is
\* never more than it holds: payouts fit the balances that settles read.
THEOREM PayoutsAlwaysFit == TestSpec => []PayoutsFit
  <1>1. TInv => PayoutsFit
    <2> SUFFICES ASSUME TInv
                 PROVE  PayoutsFit
      OBVIOUS
    <2>1. Kinds /\ pendingDisbursements \in Seq(Disbursement)
      BY DEF TInv, Inv, TypeOK
    <2>2. ASSUME NEW s \in Locks
          PROVE  Weight(pendingDisbursements, Cost(s)) <= balance[s]
      <3>1. Cost(s) \in Rates /\ Owed(s)
        BY RateTypes DEF TInv
      <3>2. PICK n \in Nat : n = StillOpen(Cost(s))
        BY <2>1, <3>1, OpenType
      <3>3. PICK m \in Nat : m = Weight(pendingDisbursements, Cost(s))
        BY <2>1, <3>1, OpenType
      <3>4. m <= n
        BY <2>1, <3>1, <3>2, <3>3, OpenType
      <3>5. n <= balance[s]
        <4>1. balance[s] \in Nat
          BY DEF TInv, Inv, TypeOK
        <4> QED
          BY <3>1, <3>2, <4>1 DEF Owed
      <3>6. balance[s] \in Nat
        BY DEF TInv, Inv, TypeOK
      <3> QED
        BY <3>3, <3>4, <3>5, <3>6
    <2>3. FullyCovered
      BY <2>1, <2>2, DueIsWeight DEF FullyCovered
    <2> QED
      BY <2>1, <2>3 DEF PayoutsFit, Kinds
  <1> QED
    BY <1>1, TestInvariance, PTL
=============================================================================
