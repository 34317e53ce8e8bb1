---- MODULE Renewal ----
(* The automatic renewal of a WiFi plan out of the customer's wallet
   (apps/api/src/customer-commerce/customer-commerce.service.ts). Two timers, running in every API
   instance, drive it: processDueRenewals claims due schedules and walks each one through purchase,
   wallet debit, settlement and advance, every statement a transaction of its own;
   reconcileRenewalCompensations retries the refunds that failed.

   One customer with one wallet. A worker is one run of the first timer, a reconciler one run of
   the second. Time is abstract: a schedule falls due, and a claim grows stale, by actions of the
   environment. *)
EXTENDS Naturals, FiniteSets, Functions, TLC

CONSTANTS
  Schedules,      \* the customer's renewal schedules
  Workers,        \* concurrent runs of processDueRenewals
  Reconcilers,    \* concurrent runs of reconcileRenewalCompensations
  Executions,     \* pool of execution ids (gen_random_uuid)
  Purchases,      \* pool of purchase ids
  Prices,         \* prices the package may have
  InitialPrice, InitialBalance,
  FailureLimit,       \* failures after which a schedule is FAILED (5 in the code)
  CompensationLimit,  \* attempts after which a compensation is FAILED (8 in the code)
  Env,            \* the disturbances of this instance, a subset of Disturbances
  FailingSteps,   \* the labels whose statement may fail with a database error
  LostAcks,       \* the labels whose statement may commit and yet throw
  MaxDisturbances,\* bound on the number of disturbances in a behaviour
  None            \* SQL NULL

Disturbances == {"crash", "slow", "reschedule", "resume", "freeze",
                 "deactivate", "reprice", "topUp"}
Forward == {"plan", "purchase", "link", "lookup", "check", "debit", "confirm", "advance"}
Handler == {"inspect", "cancel", "refund", "enqueue", "retire"}
Labels  == Forward \cup Handler \cup {"idle"}

ASSUME PriceAssumption ==
  /\ Prices \subseteq Nat \ {0}
  /\ InitialPrice \in Prices
  /\ InitialBalance \in Nat
ASSUME LimitAssumption ==
  /\ FailureLimit \in Nat \ {0}
  /\ CompensationLimit \in Nat \ {0}
  /\ MaxDisturbances \in Nat
ASSUME PoolAssumption == IsFiniteSet(Executions)
ASSUME EnvAssumption ==
  /\ Env \subseteq Disturbances
  /\ FailingSteps \subseteq Labels \cup {"resolve"}
  /\ LostAcks \subseteq Labels

VARIABLES
  schedule,       \* commerce_renewal_schedules
  purchase,       \* wifi_plan_purchases
  settlement,     \* payments with key wallet-payment:<execution>: the purchase PAID
  cancellation,   \* payments with key wallet-payment-failed:<execution>
  wallet,         \* customer_wallets: balance, status = 'ACTIVE', and the sum of its other entries
  debit,          \* wallet entries with key renewal-debit:<execution>
  refund,         \* wallet entries with key renewal-refund:<execution>
  compensation,   \* commerce_renewal_reconciliations
  worker,         \* local state of each run of processDueRenewals
  reconciler,     \* local state of each run of reconcileRenewalCompensations
  package,        \* the package's is_active and price
  issued,         \* execution ids generated so far
  budget          \* disturbances still allowed

vars == <<schedule, purchase, settlement, cancellation, wallet, debit, refund,
          compensation, worker, reconciler, package, issued, budget>>

Jobs    == [exec : Executions, purchase : Purchases \cup {None}]
Entries == [amount : Nat, purchase : Purchases]

ASSUME NoneAssumption ==
  /\ None \notin Executions \cup Purchases \cup Schedules
  /\ None \notin Jobs
  /\ None \notin Entries

ScheduleRows == [status   : {"ACTIVE", "PAUSED", "PROCESSING", "FAILED"},
                 due      : BOOLEAN,                      \* next_run_at <= now()
                 claim    : {"none", "fresh", "stale"},   \* claimed_at
                 failures : Nat,
                 exec     : Executions \cup {None},
                 purchase : Purchases \cup {None}]
PurchaseRows == [status : {"ABSENT", "PENDING_PAYMENT", "PAID", "CANCELED"}, price : Nat]
Wallets      == [balance : Nat, active : BOOLEAN, credited : Nat]
CompensationRows == [status   : {"ABSENT", "PENDING", "PROCESSING", "RESOLVED", "FAILED"},
                     stale    : BOOLEAN,                  \* updated_at
                     attempts : Nat,
                     amount   : Nat,
                     purchase : Purchases \cup {None}]
WorkerStates == [pc      : Labels,
                 jobs    : [Schedules -> Jobs \cup {None}],  \* what is left of the batch
                 row     : Schedules \cup {None},
                 debited : BOOLEAN,
                 amount  : Nat]
ReconcilerStates == [pc   : {"idle", "credit", "resolve", "retry"},
                     jobs : SUBSET Executions,
                     row  : Executions \cup {None}]

TypeOK ==
  /\ schedule     \in [Schedules -> ScheduleRows]
  /\ purchase     \in [Purchases -> PurchaseRows]
  /\ settlement   \in [Executions -> Purchases \cup {None}]
  /\ cancellation \in [Executions -> Purchases \cup {None}]
  /\ wallet       \in Wallets
  /\ debit        \in [Executions -> Entries \cup {None}]
  /\ refund       \in [Executions -> Entries \cup {None}]
  /\ compensation \in [Executions -> CompensationRows]
  /\ worker       \in [Workers -> WorkerStates]
  /\ reconciler   \in [Reconcilers -> ReconcilerStates]
  /\ package      \in [active : BOOLEAN, price : Prices]
  /\ issued       \in SUBSET Executions
  /\ budget       \in Nat

Idle == [pc |-> "idle", jobs |-> [s \in Schedules |-> None], row |-> None,
         debited |-> FALSE, amount |-> 0]
Resting == [pc |-> "idle", jobs |-> {}, row |-> None]
NoCompensation == [status |-> "ABSENT", stale |-> FALSE, attempts |-> 0,
                   amount |-> 0, purchase |-> None]

Init ==
  /\ schedule = [s \in Schedules |-> [status |-> "ACTIVE", due |-> TRUE, claim |-> "none",
                                      failures |-> 0, exec |-> None, purchase |-> None]]
  /\ purchase = [p \in Purchases |-> [status |-> "ABSENT", price |-> 0]]
  /\ settlement = [e \in Executions |-> None]
  /\ cancellation = [e \in Executions |-> None]
  /\ wallet = [balance |-> InitialBalance, active |-> TRUE, credited |-> InitialBalance]
  /\ debit = [e \in Executions |-> None]
  /\ refund = [e \in Executions |-> None]
  /\ compensation = [e \in Executions |-> NoCompensation]
  /\ worker = [w \in Workers |-> Idle]
  /\ reconciler = [r \in Reconcilers |-> Resting]
  /\ package = [active |-> TRUE, price |-> InitialPrice]
  /\ issued = {}
  /\ budget = MaxDisturbances

ledger == <<wallet, debit, refund>>
orders == <<purchase, settlement, cancellation>>

------------------------
(* Control of a worker: where a statement returns to, and where an exception thrown at a label is
   caught. *)

Job(w) == worker[w].jobs[worker[w].row]

Enter(k, label) == [k EXCEPT !.pc = label]

\* The record of a worker that has finished its current row.
Finish(k) ==
  LET left == [k.jobs EXCEPT ![k.row] = None]
  IN [pc |-> IF \E s \in Schedules : left[s] # None THEN "plan" ELSE "idle",
      jobs |-> left, row |-> None, debited |-> FALSE, amount |-> 0]

\* Mutant: the handler refunds the plan's price whether or not it was debited.
LandingRefundsAlways(k) == IF k.pc \in Forward THEN "refund" ELSE "retire"

\* Where the exception thrown at a label lands.
Landing(k) ==
  IF k.pc \in Forward
    THEN IF k.debited /\ k.jobs[k.row].purchase # None THEN "inspect" ELSE "retire"
    ELSE IF k.pc = "cancel" /\ k.amount > 0 THEN "refund"
         ELSE IF k.pc = "refund" THEN "enqueue" ELSE "retire"

\* The record of a worker whose statement threw.
Catch(k) == IF k.pc = "retire" THEN Finish(k) ELSE Enter(k, Landing(k))

Become(w, k) == worker' = [worker EXCEPT ![w] = k]

Disturb(event) ==
  /\ event \in Env
  /\ budget > 0
  /\ budget' = budget - 1

\* The statement committed.  Its acknowledgement may get lost, or the read that
\* follows the COMMIT inside the callee may fail: the caller sees an exception.
Return(w, k) ==
  \/ Become(w, k) /\ UNCHANGED budget
  \/ /\ worker[w].pc \in LostAcks /\ budget > 0
     /\ budget' = budget - 1
     /\ Become(w, Catch(worker[w]))

------------------------
(* The services a worker calls, each one database transaction. *)

\* PurchasesService.confirmPayment(p, provider 'manual', key of execution e):
\* whether it returns normally, for the payments recorded under that key.
Confirms(p, bound, status) ==
  \/ purchase[p].status = "PAID"
  \/ /\ purchase[p].status = "PENDING_PAYMENT"
     /\ bound = None \/ (bound = p /\ status = "PAID")

\* ... and that it inserts a payment and moves the purchase.
Inserts(p, bound) == purchase[p].status = "PENDING_PAYMENT" /\ bound = None

\* addWalletEntry('REFUND', key renewal-refund:e); throws on an inactive wallet.
Refunds(e, amount, p) ==
  IF refund[e] # None
    THEN UNCHANGED ledger
    ELSE /\ refund' = [refund EXCEPT ![e] = [amount |-> amount, purchase |-> p]]
         /\ wallet' = [wallet EXCEPT !.balance = @ + amount]
         /\ UNCHANGED debit

------------------------
(* processDueRenewals: the claim. *)

\* Mutant: a PROCESSING schedule is taken over whatever the age of its claim.
RecoveredEarly(s) ==
  IF schedule[s].status = "PROCESSING"
    THEN [schedule[s] EXCEPT !.status = "ACTIVE", !.claim = "none"]
    ELSE schedule[s]

\* UPDATE ... SET status='ACTIVE' WHERE status='PROCESSING' AND claimed_at is old.
Recovered(s) ==
  IF schedule[s].status = "PROCESSING" /\ schedule[s].claim = "stale"
    THEN [schedule[s] EXCEPT !.status = "ACTIVE", !.claim = "none"]
    ELSE schedule[s]

\* An id for each claimed schedule: the one it has, else one never issued before.
ClaimId(s, e) == IF schedule[s].exec = None THEN e \notin issued ELSE e = schedule[s].exec

ClaimRows(batch, id) ==
  [s \in Schedules |->
     IF s \in batch
       THEN [schedule[s] EXCEPT !.status = "PROCESSING", !.claim = "fresh", !.exec = id[s]]
       ELSE Recovered(s)]

\* The worker's copy of the rows it claimed.
ClaimJobs(batch, id) ==
  [Idle EXCEPT !.pc = IF batch = {} THEN "idle" ELSE "plan",
               !.jobs = [s \in Schedules |->
     IF s \in batch THEN [exec |-> id[s], purchase |-> schedule[s].purchase] ELSE None]]

\* A batch of due schedules: LIMIT 20 and SKIP LOCKED leave any subset, the empty
\* one too, in which case only the recovery of stale claims is left.  A new
\* execution id is generated only where the schedule has none.
ClaimDue(w) ==
  /\ worker[w].pc = "idle"
  /\ \E batch \in SUBSET {s \in Schedules : Recovered(s).status = "ACTIVE" /\ schedule[s].due} :
     \E id \in [batch -> Executions] :
       /\ \A s \in batch : ClaimId(s, id[s])
       /\ \A s, t \in batch : id[s] = id[t] => s = t
       /\ schedule' = ClaimRows(batch, id)
       /\ schedule' # schedule
       /\ issued' = issued \cup {id[s] : s \in batch}
       /\ Become(w, ClaimJobs(batch, id))
  /\ UNCHANGED <<orders, ledger, compensation, reconciler, package, budget>>

------------------------
(* processDueRenewals: one row, statement by statement. *)

\* Rows of the batch run one after the other; the package must be active.
ReadPlan(w) ==
  /\ worker[w].pc = "plan"
  /\ \E s \in Schedules :
       LET k == [worker[w] EXCEPT !.row = s] IN
       /\ worker[w].jobs[s] # None
       /\ \/ /\ package.active
             /\ Become(w, [k EXCEPT !.pc = "purchase", !.amount = package.price])
             /\ UNCHANGED budget
          \/ /\ ~package.active
             /\ Become(w, Catch(k))
             /\ UNCHANGED budget
          \/ /\ "plan" \in FailingSteps /\ budget > 0
             /\ budget' = budget - 1
             /\ Become(w, Catch(k))
  /\ UNCHANGED <<schedule, orders, ledger, compensation, reconciler, package, issued>>

\* A purchase already linked to the claim is read; one PAID needs only the advance.
ReadPurchase(w) ==
  /\ worker[w].pc = "purchase"
  /\ Job(w).purchase # None
  /\ Become(w, Enter(worker[w], IF purchase[Job(w).purchase].status = "PAID"
                                  THEN "advance" ELSE "lookup"))
  /\ UNCHANGED <<schedule, orders, ledger, compensation, reconciler, package, issued, budget>>

\* PurchasesService.create, at the price the package has now.
CreatePurchase(w) ==
  /\ worker[w].pc = "purchase"
  /\ Job(w).purchase = None
  /\ IF package.active
       THEN \E p \in Purchases :
              /\ purchase[p].status = "ABSENT"
              /\ purchase' = [purchase EXCEPT ![p] = [status |-> "PENDING_PAYMENT",
                                                      price  |-> package.price]]
              /\ Return(w, [worker[w] EXCEPT !.pc = "link", !.jobs[worker[w].row].purchase = p])
       ELSE Become(w, Catch(worker[w])) /\ UNCHANGED <<purchase, budget>>
  /\ UNCHANGED <<schedule, settlement, cancellation, ledger, compensation, reconciler,
                 package, issued>>

LinkPurchase(w) ==
  LET s == worker[w].row IN
  /\ worker[w].pc = "link"
  /\ schedule' = IF schedule[s].status = "PROCESSING"
                   THEN [schedule EXCEPT ![s].purchase = Job(w).purchase] ELSE schedule
  /\ Return(w, Enter(worker[w], "lookup"))
  /\ UNCHANGED <<orders, ledger, compensation, reconciler, package, issued>>

\* Mutant: a linked purchase is taken for a debited one.
LinkedIsDebited(w) == TRUE

\* An earlier attempt of this execution made the debit.
PriorDebit(w) == debit[Job(w).exec] # None

LookupDebit(w) ==
  /\ worker[w].pc = "lookup"
  /\ Become(w, IF PriorDebit(w) THEN [worker[w] EXCEPT !.debited = TRUE, !.pc = "confirm"]
                                ELSE Enter(worker[w], "check"))
  /\ UNCHANGED <<schedule, orders, ledger, compensation, reconciler, package, issued, budget>>

Affordable(w) == wallet.active /\ wallet.balance >= worker[w].amount

\* The unlocked look at the wallet before the transaction.
CheckWallet(w) ==
  /\ worker[w].pc = "check"
  /\ Become(w, IF Affordable(w) THEN Enter(worker[w], "debit") ELSE Catch(worker[w]))
  /\ UNCHANGED <<schedule, orders, ledger, compensation, reconciler, package, issued, budget>>

\* Mutant: the look at the wallet is not repeated under the lock.
DebitableUnlocked(w) == ~PriorDebit(w)

\* The second look, under the row lock, and the unique key of the entry.
Debitable(w) == Affordable(w) /\ ~PriorDebit(w)

\* The wallet transaction: the entry and the balance.
DebitWallet(w) ==
  /\ worker[w].pc = "debit"
  /\ IF Debitable(w)
       THEN /\ debit' = [debit EXCEPT ![Job(w).exec] = [amount   |-> worker[w].amount,
                                                         purchase |-> Job(w).purchase]]
            /\ wallet' = [wallet EXCEPT !.balance = @ - worker[w].amount]
            /\ Return(w, [worker[w] EXCEPT !.debited = TRUE, !.pc = "confirm"])
       ELSE Become(w, Catch(worker[w])) /\ UNCHANGED <<debit, wallet, budget>>
  /\ UNCHANGED <<schedule, orders, refund, compensation, reconciler, package, issued>>

\* confirmPayment(SUCCESS): payment, purchase PAID and access grant in one transaction.
ConfirmPayment(w) ==
  LET e == Job(w).exec
      p == Job(w).purchase IN
  /\ worker[w].pc = "confirm"
  /\ IF Inserts(p, settlement[e])
       THEN /\ settlement' = [settlement EXCEPT ![e] = p]
            /\ purchase' = [purchase EXCEPT ![p].status = "PAID"]
       ELSE UNCHANGED <<settlement, purchase>>
  /\ IF Confirms(p, settlement[e], "PAID")
       THEN Return(w, Enter(worker[w], "advance"))
       ELSE Become(w, Catch(worker[w])) /\ UNCHANGED budget
  /\ UNCHANGED <<schedule, cancellation, ledger, compensation, reconciler, package, issued>>

\* The schedule moves to its next period and forgets the execution.
AdvanceSchedule(w) ==
  LET s == worker[w].row IN
  /\ worker[w].pc = "advance"
  /\ schedule' = IF schedule[s].status = "PROCESSING"
                   THEN [schedule EXCEPT ![s] = [status |-> "ACTIVE", due |-> FALSE,
                                                 claim |-> "none", failures |-> 0,
                                                 exec |-> None, purchase |-> None]]
                   ELSE schedule
  /\ Return(w, Finish(worker[w]))
  /\ UNCHANGED <<orders, ledger, compensation, reconciler, package, issued>>

------------------------
(* processDueRenewals: the exception handler, the compensation of a debit. *)

\* Mutant: the purchase is not looked at before the debit is compensated.
SettledUnread(p) == FALSE

Settled(p) == purchase[p].status = "PAID"

\* Reads the purchase and the latest PURCHASE entry that references it.
InspectPurchase(w) ==
  LET p == Job(w).purchase
      charged == {debit[e].amount : e \in {x \in Executions : debit[x] # None
                                                           /\ debit[x].purchase = p}} IN
  /\ worker[w].pc = "inspect"
  /\ IF Settled(p)
       THEN Become(w, Enter(worker[w], "retire"))
       ELSE \E amount \in IF charged = {} THEN {0} ELSE charged :
              Become(w, [worker[w] EXCEPT !.pc = "cancel", !.amount = amount])
  /\ UNCHANGED <<schedule, orders, ledger, compensation, reconciler, package, issued, budget>>

\* confirmPayment(FAILED).catch(() => undefined): the outcome is not looked at.
CancelPurchase(w) ==
  LET e == Job(w).exec
      p == Job(w).purchase IN
  /\ worker[w].pc = "cancel"
  /\ IF Inserts(p, cancellation[e])
       THEN /\ cancellation' = [cancellation EXCEPT ![e] = p]
            /\ purchase' = [purchase EXCEPT ![p].status = "CANCELED"]
       ELSE UNCHANGED <<cancellation, purchase>>
  /\ Become(w, Catch(worker[w]))
  /\ UNCHANGED <<schedule, settlement, ledger, compensation, reconciler, package, issued, budget>>

RefundDebit(w) ==
  /\ worker[w].pc = "refund"
  /\ IF wallet.active
       THEN /\ Refunds(Job(w).exec, worker[w].amount, Job(w).purchase)
            /\ Return(w, Enter(worker[w], "retire"))
       ELSE Become(w, Catch(worker[w])) /\ UNCHANGED <<ledger, budget>>
  /\ UNCHANGED <<schedule, orders, compensation, reconciler, package, issued>>

\* INSERT ... ON CONFLICT (execution_id): an existing row keeps its attempts.
EnqueueCompensation(w) ==
  LET e == Job(w).exec IN
  /\ worker[w].pc = "enqueue"
  /\ compensation' = [compensation EXCEPT ![e] =
       IF @.status = "ABSENT"
         THEN [NoCompensation EXCEPT !.status = "PENDING", !.amount = worker[w].amount,
                                     !.purchase = Job(w).purchase]
         ELSE [@ EXCEPT !.status = "PENDING", !.stale = FALSE]]
  /\ Return(w, Enter(worker[w], "retire"))
  /\ UNCHANGED <<schedule, orders, ledger, reconciler, package, issued>>

\* failure_count+1; the schedule keeps its execution and its purchase.
RetireAttempt(w) ==
  LET s == worker[w].row IN
  /\ worker[w].pc = "retire"
  /\ schedule' = IF schedule[s].status = "PROCESSING"
       THEN [schedule EXCEPT ![s].failures = @ + 1, ![s].claim = "none",
                             ![s].status = IF schedule[s].failures + 1 >= FailureLimit
                                             THEN "FAILED" ELSE "ACTIVE"]
       ELSE schedule
  /\ Return(w, Finish(worker[w]))
  /\ UNCHANGED <<orders, ledger, compensation, reconciler, package, issued>>

\* A statement fails and its transaction rolls back.
StatementFails(w) ==
  /\ worker[w].pc \in FailingSteps \ {"idle", "plan"}
  /\ budget > 0
  /\ budget' = budget - 1
  /\ Become(w, Catch(worker[w]))
  /\ UNCHANGED <<schedule, orders, ledger, compensation, reconciler, package, issued>>

------------------------
(* reconcileRenewalCompensations. *)

\* Mutant: rows left PROCESSING by a dead process are never recovered.
ReapNothing(c) == c

\* The stale rows are recovered first.
Reap(c) == IF c.status = "PROCESSING" /\ c.stale
             THEN [c EXCEPT !.status = IF c.attempts >= CompensationLimit THEN "FAILED" ELSE "PENDING",
                            !.stale = FALSE]
             ELSE c

\* next_attempt_at <= now() holds of any subset of the rows.
ClaimCompensations(r) ==
  /\ reconciler[r].pc = "idle"
  /\ \E jobs \in SUBSET {e \in Executions : /\ Reap(compensation[e]).status \in {"PENDING", "FAILED"}
                                            /\ compensation[e].attempts < CompensationLimit} :
       /\ compensation' = [e \in Executions |->
            IF e \in jobs THEN [Reap(compensation[e]) EXCEPT !.status = "PROCESSING",
                                                             !.attempts = @ + 1]
                          ELSE Reap(compensation[e])]
       /\ compensation' # compensation
       /\ reconciler' = [reconciler EXCEPT ![r] = IF jobs = {} THEN Resting ELSE
            [pc |-> "credit", jobs |-> jobs, row |-> None]]
  /\ UNCHANGED <<schedule, orders, ledger, worker, package, issued, budget>>

Continue(r) == LET left == reconciler[r].jobs \ {reconciler[r].row}
            IN [reconciler EXCEPT ![r] = IF left = {} THEN Resting ELSE
                  [pc |-> "credit", jobs |-> left, row |-> None]]

\* addWalletEntry with the amount and the key of the first attempt.
Compensate(r) ==
  /\ reconciler[r].pc = "credit"
  /\ \E e \in reconciler[r].jobs :
       \/ /\ wallet.active
          /\ Refunds(e, compensation[e].amount, compensation[e].purchase)
          /\ reconciler' = [reconciler EXCEPT ![r].pc = "resolve", ![r].row = e]
          /\ UNCHANGED budget
       \/ /\ \/ ~wallet.active /\ UNCHANGED budget
             \/ "refund" \in FailingSteps /\ budget > 0 /\ budget' = budget - 1
          /\ reconciler' = [reconciler EXCEPT ![r].pc = "retry", ![r].row = e]
          /\ UNCHANGED ledger
  /\ UNCHANGED <<schedule, orders, compensation, worker, package, issued>>

ResolveCompensation(r) ==
  /\ reconciler[r].pc = "resolve"
  /\ \/ /\ compensation' = [compensation EXCEPT ![reconciler[r].row].status = "RESOLVED"]
        /\ reconciler' = Continue(r)
        /\ UNCHANGED budget
     \/ /\ "resolve" \in FailingSteps /\ budget > 0 /\ budget' = budget - 1
        /\ reconciler' = [reconciler EXCEPT ![r].pc = "retry"]
        /\ UNCHANGED compensation
  /\ UNCHANGED <<schedule, orders, ledger, worker, package, issued>>

RetryCompensation(r) ==
  /\ reconciler[r].pc = "retry"
  /\ compensation' = [compensation EXCEPT ![reconciler[r].row] =
       [@ EXCEPT !.status = IF compensation[reconciler[r].row].attempts >= CompensationLimit
                              THEN "FAILED" ELSE "PENDING",
                 !.stale = FALSE]]
  /\ reconciler' = Continue(r)
  /\ UNCHANGED <<schedule, orders, ledger, worker, package, issued, budget>>

------------------------
(* The environment: clocks, the customer, the operator, crashes. *)

\* The next period, at least a day away, does not start while a run still holds
\* the schedule, unless runs may be slow.
FallDue(s) ==
  /\ ~schedule[s].due
  /\ "slow" \in Env \/ \A w \in Workers : worker[w].jobs[s] = None
  /\ schedule' = [schedule EXCEPT ![s].due = TRUE]
  /\ UNCHANGED <<orders, ledger, compensation, worker, reconciler, package, issued, budget>>

\* Ten minutes pass since the claim.  Unless "slow" is enabled a live run is
\* assumed to finish its batch within that time.
ClaimGrowsStale(s) ==
  /\ schedule[s].status = "PROCESSING" /\ schedule[s].claim = "fresh"
  /\ "slow" \in Env \/ \A w \in Workers : worker[w].jobs[s] = None
  /\ schedule' = [schedule EXCEPT ![s].claim = "stale"]
  /\ UNCHANGED <<orders, ledger, compensation, worker, reconciler, package, issued, budget>>

\* Fifteen minutes pass since the compensation row was touched.
CompensationGrowsStale(e) ==
  /\ compensation[e].status = "PROCESSING" /\ ~compensation[e].stale
  /\ "slow" \in Env \/ \A r \in Reconcilers : e \notin reconciler[r].jobs
  /\ compensation' = [compensation EXCEPT ![e].stale = TRUE]
  /\ UNCHANGED <<schedule, orders, ledger, worker, reconciler, package, issued, budget>>

\* setRenewal: the upsert overwrites status and next_run_at whatever the status is;
\* "resume" is the same request while no run holds the schedule.
SetRenewal(s) ==
  /\ \/ Disturb("reschedule")
     \/ Disturb("resume") /\ \A w \in Workers : worker[w].jobs[s] = None
  /\ \E status \in {"ACTIVE", "PAUSED"}, due \in BOOLEAN :
       schedule' = [schedule EXCEPT ![s].status = status, ![s].due = due]
  /\ UNCHANGED <<orders, ledger, compensation, worker, reconciler, package, issued>>

\* addWalletEntry('TOPUP') by the operator.
TopUp ==
  /\ Disturb("topUp")
  /\ wallet.active
  /\ wallet' = [wallet EXCEPT !.balance = @ + InitialPrice, !.credited = @ + InitialPrice]
  /\ UNCHANGED <<schedule, orders, debit, refund, compensation, worker, reconciler, package, issued>>

FreezeWallet ==
  /\ wallet.active /\ Disturb("freeze")
  /\ wallet' = [wallet EXCEPT !.active = FALSE]
  /\ UNCHANGED <<schedule, orders, debit, refund, compensation, worker, reconciler, package, issued>>

ThawWallet ==
  /\ ~wallet.active
  /\ wallet' = [wallet EXCEPT !.active = TRUE]
  /\ UNCHANGED <<schedule, orders, debit, refund, compensation, worker, reconciler, package, issued, budget>>

DeactivatePackage ==
  /\ package.active /\ Disturb("deactivate")
  /\ package' = [package EXCEPT !.active = FALSE]
  /\ UNCHANGED <<schedule, orders, ledger, compensation, worker, reconciler, issued>>

RepricePackage ==
  /\ Disturb("reprice")
  /\ \E price \in Prices \ {package.price} : package' = [package EXCEPT !.price = price]
  /\ UNCHANGED <<schedule, orders, ledger, compensation, worker, reconciler, issued>>

\* The process dies: the batch and every local variable are gone.
WorkerCrashes(w) ==
  /\ worker[w].pc # "idle" /\ Disturb("crash")
  /\ Become(w, Idle)
  /\ UNCHANGED <<schedule, orders, ledger, compensation, reconciler, package, issued>>

ReconcilerCrashes(r) ==
  /\ reconciler[r].pc # "idle" /\ Disturb("crash")
  /\ reconciler' = [reconciler EXCEPT ![r] = Resting]
  /\ UNCHANGED <<schedule, orders, ledger, compensation, worker, package, issued>>

------------------------
RowStep(w) ==
  \/ ReadPlan(w) \/ ReadPurchase(w) \/ CreatePurchase(w) \/ LinkPurchase(w)
  \/ LookupDebit(w) \/ CheckWallet(w) \/ DebitWallet(w) \/ ConfirmPayment(w)
  \/ AdvanceSchedule(w)

HandlerStep(w) ==
  \/ InspectPurchase(w) \/ CancelPurchase(w) \/ RefundDebit(w)
  \/ EnqueueCompensation(w) \/ RetireAttempt(w)

ReconcilerStep(r) == Compensate(r) \/ ResolveCompensation(r) \/ RetryCompensation(r)

Next ==
  \/ \E w \in Workers : \/ ClaimDue(w) \/ RowStep(w) \/ HandlerStep(w)
                        \/ StatementFails(w) \/ WorkerCrashes(w)
  \/ \E r \in Reconcilers : \/ ClaimCompensations(r) \/ ReconcilerStep(r)
                            \/ ReconcilerCrashes(r)
  \/ \E s \in Schedules : FallDue(s) \/ ClaimGrowsStale(s) \/ SetRenewal(s)
  \/ \E e \in Executions : CompensationGrowsStale(e)
  \/ TopUp \/ FreezeWallet \/ ThawWallet \/ DeactivatePackage \/ RepricePackage

Spec == Init /\ [][Next]_vars

\* The timers fire every 30 seconds and a live process runs its statements; the
\* clock passes; a frozen wallet is eventually released.  Crashes, errors, the
\* customer and the operator owe nothing.
Fairness ==
  /\ \A w \in Workers : WF_vars(ClaimDue(w)) /\ WF_vars(RowStep(w)) /\ WF_vars(HandlerStep(w))
  /\ \A r \in Reconcilers : WF_vars(ClaimCompensations(r)) /\ WF_vars(ReconcilerStep(r))
  /\ \A s \in Schedules : WF_vars(FallDue(s)) /\ WF_vars(ClaimGrowsStale(s))
  /\ \A e \in Executions : WF_vars(CompensationGrowsStale(e))
  /\ WF_vars(ThawWallet)

FairSpec == Spec /\ Fairness

------------------------
(* Properties. *)

Amount(entry) == IF entry = None THEN 0 ELSE entry.amount

\* The balance column is the sum of the entries, and never negative: two
\* schedules that share the wallet cannot both spend its last shilling.
BalanceIsLedger ==
  /\ wallet.balance >= 0
  /\ wallet.balance + SumFunction([e \in Executions |-> Amount(debit[e])])
       = wallet.credited + SumFunction([e \in Executions |-> Amount(refund[e])])

\* A purchase is PAID under an execution only if that execution debited the
\* wallet: no interleaving of workers, crashes and retries activates a plan for
\* nothing (ConfirmPayment comes after DebitWallet or a debit found by its key).
SettledImpliesDebited ==
  \A e \in Executions : settlement[e] # None => debit[e] # None

\* Every refund, made by the worker or by the reconciler, gives back the debit
\* of its own execution.
RefundImpliesDebited ==
  \A e \in Executions : refund[e] # None => debit[e] # None

\* ... and gives back exactly what was taken.
RefundIsExact ==
  \A e \in Executions : refund[e] # None => refund[e] = debit[e]

\* Design document, section 5: a debit whose confirmation cannot complete is
\* compensated; one that settled is not.  No execution is both paid and refunded.
NeverPaidAndRefunded ==
  \A e \in Executions : ~(settlement[e] # None /\ refund[e] # None)

\* A plan is charged for once: no purchase has two debits, even when executions
\* follow one another over the same schedule.  (Not so when the customer reschedules
\* under a run in flight: a run that still holds the purchase of one execution links
\* it to the next.)
OneChargePerPurchase ==
  \A d, e \in Executions :
    debit[d] # None /\ debit[e] # None /\ debit[d].purchase = debit[e].purchase => d = e

\* The wallet's books are exact however executions overlap and are repeated: the
\* balance is the sum of the entries, no purchase is charged twice, and a refund is of
\* the amount that was taken.
LedgerIsExact == BalanceIsLedger /\ OneChargePerPurchase /\ RefundIsExact

\* Two runs never work on the same schedule.
OneWorkerPerSchedule ==
  \A v, w \in Workers, s \in Schedules :
    worker[v].jobs[s] # None /\ worker[w].jobs[s] # None => v = w

\* The schedule moves to its next period only when its execution settled.
AdvanceOnlyAfterSettlement ==
  [][\A s \in Schedules :
       schedule[s].exec # None /\ schedule'[s].exec = None =>
         settlement[schedule[s].exec] # None]_vars

\* What a run holds is its own to close: the claim excludes the other run, and the
\* period it closes is one that settled.
ClaimsHold == [](TypeOK /\ OneWorkerPerSchedule) /\ AdvanceOnlyAfterSettlement

\* The abstract view of an execution: what became of the money it took.
charge == [e \in Executions |->
  IF refund[e] # None THEN "refunded"
  ELSE IF debit[e] = None THEN "none"
  ELSE IF settlement[e] # None THEN "settled" ELSE "debited"]

\* The saga implements the promise of WalletCharge, its liveness included.
Charge == INSTANCE WalletCharge
WalletChargeSpec == Charge!Spec

\* Row ids and runs are interchangeable: TLC's symmetry for the safety runs.
RenewalSymmetry == Permutations(Workers) \cup Permutations(Executions)
                   \cup Permutations(Purchases) \cup Permutations(Schedules)
====
