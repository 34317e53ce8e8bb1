---- MODULE RenewalProofs ----
(* Theorems about Renewal, for every set of schedules, workers and reconcilers and every limit:
   crashes, failing statements and lost acknowledgements included. The first part holds whatever
   the disturbances; the second, from Quiet on, while a run finishes within its ten-minute claim and
   nobody reschedules under a run in flight. At the end: what people share beside messages
   (Community), for every number of people, options and permissions, what the operators' assistant
   may run (Assistant), for every number of its runs, and the web application's own answers
   (DemoStore), for every set of codes. *)
EXTENDS Renewal, Assistant, Community, DemoStore, Sums, FiniteSetTheorems, SequenceTheorems, TLAPS

\* What a worker knows about the row it holds, given the debits d: from the link
\* on it has a purchase, and once it believes in the debit the debit is there.
WorkerOK(k, d) ==
  /\ k.pc \notin {"idle", "plan"} => k.row \in Schedules /\ k.jobs[k.row] \in Jobs
  /\ k.pc \in {"link", "lookup", "check", "debit", "confirm", "inspect", "cancel", "refund", "enqueue"} => k.jobs[k.row].purchase \in Purchases
  /\ k.pc \in {"confirm", "inspect", "cancel", "refund", "enqueue"} => k.debited
  /\ k.debited => k.pc \notin {"idle", "plan"} /\ d[k.jobs[k.row].exec] # None

WorkersOK == \A w \in Workers : WorkerOK(worker[w], debit)

CompensationOK(e, c, d) == c[e].status # "ABSENT" => d[e] # None /\ c[e].purchase \in Purchases

CompensationsOK == \A e \in Executions : CompensationOK(e, compensation, debit)

\* A reconciler holds rows that exist.
ReconcilersOK ==
  \A r \in Reconcilers :
    /\ \A e \in reconciler[r].jobs : compensation[e].status # "ABSENT"
    /\ reconciler[r].pc \in {"resolve", "retry"} =>
         reconciler[r].row \in Executions /\ compensation[reconciler[r].row].status # "ABSENT"

\* The inductive invariant.
IInv == TypeOK /\ WorkersOK /\ CompensationsOK /\ ReconcilersOK /\ SettledImpliesDebited /\ RefundImpliesDebited

\* Debits are only ever added.
DebitsGrow == \A e \in Executions : debit[e] # None => debit'[e] # None

------------------------
(* Helpers. *)

\* The two rest states are well formed.
LEMMA IdleOK ==
  /\ Idle \in WorkerStates
  /\ \A d : WorkerOK(Idle, d) BY DEF Idle, WorkerStates, WorkerOK, Labels

\* Finishing a row leaves a worker that believes in nothing.
LEMMA FinishOK ==
  ASSUME NEW k \in WorkerStates, NEW d, k.row \in Schedules
  PROVE Finish(k) \in WorkerStates /\ WorkerOK(Finish(k), d) BY DEF Finish, Idle, WorkerStates, WorkerOK, Labels, Forward, Handler

\* Wherever a statement throws, the handler it lands in knows what it needs: the
\* compensation is entered only by a worker that believes in the debit.
LEMMA CatchOK ==
  ASSUME NEW k \in WorkerStates, NEW d, WorkerOK(k, d), k.pc # "idle", k.row \in Schedules, k.jobs[k.row] \in Jobs
  PROVE Catch(k) \in WorkerStates /\ WorkerOK(Catch(k), d)
<1>1. CASE k.pc = "retire" BY <1>1, FinishOK DEF Catch
<1>2. CASE k.pc # "retire" BY <1>2 DEF Catch, Landing, Enter, WorkerStates, WorkerOK, Labels, Forward, Handler, Jobs
<1> QED BY <1>1,<1>2

\* A worker that takes a well-formed record leaves every worker well formed.
LEMMA BecomeOK ==
  ASSUME TypeOK, WorkersOK, DebitsGrow, NEW w \in Workers, NEW k \in WorkerStates, WorkerOK(k, debit'), Become(w, k)
  PROVE worker' \in [Workers -> WorkerStates] /\ WorkersOK'
<1>1. worker' \in [Workers -> WorkerStates] BY DEF TypeOK, Become
<1>2. ASSUME NEW v \in Workers PROVE WorkerOK(worker'[v], debit')
 <2>1. CASE v = w BY <2>1 DEF TypeOK, Become
 <2>2. CASE v # w
  <3>1. worker'[v] = worker[v] /\ worker[v] \in WorkerStates /\ WorkerOK(worker[v], debit) BY <2>2 DEF TypeOK, Become, WorkersOK
  <3>2. worker[v].debited => worker[v].jobs[worker[v].row].exec \in Executions BY <3>1 DEF WorkerOK, Jobs
  <3> QED BY <3>1,<3>2 DEF WorkerOK, DebitsGrow
 <2> QED BY <2>1,<2>2
<1> QED BY <1>1,<1>2 DEF WorkersOK

\* The row a busy worker holds.
LEMMA BusyOK ==
  ASSUME TypeOK, WorkersOK, NEW w \in Workers, worker[w].pc \notin {"idle", "plan"}
  PROVE  /\ worker[w] \in WorkerStates
         /\ worker[w].row \in Schedules
         /\ Job(w) \in Jobs
         /\ WorkerOK(worker[w], debit)
         /\ DebitsGrow => WorkerOK(worker[w], debit')
<1>1. worker[w] \in WorkerStates /\ WorkerOK(worker[w], debit) BY DEF TypeOK, WorkersOK
<1>2. worker[w].row \in Schedules /\ Job(w) \in Jobs BY <1>1 DEF WorkerOK, Job
<1>3. DebitsGrow => WorkerOK(worker[w], debit') BY <1>1,<1>2 DEF WorkerOK, DebitsGrow, Job, Jobs
<1> QED BY <1>1,<1>2,<1>3

\* A statement that threw, or whose acknowledgement was lost.
LEMMA ThrowOK ==
  ASSUME TypeOK, WorkersOK, DebitsGrow, NEW w \in Workers, worker[w].pc \notin {"idle", "plan"}, Become(w, Catch(worker[w]))
  PROVE worker' \in [Workers -> WorkerStates] /\ WorkersOK'
<1>1. Catch(worker[w]) \in WorkerStates /\ WorkerOK(Catch(worker[w]), debit') BY BusyOK, CatchOK DEF Job
<1> QED BY <1>1, BecomeOK

LEMMA ReturnOK ==
  ASSUME TypeOK, WorkersOK, DebitsGrow, NEW w \in Workers, worker[w].pc \notin {"idle", "plan"},
      NEW k \in WorkerStates, WorkerOK(k, debit'), Return(w, k)
  PROVE worker' \in [Workers -> WorkerStates] /\ WorkersOK' /\ budget' \in Nat
<1>1. CASE Become(w, k) /\ UNCHANGED budget BY <1>1, BecomeOK DEF TypeOK
<1>2. CASE budget > 0 /\ budget' = budget - 1 /\ Become(w, Catch(worker[w])) BY <1>2, ThrowOK DEF TypeOK
<1> QED BY <1>1,<1>2 DEF Return

\* Steps that touch no worker.
LEMMA OthersOK == ASSUME TypeOK, WorkersOK, DebitsGrow, UNCHANGED worker PROVE worker' \in [Workers -> WorkerStates] /\ WorkersOK'
<1>1. ASSUME NEW v \in Workers PROVE WorkerOK(worker[v], debit')
 <2>1. worker[v] \in WorkerStates /\ WorkerOK(worker[v], debit) BY DEF TypeOK, WorkersOK
 <2>2. worker[v].debited => worker[v].jobs[worker[v].row].exec \in Executions BY <2>1 DEF WorkerOK, Jobs
 <2> QED BY <2>1,<2>2 DEF WorkerOK, DebitsGrow
<1> QED BY <1>1 DEF TypeOK, WorkersOK

\* Steps that change only a worker (and the budget of disturbances).
LEMMA WorkerOnlyOK ==
  ASSUME IInv, worker' \in [Workers -> WorkerStates], WorkersOK', budget' \in Nat,
      UNCHANGED <<schedule, orders, ledger, compensation, reconciler, package, issued>>
  PROVE IInv' BY DEF IInv, TypeOK, CompensationsOK, CompensationOK, ReconcilersOK, SettledImpliesDebited, RefundImpliesDebited, orders, ledger

\* Steps that touch neither a worker nor what the ledgers and the reconcilers say.
LEMMA OutsideOK ==
  ASSUME IInv, UNCHANGED <<settlement, debit, refund, compensation, reconciler, worker>>,
      schedule' \in [Schedules -> ScheduleRows], purchase' \in [Purchases -> PurchaseRows],
      cancellation' \in [Executions -> Purchases \cup {None}], wallet' \in Wallets, package' \in [active : BOOLEAN, price : Prices],
      issued' \in SUBSET Executions, budget' \in Nat
  PROVE IInv' BY DEF IInv, TypeOK, WorkersOK, WorkerOK, CompensationsOK, CompensationOK, ReconcilersOK, SettledImpliesDebited, RefundImpliesDebited

LEMMA NoDebit == UNCHANGED debit => DebitsGrow BY DEF DebitsGrow

------------------------
(* The claim and the steps of a row. *)

LEMMA ClaimDueStep == ASSUME IInv, NEW w \in Workers, ClaimDue(w) PROVE IInv'
<1> USE DEF IInv
<1>0. PICK batch \in SUBSET Schedules :
        \E id \in [batch -> Executions] :
          /\ schedule' = ClaimRows(batch, id)
          /\ issued' = issued \cup {id[s] : s \in batch}
          /\ Become(w, ClaimJobs(batch, id)) BY DEF ClaimDue
<1>1. PICK id \in [batch -> Executions] :
          /\ schedule' = ClaimRows(batch, id)
          /\ issued' = issued \cup {id[s] : s \in batch}
          /\ Become(w, ClaimJobs(batch, id)) BY <1>0
<1> DEFINE k == ClaimJobs(batch, id)
<1>2. UNCHANGED <<orders, ledger, compensation, reconciler, package, budget>> BY DEF ClaimDue
<1>3. k \in WorkerStates /\ WorkerOK(k, debit')
 <2>1. \A s \in Schedules : schedule[s].purchase \in Purchases \cup {None} BY DEF TypeOK, ScheduleRows
 <2> QED BY <2>1 DEF ClaimJobs, Idle, WorkerStates, WorkerOK, Labels, Forward, Handler, Jobs
<1>4. worker' \in [Workers -> WorkerStates] /\ WorkersOK' BY <1>1,<1>2,<1>3, BecomeOK, NoDebit DEF ledger
<1>5. schedule' \in [Schedules -> ScheduleRows] /\ issued' \in SUBSET Executions
 <2>1. ASSUME NEW s \in Schedules PROVE ClaimRows(batch, id)[s] \in ScheduleRows
  <3>1. schedule[s] \in ScheduleRows BY DEF TypeOK
  <3>2. CASE s \in batch BY <3>1,<3>2 DEF ScheduleRows, ClaimRows
  <3>3. CASE s \notin batch BY <3>1,<3>3 DEF ScheduleRows, ClaimRows, Recovered
  <3> QED BY <3>2,<3>3
 <2>2. schedule' \in [Schedules -> ScheduleRows] BY <1>1,<2>1 DEF ClaimRows
 <2>3. issued' \in SUBSET Executions
  <3>1. issued \in SUBSET Executions BY DEF TypeOK
  <3>2. \A s \in batch : id[s] \in Executions BY <1>1
  <3> QED BY <1>1,<3>1,<3>2
 <2> QED BY <2>2,<2>3
<1> QED BY <1>2,<1>4,<1>5 DEF TypeOK, CompensationsOK, CompensationOK, ReconcilersOK, SettledImpliesDebited, RefundImpliesDebited, orders, ledger

LEMMA ReadPlanStep == ASSUME IInv, NEW w \in Workers, ReadPlan(w) PROVE IInv'
<1> USE DEF IInv
<1>1. PICK s \in Schedules :
        /\ worker[w].jobs[s] # None
        /\ LET k == [worker[w] EXCEPT !.row = s] IN
             \/ Become(w, [k EXCEPT !.pc = "purchase", !.amount = package.price])
             \/ Become(w, Catch(k)) BY DEF ReadPlan
<1> DEFINE k == [worker[w] EXCEPT !.row = s]
           b == [k EXCEPT !.pc = "purchase", !.amount = package.price]
<1>2. UNCHANGED <<schedule, orders, ledger, compensation, reconciler, package, issued>>
      /\ budget' \in Nat /\ worker[w].pc = "plan" BY DEF ReadPlan, TypeOK
<1>3. k \in WorkerStates /\ k.jobs[s] \in Jobs /\ k.pc = "plan" /\ ~k.debited /\ k.row = s BY <1>1,<1>2 DEF TypeOK, WorkersOK, WorkerOK, WorkerStates
<1>4. b \in WorkerStates /\ WorkerOK(b, debit') BY <1>3, PriceAssumption DEF WorkerStates, WorkerOK, Labels, Forward, Handler, TypeOK
<1>5. Catch(k) \in WorkerStates /\ WorkerOK(Catch(k), debit')
 <2>1. WorkerOK(k, debit') BY <1>3 DEF WorkerOK
 <2> QED BY <1>3,<2>1, CatchOK
<1>6. worker' \in [Workers -> WorkerStates] /\ WorkersOK' BY <1>1,<1>2,<1>4,<1>5, BecomeOK, NoDebit DEF ledger
<1> QED BY <1>2,<1>6, WorkerOnlyOK

LEMMA ReadPurchaseStep == ASSUME IInv, NEW w \in Workers, ReadPurchase(w) PROVE IInv'
<1> USE DEF IInv
<1>1. worker[w].pc = "purchase" /\ UNCHANGED <<schedule, orders, ledger, compensation, reconciler, package, issued, budget>> BY DEF ReadPurchase
<1> DEFINE k(label) == Enter(worker[w], label)
<1>2. worker[w] \in WorkerStates /\ worker[w].row \in Schedules /\ Job(w) \in Jobs /\ Job(w).purchase # None
  BY <1>1, BusyOK, NoDebit DEF ReadPurchase, ledger
<1>3. PICK label \in {"advance", "lookup"} : Become(w, k(label)) BY DEF ReadPurchase
<1>4. WorkerOK(worker[w], debit') BY <1>1, BusyOK, NoDebit DEF ledger
<1>5. k(label) \in WorkerStates /\ WorkerOK(k(label), debit')
  BY <1>1,<1>2,<1>4 DEF Enter, WorkerStates, WorkerOK, Labels, Forward, Handler, Jobs, Job, ReadPurchase
<1>6. worker' \in [Workers -> WorkerStates] /\ WorkersOK' BY <1>1,<1>3,<1>5, BecomeOK, NoDebit DEF ledger
<1> QED BY <1>1,<1>6, WorkerOnlyOK DEF TypeOK

LEMMA CreatePurchaseStep == ASSUME IInv, NEW w \in Workers, CreatePurchase(w) PROVE IInv'
<1> USE DEF IInv
<1>1. worker[w].pc = "purchase" /\ UNCHANGED <<schedule, settlement, cancellation, ledger, compensation, reconciler, package, issued>>
  BY DEF CreatePurchase
<1>2. /\ worker[w] \in WorkerStates /\ worker[w].row \in Schedules /\ Job(w) \in Jobs
      /\ WorkerOK(worker[w], debit') BY <1>1, BusyOK, NoDebit DEF ledger
<1>3. /\ worker' \in [Workers -> WorkerStates] /\ WorkersOK' /\ budget' \in Nat
      /\ purchase' \in [Purchases -> PurchaseRows]
 <2>1. CASE package.active
  <3>1. PICK p \in Purchases :
          /\ purchase' = [purchase EXCEPT ![p] = [status |-> "PENDING_PAYMENT", price  |-> package.price]]
          /\ Return(w, [worker[w] EXCEPT !.pc = "link", !.jobs[worker[w].row].purchase = p]) BY <2>1 DEF CreatePurchase
  <3> DEFINE k == [worker[w] EXCEPT !.pc = "link", !.jobs[worker[w].row].purchase = p]
  <3>2. k \in WorkerStates /\ WorkerOK(k, debit') BY <1>1,<1>2 DEF WorkerStates, WorkerOK, Labels, Forward, Handler, Jobs, Job
  <3>3. worker' \in [Workers -> WorkerStates] /\ WorkersOK' /\ budget' \in Nat BY <1>1,<3>1,<3>2, ReturnOK, NoDebit DEF ledger
  <3>4. purchase' \in [Purchases -> PurchaseRows] BY <3>1, PriceAssumption DEF TypeOK, PurchaseRows
  <3> QED BY <3>3,<3>4
 <2>2. CASE ~package.active BY <1>1,<2>2, ThrowOK, NoDebit DEF CreatePurchase, ledger, TypeOK
 <2> QED BY <2>1,<2>2
<1> QED BY <1>1,<1>3 DEF TypeOK, CompensationsOK, CompensationOK, ReconcilersOK, SettledImpliesDebited, RefundImpliesDebited, ledger

\* Steps that leave every ledger alone and only move the worker and its schedule.
LEMMA ScheduleAndWorkerOK ==
  ASSUME IInv, worker' \in [Workers -> WorkerStates], WorkersOK', budget' \in Nat, schedule' \in [Schedules -> ScheduleRows],
      UNCHANGED <<orders, ledger, compensation, reconciler, package, issued>>
  PROVE IInv' BY DEF IInv, TypeOK, CompensationsOK, CompensationOK, ReconcilersOK, SettledImpliesDebited, RefundImpliesDebited, orders, ledger

LEMMA LinkPurchaseStep == ASSUME IInv, NEW w \in Workers, LinkPurchase(w) PROVE IInv'
<1> USE DEF IInv
<1>1. worker[w].pc = "link" /\ Return(w, Enter(worker[w], "lookup")) /\ UNCHANGED <<orders, ledger, compensation, reconciler, package, issued>>
  BY DEF LinkPurchase
<1>2. /\ worker[w] \in WorkerStates /\ worker[w].row \in Schedules /\ Job(w) \in Jobs
      /\ WorkerOK(worker[w], debit') BY <1>1, BusyOK, NoDebit DEF ledger
<1>3. Enter(worker[w], "lookup") \in WorkerStates /\ WorkerOK(Enter(worker[w], "lookup"), debit')
  BY <1>1,<1>2 DEF Enter, WorkerStates, WorkerOK, Labels, Forward, Handler
<1>4. worker' \in [Workers -> WorkerStates] /\ WorkersOK' /\ budget' \in Nat BY <1>1,<1>3, ReturnOK, NoDebit DEF ledger
<1>5. schedule' \in [Schedules -> ScheduleRows] BY <1>2 DEF LinkPurchase, TypeOK, ScheduleRows, Jobs
<1> QED BY <1>1,<1>4,<1>5, ScheduleAndWorkerOK

LEMMA LookupDebitStep == ASSUME IInv, NEW w \in Workers, LookupDebit(w) PROVE IInv'
<1> USE DEF IInv
<1>1. worker[w].pc = "lookup" /\ UNCHANGED <<schedule, orders, ledger, compensation, reconciler, package, issued, budget>> BY DEF LookupDebit
<1>2. worker[w] \in WorkerStates /\ worker[w].row \in Schedules /\ Job(w) \in Jobs /\ WorkerOK(worker[w], debit') /\ debit' = debit
  BY <1>1, BusyOK, NoDebit DEF ledger
<1> DEFINE found == [worker[w] EXCEPT !.debited = TRUE, !.pc = "confirm"]
           none  == Enter(worker[w], "check")
<1>3. debit[Job(w).exec] # None => found \in WorkerStates /\ WorkerOK(found, debit')
  BY <1>1,<1>2 DEF WorkerStates, WorkerOK, Labels, Forward, Handler, Job
<1>4. none \in WorkerStates /\ WorkerOK(none, debit') BY <1>1,<1>2 DEF Enter, WorkerStates, WorkerOK, Labels, Forward, Handler, Job
<1>5. worker' \in [Workers -> WorkerStates] /\ WorkersOK'
 <2>1. CASE debit[Job(w).exec] # None BY <1>1,<1>3,<2>1, BecomeOK, NoDebit DEF LookupDebit, PriorDebit, ledger
 <2>2. CASE debit[Job(w).exec] = None BY <1>1,<1>4,<2>2, BecomeOK, NoDebit DEF LookupDebit, PriorDebit, ledger
 <2> QED BY <2>1,<2>2
<1> QED BY <1>1,<1>5, WorkerOnlyOK DEF TypeOK

LEMMA CheckWalletStep == ASSUME IInv, NEW w \in Workers, CheckWallet(w) PROVE IInv'
<1> USE DEF IInv
<1>1. worker[w].pc = "check" /\ UNCHANGED <<schedule, orders, ledger, compensation, reconciler, package, issued, budget>> BY DEF CheckWallet
<1>2. worker[w] \in WorkerStates /\ WorkerOK(worker[w], debit') BY <1>1, BusyOK, NoDebit DEF ledger
<1>3. Enter(worker[w], "debit") \in WorkerStates /\ WorkerOK(Enter(worker[w], "debit"), debit')
  BY <1>1,<1>2 DEF Enter, WorkerStates, WorkerOK, Labels, Forward, Handler
<1>4. worker' \in [Workers -> WorkerStates] /\ WorkersOK'
 <2>1. CASE Become(w, Enter(worker[w], "debit")) BY <1>1,<1>3,<2>1, BecomeOK, NoDebit DEF ledger
 <2>2. CASE Become(w, Catch(worker[w])) BY <1>1,<2>2, ThrowOK, NoDebit DEF ledger
 <2> QED BY <2>1,<2>2 DEF CheckWallet
<1> QED BY <1>1,<1>4, WorkerOnlyOK DEF TypeOK

LEMMA DebitWalletStep == ASSUME IInv, NEW w \in Workers, DebitWallet(w) PROVE IInv'
<1> USE DEF IInv
<1> DEFINE e == Job(w).exec
           k == [worker[w] EXCEPT !.debited = TRUE, !.pc = "confirm"]
           entry == [amount |-> worker[w].amount, purchase |-> Job(w).purchase]
<1>1. worker[w].pc = "debit" /\ UNCHANGED <<schedule, orders, refund, compensation, reconciler, package, issued>> BY DEF DebitWallet
<1>2. /\ worker[w] \in WorkerStates /\ worker[w].row \in Schedules /\ Job(w) \in Jobs
      /\ DebitsGrow => WorkerOK(worker[w], debit')
      /\ Job(w).purchase \in Purchases /\ worker[w].amount \in Nat
 <2>1. WorkerOK(worker[w], debit) /\ worker[w] \in WorkerStates BY DEF TypeOK, WorkersOK
 <2> QED BY <1>1,<2>1, BusyOK DEF WorkerOK, WorkerStates, Job
<1>3. CASE Affordable(w) /\ debit[e] = None
 <2>1. debit' = [debit EXCEPT ![e] = entry] /\ wallet' = [wallet EXCEPT !.balance = @ - worker[w].amount] /\ Return(w, k)
   BY <1>3 DEF DebitWallet, Debitable, PriorDebit
 <2>2. entry \in Entries /\ entry # None BY <1>2, NoneAssumption DEF Entries
 <2>3. debit' \in [Executions -> Entries \cup {None}] /\ DebitsGrow /\ debit'[e] # None BY <1>2,<2>1,<2>2 DEF TypeOK, DebitsGrow, Jobs
 <2>4. wallet' \in Wallets BY <1>2,<1>3,<2>1 DEF TypeOK, Wallets, Affordable
 <2>5. k \in WorkerStates /\ WorkerOK(k, debit') BY <1>1,<1>2,<2>3 DEF WorkerStates, WorkerOK, Labels, Forward, Handler, Job
 <2>6. worker' \in [Workers -> WorkerStates] /\ WorkersOK' /\ budget' \in Nat BY <1>1,<2>1,<2>3,<2>5, ReturnOK
 <2> QED BY <1>1,<2>3,<2>4,<2>6 DEF TypeOK, CompensationsOK, CompensationOK, ReconcilersOK, SettledImpliesDebited, RefundImpliesDebited,
   DebitsGrow, orders
<1>4. CASE ~(Affordable(w) /\ debit[e] = None)
 <2>1. Become(w, Catch(worker[w])) /\ UNCHANGED <<debit, wallet, budget>> BY <1>4 DEF DebitWallet, Debitable, PriorDebit
 <2>2. worker' \in [Workers -> WorkerStates] /\ WorkersOK' BY <1>1,<2>1, ThrowOK, NoDebit
 <2> QED BY <1>1,<2>1,<2>2, WorkerOnlyOK DEF TypeOK, ledger
<1> QED BY <1>3,<1>4

LEMMA ConfirmPaymentStep == ASSUME IInv, NEW w \in Workers, ConfirmPayment(w) PROVE IInv'
<1> USE DEF IInv
<1> DEFINE e == Job(w).exec
           p == Job(w).purchase
<1>1. worker[w].pc = "confirm" /\ UNCHANGED <<schedule, cancellation, ledger, compensation, reconciler, package, issued>> BY DEF ConfirmPayment
<1>2. /\ worker[w] \in WorkerStates /\ worker[w].row \in Schedules
      /\ WorkerOK(worker[w], debit') /\ e \in Executions /\ p \in Purchases
      /\ debit[e] # None
 <2>1. WorkerOK(worker[w], debit) /\ worker[w] \in WorkerStates BY DEF TypeOK, WorkersOK
 <2> QED BY <1>1,<2>1, BusyOK, NoDebit DEF WorkerOK, WorkerStates, Job, Jobs, ledger
<1>3. Enter(worker[w], "advance") \in WorkerStates /\ WorkerOK(Enter(worker[w], "advance"), debit')
  BY <1>1,<1>2 DEF Enter, WorkerStates, WorkerOK, Labels, Forward, Handler
<1>4. worker' \in [Workers -> WorkerStates] /\ WorkersOK' /\ budget' \in Nat
 <2>1. CASE Return(w, Enter(worker[w], "advance")) BY <1>1,<1>3,<2>1, ReturnOK, NoDebit DEF ledger
 <2>2. CASE Become(w, Catch(worker[w])) /\ UNCHANGED budget BY <1>1,<2>2, ThrowOK, NoDebit DEF ledger, TypeOK
 <2> QED BY <2>1,<2>2 DEF ConfirmPayment
<1>5. /\ settlement' \in [Executions -> Purchases \cup {None}]
      /\ purchase' \in [Purchases -> PurchaseRows]
      /\ \A x \in Executions : settlement'[x] # None => settlement[x] # None \/ x = e
 <2>1. CASE Inserts(p, settlement[e])
  <3>1. settlement' = [settlement EXCEPT ![e] = p] /\ purchase' = [purchase EXCEPT ![p].status = "PAID"] BY <2>1 DEF ConfirmPayment
  <3> QED BY <1>2,<3>1 DEF TypeOK, PurchaseRows
 <2>2. CASE ~Inserts(p, settlement[e]) BY <2>2 DEF ConfirmPayment, TypeOK
 <2> QED BY <2>1,<2>2
<1>6. SettledImpliesDebited' BY <1>1,<1>2,<1>5 DEF SettledImpliesDebited, ledger
<1> QED BY <1>1,<1>4,<1>5,<1>6 DEF TypeOK, CompensationsOK, CompensationOK, ReconcilersOK, RefundImpliesDebited, ledger

LEMMA AdvanceScheduleStep == ASSUME IInv, NEW w \in Workers, AdvanceSchedule(w) PROVE IInv'
<1> USE DEF IInv
<1>1. worker[w].pc = "advance" /\ Return(w, Finish(worker[w]))
      /\ UNCHANGED <<orders, ledger, compensation, reconciler, package, issued>> BY DEF AdvanceSchedule
<1>2. worker[w] \in WorkerStates /\ worker[w].row \in Schedules BY <1>1, BusyOK
<1>3. worker' \in [Workers -> WorkerStates] /\ WorkersOK' /\ budget' \in Nat BY <1>1,<1>2, FinishOK, ReturnOK, NoDebit DEF ledger
<1>4. schedule' \in [Schedules -> ScheduleRows] BY <1>2 DEF AdvanceSchedule, TypeOK, ScheduleRows
<1> QED BY <1>1,<1>3,<1>4, ScheduleAndWorkerOK

------------------------
(* The exception handler. *)

LEMMA InspectPurchaseStep == ASSUME IInv, NEW w \in Workers, InspectPurchase(w) PROVE IInv'
<1> USE DEF IInv
<1>1. worker[w].pc = "inspect" /\ UNCHANGED <<schedule, orders, ledger, compensation, reconciler, package, issued, budget>> BY DEF InspectPurchase
<1>2. worker[w] \in WorkerStates /\ worker[w].row \in Schedules /\ WorkerOK(worker[w], debit') BY <1>1, BusyOK, NoDebit DEF ledger
<1> DEFINE k(amount) == [worker[w] EXCEPT !.pc = "cancel", !.amount = amount]
<1>3. ASSUME NEW amount \in Nat PROVE k(amount) \in WorkerStates /\ WorkerOK(k(amount), debit')
  BY <1>1,<1>2 DEF WorkerStates, WorkerOK, Labels, Forward, Handler
<1>4. Enter(worker[w], "retire") \in WorkerStates /\ WorkerOK(Enter(worker[w], "retire"), debit')
  BY <1>1,<1>2 DEF Enter, WorkerStates, WorkerOK, Labels, Forward, Handler
<1>5. worker' \in [Workers -> WorkerStates] /\ WorkersOK'
 <2>1. CASE Become(w, Enter(worker[w], "retire")) BY <1>1,<1>4,<2>1, BecomeOK, NoDebit DEF ledger
 <2>2. CASE \E amount \in Nat : Become(w, k(amount)) BY <1>1,<1>3,<2>2, BecomeOK, NoDebit DEF ledger
 <2> QED
  <3>1. \A x \in Executions : debit[x] # None => debit[x].amount \in Nat BY DEF TypeOK, Entries
  <3> QED BY <2>1,<2>2,<3>1 DEF InspectPurchase, Settled
<1> QED BY <1>1,<1>5, WorkerOnlyOK DEF TypeOK

LEMMA CancelPurchaseStep == ASSUME IInv, NEW w \in Workers, CancelPurchase(w) PROVE IInv'
<1> USE DEF IInv
<1> DEFINE e == Job(w).exec
           p == Job(w).purchase
<1>1. /\ worker[w].pc = "cancel" /\ Become(w, Catch(worker[w]))
      /\ UNCHANGED <<schedule, settlement, ledger, compensation, reconciler, package, issued, budget>> BY DEF CancelPurchase
<1>2. e \in Executions /\ p \in Purchases
 <2>1. WorkerOK(worker[w], debit) BY DEF WorkersOK
 <2> QED BY <1>1,<2>1, BusyOK DEF WorkerOK, Job, Jobs
<1>3. worker' \in [Workers -> WorkerStates] /\ WorkersOK' BY <1>1, ThrowOK, NoDebit DEF ledger
<1>4. cancellation' \in [Executions -> Purchases \cup {None}] /\ purchase' \in [Purchases -> PurchaseRows]
 <2>1. CASE Inserts(p, cancellation[e])
  <3>1. cancellation' = [cancellation EXCEPT ![e] = p] /\ purchase' = [purchase EXCEPT ![p].status = "CANCELED"] BY <2>1 DEF CancelPurchase
  <3> QED BY <1>2,<3>1 DEF TypeOK, PurchaseRows
 <2>2. CASE ~Inserts(p, cancellation[e]) BY <2>2 DEF CancelPurchase, TypeOK
 <2> QED BY <2>1,<2>2
<1> QED BY <1>1,<1>3,<1>4 DEF TypeOK, CompensationsOK, CompensationOK, ReconcilersOK, SettledImpliesDebited, RefundImpliesDebited, ledger

\* A refund of an execution that was debited, whoever makes it.
LEMMA RefundsOK ==
  ASSUME IInv, NEW e \in Executions, NEW amount \in Nat, NEW p \in Purchases, debit[e] # None, Refunds(e, amount, p)
  PROVE refund' \in [Executions -> Entries \cup {None}] /\ wallet' \in Wallets /\ debit' = debit /\ RefundImpliesDebited'
<1> USE DEF IInv
<1>1. CASE refund[e] # None BY <1>1 DEF Refunds, ledger, TypeOK, RefundImpliesDebited
<1>2. CASE refund[e] = None
 <2>1. refund' = [refund EXCEPT ![e] = [amount |-> amount, purchase |-> p]] /\ wallet' = [wallet EXCEPT !.balance = @ + amount] /\ debit' = debit
   BY <1>2 DEF Refunds
 <2>2. refund' \in [Executions -> Entries \cup {None}] BY <2>1 DEF TypeOK, Entries
 <2>3. wallet' \in Wallets BY <2>1 DEF TypeOK, Wallets
 <2>4. RefundImpliesDebited' BY <2>1 DEF RefundImpliesDebited, TypeOK
 <2> QED BY <2>1,<2>2,<2>3,<2>4
<1> QED BY <1>1,<1>2

LEMMA RefundDebitStep == ASSUME IInv, NEW w \in Workers, RefundDebit(w) PROVE IInv'
<1> USE DEF IInv
<1>1. worker[w].pc = "refund" /\ UNCHANGED <<schedule, orders, compensation, reconciler, package, issued>> BY DEF RefundDebit
<1>2. WorkerOK(worker[w], debit) /\ worker[w] \in WorkerStates /\ worker[w].row \in Schedules
      /\ Job(w).exec \in Executions /\ Job(w).purchase \in Purchases
      /\ debit[Job(w).exec] # None /\ worker[w].amount \in Nat
 <2>1. WorkerOK(worker[w], debit) /\ worker[w] \in WorkerStates BY DEF TypeOK, WorkersOK
 <2> QED BY <1>1,<2>1, BusyOK DEF WorkerOK, WorkerStates, Job, Jobs
<1>3. CASE wallet.active
 <2>1. Refunds(Job(w).exec, worker[w].amount, Job(w).purchase) /\ Return(w, Enter(worker[w], "retire")) BY <1>3 DEF RefundDebit
 <2>2. refund' \in [Executions -> Entries \cup {None}] /\ wallet' \in Wallets /\ debit' = debit /\ RefundImpliesDebited' BY <1>2,<2>1, RefundsOK
 <2>3. Enter(worker[w], "retire") \in WorkerStates /\ WorkerOK(Enter(worker[w], "retire"), debit')
   BY <1>1,<1>2,<2>2 DEF Enter, WorkerStates, WorkerOK, Labels, Forward, Handler
 <2>4. worker' \in [Workers -> WorkerStates] /\ WorkersOK' /\ budget' \in Nat BY <1>1,<2>1,<2>2,<2>3, ReturnOK, NoDebit
 <2> QED BY <1>1,<2>2,<2>4 DEF TypeOK, CompensationsOK, CompensationOK, ReconcilersOK, SettledImpliesDebited, orders
<1>4. CASE ~wallet.active
 <2>1. Become(w, Catch(worker[w])) /\ UNCHANGED <<ledger, budget>> BY <1>4 DEF RefundDebit
 <2>2. worker' \in [Workers -> WorkerStates] /\ WorkersOK' BY <1>1,<2>1, ThrowOK, NoDebit DEF ledger
 <2> QED BY <1>1,<2>1,<2>2, WorkerOnlyOK DEF TypeOK
<1> QED BY <1>3,<1>4

LEMMA EnqueueCompensationStep == ASSUME IInv, NEW w \in Workers, EnqueueCompensation(w) PROVE IInv'
<1> USE DEF IInv
<1> DEFINE e == Job(w).exec
           fresh == [NoCompensation EXCEPT !.status = "PENDING", !.amount = worker[w].amount, !.purchase = Job(w).purchase]
           again == [compensation[e] EXCEPT !.status = "PENDING", !.stale = FALSE]
<1>1. worker[w].pc = "enqueue" /\ Return(w, Enter(worker[w], "retire")) /\ UNCHANGED <<schedule, orders, ledger, reconciler, package, issued>>
  BY DEF EnqueueCompensation
<1>2. /\ worker[w] \in WorkerStates /\ worker[w].row \in Schedules /\ WorkerOK(worker[w], debit')
      /\ e \in Executions /\ Job(w).purchase \in Purchases /\ debit[e] # None
      /\ worker[w].amount \in Nat
 <2>1. WorkerOK(worker[w], debit) /\ worker[w] \in WorkerStates BY DEF TypeOK, WorkersOK
 <2> QED BY <1>1,<2>1, BusyOK, NoDebit DEF WorkerOK, WorkerStates, Job, Jobs, ledger
<1>3. Enter(worker[w], "retire") \in WorkerStates /\ WorkerOK(Enter(worker[w], "retire"), debit')
  BY <1>1,<1>2 DEF Enter, WorkerStates, WorkerOK, Labels, Forward, Handler
<1>4. worker' \in [Workers -> WorkerStates] /\ WorkersOK' /\ budget' \in Nat BY <1>1,<1>3, ReturnOK, NoDebit DEF ledger
<1>5. PICK row \in {fresh, again} :
        /\ compensation' = [compensation EXCEPT ![e] = row]
        /\ row = fresh \/ compensation[e].status # "ABSENT"
 <2>1. CASE compensation[e].status = "ABSENT" BY <1>2,<2>1 DEF EnqueueCompensation, TypeOK
 <2>2. CASE compensation[e].status # "ABSENT" BY <1>2,<2>2 DEF EnqueueCompensation, TypeOK
 <2> QED BY <2>1,<2>2
<1>6. row \in CompensationRows /\ row.status # "ABSENT" /\ row.purchase \in Purchases
 <2>1. CASE row = fresh BY <1>2,<2>1 DEF NoCompensation, CompensationRows
 <2>2. CASE row = again /\ compensation[e].status # "ABSENT"
  <3>1. compensation[e] \in CompensationRows /\ compensation[e].purchase \in Purchases BY <1>2,<2>2 DEF TypeOK, CompensationsOK, CompensationOK
  <3> QED BY <2>2,<3>1 DEF CompensationRows
 <2> QED BY <1>5,<2>1,<2>2
<1>7. /\ compensation' \in [Executions -> CompensationRows]
      /\ \A x \in Executions : compensation[x].status # "ABSENT" => compensation'[x].status # "ABSENT"
      /\ CompensationsOK' BY <1>1,<1>2,<1>5,<1>6 DEF TypeOK, CompensationsOK, CompensationOK, ledger
<1>8. ReconcilersOK' BY <1>1,<1>7 DEF ReconcilersOK, TypeOK, ReconcilerStates
<1> QED BY <1>1,<1>4,<1>7,<1>8 DEF TypeOK, SettledImpliesDebited, RefundImpliesDebited, orders, ledger

\* Counting a failure leaves a schedule a schedule ...
LEMMA RetireOK ==
  ASSUME NEW c \in ScheduleRows, NEW to \in {"ACTIVE", "FAILED"} PROVE [c EXCEPT !.failures = @ + 1, !.claim = "none", !.status = to] \in ScheduleRows
<1>1. PICK m \in Nat : m = c.failures + 1 BY DEF ScheduleRows
<1>2. [c EXCEPT !.failures = m, !.claim = "none", !.status = to] \in ScheduleRows BY DEF ScheduleRows
<1> QED BY <1>1,<1>2

\* ... and counting an attempt leaves a compensation a compensation.
LEMMA AttemptOK ==
  ASSUME NEW c \in CompensationRows
  PROVE LET n == [c EXCEPT !.status = "PROCESSING", !.attempts = @ + 1]
         IN  n \in CompensationRows /\ n.status # "ABSENT" /\ n.purchase = c.purchase
<1>1. PICK m \in Nat : m = c.attempts + 1 BY DEF CompensationRows
<1> DEFINE n == [c EXCEPT !.status = "PROCESSING", !.attempts = m]
<1>2. n \in CompensationRows /\ n.status # "ABSENT" /\ n.purchase = c.purchase BY DEF CompensationRows
<1> QED BY <1>1,<1>2

LEMMA RetireAttemptStep == ASSUME IInv, NEW w \in Workers, RetireAttempt(w) PROVE IInv'
<1> USE DEF IInv
<1> DEFINE s == worker[w].row
           rows == [schedule EXCEPT ![s].failures = @ + 1, ![s].claim = "none",
                                    ![s].status = IF schedule[s].failures + 1 >= FailureLimit
                                                    THEN "FAILED" ELSE "ACTIVE"]
<1>1. worker[w].pc = "retire" /\ Return(w, Finish(worker[w]))
      /\ UNCHANGED <<orders, ledger, compensation, reconciler, package, issued>> BY DEF RetireAttempt
<1>2. worker[w] \in WorkerStates /\ s \in Schedules BY <1>1, BusyOK
<1>3. worker' \in [Workers -> WorkerStates] /\ WorkersOK' /\ budget' \in Nat BY <1>1,<1>2, FinishOK, ReturnOK, NoDebit DEF ledger
<1>4. schedule' \in [Schedules -> ScheduleRows]
 <2>1. rows \in [Schedules -> ScheduleRows]
  <3>1. schedule[s] \in ScheduleRows /\ schedule \in [Schedules -> ScheduleRows] BY <1>2 DEF TypeOK
  <3> DEFINE to == IF schedule[s].failures + 1 >= FailureLimit THEN "FAILED" ELSE "ACTIVE"
             retired == [schedule[s] EXCEPT !.failures = @ + 1, !.claim = "none", !.status = to]
  <3>2. to \in {"ACTIVE", "FAILED"} OBVIOUS
  <3> HIDE DEF to
  <3>3. retired \in ScheduleRows BY <3>1,<3>2, RetireOK
  <3>4. rows = [schedule EXCEPT ![s] = retired] BY <1>2,<3>1 DEF to
  <3> QED BY <1>2,<3>1,<3>3,<3>4
 <2>2. schedule' = rows \/ schedule' = schedule BY DEF RetireAttempt
 <2> QED BY <2>1,<2>2 DEF TypeOK
<1> QED BY <1>1,<1>3,<1>4, ScheduleAndWorkerOK

LEMMA StatementFailsStep == ASSUME IInv, NEW w \in Workers, StatementFails(w) PROVE IInv'
<1> USE DEF IInv
<1>1. /\ worker[w].pc \notin {"idle", "plan"} /\ Become(w, Catch(worker[w])) /\ budget' \in Nat
      /\ UNCHANGED <<schedule, orders, ledger, compensation, reconciler, package, issued>> BY DEF StatementFails, TypeOK
<1>2. worker' \in [Workers -> WorkerStates] /\ WorkersOK' BY <1>1, ThrowOK, NoDebit DEF ledger
<1> QED BY <1>1,<1>2, WorkerOnlyOK

LEMMA WorkerCrashesStep == ASSUME IInv, NEW w \in Workers, WorkerCrashes(w) PROVE IInv'
<1> USE DEF IInv
<1>1. Become(w, Idle) /\ budget' \in Nat
      /\ UNCHANGED <<schedule, orders, ledger, compensation, reconciler, package, issued>> BY DEF WorkerCrashes, Disturb, TypeOK
<1>2. worker' \in [Workers -> WorkerStates] /\ WorkersOK' BY <1>1, IdleOK, BecomeOK, NoDebit DEF ledger
<1> QED BY <1>1,<1>2, WorkerOnlyOK

------------------------
(* The reconciler. *)

\* Steps of a reconciler that leave the ledgers alone and never make a
\* compensation row disappear.
LEMMA CompensationOnlyOK ==
  ASSUME IInv, compensation' \in [Executions -> CompensationRows],
      \A e \in Executions : /\ compensation'[e].status = "ABSENT" <=> compensation[e].status = "ABSENT"
                           /\ compensation'[e].purchase = compensation[e].purchase,
      reconciler' \in [Reconcilers -> ReconcilerStates], ReconcilersOK', budget' \in Nat,
      UNCHANGED <<schedule, orders, ledger, worker, package, issued>>
  PROVE IInv'
<1> USE DEF IInv
<1>1. WorkersOK' BY OthersOK, NoDebit DEF ledger
<1>2. CompensationsOK' BY DEF CompensationsOK, CompensationOK, ledger
<1> QED BY <1>1,<1>2 DEF TypeOK, SettledImpliesDebited, RefundImpliesDebited, orders, ledger

LEMMA ReapOK ==
  ASSUME NEW c \in CompensationRows
  PROVE  /\ Reap(c) \in CompensationRows
         /\ Reap(c).status = "ABSENT" <=> c.status = "ABSENT"
         /\ Reap(c).purchase = c.purchase BY DEF Reap, CompensationRows

LEMMA ClaimCompensationsStep == ASSUME IInv, NEW r \in Reconcilers, ClaimCompensations(r) PROVE IInv'
<1> USE DEF IInv
<1>1. PICK jobs \in SUBSET Executions :
        /\ \A e \in jobs : Reap(compensation[e]).status \in {"PENDING", "FAILED"}
        /\ compensation' = [e \in Executions |->
             IF e \in jobs THEN [Reap(compensation[e]) EXCEPT !.status = "PROCESSING", !.attempts = @ + 1]
                           ELSE Reap(compensation[e])]
        /\ reconciler' = [reconciler EXCEPT ![r] = IF jobs = {} THEN Resting ELSE
             [pc |-> "credit", jobs |-> jobs, row |-> None]] BY DEF ClaimCompensations
<1>2. UNCHANGED <<schedule, orders, ledger, worker, package, issued, budget>> BY DEF ClaimCompensations
<1>3. ASSUME NEW e \in Executions
  PROVE  /\ compensation'[e] \in CompensationRows
         /\ compensation'[e].status = "ABSENT" <=> compensation[e].status = "ABSENT"
         /\ compensation'[e].purchase = compensation[e].purchase
 <2>1. compensation[e] \in CompensationRows BY DEF TypeOK
 <2>2. CASE e \in jobs
  <3> DEFINE c == Reap(compensation[e])
  <3>1. c \in CompensationRows /\ c.status # "ABSENT" BY <1>1,<2>1,<2>2, ReapOK
  <3>2. compensation'[e] = [c EXCEPT !.status = "PROCESSING", !.attempts = @ + 1] BY <1>1,<2>2
  <3>3. compensation[e].status # "ABSENT" /\ c.purchase = compensation[e].purchase BY <2>1,<3>1, ReapOK
  <3> HIDE DEF c
  <3> QED BY <3>1,<3>2,<3>3, AttemptOK
 <2>3. CASE e \notin jobs BY <1>1,<2>1,<2>3, ReapOK
 <2> QED BY <2>2,<2>3
<1>4. compensation' \in [Executions -> CompensationRows] BY <1>1,<1>3
<1>5. reconciler' \in [Reconcilers -> ReconcilerStates] BY <1>1 DEF TypeOK, ReconcilerStates, Resting
<1>6. \A e \in jobs : compensation[e].status # "ABSENT" BY <1>1, ReapOK DEF TypeOK
<1>7. ReconcilersOK'
 <2>1. \A x \in Executions : compensation[x].status # "ABSENT" => compensation'[x].status # "ABSENT" BY <1>3
 <2>2. ASSUME NEW q \in Reconcilers, q # r
   PROVE reconciler'[q] = reconciler[q] /\ reconciler[q].jobs \in SUBSET Executions BY <1>1,<2>2 DEF TypeOK, ReconcilerStates
 <2>3. reconciler'[r].pc \in {"idle", "credit"} /\ reconciler'[r].jobs = jobs BY <1>1 DEF TypeOK, Resting
 <2> QED BY <1>6,<2>1,<2>2,<2>3 DEF ReconcilersOK
<1> QED BY <1>2,<1>3,<1>4,<1>5,<1>7, CompensationOnlyOK DEF TypeOK

LEMMA CompensateStep == ASSUME IInv, NEW r \in Reconcilers, Compensate(r) PROVE IInv'
<1> USE DEF IInv
<1>1. UNCHANGED <<schedule, orders, compensation, worker, package, issued>> BY DEF Compensate
<1>2. PICK e \in reconciler[r].jobs :
        \/ /\ Refunds(e, compensation[e].amount, compensation[e].purchase)
           /\ reconciler' = [reconciler EXCEPT ![r].pc = "resolve", ![r].row = e]
           /\ UNCHANGED budget
        \/ /\ budget' \in Nat
           /\ reconciler' = [reconciler EXCEPT ![r].pc = "retry", ![r].row = e]
           /\ UNCHANGED ledger BY DEF Compensate, TypeOK
<1>3. /\ e \in Executions /\ compensation[e].status # "ABSENT" /\ debit[e] # None
      /\ compensation[e].purchase \in Purchases /\ compensation[e].amount \in Nat
  BY DEF TypeOK, ReconcilersOK, ReconcilerStates, CompensationsOK, CompensationOK, CompensationRows
<1>4. refund' \in [Executions -> Entries \cup {None}] /\ wallet' \in Wallets /\ debit' = debit /\ RefundImpliesDebited' /\ budget' \in Nat
  BY <1>2,<1>3, RefundsOK DEF TypeOK, RefundImpliesDebited, ledger
<1>5. reconciler' \in [Reconcilers -> ReconcilerStates] /\ ReconcilersOK'
 <2>1. PICK label \in {"resolve", "retry"} : reconciler' = [reconciler EXCEPT ![r].pc = label, ![r].row = e] BY <1>2
 <2>2. reconciler \in [Reconcilers -> ReconcilerStates] BY DEF TypeOK
 <2> PICK old \in ReconcilerStates : old = reconciler[r] BY <2>2
 <2> PICK new : new = [old EXCEPT !.pc = label, !.row = e] OBVIOUS
 <2>3. new \in ReconcilerStates /\ new.row = e /\ new.jobs = old.jobs BY <1>3 DEF ReconcilerStates
 <2>4. reconciler' = [reconciler EXCEPT ![r] = new] BY <2>1,<2>2
 <2>5. reconciler'[r] = new /\ \A q \in Reconcilers \ {r} : reconciler'[q] = reconciler[q] BY ONLY <2>2,<2>4
 <2>6. reconciler' \in [Reconcilers -> ReconcilerStates] BY ONLY <2>2,<2>3,<2>4
 <2>7. ReconcilersOK'
  <3>1. ReconcilersOK /\ compensation' = compensation BY <1>1
  <3> SUFFICES ASSUME NEW q \in Reconcilers
    PROVE  /\ \A x \in reconciler'[q].jobs : compensation'[x].status # "ABSENT"
           /\ reconciler'[q].pc \in {"resolve", "retry"} =>
                reconciler'[q].row \in Executions /\ compensation'[reconciler'[q].row].status # "ABSENT" BY DEF ReconcilersOK
  <3>2. CASE q = r BY ONLY <1>3,<2>3,<2>5,<3>1,<3>2, r \in Reconcilers, old = reconciler[r] DEF ReconcilersOK
  <3>3. CASE q # r BY ONLY <2>5,<3>1,<3>3, q \in Reconcilers DEF ReconcilersOK
  <3> QED BY <3>2,<3>3
 <2> QED BY <2>6,<2>7
<1>6. WorkersOK' BY <1>1,<1>4, OthersOK, NoDebit
<1> QED BY <1>1,<1>4,<1>5,<1>6 DEF TypeOK, CompensationsOK, CompensationOK, SettledImpliesDebited, orders

\* The record of a reconciler after a row.
LEMMA ContinueOK ==
  ASSUME IInv, NEW r \in Reconcilers, reconciler' = Continue(r),
      \A e \in Executions : compensation'[e].status = "ABSENT" <=> compensation[e].status = "ABSENT"
  PROVE reconciler' \in [Reconcilers -> ReconcilerStates] /\ ReconcilersOK' BY DEF IInv, Continue, TypeOK, ReconcilersOK, ReconcilerStates, Resting

LEMMA ResolveCompensationStep == ASSUME IInv, NEW r \in Reconcilers, ResolveCompensation(r) PROVE IInv'
<1> USE DEF IInv
<1>1. reconciler[r].pc = "resolve" /\ UNCHANGED <<schedule, orders, ledger, worker, package, issued>> BY DEF ResolveCompensation
<1>2. reconciler[r].row \in Executions /\ compensation[reconciler[r].row].status # "ABSENT" BY <1>1 DEF ReconcilersOK
<1>3. CASE /\ compensation' = [compensation EXCEPT ![reconciler[r].row].status = "RESOLVED"]
           /\ reconciler' = Continue(r) /\ UNCHANGED budget
 <2>1. /\ compensation' \in [Executions -> CompensationRows]
       /\ \A e \in Executions : /\ compensation'[e].status = "ABSENT" <=> compensation[e].status = "ABSENT"
                                /\ compensation'[e].purchase = compensation[e].purchase BY <1>2,<1>3 DEF TypeOK, CompensationRows
 <2> QED BY <1>1,<1>3,<2>1, ContinueOK, CompensationOnlyOK DEF TypeOK
<1>4. CASE /\ budget > 0 /\ budget' = budget - 1 /\ UNCHANGED compensation
           /\ reconciler' = [reconciler EXCEPT ![r].pc = "retry"]
 <2>1. reconciler' \in [Reconcilers -> ReconcilerStates] /\ ReconcilersOK' /\ budget' \in Nat
   BY <1>2,<1>4 DEF TypeOK, ReconcilersOK, ReconcilerStates
 <2> QED BY <1>1,<1>4,<2>1, CompensationOnlyOK DEF TypeOK
<1> QED BY <1>3,<1>4 DEF ResolveCompensation

LEMMA RetryCompensationStep == ASSUME IInv, NEW r \in Reconcilers, RetryCompensation(r) PROVE IInv'
<1> USE DEF IInv
<1> DEFINE e == reconciler[r].row
           again == [compensation[e] EXCEPT
                       !.status = IF compensation[e].attempts >= CompensationLimit
                                    THEN "FAILED" ELSE "PENDING", !.stale = FALSE]
<1>1. reconciler[r].pc = "retry" /\ reconciler' = Continue(r) /\ UNCHANGED <<schedule, orders, ledger, worker, package, issued, budget>>
  BY DEF RetryCompensation
<1>2. e \in Executions /\ compensation[e].status # "ABSENT" BY <1>1 DEF ReconcilersOK
<1>3. compensation' = [compensation EXCEPT ![e] = again] BY <1>2 DEF RetryCompensation, TypeOK
<1>4. again \in CompensationRows /\ again.status # "ABSENT" /\ again.purchase = compensation[e].purchase
 <2>1. compensation[e] \in CompensationRows BY <1>2 DEF TypeOK
 <2>2. CASE compensation[e].attempts >= CompensationLimit BY <2>1,<2>2 DEF CompensationRows
 <2>3. CASE ~(compensation[e].attempts >= CompensationLimit) BY <2>1,<2>3 DEF CompensationRows
 <2> QED BY <2>2,<2>3
<1>5. /\ compensation' \in [Executions -> CompensationRows]
      /\ \A x \in Executions : /\ compensation'[x].status = "ABSENT" <=> compensation[x].status = "ABSENT"
                               /\ compensation'[x].purchase = compensation[x].purchase BY <1>2,<1>3,<1>4 DEF TypeOK
<1> QED BY <1>1,<1>5, ContinueOK, CompensationOnlyOK DEF TypeOK

LEMMA ReconcilerCrashesStep == ASSUME IInv, NEW r \in Reconcilers, ReconcilerCrashes(r) PROVE IInv'
<1> USE DEF IInv
<1>1. /\ reconciler' = [reconciler EXCEPT ![r] = Resting] /\ budget' \in Nat
      /\ UNCHANGED <<schedule, orders, ledger, compensation, worker, package, issued>> BY DEF ReconcilerCrashes, Disturb, TypeOK
<1>2. reconciler' \in [Reconcilers -> ReconcilerStates] /\ ReconcilersOK' BY <1>1 DEF TypeOK, ReconcilersOK, ReconcilerStates, Resting
<1> QED BY <1>1,<1>2, CompensationOnlyOK DEF TypeOK
------------------------
(* The environment. *)

\* Steps of one schedule, whatever the status they write.
LEMMA ScheduleEventStep == ASSUME IInv, NEW s \in Schedules, FallDue(s) \/ ClaimGrowsStale(s) \/ SetRenewal(s) PROVE IInv'
<1>1. UNCHANGED <<orders, ledger, compensation, worker, reconciler, package, issued>> /\ budget' \in Nat
  BY DEF IInv, TypeOK, FallDue, ClaimGrowsStale, SetRenewal, Disturb
<1>2. schedule' \in [Schedules -> ScheduleRows]
 <2>1. schedule \in [Schedules -> ScheduleRows] /\ schedule[s] \in ScheduleRows BY DEF IInv, TypeOK
 <2>2. CASE FallDue(s) BY <2>1,<2>2 DEF FallDue, ScheduleRows
 <2>3. CASE ClaimGrowsStale(s) BY <2>1,<2>3 DEF ClaimGrowsStale, ScheduleRows
 <2>4. CASE SetRenewal(s)
  <3>1. PICK status \in {"ACTIVE", "PAUSED"}, due \in BOOLEAN :
          schedule' = [schedule EXCEPT ![s].status = status, ![s].due = due] BY <2>4 DEF SetRenewal
  <3>2. [schedule[s] EXCEPT !.status = status, !.due = due] \in ScheduleRows BY <2>1 DEF ScheduleRows
  <3>3. schedule' = [schedule EXCEPT ![s] = [schedule[s] EXCEPT !.status = status, !.due = due]] BY <2>1,<3>1
  <3> QED BY <2>1,<3>2,<3>3
 <2> QED BY <2>2,<2>3,<2>4
<1> QED BY <1>1,<1>2, OutsideOK DEF IInv, TypeOK, orders, ledger

LEMMA CompensationGrowsStaleStep == ASSUME IInv, NEW e \in Executions, CompensationGrowsStale(e) PROVE IInv'
<1>1. UNCHANGED <<schedule, orders, ledger, worker, reconciler, package, issued, budget>> BY DEF CompensationGrowsStale
<1>2. /\ compensation' \in [Executions -> CompensationRows]
      /\ \A x \in Executions : /\ compensation'[x].status = "ABSENT" <=> compensation[x].status = "ABSENT"
                               /\ compensation'[x].purchase = compensation[x].purchase
 <2>1. compensation \in [Executions -> CompensationRows] BY DEF IInv, TypeOK
 <2> PICK old \in CompensationRows : old = compensation[e] BY <2>1
 <2> PICK new : new = [old EXCEPT !.stale = TRUE] OBVIOUS
 <2>2. new \in CompensationRows /\ new.status = old.status /\ new.purchase = old.purchase BY DEF CompensationRows
 <2>3. compensation' = [compensation EXCEPT ![e] = new] BY <2>1 DEF CompensationGrowsStale
 <2>4. compensation'[e] = new /\ \A x \in Executions \ {e} : compensation'[x] = compensation[x] BY ONLY <2>1,<2>3
 <2>5. compensation' \in [Executions -> CompensationRows] BY ONLY <2>1,<2>2,<2>3
 <2> QED BY <2>2,<2>4,<2>5
<1>3. ReconcilersOK' BY <1>1,<1>2 DEF IInv, TypeOK, ReconcilersOK, ReconcilerStates
<1> QED BY <1>1,<1>2,<1>3, CompensationOnlyOK DEF IInv, TypeOK

\* The operator tops up, freezes and thaws the wallet.
LEMMA WalletEventStep == ASSUME IInv, TopUp \/ FreezeWallet \/ ThawWallet PROVE IInv'
<1>1. UNCHANGED <<schedule, orders, debit, refund, compensation, worker, reconciler, package, issued>> /\ budget' \in Nat
  BY DEF IInv, TypeOK, TopUp, FreezeWallet, ThawWallet, Disturb
<1>2. wallet' \in Wallets
 <2>1. wallet \in Wallets /\ InitialPrice \in Nat BY PriceAssumption DEF IInv, TypeOK
 <2>2. CASE TopUp
  <3> DEFINE m == wallet.balance + InitialPrice
             n == wallet.credited + InitialPrice
  <3>1. m \in Nat /\ n \in Nat BY <2>1 DEF Wallets
  <3>2. wallet' = [wallet EXCEPT !.balance = m, !.credited = n] BY <2>2 DEF TopUp
  <3> HIDE DEF m, n
  <3> QED BY <2>1,<3>1,<3>2 DEF Wallets
 <2>3. CASE FreezeWallet \/ ThawWallet BY <2>1,<2>3 DEF FreezeWallet, ThawWallet, Wallets
 <2> QED BY <2>2,<2>3
<1> QED BY <1>1,<1>2, OutsideOK DEF IInv, TypeOK, orders

LEMMA PackageEventStep == ASSUME IInv, DeactivatePackage \/ RepricePackage PROVE IInv'
<1>1. UNCHANGED <<schedule, orders, ledger, compensation, worker, reconciler, issued>> /\ budget' \in Nat
  BY DEF IInv, TypeOK, DeactivatePackage, RepricePackage, Disturb
<1>2. package' \in [active : BOOLEAN, price : Prices] BY DEF IInv, TypeOK, DeactivatePackage, RepricePackage
<1> QED BY <1>1,<1>2, OutsideOK DEF IInv, TypeOK, orders, ledger

------------------------
(* The induction. *)

LEMMA InitOK == Init => IInv
<1> SUFFICES ASSUME Init PROVE IInv OBVIOUS
<1>1. TypeOK
 <2>1. schedule \in [Schedules -> ScheduleRows] BY DEF Init, ScheduleRows
 <2>2. purchase \in [Purchases -> PurchaseRows] /\ wallet \in Wallets BY PriceAssumption DEF Init, PurchaseRows, Wallets
 <2>3. /\ settlement \in [Executions -> Purchases \cup {None}]
       /\ cancellation \in [Executions -> Purchases \cup {None}]
       /\ debit \in [Executions -> Entries \cup {None}]
       /\ refund \in [Executions -> Entries \cup {None}] BY DEF Init
 <2>4. compensation \in [Executions -> CompensationRows] BY DEF Init, CompensationRows, NoCompensation
 <2>5. worker \in [Workers -> WorkerStates] /\ reconciler \in [Reconcilers -> ReconcilerStates] BY IdleOK DEF Init, ReconcilerStates, Resting
 <2>6. package \in [active : BOOLEAN, price : Prices] /\ issued \in SUBSET Executions /\ budget \in Nat BY PriceAssumption, LimitAssumption DEF Init
 <2> QED BY <2>1,<2>2,<2>3,<2>4,<2>5,<2>6 DEF TypeOK
<1>2. WorkersOK BY IdleOK DEF Init, WorkersOK
<1>3. CompensationsOK /\ ReconcilersOK BY DEF Init, CompensationsOK, CompensationOK, NoCompensation, ReconcilersOK, Resting
<1>4. SettledImpliesDebited /\ RefundImpliesDebited BY DEF Init, SettledImpliesDebited, RefundImpliesDebited
<1> QED BY <1>1,<1>2,<1>3,<1>4 DEF IInv

\* Steps of a worker.
LEMMA WorkerStep == ASSUME IInv, NEW w \in Workers, ClaimDue(w) \/ RowStep(w) \/ HandlerStep(w) \/ StatementFails(w) \/ WorkerCrashes(w) PROVE IInv'
<1>1. CASE RowStep(w) BY <1>1, ReadPlanStep, ReadPurchaseStep, CreatePurchaseStep, LinkPurchaseStep, LookupDebitStep, CheckWalletStep,
  DebitWalletStep, ConfirmPaymentStep, AdvanceScheduleStep DEF RowStep
<1>2. CASE HandlerStep(w) BY <1>2, InspectPurchaseStep, CancelPurchaseStep, RefundDebitStep, EnqueueCompensationStep, RetireAttemptStep DEF
  HandlerStep
<1>3. CASE ClaimDue(w) \/ StatementFails(w) \/ WorkerCrashes(w) BY <1>3, ClaimDueStep, StatementFailsStep, WorkerCrashesStep
<1> QED BY <1>1,<1>2,<1>3

LEMMA StutterOK == ASSUME IInv, UNCHANGED vars PROVE IInv' BY OutsideOK DEF IInv, TypeOK, vars

\* No step leaves the inductive invariant.
LEMMA StepOK == IInv /\ [Next]_vars => IInv'
<1> SUFFICES ASSUME IInv, [Next]_vars PROVE IInv' OBVIOUS
<1>1. ASSUME NEW w \in Workers, ClaimDue(w) \/ RowStep(w) \/ HandlerStep(w) \/ StatementFails(w) \/ WorkerCrashes(w) PROVE IInv' BY <1>1, WorkerStep
<1>2. ASSUME NEW r \in Reconcilers, ClaimCompensations(r) \/ ReconcilerStep(r) \/ ReconcilerCrashes(r)
  PROVE IInv' BY <1>2, ClaimCompensationsStep, CompensateStep, ResolveCompensationStep, RetryCompensationStep, ReconcilerCrashesStep DEF
    ReconcilerStep
<1>3. ASSUME NEW s \in Schedules, FallDue(s) \/ ClaimGrowsStale(s) \/ SetRenewal(s) PROVE IInv' BY <1>3, ScheduleEventStep
<1>4. ASSUME NEW e \in Executions, CompensationGrowsStale(e) PROVE IInv' BY <1>4, CompensationGrowsStaleStep
<1>5. CASE TopUp \/ FreezeWallet \/ ThawWallet BY <1>5, WalletEventStep
<1>6. CASE DeactivatePackage \/ RepricePackage BY <1>6, PackageEventStep
<1>7. CASE UNCHANGED vars BY <1>7, StutterOK
<1> QED BY <1>1,<1>2,<1>3,<1>4,<1>5,<1>6,<1>7 DEF Next

\* Every reachable state satisfies the inductive invariant.
THEOREM Invariance == Spec => []IInv BY InitOK, StepOK, PTL DEF Spec

\* Type correctness: no statement, and no exception path from any statement,
\* leaves a row or a worker outside its type.
THEOREM TypeCorrect == Spec => []TypeOK
<1>1. IInv => TypeOK BY DEF IInv
<1> QED BY <1>1, Invariance, PTL

\* processDueRenewals never settles a purchase under an execution that did not
\* debit the wallet: for any number of instances and schedules, slow runs whose
\* claim is taken over, crashes, failing statements, lost acknowledgements and
\* reschedules included.
THEOREM SettledIsDebited == Spec => []SettledImpliesDebited
<1>1. IInv => SettledImpliesDebited BY DEF IInv
<1> QED BY <1>1, Invariance, PTL

\* Neither the exception handler nor reconcileRenewalCompensations credits a
\* wallet for an execution that never debited it, under the same conditions.
THEOREM RefundIsDebited == Spec => []RefundImpliesDebited
<1>1. IInv => RefundImpliesDebited BY DEF IInv
<1> QED BY <1>1, Invariance, PTL

------------------------
(* The balance column and the entries. *)

Total(entries) == SumFunction([e \in Executions |-> Amount(entries[e])])

\* The sum of the entries is an integer, and a new entry adds its amount to it.
LEMMA EntryAdds ==
  ASSUME NEW d \in [Executions -> Entries \cup {None}], NEW e \in Executions, d[e] = None, NEW entry \in Entries
  PROVE Total(d) \in Int /\ Total([d EXCEPT ![e] = entry]) = Total(d) + entry.amount
<1>1. \A x \in Executions, y \in Entries \cup {None} : Amount(y) \in Int BY DEF Amount, Entries
<1>2. PICK f : f = [x \in Executions |-> Amount(d[x])] OBVIOUS
<1>3. PICK g : g = [x \in Executions |-> Amount([d EXCEPT ![e] = entry][x])] OBVIOUS
<1>4. \A x \in Executions : f[x] \in Int /\ g[x] \in Int BY <1>1,<1>2,<1>3
<1>5. \A x \in Executions \ {e} : f[x] = g[x] BY <1>2,<1>3
<1>6. f[e] = 0 /\ g[e] = entry.amount BY <1>2,<1>3, NoneAssumption DEF Amount
<1>7. SumFunctionOnSet(g, Executions) = SumFunctionOnSet(f, Executions) - f[e] + g[e] BY <1>4,<1>5, PoolAssumption, SumUpdate
<1>8. SumFunctionOnSet(f, Executions) \in Int BY <1>4, PoolAssumption, SumIsInt
<1>9. Total(d) = SumFunctionOnSet(f, Executions) /\ Total([d EXCEPT ![e] = entry]) = SumFunctionOnSet(g, Executions)
  BY <1>2,<1>3, SumOfFunction DEF Total
<1>10. g[e] \in Int BY <1>4
<1> QED BY <1>6,<1>7,<1>8,<1>9,<1>10

LEMMA TotalIsInt == ASSUME NEW d \in [Executions -> Entries \cup {None}] PROVE Total(d) \in Int
<1>1. PICK f : f = [x \in Executions |-> Amount(d[x])] OBVIOUS
<1>2. \A x \in Executions : f[x] \in Int BY <1>1 DEF Amount, Entries
<1>3. SumFunctionOnSet(f, Executions) \in Int BY <1>2, PoolAssumption, SumIsInt
<1> QED BY <1>1,<1>3, SumOfFunction DEF Total

\* With no entries the balance is the credit.
LEMMA NothingEntered == ASSUME NEW d, \A x \in Executions : d[x] = None PROVE Total(d) = 0
<1>1. PICK f : f = [x \in Executions |-> Amount(d[x])] OBVIOUS
<1>2. PICK g : g = [x \in {} |-> 0] OBVIOUS
<1>3. \A x \in {} : g[x] = f[x] /\ f[x] \in Int OBVIOUS
<1>4. \A x \in Executions \ {} : f[x] = 0 BY <1>1 DEF Amount
<1>5. SumFunctionOnSet(g, {}) = SumFunctionOnSet(f, Executions) BY <1>3,<1>4, PoolAssumption, SumPicked
<1>6. SumFunctionOnSet(g, {}) = 0 BY PoolAssumption, SumRule
<1> QED BY <1>1,<1>5,<1>6, SumOfFunction DEF Total

LEMMA BalanceIs ==
  BalanceIsLedger <=> wallet.balance >= 0 /\ wallet.balance + Total(debit) = wallet.credited + Total(refund) BY DEF BalanceIsLedger, Total

\* Steps that move no money.
LEMMA BalanceKept ==
  ASSUME BalanceIsLedger, UNCHANGED <<debit, refund>>, wallet'.balance = wallet.balance, wallet'.credited = wallet.credited
  PROVE BalanceIsLedger' BY DEF BalanceIsLedger

LEMMA RefundBalances ==
  ASSUME IInv, BalanceIsLedger, NEW e \in Executions, NEW amount \in Nat, NEW p \in Purchases, Refunds(e, amount, p) PROVE BalanceIsLedger'
<1>1. CASE refund[e] # None BY <1>1, BalanceKept DEF Refunds, ledger
<1>2. CASE refund[e] = None
 <2> PICK entry : entry = [amount |-> amount, purchase |-> p] OBVIOUS
 <2>1. entry \in Entries /\ entry.amount = amount BY DEF Entries
 <2>2. refund' = [refund EXCEPT ![e] = entry] /\ debit' = debit /\ wallet' = [wallet EXCEPT !.balance = @ + amount] BY <1>2 DEF Refunds
 <2>3. refund \in [Executions -> Entries \cup {None}] /\ debit \in [Executions -> Entries \cup {None}]
       /\ wallet.balance \in Nat /\ wallet.credited \in Nat /\ wallet \in Wallets BY DEF IInv, TypeOK, Wallets
 <2>4. Total(refund) \in Int /\ Total(refund') = Total(refund) + amount BY <1>2,<2>1,<2>2,<2>3, EntryAdds
 <2>5. wallet'.balance = wallet.balance + amount /\ wallet'.credited = wallet.credited BY <2>2,<2>3 DEF Wallets
 <2>6. Total(debit) \in Int /\ Total(debit') = Total(debit) BY <2>2,<2>3, TotalIsInt
 <2>7. wallet.balance >= 0 /\ wallet.balance + Total(debit) = wallet.credited + Total(refund) BY BalanceIs
 <2>8. wallet'.balance >= 0 /\ wallet'.balance + Total(debit') = wallet'.credited + Total(refund') BY <2>3,<2>4,<2>5,<2>6,<2>7
 <2> QED BY <2>8 DEF BalanceIsLedger, Total
<1> QED BY <1>1,<1>2

LEMMA DebitBalances == ASSUME IInv, BalanceIsLedger, NEW w \in Workers, DebitWallet(w) PROVE BalanceIsLedger'
<1> DEFINE e == Job(w).exec
<1>1. CASE Debitable(w)
 <2> PICK amount : amount = worker[w].amount OBVIOUS
 <2> PICK entry : entry = [amount |-> amount, purchase |-> Job(w).purchase] OBVIOUS
 <2>0. worker[w].pc = "debit" BY DEF DebitWallet
 <2>1. WorkerOK(worker[w], debit) /\ worker[w] \in WorkerStates BY DEF IInv, TypeOK, WorkersOK
 <2>2. e \in Executions /\ Job(w).purchase \in Purchases /\ amount \in Nat BY <2>0,<2>1 DEF WorkerOK, WorkerStates, Job, Jobs
 <2>3. entry \in Entries /\ entry.amount = amount BY <2>2 DEF Entries
 <2>4. /\ debit' = [debit EXCEPT ![e] = entry] /\ refund' = refund
       /\ wallet' = [wallet EXCEPT !.balance = @ - amount]
       /\ debit[e] = None /\ wallet.balance >= amount BY <1>1 DEF DebitWallet, Debitable, PriorDebit, Affordable
 <2>5. refund \in [Executions -> Entries \cup {None}] /\ debit \in [Executions -> Entries \cup {None}]
       /\ wallet.balance \in Nat /\ wallet.credited \in Nat /\ wallet \in Wallets BY DEF IInv, TypeOK, Wallets
 <2>6. Total(debit) \in Int /\ Total(debit') = Total(debit) + amount BY <2>2,<2>3,<2>4,<2>5, EntryAdds
 <2>7. wallet'.balance = wallet.balance - amount /\ wallet'.credited = wallet.credited BY <2>4,<2>5 DEF Wallets
 <2>8. Total(refund) \in Int /\ Total(refund') = Total(refund) BY <2>4,<2>5, TotalIsInt
 <2>9. wallet.balance >= 0 /\ wallet.balance + Total(debit) = wallet.credited + Total(refund) BY BalanceIs
 <2>10. wallet'.balance >= 0 /\ wallet'.balance + Total(debit') = wallet'.credited + Total(refund') BY <2>2,<2>4,<2>5,<2>6,<2>7,<2>8,<2>9
 <2> QED BY <2>10 DEF BalanceIsLedger, Total
<1>2. CASE ~Debitable(w) BY <1>2, BalanceKept DEF DebitWallet
<1> QED BY <1>1,<1>2

LEMMA TopUpBalances == ASSUME IInv, BalanceIsLedger, TopUp PROVE BalanceIsLedger'
<1>1. wallet \in Wallets /\ InitialPrice \in Nat /\ debit \in [Executions -> Entries \cup {None}]
      /\ refund \in [Executions -> Entries \cup {None}] BY PriceAssumption DEF IInv, TypeOK
<1>2. UNCHANGED <<debit, refund>> /\ wallet' = [wallet EXCEPT !.balance = @ + InitialPrice, !.credited = @ + InitialPrice] BY DEF TopUp
<1>3. /\ wallet'.balance = wallet.balance + InitialPrice /\ wallet'.credited = wallet.credited + InitialPrice
      /\ wallet.balance \in Nat /\ wallet.credited \in Nat BY <1>1,<1>2 DEF Wallets
<1>4. Total(debit') = Total(debit) /\ Total(refund') = Total(refund) /\ Total(debit) \in Int /\ Total(refund) \in Int BY <1>1,<1>2, TotalIsInt
<1>5. wallet.balance + Total(debit) = wallet.credited + Total(refund) BY BalanceIs
<1>6. wallet'.balance >= 0 /\ wallet'.balance + Total(debit') = wallet'.credited + Total(refund') BY <1>1,<1>3,<1>4,<1>5
<1> QED BY <1>6 DEF BalanceIsLedger, Total

LEMMA FreezeBalances ==
  ASSUME IInv, BalanceIsLedger, FreezeWallet \/ ThawWallet PROVE BalanceIsLedger' BY BalanceKept DEF IInv, TypeOK, Wallets, FreezeWallet, ThawWallet

LEMMA BalanceStep == IInv /\ BalanceIsLedger /\ [Next]_vars => BalanceIsLedger'
<1> SUFFICES ASSUME IInv, BalanceIsLedger, [Next]_vars PROVE BalanceIsLedger' OBVIOUS
<1>1. ASSUME UNCHANGED <<wallet, debit, refund>> PROVE BalanceIsLedger' BY <1>1, BalanceKept
<1>2. ASSUME NEW w \in Workers, ClaimDue(w) \/ RowStep(w) \/ StatementFails(w) \/ WorkerCrashes(w) PROVE BalanceIsLedger'
 <2>1. CASE ClaimDue(w) BY <2>1,<1>1 DEF ClaimDue, ledger
 <2>2. CASE ReadPlan(w) BY <2>2,<1>1 DEF ReadPlan, ledger
 <2>3. CASE ReadPurchase(w) BY <2>3,<1>1 DEF ReadPurchase, ledger
 <2>4. CASE CreatePurchase(w) BY <2>4,<1>1 DEF CreatePurchase, ledger
 <2>5. CASE LinkPurchase(w) BY <2>5,<1>1 DEF LinkPurchase, ledger
 <2>6. CASE LookupDebit(w) BY <2>6,<1>1 DEF LookupDebit, ledger
 <2>7. CASE CheckWallet(w) BY <2>7,<1>1 DEF CheckWallet, ledger
 <2>8. CASE DebitWallet(w) BY <2>8, DebitBalances
 <2>9. CASE ConfirmPayment(w) BY <2>9,<1>1 DEF ConfirmPayment, ledger
 <2>10. CASE AdvanceSchedule(w) BY <2>10,<1>1 DEF AdvanceSchedule, ledger
 <2>11. CASE StatementFails(w) \/ WorkerCrashes(w) BY <2>11,<1>1 DEF StatementFails, WorkerCrashes, ledger
 <2> QED BY <1>2,<2>1,<2>2,<2>3,<2>4,<2>5,<2>6,<2>7,<2>8,<2>9,<2>10,<2>11 DEF RowStep
<1>3. ASSUME NEW w \in Workers, HandlerStep(w) PROVE BalanceIsLedger'
 <2>1. CASE RefundDebit(w)
  <3>1. WorkerOK(worker[w], debit) /\ worker[w] \in WorkerStates BY DEF IInv, TypeOK, WorkersOK
  <3>2. Job(w).exec \in Executions /\ Job(w).purchase \in Purchases /\ worker[w].amount \in Nat
    BY <2>1,<3>1 DEF WorkerOK, WorkerStates, Job, Jobs, RefundDebit
  <3>3. CASE wallet.active
   <4>1. Refunds(Job(w).exec, worker[w].amount, Job(w).purchase) BY <2>1,<3>3 DEF RefundDebit
   <4> QED BY <3>2,<4>1, RefundBalances
  <3>4. CASE ~wallet.active BY <2>1,<3>4,<1>1 DEF RefundDebit, ledger
  <3> QED BY <3>3,<3>4
 <2>2. CASE InspectPurchase(w) BY <2>2,<1>1 DEF InspectPurchase, ledger
 <2>3. CASE CancelPurchase(w) BY <2>3,<1>1 DEF CancelPurchase, ledger
 <2>4. CASE EnqueueCompensation(w) BY <2>4,<1>1 DEF EnqueueCompensation, ledger
 <2>5. CASE RetireAttempt(w) BY <2>5,<1>1 DEF RetireAttempt, ledger
 <2> QED BY <1>3,<2>1,<2>2,<2>3,<2>4,<2>5 DEF HandlerStep
<1>4. ASSUME NEW r \in Reconcilers, ClaimCompensations(r) \/ ReconcilerStep(r) \/ ReconcilerCrashes(r) PROVE BalanceIsLedger'
 <2>1. CASE Compensate(r)
  <3>1. PICK e \in reconciler[r].jobs : Refunds(e, compensation[e].amount, compensation[e].purchase) \/ UNCHANGED ledger BY <2>1 DEF Compensate
  <3>2. e \in Executions /\ compensation[e].amount \in Nat /\ compensation[e].purchase \in Purchases
    BY DEF IInv, TypeOK, ReconcilersOK, ReconcilerStates, CompensationsOK, CompensationOK, CompensationRows
  <3> QED BY <1>1,<3>1,<3>2, RefundBalances DEF ledger
 <2>2. CASE ResolveCompensation(r) BY <2>2,<1>1 DEF ResolveCompensation, ledger
 <2>3. CASE RetryCompensation(r) BY <2>3,<1>1 DEF RetryCompensation, ledger
 <2>4. CASE ClaimCompensations(r) \/ ReconcilerCrashes(r) BY <2>4,<1>1 DEF ClaimCompensations, ReconcilerCrashes, ledger
 <2> QED BY <1>4,<2>1,<2>2,<2>3,<2>4 DEF ReconcilerStep
<1>5. ASSUME NEW s \in Schedules, FallDue(s) \/ ClaimGrowsStale(s) \/ SetRenewal(s) PROVE BalanceIsLedger'
  BY <1>1,<1>5 DEF FallDue, ClaimGrowsStale, SetRenewal, ledger
<1>6. ASSUME NEW e \in Executions, CompensationGrowsStale(e) PROVE BalanceIsLedger' BY <1>1,<1>6 DEF CompensationGrowsStale, ledger
<1>7. CASE TopUp \/ FreezeWallet \/ ThawWallet BY <1>7, TopUpBalances, FreezeBalances
<1>8. CASE DeactivatePackage \/ RepricePackage BY <1>1,<1>8 DEF DeactivatePackage, RepricePackage, ledger
<1>9. CASE UNCHANGED vars BY <1>1,<1>9 DEF vars
<1> QED BY <1>2,<1>3,<1>4,<1>5,<1>6,<1>7,<1>8,<1>9 DEF Next

LEMMA BalanceInit == Init => BalanceIsLedger
<1> SUFFICES ASSUME Init PROVE BalanceIsLedger OBVIOUS
<1>1. Total(debit) = 0 /\ Total(refund) = 0 BY NothingEntered DEF Init
<1>2. wallet.balance = InitialBalance /\ wallet.credited = InitialBalance BY DEF Init
<1> QED BY <1>1,<1>2, BalanceIs, PriceAssumption

\* The balance column is the sum of the wallet's entries and never negative,
\* whatever two runs, a reconciler and an operator do to it at once: the row is
\* locked and looked at again before it is debited (DebitWallet).
THEOREM BalanceIsTheEntries == Spec => []BalanceIsLedger
<1>1. Init => IInv /\ BalanceIsLedger BY InitOK, BalanceInit
<1>2. (IInv /\ BalanceIsLedger) /\ [Next]_vars => (IInv /\ BalanceIsLedger)' BY StepOK, BalanceStep
<1> QED BY <1>1,<1>2, PTL DEF Spec

------------------------
(* While no run outlives its claim and nobody reschedules under a run in flight, a claim excludes
   the other runs, and what a run holds is the row of the table until it has advanced it. *)
Quiet == "slow" \notin Env /\ "reschedule" \notin Env

Holds(w, s) == worker[w].jobs[s] # None
Execs(w, s) == worker[w].jobs[s].exec

\* Ids are issued once, and one run at a time has each of them.
IdsApart ==
  /\ \A s, t \in Schedules : schedule[s].exec # None /\ schedule[s].exec = schedule[t].exec => s = t
  /\ \A w \in Workers, s, t \in Schedules : Holds(w, s) /\ Execs(w, s) = schedule[t].exec => s = t
  /\ \A v, w \in Workers, s, t \in Schedules : Holds(v, s) /\ Holds(w, t) /\ Execs(v, s) = Execs(w, t) => s = t
IdsIssued ==
  /\ \A s \in Schedules : IF schedule[s].exec = None THEN schedule[s].purchase = None ELSE schedule[s].exec \in issued
  /\ \A w \in Workers, s \in Schedules : Holds(w, s) => Execs(w, s) \in issued
  /\ \A e \in Executions : debit[e] # None => e \in issued

\* The row of the table is the run's: claimed, with its execution and its purchase, but
\* for a purchase that is not linked yet; or it advanced and the run was not told.
Claimed(k, s) ==
  /\ schedule[s].status = "PROCESSING" /\ schedule[s].claim = "fresh" /\ schedule[s].exec = k.jobs[s].exec
  /\ \/ schedule[s].purchase = k.jobs[s].purchase
     \/ schedule[s].purchase = None /\ k.row = s /\ k.pc \in {"link", "retire"}
Advanced(k, s) == schedule[s].status = "ACTIVE" /\ ~schedule[s].due /\ k.row = s /\ k.pc \in {"inspect", "retire"}
Fits(k) == \A s \in Schedules : k.jobs[s] # None => Claimed(k, s) \/ Advanced(k, s)
HoldsFit == \A w \in Workers : Fits(worker[w])

\* A purchase belongs to one execution: the one that is or was to pay for it.
Owns(e, p) ==
  \/ debit[e] # None /\ debit[e].purchase = p
  \/ \E s \in Schedules : schedule[s].exec = e /\ schedule[s].purchase = p
  \/ \E w \in Workers, s \in Schedules : Holds(w, s) /\ Execs(w, s) = e /\ worker[w].jobs[s].purchase = p
OwnersKnown == \A p \in Purchases, e \in Executions : Owns(e, p) => purchase[p].status # "ABSENT"
OneOwner == \A p \in Purchases, d, e \in Executions : Owns(d, p) /\ Owns(e, p) => d = e
DebitIsLinked ==
  \A s \in Schedules : schedule[s].exec # None /\ debit[schedule[s].exec] # None => debit[schedule[s].exec].purchase = schedule[s].purchase

\* What a worker believes about the row it is at.
Believes(k) ==
  LET j == k.jobs[k.row] IN
  /\ k.debited => /\ debit[j.exec].purchase = j.purchase
                  /\ k.pc \notin {"purchase", "link", "lookup", "check", "debit"}
  /\ k.pc \in {"cancel", "refund", "enqueue"} => k.amount = debit[j.exec].amount
  /\ k.pc = "advance" \/ (k.pc = "inspect" /\ Advanced(k, k.row)) => j.purchase # None /\ purchase[j.purchase].status = "PAID"
  /\ k.pc = "cancel" => purchase[j.purchase].status # "PAID"
BeliefsFit == \A w \in Workers : Believes(worker[w])

CompensationIsExact ==
  \A e \in Executions : compensation[e].status # "ABSENT" =>
    debit[e] # None /\ compensation[e].amount = debit[e].amount /\ compensation[e].purchase = debit[e].purchase

\* Payments are of the purchase that their execution debited.
PaymentsFit ==
  /\ \A e \in Executions : settlement[e] # None =>
       debit[e] # None /\ settlement[e] = debit[e].purchase /\ purchase[settlement[e]].status = "PAID"
  /\ \A e \in Executions : cancellation[e] # None =>
       debit[e] # None /\ cancellation[e] = debit[e].purchase /\ purchase[cancellation[e]].status = "CANCELED"
  /\ \A p \in Purchases : purchase[p].status = "PAID" => \E e \in Executions : settlement[e] = p

\* What holds of the claims, of whose a purchase is, and of the money.
ClaimsInv == OneWorkerPerSchedule /\ IdsApart /\ IdsIssued /\ HoldsFit
OwnersInv == OwnersKnown /\ OneOwner /\ DebitIsLinked
MoneyInv  == BeliefsFit /\ CompensationIsExact /\ RefundIsExact /\ PaymentsFit
QInv == ClaimsInv /\ OwnersInv /\ MoneyInv

\* ... and when the cancellation cannot fail, what is given back was canceled.
CanceledFirst ==
  /\ \A w \in Workers : worker[w].pc \in {"refund", "enqueue"} => purchase[Job(w).purchase].status = "CANCELED"
  /\ \A e \in Executions : compensation[e].status # "ABSENT" \/ refund[e] # None => purchase[debit[e].purchase].status = "CANCELED"

------------------------
(* Steps of one worker: w takes the record k. *)

\* What a step of worker w may do to the rows: only the schedules it holds change,
\* ids are not new, debits and paid purchases stay.
Frame(w) ==
  /\ issued' = issued
  /\ \A s \in Schedules : Holds(w, s) \/ schedule'[s] = schedule[s]
  /\ \A s \in Schedules : /\ schedule'[s].exec = schedule[s].exec \/ schedule'[s].exec = None
                          /\ schedule'[s].exec = None => schedule'[s].purchase = None
  /\ \A e \in Executions : debit[e] # None => debit'[e] = debit[e]
  /\ \A e \in Executions : debit'[e] # None /\ debit[e] = None => e \in issued
  /\ \A p \in Purchases : purchase[p].status # "ABSENT" => purchase'[p].status # "ABSENT"
  /\ \A p \in Purchases : purchase[p].status = "PAID" => purchase'[p].status = "PAID"
  /\ \A p \in Purchases : purchase'[p].status = "PAID" =>
       purchase[p].status = "PAID" \/ \E s \in Schedules : Holds(w, s) /\ worker[w].jobs[s].purchase = p

\* ... when it leaves the rows as they are.
LEMMA FrameOfNothing == ASSUME IdsIssued, NEW w \in Workers, UNCHANGED <<schedule, debit, purchase, issued>> PROVE Frame(w) BY DEF Frame, IdsIssued

\* A worker never holds more than it did.
Keeps(w, k) == \A s \in Schedules : k.jobs[s] # None => k.jobs[s] = worker[w].jobs[s]

LEMMA ClaimsKept ==
  ASSUME TypeOK, ClaimsInv, NEW w \in Workers, NEW k, worker' = [worker EXCEPT ![w] = k], Frame(w),
      \A s \in Schedules : k.jobs[s] # None => Holds(w, s) /\ k.jobs[s].exec = Execs(w, s), Fits(k)'
  PROVE ClaimsInv'
<1>1. worker'[w] = k /\ \A v \in Workers \ {w} : worker'[v] = worker[v] BY DEF TypeOK
<1>2. \A v \in Workers, s \in Schedules : Holds(v, s)' => Holds(v, s) /\ Execs(v, s)' = Execs(v, s)
 <2> SUFFICES ASSUME NEW v \in Workers, NEW s \in Schedules, Holds(v, s)' PROVE Holds(v, s) /\ Execs(v, s)' = Execs(v, s) OBVIOUS
 <2>1. CASE v = w BY <1>1,<2>1 DEF Holds, Execs
 <2>2. CASE v # w BY <1>1,<2>2 DEF Holds, Execs
 <2> QED BY <2>1,<2>2
<1>3. OneWorkerPerSchedule' BY <1>2 DEF ClaimsInv, OneWorkerPerSchedule, Holds
<1>4. IdsApart'
 <2>1. \A s \in Schedules : schedule'[s].exec = schedule[s].exec \/ schedule'[s].exec = None BY DEF Frame
 <2>2. \A v \in Workers, s \in Schedules : Holds(v, s) => Execs(v, s) # None BY NoneAssumption DEF TypeOK, WorkerStates, Jobs, Holds, Execs
 <2>3. IdsApart BY DEF ClaimsInv
 <2>4. \A s, t \in Schedules : schedule'[s].exec # None /\ schedule'[s].exec = schedule'[t].exec => s = t BY <2>1,<2>3 DEF IdsApart
 <2>5. \A v \in Workers, s, t \in Schedules : Holds(v, s)' /\ Execs(v, s)' = schedule'[t].exec => s = t BY <1>2,<2>1,<2>2,<2>3 DEF IdsApart
 <2>6. \A u, v \in Workers, s, t \in Schedules : Holds(u, s)' /\ Holds(v, t)' /\ Execs(u, s)' = Execs(v, t)' => s = t BY <1>2,<2>3 DEF IdsApart
 <2> QED BY <2>4,<2>5,<2>6 DEF IdsApart
<1>5. IdsIssued'
 <2>1. \A s \in Schedules : IF schedule'[s].exec = None THEN schedule'[s].purchase = None ELSE schedule'[s].exec \in issued'
   BY DEF Frame, ClaimsInv, IdsIssued
 <2>2. \A v \in Workers, s \in Schedules : Holds(v, s)' => Execs(v, s)' \in issued' BY <1>2 DEF Frame, ClaimsInv, IdsIssued
 <2>3. \A e \in Executions : debit'[e] # None => e \in issued' BY DEF Frame, ClaimsInv, IdsIssued
 <2> QED BY <2>1,<2>2,<2>3 DEF IdsIssued
<1>6. HoldsFit'
 <2> SUFFICES ASSUME NEW v \in Workers PROVE Fits(worker[v])' BY DEF HoldsFit
 <2>1. CASE v = w BY <1>1,<2>1 DEF Fits, Claimed, Advanced
 <2>2. CASE v # w
  <3>1. worker'[v] = worker[v] BY <1>1,<2>2
  <3>2. \A s \in Schedules : Holds(v, s) => schedule'[s] = schedule[s] BY <2>2 DEF Frame, ClaimsInv, OneWorkerPerSchedule, Holds
  <3>3. Fits(worker[v]) BY DEF ClaimsInv, HoldsFit
  <3> QED BY <3>1,<3>2,<3>3 DEF Fits, Claimed, Advanced, Holds
 <2> QED BY <2>1,<2>2
<1> QED BY <1>3,<1>4,<1>5,<1>6 DEF ClaimsInv

LEMMA OwnersKept ==
  ASSUME TypeOK, OwnersInv, NEW w \in Workers, NEW k, worker' = [worker EXCEPT ![w] = k], Frame(w), Keeps(w, k),
      \A s \in Schedules, p \in Purchases : schedule'[s].purchase = p =>
        schedule[s].purchase = p \/ (Holds(w, s) /\ schedule'[s].exec = Execs(w, s) /\ worker[w].jobs[s].purchase = p),
      \A e \in Executions : debit'[e] # None => Owns(e, debit'[e].purchase), DebitIsLinked'
  PROVE OwnersInv'
<1>1. worker'[w] = k /\ \A v \in Workers \ {w} : worker'[v] = worker[v] BY DEF TypeOK
<1>2. \A e \in Executions, p \in Purchases : Owns(e, p)' => Owns(e, p)
 <2> SUFFICES ASSUME NEW e \in Executions, NEW p \in Purchases, Owns(e, p)' PROVE Owns(e, p) OBVIOUS
 <2>1. CASE debit'[e] # None /\ debit'[e].purchase = p BY <2>1
 <2>2. ASSUME NEW s \in Schedules, schedule'[s].exec = e, schedule'[s].purchase = p PROVE Owns(e, p)
  <3>1. schedule[s].exec = e BY <2>2, NoneAssumption DEF Frame
  <3>2. CASE schedule[s].purchase = p BY <3>1,<3>2 DEF Owns
  <3>3. CASE Holds(w, s) /\ schedule'[s].exec = Execs(w, s) /\ worker[w].jobs[s].purchase = p BY <2>2,<3>3 DEF Owns
  <3> QED BY <2>2,<3>2,<3>3
 <2>3. ASSUME NEW v \in Workers, NEW s \in Schedules, Holds(v, s)', Execs(v, s)' = e, worker'[v].jobs[s].purchase = p PROVE Owns(e, p)
  <3>1. worker[v].jobs[s] = worker'[v].jobs[s] BY <1>1,<2>3 DEF Keeps, Holds
  <3>2. Holds(v, s) /\ Execs(v, s) = e /\ worker[v].jobs[s].purchase = p BY <2>3,<3>1 DEF Holds, Execs
  <3> QED BY <3>2 DEF Owns
 <2> QED BY <2>1,<2>2,<2>3 DEF Owns
<1>3. OneOwner' BY <1>2 DEF OwnersInv, OneOwner
<1>4. OwnersKnown' BY <1>2 DEF OwnersInv, OwnersKnown, Frame
<1> QED BY <1>3,<1>4 DEF OwnersInv

\* The beliefs of the others are not touched.
LEMMA BeliefsKept ==
  ASSUME IInv, ClaimsInv, OwnersInv, BeliefsFit, NEW w \in Workers, NEW k, worker' = [worker EXCEPT ![w] = k], Frame(w), Believes(k)'
  PROVE BeliefsFit'
<1>1. worker'[w] = k /\ \A v \in Workers \ {w} : worker'[v] = worker[v] BY DEF IInv, TypeOK
<1> SUFFICES ASSUME NEW v \in Workers PROVE Believes(worker[v])' BY DEF BeliefsFit
<1>2. CASE v = w BY <1>1,<1>2 DEF Believes, Advanced
<1>3. CASE v # w
 <2> PICK k1 : k1 = worker[v] OBVIOUS
 <2> PICK s : s = k1.row OBVIOUS
 <2> PICK j : j = k1.jobs[s] OBVIOUS
 <2>1. Believes(k1) /\ WorkerOK(k1, debit) /\ k1 \in WorkerStates BY DEF BeliefsFit, IInv, TypeOK, WorkersOK
 <2>2. CASE k1.pc \in {"idle", "plan"}
  <3>1. ~k1.debited BY <2>1,<2>2 DEF WorkerOK
  <3>2. Believes(k1)' BY <2>2,<3>1 DEF Believes
  <3> QED BY <1>1,<1>3,<3>2 DEF Believes, Advanced
 <2>3. CASE k1.pc \notin {"idle", "plan"}
  <3>1. s \in Schedules /\ j \in Jobs /\ j.exec \in Executions /\ j.purchase \in Purchases \cup {None} BY <2>1,<2>3 DEF WorkerOK, Jobs
  <3>2. j # None /\ Holds(v, s) BY <3>1, NoneAssumption DEF Holds
  <3>3. schedule'[s] = schedule[s] BY <1>3,<3>1,<3>2 DEF Frame, ClaimsInv, OneWorkerPerSchedule, Holds
  <3>4. k1.debited => debit[j.exec] # None /\ debit'[j.exec] = debit[j.exec] BY <2>1,<3>1 DEF WorkerOK, Frame
  <3>5. k1.pc \in {"cancel", "refund", "enqueue"} => k1.debited BY <2>1 DEF WorkerOK
  <3>6. k1.pc = "cancel" => j.purchase \in Purchases BY <2>1 DEF WorkerOK
  <3>7. k1.pc \in {"advance", "inspect"} /\ purchase[j.purchase].status = "PAID" /\ j.purchase \in Purchases => purchase'[j.purchase].status = "PAID"
    BY DEF Frame
  <3>8. k1.pc = "cancel" => purchase'[j.purchase].status # "PAID"
   <4> SUFFICES ASSUME k1.pc = "cancel", purchase'[j.purchase].status = "PAID" PROVE FALSE OBVIOUS
   <4>1. purchase[j.purchase].status # "PAID" BY <2>1 DEF Believes
   <4>2. PICK t \in Schedules : Holds(w, t) /\ worker[w].jobs[t].purchase = j.purchase BY <3>6,<4>1 DEF Frame
   <4>3. Execs(w, t) \in Executions BY <4>2 DEF IInv, TypeOK, WorkerStates, Jobs, Holds, Execs
   <4>4. Owns(j.exec, j.purchase) BY <3>1,<3>2 DEF Owns, Execs
   <4>5. Owns(Execs(w, t), j.purchase) BY <4>2 DEF Owns
   <4>6. Execs(w, t) = j.exec BY <3>1,<3>6,<4>3,<4>4,<4>5 DEF OwnersInv, OneOwner
   <4>7. s = t BY <3>1,<3>2,<4>2,<4>6 DEF ClaimsInv, IdsApart, Execs
   <4> QED BY <1>3,<3>1,<3>2,<4>2,<4>7 DEF ClaimsInv, OneWorkerPerSchedule, Holds
  <3>9. k1.pc = "advance" \/ (k1.pc = "inspect" /\ Advanced(k1, s)') => j.purchase # None /\ purchase'[j.purchase].status = "PAID"
   <4>1. k1.pc = "advance" \/ (k1.pc = "inspect" /\ Advanced(k1, s)') => j.purchase # None /\ purchase[j.purchase].status = "PAID"
     BY <2>1,<3>3 DEF Believes, Advanced
   <4>2. k1.pc = "inspect" => j.purchase \in Purchases BY <2>1 DEF WorkerOK
   <4>3. k1.pc = "advance" => j.purchase \in Purchases BY <2>1,<3>1 DEF Believes
   <4> QED BY <3>7,<4>1,<4>2,<4>3
  <3>10. Believes(k1)' BY <2>1,<3>4,<3>5,<3>8,<3>9 DEF Believes
  <3> QED BY <1>1,<1>3,<3>10 DEF Believes, Advanced
 <2> QED BY <2>2,<2>3
<1> QED BY <1>2,<1>3

\* The row a busy worker is at.
LEMMA RowHeld ==
  ASSUME IInv, ClaimsInv, NEW w \in Workers, worker[w].pc \notin {"idle", "plan"}
  PROVE  /\ worker[w] \in WorkerStates /\ worker[w].row \in Schedules /\ Job(w) \in Jobs
         /\ Holds(w, worker[w].row) /\ Job(w).exec \in Executions
         /\ Job(w) = worker[w].jobs[worker[w].row] /\ Job(w).exec = Execs(w, worker[w].row)
         /\ WorkerOK(worker[w], debit)
         /\ worker[w].pc \notin {"inspect", "retire"} => Claimed(worker[w], worker[w].row)
         /\ worker[w].pc = "inspect" => Claimed(worker[w], worker[w].row) \/ Advanced(worker[w], worker[w].row)
<1>1. worker[w] \in WorkerStates /\ worker[w].row \in Schedules /\ Job(w) \in Jobs /\ WorkerOK(worker[w], debit) BY BusyOK DEF IInv
<1>2. Job(w) = worker[w].jobs[worker[w].row] /\ Job(w).exec \in Executions /\ Job(w) # None BY <1>1, NoneAssumption DEF Job, Jobs
<1>3. Holds(w, worker[w].row) BY <1>2 DEF Holds
<1>4. Claimed(worker[w], worker[w].row) \/ Advanced(worker[w], worker[w].row) BY <1>1,<1>3 DEF ClaimsInv, HoldsFit, Fits, Holds
<1> QED BY <1>1,<1>2,<1>3,<1>4 DEF Advanced, Execs

\* Finishing the row drops it.
LEMMA FinishMoves ==
  ASSUME IInv, ClaimsInv, NEW w \in Workers, worker[w].pc \notin {"idle", "plan"}, NEW k, k = Finish(worker[w]),
      \A s \in Schedules \ {worker[w].row} : schedule'[s] = schedule[s]
  PROVE Keeps(w, k) /\ Fits(k)' /\ Believes(k)'
<1> PICK k1 : k1 = worker[w] OBVIOUS
<1>1. k1 \in WorkerStates /\ k1.row \in Schedules /\ Fits(k1) BY RowHeld DEF ClaimsInv, HoldsFit
<1>2. k.jobs = [k1.jobs EXCEPT ![k1.row] = None] /\ k.debited = FALSE /\ k.pc \in {"plan", "idle"} BY DEF Finish
<1>3. \A s \in Schedules : k.jobs[s] # None => s # k1.row /\ k.jobs[s] = k1.jobs[s] BY <1>1,<1>2 DEF WorkerStates
<1>4. Keeps(w, k) BY <1>3 DEF Keeps
<1>5. Fits(k)'
 <2> SUFFICES ASSUME NEW s \in Schedules, k.jobs[s] # None PROVE Claimed(k, s)' BY DEF Fits
 <2>1. s # k1.row /\ k1.jobs[s] = k.jobs[s] /\ schedule'[s] = schedule[s] BY <1>3
 <2>2. Claimed(k1, s) \/ Advanced(k1, s) BY <1>1,<2>1 DEF Fits
 <2> QED BY <2>1,<2>2 DEF Claimed, Advanced
<1>6. Believes(k)' BY <1>2 DEF Believes
<1> QED BY <1>4,<1>5,<1>6

\* Moving on in the same row.
LEMMA MoveFits ==
  ASSUME IInv, ClaimsInv, NEW w \in Workers, NEW k, k.jobs = worker[w].jobs, k.row = worker[w].row,
      UNCHANGED schedule, worker[w].pc \notin {"link", "retire", "inspect"} \/ k.pc = "retire"
  PROVE Keeps(w, k) /\ Fits(k)'
<1> PICK k1 : k1 = worker[w] OBVIOUS
<1>1. Fits(k1) BY DEF ClaimsInv, HoldsFit
<1>2. Keeps(w, k) BY DEF Keeps
<1>3. Fits(k)' BY <1>1 DEF Fits, Claimed, Advanced
<1> QED BY <1>2,<1>3

\* What a worker comes to believe, part by part.
LEMMA BelievesThen ==
  ASSUME NEW k, NEW j, j = k.jobs[k.row],
      k.debited => debit'[j.exec].purchase = j.purchase /\ k.pc \notin {"purchase", "link", "lookup", "check", "debit"},
      k.pc \in {"cancel", "refund", "enqueue"} => k.amount = debit'[j.exec].amount,
      k.pc = "advance" \/ (k.pc = "inspect" /\ Advanced(k, k.row)') => j.purchase # None /\ purchase'[j.purchase].status = "PAID",
      k.pc = "cancel" => purchase'[j.purchase].status # "PAID"
  PROVE Believes(k)' BY DEF Believes

\* ... by an exception.
LEMMA CatchMoves ==
  ASSUME IInv, ClaimsInv, BeliefsFit, NEW w \in Workers, worker[w].pc \notin {"idle", "plan"}, NEW k, k = Catch(worker[w]),
      UNCHANGED schedule, Frame(w)
  PROVE Keeps(w, k) /\ Fits(k)' /\ Believes(k)'
<1> PICK k1 : k1 = worker[w] OBVIOUS
<1>1. CASE k1.pc = "retire" BY <1>1, FinishMoves DEF Catch
<1>2. CASE k1.pc # "retire"
 <2>1. k1 \in WorkerStates /\ k1.row \in Schedules /\ Believes(k1) /\ WorkerOK(k1, debit) /\ k1.jobs[k1.row].exec \in Executions
   BY RowHeld DEF BeliefsFit
 <2>2. k = [k1 EXCEPT !.pc = Landing(k1)] BY <1>2 DEF Catch, Enter
 <2>3. /\ Landing(k1) \in {"inspect", "retire", "refund", "enqueue"}
       /\ Landing(k1) = "inspect" => k1.pc \in Forward /\ k1.jobs[k1.row].purchase # None
       /\ Landing(k1) = "refund" => k1.pc = "cancel"
       /\ Landing(k1) = "enqueue" => k1.pc = "refund"
       /\ k1.pc \in {"link", "inspect"} => Landing(k1) = "retire" \/ (k1.debited /\ k1.pc = "link")
  <3>1. CASE k1.pc \in Forward
   <4>1. Landing(k1) = IF k1.debited /\ k1.jobs[k1.row].purchase # None THEN "inspect" ELSE "retire" BY <3>1 DEF Landing
   <4>2. k1.pc \notin {"cancel", "refund", "inspect"} BY <3>1 DEF Forward
   <4>3. CASE k1.debited /\ k1.jobs[k1.row].purchase # None BY <3>1,<4>1,<4>2,<4>3
   <4>4. CASE ~(k1.debited /\ k1.jobs[k1.row].purchase # None)
    <5>1. Landing(k1) = "retire" BY <4>1,<4>4
    <5> QED BY <5>1
   <4> QED BY <4>3,<4>4
  <3>2. CASE k1.pc \notin Forward
   <4>1. Landing(k1) = IF k1.pc = "cancel" /\ k1.amount > 0 THEN "refund" ELSE IF k1.pc = "refund" THEN "enqueue" ELSE "retire" BY <3>2 DEF Landing
   <4>2. k1.pc # "link" BY <3>2 DEF Forward
   <4> HIDE <3>2
   <4> QED BY <4>1,<4>2
  <3> QED BY <3>1,<3>2
 <2>4. k.jobs = k1.jobs /\ k.row = k1.row /\ k.pc = Landing(k1) /\ k.debited = k1.debited /\ k.amount = k1.amount BY <2>1,<2>2 DEF WorkerStates
 <2>5. k1.pc = "link" => ~k1.debited BY <2>1 DEF Believes
 <2>6. Keeps(w, k) /\ Fits(k)' BY <1>2,<2>3,<2>4,<2>5, MoveFits
 <2>7. k.debited => debit'[k1.jobs[k1.row].exec] = debit[k1.jobs[k1.row].exec] BY <2>1,<2>4 DEF WorkerOK, Frame
 <2>8. k.pc = "inspect" => ~Advanced(k, k.row)'
  <3>1. k1.pc \in Forward => Claimed(k1, k1.row) BY RowHeld DEF Forward
  <3> QED BY <2>3,<2>4,<3>1 DEF Claimed, Advanced
 <2>9. k1.pc \in {"cancel", "refund"} => k1.debited BY <2>1 DEF WorkerOK
 <2>10. Believes(k)'
  <3> PICK j : j = k1.jobs[k1.row] OBVIOUS
  <3>1. j = k.jobs[k.row] BY <2>4
  <3>2. k1.debited => debit[j.exec].purchase = j.purchase BY <2>1 DEF Believes
  <3>3. k1.pc \in {"cancel", "refund"} => k1.amount = debit[j.exec].amount BY <2>1 DEF Believes
  <3>4. k.pc \in {"inspect", "retire", "refund", "enqueue"} BY <2>3,<2>4
  <3>5. k.pc \in {"refund", "enqueue"} => k1.pc \in {"cancel", "refund"} BY <2>3,<2>4
  <3>6. k.debited => debit'[j.exec] = debit[j.exec] BY <2>7
  <3>7. k.pc \in {"refund", "enqueue"} => k.amount = debit'[j.exec].amount BY <2>4,<2>9,<3>3,<3>5,<3>6
  <3>8. k.debited => debit'[j.exec].purchase = j.purchase BY <2>4,<3>2,<3>6
  <3> QED BY <2>8,<3>1,<3>4,<3>7,<3>8, BelievesThen
 <2> QED BY <2>6,<2>10
<1> QED BY <1>1,<1>2

\* Payments, refunds and compensations that are not touched.
LEMMA MoneyKept ==
  ASSUME CompensationIsExact, RefundIsExact, PaymentsFit, NEW w \in Workers, Frame(w), UNCHANGED <<orders, refund, compensation>>
  PROVE CompensationIsExact' /\ RefundIsExact' /\ PaymentsFit'
<1>1. \A e \in Executions : debit[e] # None => debit'[e] = debit[e] BY DEF Frame
<1>2. CompensationIsExact' BY <1>1 DEF CompensationIsExact
<1>3. RefundIsExact' BY <1>1 DEF RefundIsExact
<1>4. PaymentsFit' BY <1>1 DEF PaymentsFit, orders
<1> QED BY <1>2,<1>3,<1>4

\* The step of a worker, put together.
LEMMA QKept ==
  ASSUME IInv, QInv, NEW w \in Workers, NEW k, Become(w, k), Frame(w), Keeps(w, k), Fits(k)', Believes(k)',
      \A s \in Schedules, p \in Purchases : schedule'[s].purchase = p =>
        schedule[s].purchase = p \/ (Holds(w, s) /\ schedule'[s].exec = Execs(w, s) /\ worker[w].jobs[s].purchase = p),
      \A e \in Executions : debit'[e] # None => Owns(e, debit'[e].purchase), DebitIsLinked', CompensationIsExact', RefundIsExact', PaymentsFit'
  PROVE QInv'
<1>1. TypeOK /\ ClaimsInv /\ OwnersInv /\ BeliefsFit /\ worker' = [worker EXCEPT ![w] = k] BY DEF IInv, QInv, MoneyInv, Become
<1>2. \A s \in Schedules : k.jobs[s] # None => Holds(w, s) /\ k.jobs[s].exec = Execs(w, s) BY DEF Keeps, Holds, Execs
<1>3. ClaimsInv' BY <1>1,<1>2, ClaimsKept
<1>4. OwnersInv' BY <1>1, OwnersKept
<1>5. BeliefsFit' BY <1>1, BeliefsKept
<1> QED BY <1>3,<1>4,<1>5 DEF QInv, MoneyInv

\* ... when nothing but the worker moves.
LEMMA WorkerMoves ==
  ASSUME IInv, QInv, NEW w \in Workers, NEW k, Become(w, k), Keeps(w, k), Fits(k)', Believes(k)',
      UNCHANGED <<schedule, orders, debit, refund, compensation, issued>>
  PROVE QInv'
<1>1. Frame(w) BY FrameOfNothing DEF QInv, ClaimsInv, orders
<1>2. CompensationIsExact' /\ RefundIsExact' /\ PaymentsFit' BY <1>1, MoneyKept DEF QInv, MoneyInv
<1>3. DebitIsLinked' BY DEF QInv, OwnersInv, DebitIsLinked
<1>4. \A e \in Executions : debit'[e] # None => Owns(e, debit'[e].purchase) BY DEF Owns
<1>5. \A s \in Schedules, p \in Purchases : schedule'[s].purchase = p => schedule[s].purchase = p OBVIOUS
<1> QED BY <1>1,<1>2,<1>3,<1>4,<1>5, QKept

\* An exception, with nothing committed.
LEMMA Thrown ==
  ASSUME IInv, QInv, NEW w \in Workers, worker[w].pc \notin {"idle", "plan"}, Become(w, Catch(worker[w])),
      UNCHANGED <<schedule, orders, debit, refund, compensation, issued>>
  PROVE QInv'
<1> PICK k : k = Catch(worker[w]) OBVIOUS
<1>1. Frame(w) BY FrameOfNothing DEF QInv, ClaimsInv, orders
<1>2. Keeps(w, k) /\ Fits(k)' /\ Believes(k)' BY <1>1, CatchMoves DEF QInv, MoneyInv
<1> QED BY <1>2, WorkerMoves

------------------------
(* processDueRenewals under a claim. *)

LEMMA QReadPlan == ASSUME IInv, QInv, NEW w \in Workers, ReadPlan(w) PROVE QInv'
<1> PICK k1 : k1 = worker[w] OBVIOUS
<1>1. k1 \in WorkerStates /\ WorkerOK(k1, debit) /\ Fits(k1) /\ k1.pc = "plan" /\ ~k1.debited
  BY DEF IInv, TypeOK, WorkersOK, WorkerOK, QInv, ClaimsInv, HoldsFit, ReadPlan
<1>2. PICK s \in Schedules :
        LET kk == [k1 EXCEPT !.row = s] IN
        \/ Become(w, [kk EXCEPT !.pc = "purchase", !.amount = package.price])
        \/ Become(w, Catch(kk)) BY DEF ReadPlan
<1> PICK kk : kk = [k1 EXCEPT !.row = s] OBVIOUS
<1>3. PICK k \in {[kk EXCEPT !.pc = "purchase", !.amount = package.price], Catch(kk)} : Become(w, k) BY <1>2
<1>4. kk.pc = "plan" /\ ~kk.debited /\ kk.jobs = k1.jobs BY <1>1 DEF WorkerStates
<1>5. Catch(kk) = [kk EXCEPT !.pc = "retire"] BY <1>4 DEF Catch, Landing, Enter, Forward
<1>6. k.jobs = k1.jobs /\ ~k.debited /\ k.pc \in {"purchase", "retire"} BY <1>1,<1>3,<1>4,<1>5 DEF WorkerStates
<1>7. Keeps(w, k) BY <1>6 DEF Keeps
<1>8. Fits(k)'
 <2>1. UNCHANGED schedule BY DEF ReadPlan
 <2> QED BY <1>1,<1>6,<2>1 DEF Fits, Claimed, Advanced
<1>9. Believes(k)' BY <1>6 DEF Believes
<1> QED BY <1>3,<1>7,<1>8,<1>9, WorkerMoves DEF ReadPlan, ledger

\* A worker that goes on to another label of the same row.
LEMMA Entered ==
  ASSUME NEW k1 \in WorkerStates, NEW label, NEW k, k = Enter(k1, label)
  PROVE k.jobs = k1.jobs /\ k.row = k1.row /\ k.pc = label /\ k.debited = k1.debited /\ k.amount = k1.amount BY DEF Enter, WorkerStates

LEMMA QReadPurchase == ASSUME IInv, QInv, NEW w \in Workers, ReadPurchase(w) PROVE QInv'
<1> PICK k1 : k1 = worker[w] OBVIOUS
<1>0. ClaimsInv /\ BeliefsFit BY DEF QInv, MoneyInv
<1>1. k1.pc = "purchase" /\ Job(w).purchase # None /\ UNCHANGED <<schedule, orders, ledger, compensation, issued>> BY DEF ReadPurchase
<1>2. k1 \in WorkerStates /\ Job(w) = k1.jobs[k1.row] /\ Believes(k1) BY <1>0,<1>1, RowHeld DEF BeliefsFit
<1>3. ~k1.debited BY <1>1,<1>2 DEF Believes
<1>4. PICK label \in {"advance", "lookup"} :
        Become(w, Enter(k1, label)) /\ (label = "advance" => purchase[Job(w).purchase].status = "PAID") BY DEF ReadPurchase
<1> PICK k : k = Enter(k1, label) OBVIOUS
<1>5. k.jobs = k1.jobs /\ k.row = k1.row /\ k.pc = label /\ k.debited = k1.debited BY <1>2, Entered
<1>6. Keeps(w, k) /\ Fits(k)' BY <1>0,<1>1,<1>5, MoveFits
<1>7. Believes(k)' BY <1>1,<1>2,<1>3,<1>4,<1>5 DEF Believes, orders
<1> QED BY <1>1,<1>4,<1>6,<1>7, WorkerMoves DEF ledger

LEMMA QLookupDebit == ASSUME IInv, QInv, NEW w \in Workers, LookupDebit(w) PROVE QInv'
<1> PICK k1 : k1 = worker[w] OBVIOUS
<1>0. ClaimsInv /\ BeliefsFit /\ DebitIsLinked BY DEF QInv, MoneyInv, OwnersInv
<1>1. k1.pc = "lookup" /\ UNCHANGED <<schedule, orders, ledger, compensation, issued>> BY DEF LookupDebit
<1>2. k1 \in WorkerStates /\ Job(w) = k1.jobs[k1.row] /\ Believes(k1) /\ Claimed(k1, k1.row) /\ k1.row \in Schedules
      /\ Job(w).exec \in Executions BY <1>0,<1>1, RowHeld DEF BeliefsFit
<1>3. ~k1.debited BY <1>1,<1>2 DEF Believes
<1>4. CASE PriorDebit(w)
 <2> PICK k : k = [k1 EXCEPT !.debited = TRUE, !.pc = "confirm"] OBVIOUS
 <2>1. k.jobs = k1.jobs /\ k.row = k1.row /\ k.pc = "confirm" BY <1>2 DEF WorkerStates
 <2>2. Keeps(w, k) /\ Fits(k)' BY <1>0,<1>1,<2>1, MoveFits
 <2>3. debit[Job(w).exec].purchase = Job(w).purchase
  <3>1. schedule[k1.row].exec = Job(w).exec /\ schedule[k1.row].purchase = Job(w).purchase BY <1>1,<1>2 DEF Claimed
  <3>2. Job(w).exec # None BY <1>2, NoneAssumption
  <3> QED BY <1>0,<1>2,<1>4,<3>1,<3>2 DEF DebitIsLinked, PriorDebit
 <2>4. Believes(k)' BY <1>1,<1>2,<2>1,<2>3 DEF Believes, ledger
 <2>5. Become(w, k) BY <1>4 DEF LookupDebit
 <2> QED BY <1>1,<2>2,<2>4,<2>5, WorkerMoves DEF ledger
<1>5. CASE ~PriorDebit(w)
 <2> PICK k : k = Enter(k1, "check") OBVIOUS
 <2>1. k.jobs = k1.jobs /\ k.row = k1.row /\ k.pc = "check" /\ k.debited = k1.debited BY <1>2, Entered
 <2>2. Keeps(w, k) /\ Fits(k)' BY <1>0,<1>1,<2>1, MoveFits
 <2>3. Believes(k)' BY <1>3,<2>1 DEF Believes
 <2>4. Become(w, k) BY <1>5 DEF LookupDebit
 <2> QED BY <1>1,<2>2,<2>3,<2>4, WorkerMoves DEF ledger
<1> QED BY <1>4,<1>5

LEMMA QCheckWallet == ASSUME IInv, QInv, NEW w \in Workers, CheckWallet(w) PROVE QInv'
<1> PICK k1 : k1 = worker[w] OBVIOUS
<1>0. ClaimsInv /\ BeliefsFit BY DEF QInv, MoneyInv
<1>1. k1.pc = "check" /\ UNCHANGED <<schedule, orders, ledger, compensation, issued>> BY DEF CheckWallet
<1>2. k1 \in WorkerStates /\ Believes(k1) BY <1>0,<1>1, RowHeld DEF BeliefsFit
<1>3. CASE Become(w, Enter(k1, "debit"))
 <2> PICK k : k = Enter(k1, "debit") OBVIOUS
 <2>1. k.jobs = k1.jobs /\ k.row = k1.row /\ k.pc = "debit" /\ k.debited = k1.debited BY <1>2, Entered
 <2>2. Keeps(w, k) /\ Fits(k)' BY <1>0,<1>1,<2>1, MoveFits
 <2>3. Believes(k)' BY <1>1,<1>2,<2>1 DEF Believes
 <2> QED BY <1>1,<1>3,<2>2,<2>3, WorkerMoves DEF ledger
<1>4. CASE Become(w, Catch(k1)) BY <1>1,<1>4, Thrown DEF ledger
<1> QED BY <1>3,<1>4 DEF CheckWallet

LEMMA QStatementFails == ASSUME IInv, QInv, NEW w \in Workers, StatementFails(w) PROVE QInv' BY Thrown DEF StatementFails, ledger

LEMMA QWorkerCrashes == ASSUME IInv, QInv, NEW w \in Workers, WorkerCrashes(w) PROVE QInv'
<1> PICK k : k = Idle OBVIOUS
<1>1. \A s \in Schedules : k.jobs[s] = None BY DEF Idle
<1>2. k.pc = "idle" /\ ~k.debited BY DEF Idle
<1>3. Keeps(w, k) /\ Fits(k)' BY <1>1 DEF Keeps, Fits
<1>4. Believes(k)' BY <1>2 DEF Believes
<1> QED BY <1>3,<1>4, WorkerMoves DEF WorkerCrashes, ledger

\* PurchasesService.create: the new purchase has no owner yet.
LEMMA QCreatePurchase == ASSUME IInv, QInv, NEW w \in Workers, CreatePurchase(w) PROVE QInv'
<1> PICK k1 : k1 = worker[w] OBVIOUS
<1>0. ClaimsInv /\ BeliefsFit /\ OwnersInv /\ TypeOK /\ IdsIssued BY DEF QInv, MoneyInv, IInv, ClaimsInv
<1>1. k1.pc = "purchase" /\ Job(w).purchase = None
      /\ UNCHANGED <<schedule, settlement, cancellation, ledger, compensation, issued>> BY DEF CreatePurchase
<1>2. k1 \in WorkerStates /\ Believes(k1) /\ k1.row \in Schedules /\ Job(w) \in Jobs /\ Job(w) = k1.jobs[k1.row]
      /\ Holds(w, k1.row) /\ Job(w).exec \in Executions /\ Claimed(k1, k1.row) BY <1>0,<1>1, RowHeld DEF BeliefsFit
<1>3. ~k1.debited BY <1>1,<1>2 DEF Believes
<1>4. CASE ~package.active BY <1>1,<1>4, Thrown DEF CreatePurchase, ledger, orders
<1>5. CASE package.active
 <2>1. PICK p \in Purchases :
         /\ purchase[p].status = "ABSENT"
         /\ purchase' = [purchase EXCEPT ![p] = [status |-> "PENDING_PAYMENT", price  |-> package.price]]
         /\ Return(w, [k1 EXCEPT !.pc = "link", !.jobs[k1.row].purchase = p]) BY <1>5 DEF CreatePurchase
 <2>2. /\ purchase'[p].status = "PENDING_PAYMENT"
       /\ \A q \in Purchases \ {p} : purchase'[q] = purchase[q] BY <2>1 DEF TypeOK, IInv
 <2>3. Frame(w) BY <1>0,<1>1,<2>1,<2>2 DEF Frame, IdsIssued, ledger
 <2>4. CompensationIsExact' /\ RefundIsExact' BY <1>1 DEF QInv, MoneyInv, CompensationIsExact, RefundIsExact, ledger
 <2>5. PaymentsFit'
  <3>1. \A q \in Purchases : /\ purchase[q].status \in {"PAID", "CANCELED"} => purchase'[q].status = purchase[q].status
                             /\ purchase'[q].status = "PAID" => purchase[q].status = "PAID" BY <2>1,<2>2
  <3>2. PaymentsFit BY DEF QInv, MoneyInv
  <3>3. \A e \in Executions : /\ settlement[e] # None => settlement[e] \in Purchases
                              /\ cancellation[e] # None => cancellation[e] \in Purchases BY <1>0 DEF TypeOK
  <3>4. UNCHANGED <<settlement, cancellation, debit>> BY <1>1 DEF ledger
  <3> QED BY <3>1,<3>2,<3>3,<3>4 DEF PaymentsFit
 <2>6. DebitIsLinked' BY <1>0,<1>1 DEF OwnersInv, DebitIsLinked, ledger
 <2>7. CASE Become(w, Catch(k1))
  <3> PICK k : k = Catch(k1) OBVIOUS
  <3>1. Keeps(w, k) /\ Fits(k)' /\ Believes(k)' BY <1>0,<1>1,<2>3, CatchMoves
  <3>2. \A e \in Executions : debit'[e] # None => Owns(e, debit'[e].purchase) BY <1>1 DEF Owns, ledger
  <3>3. \A s \in Schedules, q \in Purchases : schedule'[s].purchase = q => schedule[s].purchase = q BY <1>1
  <3> QED BY <2>3,<2>4,<2>5,<2>6,<2>7,<3>1,<3>2,<3>3, QKept
 <2>8. CASE Become(w, [k1 EXCEPT !.pc = "link", !.jobs[k1.row].purchase = p])
  <3> PICK k : k = [k1 EXCEPT !.pc = "link", !.jobs[k1.row].purchase = p] OBVIOUS
  <3>1. /\ k.pc = "link" /\ k.row = k1.row /\ ~k.debited
        /\ \A s \in Schedules \ {k1.row} : k.jobs[s] = k1.jobs[s]
        /\ k.jobs[k1.row] # None /\ k.jobs[k1.row].exec = Job(w).exec /\ k.jobs[k1.row].purchase = p
   <4>1. k.jobs = [k1.jobs EXCEPT ![k1.row] = [Job(w) EXCEPT !.purchase = p]] BY <1>2 DEF WorkerStates
   <4>2. [Job(w) EXCEPT !.purchase = p] \in Jobs BY <1>2 DEF Jobs
   <4>3. k.jobs[k1.row] = [Job(w) EXCEPT !.purchase = p] /\ \A s \in Schedules \ {k1.row} : k.jobs[s] = k1.jobs[s] BY <1>2,<4>1 DEF WorkerStates
   <4>4. k.pc = "link" /\ k.row = k1.row /\ ~k.debited BY <1>2,<1>3 DEF WorkerStates
   <4> QED BY <1>2,<4>2,<4>3,<4>4, NoneAssumption DEF Jobs
  <3>2. \A s \in Schedules : k.jobs[s] # None => Holds(w, s) /\ k.jobs[s].exec = Execs(w, s)
   <4> SUFFICES ASSUME NEW s \in Schedules, k.jobs[s] # None PROVE Holds(w, s) /\ k.jobs[s].exec = Execs(w, s) OBVIOUS
   <4>1. CASE s = k1.row BY <1>2,<3>1,<4>1 DEF Execs
   <4>2. CASE s # k1.row BY <3>1,<4>2 DEF Holds, Execs
   <4> QED BY <4>1,<4>2
  <3>3. Fits(k)'
   <4> SUFFICES ASSUME NEW s \in Schedules, k.jobs[s] # None PROVE Claimed(k, s)' BY DEF Fits
   <4>0. schedule' = schedule BY <1>1
   <4>1. CASE s = k1.row
    <5>1. schedule[s].purchase = None /\ schedule[s].exec = Job(w).exec /\ schedule[s].status = "PROCESSING" /\ schedule[s].claim = "fresh"
      BY <1>1,<1>2,<4>1 DEF Claimed
    <5> QED BY <3>1,<4>0,<4>1,<5>1 DEF Claimed
   <4>2. CASE s # k1.row
    <5>1. Fits(k1) /\ k1.jobs[s] = k.jobs[s] BY <1>0,<3>1,<4>2 DEF ClaimsInv, HoldsFit
    <5> QED BY <4>0,<4>2,<5>1 DEF Fits, Claimed, Advanced
   <4> QED BY <4>1,<4>2
  <3>4. Believes(k)' BY <3>1 DEF Believes
  <3>5. worker' = [worker EXCEPT ![w] = k] BY <2>8 DEF Become
  <3>6. ClaimsInv' BY <1>0,<2>3,<3>2,<3>3,<3>5, ClaimsKept
  <3>7. BeliefsFit' BY <1>0,<2>3,<3>4,<3>5, BeliefsKept
  <3>8. \A d \in Executions : ~Owns(d, p) BY <1>0,<2>1 DEF OwnersInv, OwnersKnown
  <3>9. worker'[w] = k /\ \A v \in Workers \ {w} : worker'[v] = worker[v] BY <1>0,<3>5 DEF TypeOK
  <3>10. \A e \in Executions, q \in Purchases : Owns(e, q)' => Owns(e, q) \/ (q = p /\ e = Job(w).exec)
   <4> SUFFICES ASSUME NEW e \in Executions, NEW q \in Purchases, Owns(e, q)', ~Owns(e, q) PROVE q = p /\ e = Job(w).exec OBVIOUS
   <4>1. PICK v \in Workers, s \in Schedules : Holds(v, s)' /\ Execs(v, s)' = e /\ worker'[v].jobs[s].purchase = q BY <1>1 DEF Owns, ledger
   <4>2. v = w /\ s = k1.row
    <5> SUFFICES ASSUME ~(v = w /\ s = k1.row) PROVE FALSE OBVIOUS
    <5>1. worker'[v].jobs[s] = worker[v].jobs[s]
     <6>1. CASE v = w BY <3>1,<3>9,<6>1
     <6>2. CASE v # w BY <3>9,<6>2
     <6> QED BY <6>1,<6>2
    <5>2. Holds(v, s) /\ Execs(v, s) = e /\ worker[v].jobs[s].purchase = q BY <4>1,<5>1 DEF Holds, Execs
    <5> QED BY <5>2 DEF Owns
   <4> QED BY <3>1,<3>9,<4>1,<4>2 DEF Execs
  <3>11. OneOwner' BY <1>0,<3>8,<3>10 DEF OwnersInv, OneOwner
  <3>12. OwnersKnown' BY <1>0,<2>2,<2>3,<3>10 DEF OwnersInv, OwnersKnown, Frame
  <3> QED BY <2>4,<2>5,<2>6,<3>6,<3>7,<3>11,<3>12 DEF QInv, OwnersInv, MoneyInv
 <2> QED BY <2>1,<2>7,<2>8 DEF Return
<1> QED BY <1>4,<1>5

\* The row gets the purchase that the run already holds.
LEMMA QLinkPurchase == ASSUME IInv, QInv, NEW w \in Workers, LinkPurchase(w) PROVE QInv'
<1> PICK k1 : k1 = worker[w] OBVIOUS
<1> PICK s : s = k1.row OBVIOUS
<1> PICK p : p = Job(w).purchase OBVIOUS
<1>0. ClaimsInv /\ BeliefsFit /\ OwnersInv /\ TypeOK /\ IdsIssued /\ DebitIsLinked BY DEF QInv, MoneyInv, IInv, ClaimsInv, OwnersInv
<1>1. k1.pc = "link" /\ UNCHANGED <<orders, ledger, compensation, issued>> BY DEF LinkPurchase
<1>2. k1 \in WorkerStates /\ Believes(k1) /\ s \in Schedules /\ Job(w) = k1.jobs[s] /\ WorkerOK(k1, debit)
      /\ Holds(w, s) /\ Job(w).exec \in Executions /\ Claimed(k1, s) /\ Job(w).exec = Execs(w, s) BY <1>0,<1>1, RowHeld DEF BeliefsFit
<1>3. ~k1.debited /\ p \in Purchases BY <1>1,<1>2 DEF Believes, WorkerOK
<1>4. schedule' = [schedule EXCEPT ![s].purchase = p] BY <1>2 DEF LinkPurchase, Claimed
<1>5. /\ schedule'[s].purchase = p /\ schedule'[s].exec = schedule[s].exec /\ schedule'[s].status = schedule[s].status
      /\ schedule'[s].claim = schedule[s].claim
      /\ \A t \in Schedules \ {s} : schedule'[t] = schedule[t] BY <1>0,<1>2,<1>4 DEF TypeOK, ScheduleRows
<1>6. schedule[s].exec = Job(w).exec /\ Job(w).exec # None BY <1>2, NoneAssumption DEF Claimed
<1>7. Frame(w)
 <2>1. \A t \in Schedules : Holds(w, t) \/ schedule'[t] = schedule[t] BY <1>2,<1>5
 <2>2. \A t \in Schedules : /\ schedule'[t].exec = schedule[t].exec
                            /\ schedule'[t].exec = None => schedule'[t].purchase = None BY <1>0,<1>5,<1>6 DEF IdsIssued
 <2> QED BY <1>1,<2>1,<2>2 DEF Frame, ledger, orders
<1>8. PICK k : /\ Become(w, k)
               /\ k.jobs = k1.jobs /\ k.row = s /\ k.pc \in {"lookup", "retire"} /\ ~k.debited
 <2>1. Catch(k1) = Enter(k1, "retire") BY <1>1,<1>3 DEF Catch, Landing, Forward
 <2>2. Become(w, Enter(k1, "lookup")) \/ Become(w, Enter(k1, "retire")) BY <2>1 DEF LinkPurchase, Return
 <2> QED BY <1>2,<1>3,<2>2, Entered
<1>9. Keeps(w, k) BY <1>8 DEF Keeps
<1>10. Fits(k)'
 <2> SUFFICES ASSUME NEW t \in Schedules, k.jobs[t] # None PROVE Claimed(k, t)' BY DEF Fits
 <2>1. CASE t = s BY <1>2,<1>5,<1>8,<2>1 DEF Claimed
 <2>2. CASE t # s
  <3>1. Fits(k1) BY <1>0 DEF ClaimsInv, HoldsFit
  <3> QED BY <1>5,<1>8,<2>2,<3>1 DEF Fits, Claimed, Advanced
 <2> QED BY <2>1,<2>2
<1>11. Believes(k)' BY <1>8 DEF Believes
<1>12. \A t \in Schedules, q \in Purchases : schedule'[t].purchase = q =>
           schedule[t].purchase = q \/ (Holds(w, t) /\ schedule'[t].exec = Execs(w, t) /\ worker[w].jobs[t].purchase = q) BY <1>2,<1>5,<1>6
<1>13. DebitIsLinked'
 <2> SUFFICES ASSUME NEW t \in Schedules, schedule'[t].exec # None, debit[schedule'[t].exec] # None
   PROVE debit[schedule'[t].exec].purchase = schedule'[t].purchase BY <1>1 DEF DebitIsLinked, ledger
 <2>1. debit[schedule[t].exec].purchase = schedule[t].purchase /\ schedule'[t].exec = schedule[t].exec BY <1>0,<1>5 DEF DebitIsLinked
 <2>2. CASE t = s
  <3>1. debit[Job(w).exec].purchase \in Purchases BY <1>0,<1>2,<1>6,<2>1,<2>2 DEF TypeOK, Entries
  <3>2. schedule[s].purchase # None BY <1>6,<2>1,<2>2,<3>1, NoneAssumption
  <3>3. schedule[s].purchase = p BY <1>2,<3>2 DEF Claimed
  <3> QED BY <1>5,<2>1,<2>2,<3>3
 <2>3. CASE t # s BY <1>5,<2>1,<2>3
 <2> QED BY <2>2,<2>3
<1>14. \A e \in Executions : debit'[e] # None => Owns(e, debit'[e].purchase) BY <1>1 DEF Owns, ledger
<1>15. CompensationIsExact' /\ RefundIsExact' /\ PaymentsFit' BY <1>1,<1>7, MoneyKept DEF QInv, MoneyInv, ledger
<1> QED BY <1>7,<1>8,<1>9,<1>10,<1>11,<1>12,<1>13,<1>14,<1>15, QKept

\* The debit is of the purchase that the row is linked to.
LEMMA QDebitWallet == ASSUME IInv, QInv, NEW w \in Workers, DebitWallet(w) PROVE QInv'
<1> PICK k1 : k1 = worker[w] OBVIOUS
<1> PICK s : s = k1.row OBVIOUS
<1> PICK p : p = Job(w).purchase OBVIOUS
<1> PICK e : e = Job(w).exec OBVIOUS
<1>0. ClaimsInv /\ BeliefsFit /\ OwnersInv /\ TypeOK /\ IdsIssued /\ IdsApart /\ DebitIsLinked BY DEF QInv, MoneyInv, IInv, ClaimsInv, OwnersInv
<1>1. k1.pc = "debit" /\ UNCHANGED <<schedule, orders, refund, compensation, issued>> BY DEF DebitWallet
<1>2. k1 \in WorkerStates /\ Believes(k1) /\ s \in Schedules /\ Job(w) = k1.jobs[s] /\ WorkerOK(k1, debit)
      /\ Holds(w, s) /\ e \in Executions /\ Claimed(k1, s) /\ e = Execs(w, s) BY <1>0,<1>1, RowHeld DEF BeliefsFit
<1>3. ~k1.debited /\ p \in Purchases BY <1>1,<1>2 DEF Believes, WorkerOK
<1>4. CASE ~Debitable(w) BY <1>1,<1>4, Thrown DEF DebitWallet
<1>5. CASE Debitable(w)
 <2> PICK entry : entry = [amount |-> k1.amount, purchase |-> p] OBVIOUS
 <2>1. debit[e] = None /\ debit' = [debit EXCEPT ![e] = entry] BY <1>5 DEF DebitWallet, Debitable, PriorDebit
 <2>2. /\ debit'[e] = entry /\ entry.purchase = p
       /\ \A x \in Executions \ {e} : debit'[x] = debit[x] BY <1>0,<1>2,<2>1 DEF TypeOK
 <2>3. Frame(w)
  <3>1. e \in issued BY <1>0,<1>2 DEF IdsIssued
  <3> QED BY <1>0,<1>1,<2>1,<2>2,<3>1 DEF Frame, IdsIssued, orders
 <2>4. CompensationIsExact' /\ RefundIsExact' /\ PaymentsFit' BY <1>1,<2>3, MoneyKept DEF QInv, MoneyInv
 <2>5. DebitIsLinked'
  <3> SUFFICES ASSUME NEW t \in Schedules, schedule'[t].exec # None, debit'[schedule'[t].exec] # None
    PROVE debit'[schedule'[t].exec].purchase = schedule'[t].purchase BY DEF DebitIsLinked
  <3>0. schedule'[t] = schedule[t] /\ schedule[t].exec \in Executions BY <1>0,<1>1 DEF TypeOK, ScheduleRows
  <3>1. CASE schedule[t].exec = e
   <4>1. t = s BY <1>0,<1>2,<3>1 DEF IdsApart
   <4>2. schedule[s].purchase = p BY <1>1,<1>2 DEF Claimed
   <4> QED BY <2>2,<3>0,<3>1,<4>1,<4>2
  <3>2. CASE schedule[t].exec # e BY <1>0,<2>2,<3>0,<3>2 DEF DebitIsLinked
  <3> QED BY <3>1,<3>2
 <2>6. \A x \in Executions : debit'[x] # None => Owns(x, debit'[x].purchase)
  <3>1. Owns(e, p) BY <1>2 DEF Owns
  <3> QED BY <2>2,<3>1 DEF Owns
 <2>7. \A t \in Schedules, q \in Purchases : schedule'[t].purchase = q => schedule[t].purchase = q BY <1>1
 <2>8. CASE Become(w, Catch(k1))
  <3> PICK k : k = Catch(k1) OBVIOUS
  <3>1. Keeps(w, k) /\ Fits(k)' /\ Believes(k)' BY <1>0,<1>1,<2>3, CatchMoves
  <3> QED BY <2>3,<2>4,<2>5,<2>6,<2>7,<2>8,<3>1, QKept
 <2>9. CASE Become(w, [k1 EXCEPT !.debited = TRUE, !.pc = "confirm"])
  <3> PICK k : k = [k1 EXCEPT !.debited = TRUE, !.pc = "confirm"] OBVIOUS
  <3>1. k.jobs = k1.jobs /\ k.row = s /\ k.pc = "confirm" BY <1>2 DEF WorkerStates
  <3>2. Keeps(w, k) /\ Fits(k)' BY <1>0,<1>1,<3>1, MoveFits
  <3>3. k.jobs[k.row] = Job(w) /\ debit'[Job(w).exec].purchase = Job(w).purchase BY <1>2,<2>2,<3>1
  <3>4. Believes(k)' BY <3>1,<3>3, BelievesThen
  <3> QED BY <2>3,<2>4,<2>5,<2>6,<2>7,<2>9,<3>2,<3>4, QKept
 <2> QED BY <1>5,<2>8,<2>9 DEF DebitWallet, Return
<1> QED BY <1>4,<1>5

\* The purchase is paid by the execution that debited for it.
LEMMA QConfirmPayment == ASSUME IInv, QInv, NEW w \in Workers, ConfirmPayment(w) PROVE QInv'
<1> PICK k1 : k1 = worker[w] OBVIOUS
<1> PICK s : s = k1.row OBVIOUS
<1> PICK p : p = Job(w).purchase OBVIOUS
<1> PICK e : e = Job(w).exec OBVIOUS
<1>0. ClaimsInv /\ BeliefsFit /\ OwnersInv /\ TypeOK /\ IdsIssued /\ DebitIsLinked /\ PaymentsFit BY DEF QInv, MoneyInv, IInv, ClaimsInv, OwnersInv
<1>1. k1.pc = "confirm" /\ UNCHANGED <<schedule, cancellation, ledger, compensation, issued>> BY DEF ConfirmPayment
<1>2. k1 \in WorkerStates /\ Believes(k1) /\ s \in Schedules /\ Job(w) = k1.jobs[s] /\ WorkerOK(k1, debit)
      /\ Holds(w, s) /\ e \in Executions BY <1>0,<1>1, RowHeld DEF BeliefsFit
<1>3. k1.debited /\ p \in Purchases /\ debit[e] # None /\ debit[e].purchase = p BY <1>1,<1>2 DEF Believes, WorkerOK
<1>4. /\ PaymentsFit' /\ Frame(w)
      /\ Confirms(p, settlement[e], "PAID") => purchase'[p].status = "PAID"
 <2>1. CASE Inserts(p, settlement[e])
  <3>1. settlement' = [settlement EXCEPT ![e] = p] /\ purchase' = [purchase EXCEPT ![p].status = "PAID"]
        /\ purchase[p].status = "PENDING_PAYMENT" /\ settlement[e] = None BY <2>1 DEF ConfirmPayment, Inserts
  <3>2. /\ settlement'[e] = p /\ \A x \in Executions \ {e} : settlement'[x] = settlement[x]
        /\ purchase'[p].status = "PAID" /\ \A q \in Purchases \ {p} : purchase'[q] = purchase[q] BY <1>0,<1>2,<1>3,<3>1 DEF TypeOK, PurchaseRows
  <3>3. PaymentsFit'
   <4>0. UNCHANGED <<debit, cancellation>> BY <1>1 DEF ledger
   <4>1. \A x \in Executions : /\ settlement[x] # None => settlement[x] \in Purchases
                               /\ cancellation[x] # None => cancellation[x] \in Purchases BY <1>0 DEF TypeOK
   <4>2. \A x \in Executions : settlement'[x] # None =>
           debit[x] # None /\ settlement'[x] = debit[x].purchase /\ purchase'[settlement'[x]].status = "PAID"
    <5> SUFFICES ASSUME NEW x \in Executions, settlement'[x] # None
      PROVE debit[x] # None /\ settlement'[x] = debit[x].purchase /\ purchase'[settlement'[x]].status = "PAID" OBVIOUS
    <5>1. CASE x = e BY <1>3,<3>2,<5>1
    <5>2. CASE x # e
     <6>1. settlement'[x] = settlement[x] BY <3>2,<5>2
     <6>2. debit[x] # None /\ settlement[x] = debit[x].purchase /\ purchase[settlement[x]].status = "PAID" /\ settlement[x] \in Purchases
       BY <1>0,<4>1,<6>1 DEF PaymentsFit
     <6>3. purchase'[settlement[x]].status = "PAID" BY <3>2,<6>2
     <6> QED BY <6>1,<6>2,<6>3
    <5> QED BY <5>1,<5>2
   <4>3. \A x \in Executions : cancellation[x] # None =>
           debit[x] # None /\ cancellation[x] = debit[x].purchase /\ purchase'[cancellation[x]].status = "CANCELED"
    <5> SUFFICES ASSUME NEW x \in Executions, cancellation[x] # None
      PROVE debit[x] # None /\ cancellation[x] = debit[x].purchase /\ purchase'[cancellation[x]].status = "CANCELED" OBVIOUS
    <5>1. debit[x] # None /\ cancellation[x] = debit[x].purchase /\ purchase[cancellation[x]].status = "CANCELED" /\ cancellation[x] \in Purchases
      BY <1>0,<4>1 DEF PaymentsFit
    <5>2. cancellation[x] # p BY <3>1,<5>1
    <5> QED BY <3>2,<5>1,<5>2
   <4>4. \A q \in Purchases : purchase'[q].status = "PAID" => \E x \in Executions : settlement'[x] = q
    <5> SUFFICES ASSUME NEW q \in Purchases, purchase'[q].status = "PAID" PROVE \E x \in Executions : settlement'[x] = q OBVIOUS
    <5>1. CASE q = p BY <1>2,<3>2,<5>1
    <5>2. CASE q # p
     <6>1. PICK x \in Executions : settlement[x] = q BY <1>0,<3>2,<5>2 DEF PaymentsFit
     <6>2. settlement'[x] = q BY <1>0,<3>1,<3>2,<6>1, NoneAssumption
     <6> QED BY <6>2
    <5> QED BY <5>1,<5>2
   <4> QED BY <4>0,<4>2,<4>3,<4>4 DEF PaymentsFit
  <3>4. Frame(w)
   <4>1. \A q \in Purchases : /\ purchase[q].status # "ABSENT" => purchase'[q].status # "ABSENT"
                              /\ purchase[q].status = "PAID" => purchase'[q].status = "PAID"
                              /\ purchase'[q].status = "PAID" => purchase[q].status = "PAID" \/ q = p BY <3>1,<3>2
   <4>2. Holds(w, s) /\ worker[w].jobs[s].purchase = p BY <1>2
   <4> QED BY <1>0,<1>1,<1>2,<4>1,<4>2 DEF Frame, IdsIssued, ledger
  <3> QED BY <3>2,<3>3,<3>4
 <2>2. CASE ~Inserts(p, settlement[e])
  <3>1. UNCHANGED <<settlement, purchase>> BY <2>2 DEF ConfirmPayment
  <3>2. PaymentsFit' BY <1>0,<1>1,<3>1 DEF PaymentsFit, ledger
  <3>3. Frame(w) BY <1>0,<1>1,<3>1, FrameOfNothing DEF ledger
  <3>4. Confirms(p, settlement[e], "PAID") => purchase[p].status = "PAID"
   <4>1. settlement[e] # None => settlement[e] = p /\ purchase[p].status = "PAID" BY <1>0,<1>2,<1>3 DEF PaymentsFit
   <4> QED BY <2>2,<4>1 DEF Confirms, Inserts
  <3> QED BY <3>1,<3>2,<3>3,<3>4
 <2> QED BY <2>1,<2>2
<1>5. CompensationIsExact' /\ RefundIsExact' /\ DebitIsLinked'
  BY <1>0,<1>1 DEF QInv, MoneyInv, CompensationIsExact, RefundIsExact, DebitIsLinked, ledger
<1>6. \A x \in Executions : debit'[x] # None => Owns(x, debit'[x].purchase) BY <1>1 DEF Owns, ledger
<1>7. \A t \in Schedules, q \in Purchases : schedule'[t].purchase = q => schedule[t].purchase = q BY <1>1
<1>8. CASE Become(w, Catch(k1))
 <2> PICK k : k = Catch(k1) OBVIOUS
 <2>1. Keeps(w, k) /\ Fits(k)' /\ Believes(k)' BY <1>0,<1>1,<1>4, CatchMoves
 <2> QED BY <1>4,<1>5,<1>6,<1>7,<1>8,<2>1, QKept
<1>9. CASE Become(w, Enter(k1, "advance")) /\ Confirms(p, settlement[e], "PAID")
 <2> PICK k : k = Enter(k1, "advance") OBVIOUS
 <2>1. k.jobs = k1.jobs /\ k.row = s /\ k.pc = "advance" /\ k.debited = k1.debited BY <1>2, Entered
 <2>2. Keeps(w, k) /\ Fits(k)' BY <1>0,<1>1,<2>1, MoveFits
 <2>3. Believes(k)'
  <3>1. purchase'[p].status = "PAID" /\ p # None BY <1>3,<1>4,<1>9, NoneAssumption
  <3>2. debit' = debit BY <1>1 DEF ledger
  <3>3. k.jobs[k.row].purchase = p /\ k.jobs[k.row].exec = e BY <1>2,<2>1
  <3> QED BY <1>3,<2>1,<3>1,<3>2,<3>3 DEF Believes
 <2> QED BY <1>4,<1>5,<1>6,<1>7,<1>9,<2>2,<2>3, QKept
<1> QED BY <1>8,<1>9 DEF ConfirmPayment, Return

LEMMA QAdvanceSchedule == ASSUME IInv, QInv, NEW w \in Workers, AdvanceSchedule(w) PROVE QInv'
<1> PICK k1 : k1 = worker[w] OBVIOUS
<1> PICK s : s = k1.row OBVIOUS
<1>0. ClaimsInv /\ BeliefsFit /\ OwnersInv /\ TypeOK /\ IdsIssued /\ DebitIsLinked BY DEF QInv, MoneyInv, IInv, ClaimsInv, OwnersInv
<1>1. k1.pc = "advance" /\ UNCHANGED <<orders, ledger, compensation, issued>> BY DEF AdvanceSchedule
<1>2. k1 \in WorkerStates /\ Believes(k1) /\ s \in Schedules /\ Job(w) = k1.jobs[s] /\ Holds(w, s) /\ Claimed(k1, s)
      /\ Job(w).exec \in Executions /\ WorkerOK(k1, debit) BY <1>0,<1>1, RowHeld DEF BeliefsFit
<1> PICK next : next = [status |-> "ACTIVE", due |-> FALSE, claim |-> "none", failures |-> 0, exec |-> None, purchase |-> None] OBVIOUS
<1>3. schedule' = [schedule EXCEPT ![s] = next] BY <1>2 DEF AdvanceSchedule, Claimed
<1>4. schedule'[s] = next /\ \A t \in Schedules \ {s} : schedule'[t] = schedule[t] BY <1>0,<1>2,<1>3 DEF TypeOK
<1>5. Frame(w)
 <2>1. \A t \in Schedules : Holds(w, t) \/ schedule'[t] = schedule[t] BY <1>2,<1>4
 <2>2. \A t \in Schedules : /\ schedule'[t].exec = schedule[t].exec \/ schedule'[t].exec = None
                            /\ schedule'[t].exec = None => schedule'[t].purchase = None BY <1>0,<1>4 DEF IdsIssued
 <2> QED BY <1>1,<2>1,<2>2 DEF Frame, ledger, orders
<1>6. DebitIsLinked' BY <1>0,<1>1,<1>4 DEF DebitIsLinked, ledger
<1>7. \A e \in Executions : debit'[e] # None => Owns(e, debit'[e].purchase) BY <1>1 DEF Owns, ledger
<1>8. \A t \in Schedules, q \in Purchases : schedule'[t].purchase = q => schedule[t].purchase = q BY <1>4, NoneAssumption
<1>9. CompensationIsExact' /\ RefundIsExact' /\ PaymentsFit' BY <1>1,<1>5, MoneyKept DEF QInv, MoneyInv, ledger
<1>10. CASE Become(w, Finish(k1))
 <2> PICK k : k = Finish(k1) OBVIOUS
 <2>1. Keeps(w, k) /\ Fits(k)' /\ Believes(k)' BY <1>0,<1>1,<1>4, FinishMoves
 <2> QED BY <1>5,<1>6,<1>7,<1>8,<1>9,<1>10,<2>1, QKept
<1>11. CASE Become(w, Catch(k1))
 <2> PICK label : label = Landing(k1) OBVIOUS
 <2> PICK k : k = Enter(k1, label) OBVIOUS
 <2>1. Catch(k1) = k BY <1>1 DEF Catch
 <2>2. k.jobs = k1.jobs /\ k.row = s /\ k.pc = label /\ k.debited = k1.debited /\ k.amount = k1.amount BY <1>2, Entered
 <2>3. label \in {"inspect", "retire"} BY <1>1 DEF Landing, Forward
 <2>4. Keeps(w, k) BY <2>2 DEF Keeps
 <2>5. Fits(k)'
  <3> SUFFICES ASSUME NEW t \in Schedules, k.jobs[t] # None PROVE (Claimed(k, t) \/ Advanced(k, t))' BY DEF Fits
  <3>1. CASE t = s BY <1>4,<2>2,<2>3,<3>1 DEF Advanced
  <3>2. CASE t # s
   <4>1. Fits(k1) BY <1>0 DEF ClaimsInv, HoldsFit
   <4> QED BY <1>4,<2>2,<3>2,<4>1 DEF Fits, Claimed, Advanced
  <3> QED BY <3>1,<3>2
 <2>6. Believes(k)'
  <3> PICK j : j = k1.jobs[s] OBVIOUS
  <3>1. j = k.jobs[k.row] BY <2>2
  <3>2. k.debited => debit'[j.exec].purchase = j.purchase BY <1>1,<1>2,<2>2 DEF Believes, ledger
  <3>3. j.purchase # None /\ purchase[j.purchase].status = "PAID" BY <1>1,<1>2 DEF Believes
  <3>4. purchase'[j.purchase].status = "PAID" BY <1>1,<3>3 DEF orders
  <3> QED BY <2>2,<2>3,<3>1,<3>2,<3>3,<3>4, BelievesThen
 <2> QED BY <1>5,<1>6,<1>7,<1>8,<1>9,<1>11,<2>1,<2>4,<2>5,<2>6, QKept
<1> QED BY <1>10,<1>11 DEF AdvanceSchedule, Return

\* The handler finds the debit of its own execution: no other is of that purchase.
LEMMA QInspectPurchase == ASSUME IInv, QInv, NEW w \in Workers, InspectPurchase(w) PROVE QInv'
<1> PICK k1 : k1 = worker[w] OBVIOUS
<1> PICK s : s = k1.row OBVIOUS
<1> PICK p : p = Job(w).purchase OBVIOUS
<1> PICK e : e = Job(w).exec OBVIOUS
<1>0. ClaimsInv /\ BeliefsFit /\ OwnersInv /\ TypeOK BY DEF QInv, MoneyInv, IInv
<1>1. k1.pc = "inspect" /\ UNCHANGED <<schedule, orders, ledger, compensation, issued>> BY DEF InspectPurchase
<1>2. k1 \in WorkerStates /\ Believes(k1) /\ s \in Schedules /\ Job(w) = k1.jobs[s] /\ WorkerOK(k1, debit)
      /\ Holds(w, s) /\ e \in Executions /\ (Claimed(k1, s) \/ Advanced(k1, s)) /\ Fits(k1) BY <1>0,<1>1, RowHeld DEF BeliefsFit, ClaimsInv, HoldsFit
<1>3. k1.debited /\ p \in Purchases /\ debit[e] # None /\ debit[e].purchase = p BY <1>1,<1>2 DEF Believes, WorkerOK
<1>4. CASE Settled(p)
 <2> PICK k : k = Enter(k1, "retire") OBVIOUS
 <2>1. k.jobs = k1.jobs /\ k.row = s /\ k.pc = "retire" /\ k.debited = k1.debited BY <1>2, Entered
 <2>2. Keeps(w, k) /\ Fits(k)' BY <1>0,<1>1,<2>1, MoveFits
 <2>3. Believes(k)'
  <3> PICK j : j = k1.jobs[s] OBVIOUS
  <3>1. j = k.jobs[k.row] BY <2>1
  <3>2. k.debited => debit'[j.exec].purchase = j.purchase BY <1>1,<1>2,<2>1 DEF Believes, ledger
  <3> QED BY <2>1,<3>1,<3>2, BelievesThen
 <2>4. Become(w, k) BY <1>4 DEF InspectPurchase
 <2> QED BY <1>1,<2>2,<2>3,<2>4, WorkerMoves DEF ledger
<1>5. CASE ~Settled(p)
 <2>1. PICK amount \in {debit[x].amount : x \in {y \in Executions : debit[y] # None /\ debit[y].purchase = p}} :
         Become(w, [k1 EXCEPT !.pc = "cancel", !.amount = amount])
  <3> PICK charged : charged = {debit[x].amount : x \in {y \in Executions : debit[y] # None /\ debit[y].purchase = p}} OBVIOUS
  <3>1. debit[e].amount \in charged BY <1>2,<1>3
  <3>2. \E amount \in IF charged = {} THEN {0} ELSE charged : Become(w, [k1 EXCEPT !.pc = "cancel", !.amount = amount]) BY <1>5 DEF InspectPurchase
  <3> QED BY <3>1,<3>2
 <2>2. PICK x \in Executions : debit[x] # None /\ debit[x].purchase = p /\ amount = debit[x].amount BY <2>1
 <2>3. x = e
  <3>1. Owns(x, p) /\ Owns(e, p) BY <1>3,<2>2 DEF Owns
  <3> QED BY <1>0,<1>2,<1>3,<3>1 DEF OwnersInv, OneOwner
 <2> PICK k : k = [k1 EXCEPT !.pc = "cancel", !.amount = amount] OBVIOUS
 <2>4. k.jobs = k1.jobs /\ k.row = s /\ k.pc = "cancel" /\ k.debited = k1.debited /\ k.amount = amount BY <1>2 DEF WorkerStates
 <2>5. ~Advanced(k1, s) BY <1>1,<1>2,<1>5 DEF Believes, Settled
 <2>6. Keeps(w, k) BY <2>4 DEF Keeps
 <2>7. Fits(k)' BY <1>1,<1>2,<2>4,<2>5 DEF Fits, Claimed, Advanced
 <2>8. Believes(k)'
  <3> PICK j : j = k1.jobs[s] OBVIOUS
  <3>1. j = k.jobs[k.row] /\ j.exec = e /\ j.purchase = p BY <1>2,<2>4
  <3>2. debit'[j.exec] = debit[e] BY <1>1,<3>1 DEF ledger
  <3>3. purchase'[j.purchase].status # "PAID" BY <1>1,<1>5,<3>1 DEF Settled, orders
  <3>4. k.amount = debit'[j.exec].amount BY <2>2,<2>3,<2>4,<3>2
  <3>5. debit'[j.exec].purchase = j.purchase BY <1>3,<3>1,<3>2
  <3>6. j = k.jobs[k.row] /\ k.pc = "cancel" BY <2>4,<3>1
  <3> QED BY ONLY <3>3,<3>4,<3>5,<3>6, BelievesThen
 <2> QED BY <1>1,<2>1,<2>6,<2>7,<2>8, WorkerMoves DEF ledger
<1> QED BY <1>4,<1>5

LEMMA QCancelPurchase == ASSUME IInv, QInv, NEW w \in Workers, CancelPurchase(w) PROVE QInv'
<1> PICK k1 : k1 = worker[w] OBVIOUS
<1> PICK s : s = k1.row OBVIOUS
<1> PICK p : p = Job(w).purchase OBVIOUS
<1> PICK e : e = Job(w).exec OBVIOUS
<1>0. ClaimsInv /\ BeliefsFit /\ OwnersInv /\ TypeOK /\ IdsIssued /\ DebitIsLinked /\ PaymentsFit BY DEF QInv, MoneyInv, IInv, ClaimsInv, OwnersInv
<1>1. k1.pc = "cancel" /\ UNCHANGED <<schedule, settlement, ledger, compensation, issued>> /\ Become(w, Catch(k1)) BY DEF CancelPurchase
<1>2. k1 \in WorkerStates /\ Believes(k1) /\ s \in Schedules /\ Job(w) = k1.jobs[s] /\ WorkerOK(k1, debit)
      /\ Holds(w, s) /\ e \in Executions BY <1>0,<1>1, RowHeld DEF BeliefsFit
<1>3. k1.debited /\ p \in Purchases /\ debit[e] # None /\ debit[e].purchase = p BY <1>1,<1>2 DEF Believes, WorkerOK
<1>4. CASE ~Inserts(p, cancellation[e]) BY <1>1,<1>4, Thrown DEF CancelPurchase, ledger, orders
<1>5. CASE Inserts(p, cancellation[e])
 <2>1. cancellation' = [cancellation EXCEPT ![e] = p] /\ purchase' = [purchase EXCEPT ![p].status = "CANCELED"]
       /\ purchase[p].status = "PENDING_PAYMENT" /\ cancellation[e] = None BY <1>5 DEF CancelPurchase, Inserts
 <2>2. /\ cancellation'[e] = p /\ \A x \in Executions \ {e} : cancellation'[x] = cancellation[x]
       /\ purchase'[p].status = "CANCELED" /\ \A q \in Purchases \ {p} : purchase'[q] = purchase[q]
   BY <1>0,<1>2,<1>3,<2>1 DEF TypeOK, PurchaseRows
 <2>3. PaymentsFit'
  <3>0. UNCHANGED <<debit, settlement>> BY <1>1 DEF ledger
  <3>1. \A x \in Executions : /\ settlement[x] # None => settlement[x] \in Purchases
                              /\ cancellation[x] # None => cancellation[x] \in Purchases BY <1>0 DEF TypeOK
  <3>2. \A x \in Executions : settlement[x] # None =>
          debit[x] # None /\ settlement[x] = debit[x].purchase /\ purchase'[settlement[x]].status = "PAID"
   <4> SUFFICES ASSUME NEW x \in Executions, settlement[x] # None
     PROVE debit[x] # None /\ settlement[x] = debit[x].purchase /\ purchase'[settlement[x]].status = "PAID" OBVIOUS
   <4>1. debit[x] # None /\ settlement[x] = debit[x].purchase /\ purchase[settlement[x]].status = "PAID" /\ settlement[x] \in Purchases
     BY <1>0,<3>1 DEF PaymentsFit
   <4>2. settlement[x] # p BY <2>1,<4>1
   <4> QED BY <2>2,<4>1,<4>2
  <3>3. \A x \in Executions : cancellation'[x] # None =>
          debit[x] # None /\ cancellation'[x] = debit[x].purchase /\ purchase'[cancellation'[x]].status = "CANCELED"
   <4> SUFFICES ASSUME NEW x \in Executions, cancellation'[x] # None
     PROVE debit[x] # None /\ cancellation'[x] = debit[x].purchase /\ purchase'[cancellation'[x]].status = "CANCELED" OBVIOUS
   <4>1. CASE x = e BY <1>3,<2>2,<4>1
   <4>2. CASE x # e
    <5>1. cancellation'[x] = cancellation[x] BY <2>2,<4>2
    <5>2. debit[x] # None /\ cancellation[x] = debit[x].purchase /\ purchase[cancellation[x]].status = "CANCELED" /\ cancellation[x] \in Purchases
      BY <1>0,<3>1,<5>1 DEF PaymentsFit
    <5>3. purchase'[cancellation[x]].status = "CANCELED" BY <2>2,<5>2
    <5> QED BY <5>1,<5>2,<5>3
   <4> QED BY <4>1,<4>2
  <3>4. \A q \in Purchases : purchase'[q].status = "PAID" => \E x \in Executions : settlement[x] = q BY <1>0,<2>2 DEF PaymentsFit
  <3> QED BY <3>0,<3>2,<3>3,<3>4 DEF PaymentsFit
 <2>4. Frame(w)
  <3>1. \A q \in Purchases : /\ purchase[q].status # "ABSENT" => purchase'[q].status # "ABSENT"
                             /\ purchase[q].status = "PAID" => purchase'[q].status = "PAID"
                             /\ purchase'[q].status = "PAID" => purchase[q].status = "PAID" BY <2>1,<2>2
  <3> QED BY <1>0,<1>1,<3>1 DEF Frame, IdsIssued, ledger
 <2>5. CompensationIsExact' /\ RefundIsExact' /\ DebitIsLinked'
   BY <1>0,<1>1 DEF QInv, MoneyInv, CompensationIsExact, RefundIsExact, DebitIsLinked, ledger
 <2>6. \A x \in Executions : debit'[x] # None => Owns(x, debit'[x].purchase) BY <1>1 DEF Owns, ledger
 <2>7. \A t \in Schedules, q \in Purchases : schedule'[t].purchase = q => schedule[t].purchase = q BY <1>1
 <2> PICK k : k = Catch(k1) OBVIOUS
 <2>8. Keeps(w, k) /\ Fits(k)' /\ Believes(k)' BY <1>0,<1>1,<2>4, CatchMoves
 <2> QED BY <1>1,<2>3,<2>4,<2>5,<2>6,<2>7,<2>8, QKept
<1> QED BY <1>4,<1>5

\* A refund of what the execution's debit says, whoever makes it.
LEMMA RefundsExactly ==
  ASSUME IInv, RefundIsExact, NEW e \in Executions, debit[e] # None, Refunds(e, debit[e].amount, debit[e].purchase)
  PROVE RefundIsExact' /\ UNCHANGED debit
<1>1. CASE refund[e] # None BY <1>1 DEF Refunds, ledger, RefundIsExact
<1>2. CASE refund[e] = None
 <2>1. refund' = [refund EXCEPT ![e] = [amount |-> debit[e].amount, purchase |-> debit[e].purchase]] /\ debit' = debit BY <1>2 DEF Refunds
 <2>2. debit[e] \in Entries BY DEF IInv, TypeOK
 <2>3. [amount |-> debit[e].amount, purchase |-> debit[e].purchase] = debit[e] BY <2>2 DEF Entries
 <2>4. refund \in [Executions -> Entries \cup {None}] BY DEF IInv, TypeOK
 <2>5. refund'[e] = debit[e] /\ \A x \in Executions \ {e} : refund'[x] = refund[x] BY <2>1,<2>3,<2>4
 <2>6. RefundIsExact' BY <2>1,<2>5 DEF RefundIsExact
 <2> QED BY <2>1,<2>6
<1> QED BY <1>1,<1>2

LEMMA QRefundDebit == ASSUME IInv, QInv, NEW w \in Workers, RefundDebit(w) PROVE QInv'
<1> PICK k1 : k1 = worker[w] OBVIOUS
<1> PICK s : s = k1.row OBVIOUS
<1> PICK p : p = Job(w).purchase OBVIOUS
<1> PICK e : e = Job(w).exec OBVIOUS
<1>0. ClaimsInv /\ BeliefsFit /\ OwnersInv /\ TypeOK /\ IdsIssued /\ DebitIsLinked /\ PaymentsFit /\ RefundIsExact
  BY DEF QInv, MoneyInv, IInv, ClaimsInv, OwnersInv
<1>1. k1.pc = "refund" /\ UNCHANGED <<schedule, orders, compensation, issued>> BY DEF RefundDebit
<1>2. k1 \in WorkerStates /\ Believes(k1) /\ s \in Schedules /\ Job(w) = k1.jobs[s] /\ WorkerOK(k1, debit)
      /\ Holds(w, s) /\ e \in Executions BY <1>0,<1>1, RowHeld DEF BeliefsFit
<1>3. k1.debited /\ debit[e] # None /\ debit[e].purchase = p /\ k1.amount = debit[e].amount BY <1>1,<1>2 DEF Believes, WorkerOK
<1>4. CASE ~wallet.active BY <1>1,<1>4, Thrown DEF RefundDebit, ledger
<1>5. CASE wallet.active
 <2>1. Refunds(e, debit[e].amount, debit[e].purchase) BY <1>3,<1>5 DEF RefundDebit
 <2>2. RefundIsExact' /\ UNCHANGED debit BY <1>0,<1>2,<1>3,<2>1, RefundsExactly
 <2>3. Frame(w) BY <1>0,<1>1,<2>2, FrameOfNothing DEF orders
 <2>4. PaymentsFit' BY <1>0,<1>1,<2>2 DEF PaymentsFit, orders
 <2>5. CompensationIsExact' BY <1>1,<2>2 DEF QInv, MoneyInv, CompensationIsExact
 <2>6. DebitIsLinked' BY <1>0,<1>1,<2>2 DEF DebitIsLinked
 <2>7. \A x \in Executions : debit'[x] # None => Owns(x, debit'[x].purchase) BY <2>2 DEF Owns
 <2>8. \A t \in Schedules, q \in Purchases : schedule'[t].purchase = q => schedule[t].purchase = q BY <1>1
 <2>9. PICK k \in {Enter(k1, "retire"), Catch(k1)} : Become(w, k) BY <1>5 DEF RefundDebit, Return
 <2>10. Keeps(w, k) /\ Fits(k)' /\ Believes(k)'
  <3>1. CASE k = Catch(k1) BY <1>0,<1>1,<2>3,<3>1, CatchMoves
  <3>2. CASE k = Enter(k1, "retire")
   <4>1. k.jobs = k1.jobs /\ k.row = s /\ k.pc = "retire" /\ k.debited = k1.debited BY <1>2,<3>2, Entered
   <4>2. Keeps(w, k) /\ Fits(k)' BY <1>0,<1>1,<4>1, MoveFits
   <4>3. Believes(k)' BY <1>1,<1>2,<2>2,<4>1 DEF Believes
   <4> QED BY <4>2,<4>3
  <3> QED BY <2>9,<3>1,<3>2
 <2> QED BY <2>2,<2>3,<2>4,<2>5,<2>6,<2>7,<2>8,<2>9,<2>10, QKept
<1> QED BY <1>4,<1>5

LEMMA QEnqueueCompensation == ASSUME IInv, QInv, NEW w \in Workers, EnqueueCompensation(w) PROVE QInv'
<1> PICK k1 : k1 = worker[w] OBVIOUS
<1> PICK s : s = k1.row OBVIOUS
<1> PICK p : p = Job(w).purchase OBVIOUS
<1> PICK e : e = Job(w).exec OBVIOUS
<1>0. ClaimsInv /\ BeliefsFit /\ OwnersInv /\ TypeOK /\ IdsIssued /\ DebitIsLinked /\ PaymentsFit /\ RefundIsExact /\ CompensationIsExact
  BY DEF QInv, MoneyInv, IInv, ClaimsInv, OwnersInv
<1>1. k1.pc = "enqueue" /\ UNCHANGED <<schedule, orders, ledger, issued>> BY DEF EnqueueCompensation
<1>2. k1 \in WorkerStates /\ Believes(k1) /\ s \in Schedules /\ Job(w) = k1.jobs[s] /\ WorkerOK(k1, debit)
      /\ Holds(w, s) /\ e \in Executions BY <1>0,<1>1, RowHeld DEF BeliefsFit
<1>3. k1.debited /\ debit[e] # None /\ debit[e].purchase = p /\ k1.amount = debit[e].amount BY <1>1,<1>2 DEF Believes, WorkerOK
<1>4. CompensationIsExact'
 <2>1. PICK old : old = compensation[e] OBVIOUS
 <2>2. PICK new : new = IF old.status = "ABSENT"
                          THEN [NoCompensation EXCEPT !.status = "PENDING", !.amount = k1.amount, !.purchase = p]
                          ELSE [old EXCEPT !.status = "PENDING", !.stale = FALSE] OBVIOUS
 <2>3. compensation' = [compensation EXCEPT ![e] = new] BY <2>1,<2>2 DEF EnqueueCompensation
 <2>4. compensation'[e] = new /\ \A x \in Executions \ {e} : compensation'[x] = compensation[x] BY <1>0,<1>2,<2>3 DEF TypeOK
 <2>5. new.amount = debit[e].amount /\ new.purchase = debit[e].purchase
  <3>1. CASE old.status = "ABSENT" BY <1>3,<2>2,<3>1 DEF NoCompensation
  <3>2. CASE old.status # "ABSENT"
   <4>1. old \in CompensationRows BY <1>0,<1>2,<2>1 DEF TypeOK
   <4>2. old.amount = debit[e].amount /\ old.purchase = debit[e].purchase BY <1>0,<1>2,<2>1,<3>2 DEF CompensationIsExact
   <4> QED BY <2>2,<3>2,<4>1,<4>2 DEF CompensationRows
  <3> QED BY <3>1,<3>2
 <2> QED BY <1>0,<1>1,<1>3,<2>4,<2>5 DEF CompensationIsExact, ledger
<1>5. Frame(w) BY <1>0,<1>1, FrameOfNothing DEF orders, ledger
<1>6. PaymentsFit' /\ RefundIsExact' /\ DebitIsLinked' BY <1>0,<1>1 DEF PaymentsFit, RefundIsExact, DebitIsLinked, orders, ledger
<1>7. \A x \in Executions : debit'[x] # None => Owns(x, debit'[x].purchase) BY <1>1 DEF Owns, ledger
<1>8. \A t \in Schedules, q \in Purchases : schedule'[t].purchase = q => schedule[t].purchase = q BY <1>1
<1>9. PICK k \in {Enter(k1, "retire"), Catch(k1)} : Become(w, k) BY DEF EnqueueCompensation, Return
<1>10. Keeps(w, k) /\ Fits(k)' /\ Believes(k)'
 <2>1. CASE k = Catch(k1) BY <1>0,<1>1,<1>5,<2>1, CatchMoves
 <2>2. CASE k = Enter(k1, "retire")
  <3>1. k.jobs = k1.jobs /\ k.row = s /\ k.pc = "retire" /\ k.debited = k1.debited BY <1>2,<2>2, Entered
  <3>2. Keeps(w, k) /\ Fits(k)' BY <1>0,<1>1,<3>1, MoveFits
  <3>3. Believes(k)' BY <1>1,<1>2,<3>1 DEF Believes, ledger
  <3> QED BY <3>2,<3>3
 <2> QED BY <1>9,<2>1,<2>2
<1> QED BY <1>4,<1>5,<1>6,<1>7,<1>8,<1>9,<1>10, QKept

LEMMA QRetireAttempt == ASSUME IInv, QInv, NEW w \in Workers, RetireAttempt(w) PROVE QInv'
<1> PICK k1 : k1 = worker[w] OBVIOUS
<1> PICK s : s = k1.row OBVIOUS
<1>0. ClaimsInv /\ BeliefsFit /\ OwnersInv /\ TypeOK /\ IdsIssued /\ DebitIsLinked BY DEF QInv, MoneyInv, IInv, ClaimsInv, OwnersInv
<1>1. k1.pc = "retire" /\ UNCHANGED <<orders, ledger, compensation, issued>> BY DEF RetireAttempt
<1>2. k1 \in WorkerStates /\ s \in Schedules /\ Holds(w, s) BY <1>0,<1>1, RowHeld
<1>3. /\ \A t \in Schedules \ {s} : schedule'[t] = schedule[t]
      /\ schedule'[s].exec = schedule[s].exec /\ schedule'[s].purchase = schedule[s].purchase
 <2>1. CASE schedule[s].status = "PROCESSING"
  <3> PICK old : old = schedule[s] OBVIOUS
  <3> PICK to : to = IF schedule[s].failures + 1 >= FailureLimit THEN "FAILED" ELSE "ACTIVE" OBVIOUS
  <3> PICK new : new = [old EXCEPT !.failures = @ + 1, !.claim = "none", !.status = to] OBVIOUS
  <3>1. old \in ScheduleRows /\ schedule \in [Schedules -> ScheduleRows] BY <1>0,<1>2 DEF TypeOK
  <3>2. schedule' = [schedule EXCEPT ![s] = new] BY <1>2,<2>1,<3>1 DEF RetireAttempt
  <3>3. new.exec = old.exec /\ new.purchase = old.purchase BY <3>1 DEF ScheduleRows
  <3> QED BY <1>2,<3>1,<3>2,<3>3
 <2>2. CASE schedule[s].status # "PROCESSING" BY <2>2 DEF RetireAttempt
 <2> QED BY <2>1,<2>2
<1>4. Frame(w)
 <2>1. \A t \in Schedules : Holds(w, t) \/ schedule'[t] = schedule[t] BY <1>2,<1>3
 <2>2. \A t \in Schedules : /\ schedule'[t].exec = schedule[t].exec \/ schedule'[t].exec = None
                            /\ schedule'[t].exec = None => schedule'[t].purchase = None BY <1>0,<1>3 DEF IdsIssued
 <2> QED BY <1>1,<2>1,<2>2 DEF Frame, ledger, orders
<1>5. DebitIsLinked'
 <2>1. \A t \in Schedules : schedule'[t].exec = schedule[t].exec /\ schedule'[t].purchase = schedule[t].purchase BY <1>3
 <2> QED BY <1>0,<1>1,<2>1 DEF DebitIsLinked, ledger
<1>6. \A e \in Executions : debit'[e] # None => Owns(e, debit'[e].purchase) BY <1>1 DEF Owns, ledger
<1>7. \A t \in Schedules, q \in Purchases : schedule'[t].purchase = q => schedule[t].purchase = q BY <1>3
<1>8. CompensationIsExact' /\ RefundIsExact' /\ PaymentsFit' BY <1>1,<1>4, MoneyKept DEF QInv, MoneyInv, ledger
<1> PICK k : k = Finish(k1) OBVIOUS
<1>9. Become(w, k) BY <1>1 DEF RetireAttempt, Return, Catch
<1>10. Keeps(w, k) /\ Fits(k)' /\ Believes(k)' BY <1>0,<1>1,<1>3, FinishMoves
<1> QED BY <1>4,<1>5,<1>6,<1>7,<1>8,<1>9,<1>10, QKept

------------------------
(* The reconciler and the environment under the claims. *)

\* What the runs hold, own and believe is untouched.
LEMMA QOutside == ASSUME QInv, UNCHANGED <<schedule, orders, debit, worker, issued>>, CompensationIsExact', RefundIsExact' PROVE QInv'
<1> USE DEF QInv
<1>1. ClaimsInv' BY DEF ClaimsInv, OneWorkerPerSchedule, IdsApart, IdsIssued, HoldsFit, Fits, Claimed, Advanced, Holds, Execs
<1>2. OwnersInv' BY DEF OwnersInv, OwnersKnown, OneOwner, DebitIsLinked, Owns, Holds, Execs, orders
<1>3. BeliefsFit' BY DEF MoneyInv, BeliefsFit, Believes, Advanced, orders
<1>4. PaymentsFit' BY DEF MoneyInv, PaymentsFit, orders
<1> QED BY <1>1,<1>2,<1>3,<1>4 DEF MoneyInv

LEMMA QCompensationKept ==
  ASSUME QInv, UNCHANGED <<schedule, orders, debit, refund, worker, issued>>,
      \A e \in Executions : compensation'[e].status # "ABSENT" =>
        /\ compensation[e].status # "ABSENT"
        /\ compensation'[e].amount = compensation[e].amount /\ compensation'[e].purchase = compensation[e].purchase
  PROVE QInv'
<1>1. CompensationIsExact' BY DEF QInv, MoneyInv, CompensationIsExact
<1>2. RefundIsExact' BY DEF QInv, MoneyInv, RefundIsExact
<1> QED BY <1>1,<1>2, QOutside

LEMMA QClaimCompensations == ASSUME IInv, QInv, NEW r \in Reconcilers, ClaimCompensations(r) PROVE QInv'
<1>1. PICK jobs \in SUBSET Executions :
        compensation' = [e \in Executions |->
             IF e \in jobs THEN [Reap(compensation[e]) EXCEPT !.status = "PROCESSING", !.attempts = @ + 1]
                           ELSE Reap(compensation[e])]
        /\ \A e \in jobs : Reap(compensation[e]).status \in {"PENDING", "FAILED"} BY DEF ClaimCompensations
<1>2. ASSUME NEW e \in Executions, compensation'[e].status # "ABSENT"
  PROVE  /\ compensation[e].status # "ABSENT"
         /\ compensation'[e].amount = compensation[e].amount /\ compensation'[e].purchase = compensation[e].purchase
 <2> PICK c : c = compensation[e] OBVIOUS
 <2> PICK rc : rc = Reap(c) OBVIOUS
 <2>1. c \in CompensationRows BY DEF IInv, TypeOK
 <2>2. rc \in CompensationRows /\ rc.amount = c.amount /\ rc.purchase = c.purchase /\ (rc.status = "ABSENT" <=> c.status = "ABSENT")
   BY <2>1 DEF Reap, CompensationRows
 <2>3. CASE e \in jobs
  <3>1. compensation'[e] = [rc EXCEPT !.status = "PROCESSING", !.attempts = @ + 1] /\ rc.status \in {"PENDING", "FAILED"} BY <1>1,<2>3
  <3>2. compensation'[e].amount = rc.amount /\ compensation'[e].purchase = rc.purchase BY <2>2,<3>1 DEF CompensationRows
  <3> QED BY <2>2,<3>1,<3>2
 <2>4. CASE e \notin jobs BY <1>1,<1>2,<2>2,<2>4
 <2> QED BY <2>3,<2>4
<1> QED BY <1>2, QCompensationKept DEF ClaimCompensations, ledger

LEMMA QCompensate == ASSUME IInv, QInv, NEW r \in Reconcilers, Compensate(r) PROVE QInv'
<1>0. RefundIsExact /\ CompensationIsExact BY DEF QInv, MoneyInv
<1>1. PICK e \in reconciler[r].jobs : Refunds(e, compensation[e].amount, compensation[e].purchase) \/ UNCHANGED ledger BY DEF Compensate
<1>2. e \in Executions /\ compensation[e].status # "ABSENT" BY DEF IInv, TypeOK, ReconcilersOK, ReconcilerStates
<1>3. debit[e] # None /\ compensation[e].amount = debit[e].amount /\ compensation[e].purchase = debit[e].purchase
  BY <1>0,<1>2 DEF CompensationIsExact
<1>4. RefundIsExact' /\ UNCHANGED debit
 <2>1. CASE UNCHANGED ledger BY <1>0,<2>1 DEF RefundIsExact, ledger
 <2>2. CASE Refunds(e, compensation[e].amount, compensation[e].purchase) BY <1>0,<1>2,<1>3,<2>2, RefundsExactly
 <2> QED BY <1>1,<2>1,<2>2
<1>5. CompensationIsExact' BY <1>0,<1>4 DEF Compensate, CompensationIsExact
<1> QED BY <1>4,<1>5, QOutside DEF Compensate

LEMMA QResolveCompensation == ASSUME IInv, QInv, NEW r \in Reconcilers, ResolveCompensation(r) PROVE QInv'
<1>1. reconciler[r].row \in Executions /\ compensation[reconciler[r].row].status # "ABSENT" BY DEF IInv, ReconcilersOK, ResolveCompensation
<1>2. ASSUME NEW e \in Executions, compensation'[e].status # "ABSENT"
  PROVE  /\ compensation[e].status # "ABSENT"
         /\ compensation'[e].amount = compensation[e].amount /\ compensation'[e].purchase = compensation[e].purchase
 <2>1. CASE UNCHANGED compensation BY <1>2,<2>1
 <2>2. CASE compensation' = [compensation EXCEPT ![reconciler[r].row].status = "RESOLVED"] BY <1>1,<1>2,<2>2 DEF IInv, TypeOK, CompensationRows
 <2> QED BY <2>1,<2>2 DEF ResolveCompensation
<1> QED BY <1>2, QCompensationKept DEF ResolveCompensation, ledger

LEMMA QRetryCompensation == ASSUME IInv, QInv, NEW r \in Reconcilers, RetryCompensation(r) PROVE QInv'
<1> PICK x : x = reconciler[r].row OBVIOUS
<1>1. x \in Executions /\ compensation[x].status # "ABSENT" BY DEF IInv, ReconcilersOK, RetryCompensation
<1> PICK c : c = compensation[x] OBVIOUS
<1> PICK to : to = IF c.attempts >= CompensationLimit THEN "FAILED" ELSE "PENDING" OBVIOUS
<1> PICK new : new = [c EXCEPT !.status = to, !.stale = FALSE] OBVIOUS
<1>2. compensation' = [compensation EXCEPT ![x] = new] /\ c \in CompensationRows BY <1>1 DEF IInv, TypeOK, RetryCompensation
<1>3. new.amount = c.amount /\ new.purchase = c.purchase BY <1>2 DEF CompensationRows
<1>4. compensation'[x] = new /\ \A e \in Executions \ {x} : compensation'[e] = compensation[e] BY <1>1,<1>2 DEF IInv, TypeOK
<1> QED BY <1>1,<1>3,<1>4, QCompensationKept DEF RetryCompensation, ledger

LEMMA QCompensationGrowsStale == ASSUME IInv, QInv, NEW e \in Executions, CompensationGrowsStale(e) PROVE QInv'
<1>1. \A x \in Executions : /\ compensation'[x].status = compensation[x].status
                            /\ compensation'[x].amount = compensation[x].amount
                            /\ compensation'[x].purchase = compensation[x].purchase BY DEF CompensationGrowsStale, IInv, TypeOK, CompensationRows
<1> QED BY <1>1, QCompensationKept DEF CompensationGrowsStale, ledger

\* A schedule that no run holds falls due, grows stale or is resumed.
LEMMA QScheduleEvent == ASSUME Quiet, IInv, QInv, NEW s \in Schedules, FallDue(s) \/ ClaimGrowsStale(s) \/ SetRenewal(s) PROVE QInv'
<1>0. TypeOK /\ schedule[s] \in ScheduleRows BY DEF IInv, TypeOK
<1>1. \A w \in Workers : ~Holds(w, s) BY DEF Quiet, FallDue, ClaimGrowsStale, SetRenewal, Disturb, Holds
<1>2. UNCHANGED <<orders, ledger, compensation, worker, issued>> BY DEF FallDue, ClaimGrowsStale, SetRenewal
<1>3. /\ \A t \in Schedules \ {s} : schedule'[t] = schedule[t]
      /\ schedule'[s].exec = schedule[s].exec /\ schedule'[s].purchase = schedule[s].purchase
 <2>1. CASE FallDue(s) BY <1>0,<2>1 DEF FallDue, TypeOK, ScheduleRows
 <2>2. CASE ClaimGrowsStale(s) BY <1>0,<2>2 DEF ClaimGrowsStale, TypeOK, ScheduleRows
 <2>3. CASE SetRenewal(s)
  <3>1. PICK status \in {"ACTIVE", "PAUSED"}, due \in BOOLEAN :
          schedule' = [schedule EXCEPT ![s].status = status, ![s].due = due] BY <2>3 DEF SetRenewal
  <3> PICK new : new = [schedule[s] EXCEPT !.status = status, !.due = due] OBVIOUS
  <3>2. schedule' = [schedule EXCEPT ![s] = new] BY <1>0,<3>1 DEF TypeOK
  <3>3. new.exec = schedule[s].exec /\ new.purchase = schedule[s].purchase BY <1>0 DEF ScheduleRows
  <3> QED BY <1>0,<3>2,<3>3 DEF TypeOK
 <2> QED BY <2>1,<2>2,<2>3
<1>4. \A t \in Schedules : schedule'[t].exec = schedule[t].exec /\ schedule'[t].purchase = schedule[t].purchase BY <1>3
<1>5. \A w \in Workers, t \in Schedules : Holds(w, t) => schedule'[t] = schedule[t] BY <1>1,<1>3
<1>6. ClaimsInv'
 <2>1. OneWorkerPerSchedule' BY <1>2 DEF QInv, ClaimsInv, OneWorkerPerSchedule
 <2>2. IdsApart' BY <1>2,<1>4 DEF QInv, ClaimsInv, IdsApart, Holds, Execs
 <2>3. IdsIssued' BY <1>2,<1>4 DEF QInv, ClaimsInv, IdsIssued, Holds, Execs, ledger
 <2>4. HoldsFit'
  <3> SUFFICES ASSUME NEW w \in Workers, NEW t \in Schedules, Holds(w, t) PROVE Claimed(worker[w], t)' \/ Advanced(worker[w], t)'
    BY <1>2 DEF HoldsFit, Fits, Holds
  <3>1. Claimed(worker[w], t) \/ Advanced(worker[w], t) BY DEF QInv, ClaimsInv, HoldsFit, Fits, Holds
  <3>2. schedule'[t] = schedule[t] BY <1>5
  <3> QED BY <1>2,<3>1,<3>2 DEF Claimed, Advanced
 <2> QED BY <2>1,<2>2,<2>3,<2>4 DEF ClaimsInv
<1>7. OwnersInv'
 <2>1. \A e \in Executions, p \in Purchases : Owns(e, p)' => Owns(e, p) BY <1>2,<1>4 DEF Owns, Holds, Execs, ledger
 <2>2. OneOwner' BY <2>1 DEF QInv, OwnersInv, OneOwner
 <2>3. OwnersKnown' BY <1>2,<2>1 DEF QInv, OwnersInv, OwnersKnown, orders
 <2>4. DebitIsLinked' BY <1>2,<1>4 DEF QInv, OwnersInv, DebitIsLinked, ledger
 <2> QED BY <2>2,<2>3,<2>4 DEF OwnersInv
<1>8. BeliefsFit'
 <2> SUFFICES ASSUME NEW w \in Workers PROVE Believes(worker[w])' BY DEF BeliefsFit
 <2> PICK k : k = worker[w] OBVIOUS
 <2>1. Believes(k) BY DEF QInv, MoneyInv, BeliefsFit
 <2>2. k.pc = "inspect" => schedule'[k.row] = schedule[k.row] BY <1>5, RowHeld DEF QInv
 <2>3. Believes(k)' BY <1>2,<2>1,<2>2 DEF Believes, Advanced, orders, ledger
 <2> QED BY <1>2,<2>3 DEF Believes, Advanced
<1>9. CompensationIsExact' /\ RefundIsExact' /\ PaymentsFit'
  BY <1>2 DEF QInv, MoneyInv, CompensationIsExact, RefundIsExact, PaymentsFit, orders, ledger
<1> QED BY <1>6,<1>7,<1>8,<1>9 DEF QInv, MoneyInv

\* The claim: what it takes no other run holds, and a new id is nobody's.
LEMMA QClaimDue == ASSUME IInv, QInv, NEW w \in Workers, ClaimDue(w) PROVE QInv'
<1>0. TypeOK /\ ClaimsInv /\ OwnersInv /\ IdsIssued /\ IdsApart BY DEF IInv, QInv, ClaimsInv
<1>1. PICK batch \in SUBSET {s \in Schedules : Recovered(s).status = "ACTIVE" /\ schedule[s].due} :
        \E id \in [batch -> Executions] :
          /\ \A s \in batch : ClaimId(s, id[s])
          /\ \A s, t \in batch : id[s] = id[t] => s = t
          /\ schedule' = ClaimRows(batch, id)
          /\ issued' = issued \cup {id[s] : s \in batch}
          /\ Become(w, ClaimJobs(batch, id)) BY DEF ClaimDue
<1>2. PICK id \in [batch -> Executions] :
          /\ \A s \in batch : ClaimId(s, id[s])
          /\ \A s, t \in batch : id[s] = id[t] => s = t
          /\ schedule' = ClaimRows(batch, id)
          /\ issued' = issued \cup {id[s] : s \in batch}
          /\ Become(w, ClaimJobs(batch, id)) BY <1>1
<1> PICK k : k = ClaimJobs(batch, id) OBVIOUS
<1>3. UNCHANGED <<orders, ledger, compensation>> BY DEF ClaimDue
<1>4. \A s \in Schedules : schedule[s] \in ScheduleRows BY <1>0 DEF TypeOK
<1>5. \A s \in batch : /\ schedule'[s].exec = id[s] /\ schedule'[s].purchase = schedule[s].purchase
                       /\ schedule'[s].status = "PROCESSING" /\ schedule'[s].claim = "fresh"
                       /\ id[s] \in Executions /\ s \in Schedules BY <1>2,<1>4 DEF ClaimRows, ScheduleRows
<1>6. \A s \in Schedules \ batch : schedule'[s] = Recovered(s) /\ schedule'[s].exec = schedule[s].exec /\ schedule'[s].purchase = schedule[s].purchase
  BY <1>2,<1>4 DEF ClaimRows, Recovered, ScheduleRows
<1>7. \A v \in Workers, s \in Schedules : Holds(v, s) => s \notin batch /\ schedule'[s] = schedule[s]
 <2> SUFFICES ASSUME NEW v \in Workers, NEW s \in Schedules, Holds(v, s) PROVE s \notin batch /\ schedule'[s] = schedule[s] OBVIOUS
 <2>1. Claimed(worker[v], s) \/ Advanced(worker[v], s) BY <1>0 DEF ClaimsInv, HoldsFit, Fits, Holds
 <2>2. Recovered(s) = schedule[s] BY <2>1 DEF Claimed, Advanced, Recovered
 <2>3. s \notin batch BY <1>1,<2>1,<2>2 DEF Claimed, Advanced
 <2> QED BY <1>6,<2>2,<2>3
<1>8. /\ k.pc \in {"idle", "plan"} /\ ~k.debited
      /\ \A s \in Schedules : /\ s \notin batch => k.jobs[s] = None
                              /\ s \in batch => k.jobs[s] = [exec |-> id[s], purchase |-> schedule[s].purchase] BY DEF ClaimJobs, Idle
<1>9. worker'[w] = k /\ \A v \in Workers \ {w} : worker'[v] = worker[v] BY <1>0,<1>2 DEF TypeOK, Become
\* The ids of the rows: the old one, or one that nobody has.
<1>10. \A s \in Schedules : \/ schedule'[s].exec = schedule[s].exec
                            \/ schedule[s].exec = None /\ schedule[s].purchase = None /\ schedule'[s].exec \notin issued /\ s \in batch
 <2> SUFFICES ASSUME NEW s \in Schedules, s \in batch
   PROVE \/ schedule'[s].exec = schedule[s].exec
         \/ schedule[s].exec = None /\ schedule[s].purchase = None /\ schedule'[s].exec \notin issued BY <1>6
 <2>1. ClaimId(s, id[s]) BY <1>2
 <2>2. CASE schedule[s].exec = None BY <1>0,<1>5,<2>1,<2>2 DEF ClaimId, IdsIssued
 <2>3. CASE schedule[s].exec # None BY <1>5,<2>1,<2>3 DEF ClaimId
 <2> QED BY <2>2,<2>3
<1>11. \A s, t \in Schedules : schedule'[s].exec # None /\ schedule'[s].exec = schedule'[t].exec => s = t
 <2> SUFFICES ASSUME NEW s \in Schedules, NEW t \in Schedules, schedule'[s].exec # None, schedule'[s].exec = schedule'[t].exec PROVE s = t OBVIOUS
 <2>1. CASE s \in batch /\ t \in batch BY <1>2,<1>5,<2>1
 <2>2. CASE schedule'[s].exec = schedule[s].exec /\ schedule'[t].exec = schedule[t].exec BY <1>0,<2>2 DEF IdsApart
 <2>3. CASE schedule'[s].exec \notin issued /\ t \notin batch BY <1>0,<1>6,<2>3 DEF IdsIssued
 <2>4. CASE schedule'[t].exec \notin issued /\ s \notin batch BY <1>0,<1>6,<2>4 DEF IdsIssued
 <2>5. CASE schedule'[s].exec \notin issued /\ schedule'[t].exec = schedule[t].exec BY <1>0,<2>5 DEF IdsIssued
 <2>6. CASE schedule'[t].exec \notin issued /\ schedule'[s].exec = schedule[s].exec BY <1>0,<2>6 DEF IdsIssued
 <2> QED BY <1>10,<2>1,<2>2,<2>5,<2>6
<1>12. \A v \in Workers, s \in Schedules : Holds(v, s)' =>
          \/ v = w /\ s \in batch /\ Execs(v, s)' = schedule'[s].exec /\ worker'[v].jobs[s].purchase = schedule[s].purchase /\ Execs(v, s)' \in Executions
          \/ v # w /\ Holds(v, s) /\ Execs(v, s)' = Execs(v, s) /\ worker'[v].jobs[s] = worker[v].jobs[s]
 <2> SUFFICES ASSUME NEW v \in Workers, NEW s \in Schedules, Holds(v, s)'
   PROVE \/ v = w /\ s \in batch /\ Execs(v, s)' = schedule'[s].exec /\ worker'[v].jobs[s].purchase = schedule[s].purchase /\ Execs(v, s)' \in Executions
         \/ v # w /\ Holds(v, s) /\ Execs(v, s)' = Execs(v, s) /\ worker'[v].jobs[s] = worker[v].jobs[s] OBVIOUS
 <2>1. CASE v = w
  <3>1. worker'[v].jobs[s] = k.jobs[s] /\ k.jobs[s] # None BY <1>9,<2>1 DEF Holds
  <3>2. s \in batch /\ k.jobs[s] = [exec |-> id[s], purchase |-> schedule[s].purchase] BY <1>8,<3>1
  <3>3. worker'[v].jobs[s].exec = id[s] /\ worker'[v].jobs[s].purchase = schedule[s].purchase BY <3>1,<3>2
  <3> QED BY <1>5,<2>1,<3>2,<3>3 DEF Execs
 <2>2. CASE v # w BY <1>9,<2>2 DEF Holds, Execs
 <2> QED BY <2>1,<2>2
<1>13. OneWorkerPerSchedule'
 <2>1. \A u, v \in Workers, s \in Schedules : Holds(u, s)' /\ Holds(v, s)' => u = v BY <1>0,<1>7,<1>12 DEF ClaimsInv, OneWorkerPerSchedule, Holds
 <2> QED BY <2>1 DEF OneWorkerPerSchedule, Holds
<1>14. \A v \in Workers, s, t \in Schedules : Holds(v, s)' /\ Execs(v, s)' = schedule'[t].exec => s = t
 <2> SUFFICES ASSUME NEW v \in Workers, NEW s \in Schedules, NEW t \in Schedules, Holds(v, s)', Execs(v, s)' = schedule'[t].exec PROVE s = t OBVIOUS
 <2>1. CASE v = w BY <1>5,<1>11,<1>12,<2>1, NoneAssumption
 <2>2. CASE v # w
  <3>1. Holds(v, s) /\ Execs(v, s) = schedule'[t].exec BY <1>12,<2>2
  <3>2. Execs(v, s) \in issued BY <1>0,<3>1 DEF IdsIssued
  <3>3. schedule'[t].exec = schedule[t].exec BY <1>10,<3>1,<3>2
  <3> QED BY <1>0,<3>1,<3>3 DEF IdsApart
 <2> QED BY <2>1,<2>2
<1>15. \A u, v \in Workers, s, t \in Schedules : Holds(u, s)' /\ Holds(v, t)' /\ Execs(u, s)' = Execs(v, t)' => s = t
 <2> SUFFICES ASSUME NEW u \in Workers, NEW v \in Workers, NEW s \in Schedules, NEW t \in Schedules,
                     Holds(u, s)', Holds(v, t)', Execs(u, s)' = Execs(v, t)' PROVE s = t OBVIOUS
 <2>1. CASE u = w
  <3>1. Execs(u, s)' = schedule'[s].exec BY <1>12,<2>1
  <3>2. Holds(v, t)' /\ Execs(v, t)' = schedule'[s].exec BY <3>1
  <3> QED BY <1>14,<3>2
 <2>2. CASE v = w
  <3>1. Execs(v, t)' = schedule'[t].exec BY <1>12,<2>2
  <3>2. Holds(u, s)' /\ Execs(u, s)' = schedule'[t].exec BY <3>1
  <3> QED BY <1>14,<3>2
 <2>3. CASE u # w /\ v # w BY <1>0,<1>12,<2>3 DEF IdsApart
 <2> QED BY <2>1,<2>2,<2>3
<1>16. IdsApart' BY <1>11,<1>14,<1>15 DEF IdsApart
<1>17. IdsIssued'
 <2>1. \A s \in Schedules : IF schedule'[s].exec = None THEN schedule'[s].purchase = None ELSE schedule'[s].exec \in issued'
  <3> SUFFICES ASSUME NEW s \in Schedules PROVE IF schedule'[s].exec = None THEN schedule'[s].purchase = None ELSE schedule'[s].exec \in issued'
    OBVIOUS
  <3>1. CASE s \in batch BY <1>2,<1>5,<3>1, NoneAssumption
  <3>2. CASE s \notin batch BY <1>0,<1>2,<1>6,<3>2 DEF IdsIssued
  <3> QED BY <3>1,<3>2
 <2>2. \A v \in Workers, s \in Schedules : Holds(v, s)' => Execs(v, s)' \in issued' BY <1>0,<1>2,<1>5,<1>12 DEF IdsIssued
 <2>3. \A e \in Executions : debit'[e] # None => e \in issued' BY <1>0,<1>2,<1>3 DEF IdsIssued, ledger
 <2> QED BY <2>1,<2>2,<2>3 DEF IdsIssued
<1>18. HoldsFit'
 <2> SUFFICES ASSUME NEW v \in Workers, NEW s \in Schedules, Holds(v, s)' PROVE Claimed(worker[v], s)' \/ Advanced(worker[v], s)'
   BY DEF HoldsFit, Fits, Holds
 <2>1. CASE v = w
  <3>1. s \in batch /\ worker'[v].jobs[s].exec = schedule'[s].exec /\ worker'[v].jobs[s].purchase = schedule[s].purchase BY <1>12,<2>1 DEF Execs
  <3> QED BY <1>5,<3>1 DEF Claimed
 <2>2. CASE v # w
  <3>1. Holds(v, s) /\ worker'[v] = worker[v] BY <1>9,<1>12,<2>2
  <3>2. schedule'[s] = schedule[s] BY <1>7,<3>1
  <3>3. Claimed(worker[v], s) \/ Advanced(worker[v], s) BY <1>0,<3>1 DEF ClaimsInv, HoldsFit, Fits, Holds
  <3> QED BY <3>1,<3>2,<3>3 DEF Claimed, Advanced
 <2> QED BY <2>1,<2>2
<1>19. \A e \in Executions, p \in Purchases : Owns(e, p)' => Owns(e, p)
 <2> SUFFICES ASSUME NEW e \in Executions, NEW p \in Purchases, Owns(e, p)' PROVE Owns(e, p) OBVIOUS
 <2>1. CASE debit'[e] # None /\ debit'[e].purchase = p BY <1>3,<2>1 DEF Owns, ledger
 <2>2. ASSUME NEW s \in Schedules, schedule'[s].exec = e, schedule[s].purchase = p PROVE Owns(e, p)
  <3>1. schedule[s].exec = e BY <1>10,<2>2, NoneAssumption
  <3> QED BY <2>2,<3>1 DEF Owns
 <2>3. CASE \E s \in Schedules : schedule'[s].exec = e /\ schedule'[s].purchase = p BY <1>5,<1>6,<2>2,<2>3
 <2>4. CASE \E v \in Workers, s \in Schedules : Holds(v, s)' /\ Execs(v, s)' = e /\ worker'[v].jobs[s].purchase = p
  <3>1. PICK v \in Workers, s \in Schedules : Holds(v, s)' /\ Execs(v, s)' = e /\ worker'[v].jobs[s].purchase = p BY <2>4
  <3>2. CASE v = w BY <1>12,<2>2,<3>1,<3>2
  <3>3. CASE v # w
   <4>1. Holds(v, s) /\ Execs(v, s) = e /\ worker[v].jobs[s].purchase = p BY <1>12,<3>1,<3>3
   <4> QED BY <4>1 DEF Owns
  <3> QED BY <3>2,<3>3
 <2> QED BY <2>1,<2>3,<2>4 DEF Owns
<1>20. OneOwner' BY <1>0,<1>19 DEF OwnersInv, OneOwner
<1>21. OwnersKnown' BY <1>0,<1>3,<1>19 DEF OwnersInv, OwnersKnown, orders
<1>22. DebitIsLinked'
 <2> SUFFICES ASSUME NEW s \in Schedules, schedule'[s].exec # None, debit[schedule'[s].exec] # None
   PROVE debit[schedule'[s].exec].purchase = schedule'[s].purchase BY <1>3 DEF DebitIsLinked, ledger
 <2>1. schedule'[s].exec \in Executions BY <1>4,<1>5,<1>6 DEF ScheduleRows
 <2>2. schedule'[s].exec \in issued BY <1>0,<2>1 DEF IdsIssued
 <2>3. schedule'[s].exec = schedule[s].exec /\ schedule'[s].purchase = schedule[s].purchase BY <1>5,<1>6,<1>10,<2>2
 <2> QED BY <1>0,<2>3 DEF OwnersInv, DebitIsLinked
<1>23. BeliefsFit'
 <2> SUFFICES ASSUME NEW v \in Workers PROVE Believes(worker[v])' BY DEF BeliefsFit
 <2>1. CASE v = w BY <1>8,<1>9,<2>1 DEF Believes
 <2>2. CASE v # w
  <3> PICK k1 : k1 = worker[v] OBVIOUS
  <3>1. Believes(k1) BY DEF QInv, MoneyInv, BeliefsFit
  <3>2. k1.pc = "inspect" => schedule'[k1.row] = schedule[k1.row] BY <1>0,<1>7, RowHeld
  <3>3. Believes(k1)' BY <1>3,<3>1,<3>2 DEF Believes, Advanced, orders, ledger
  <3> QED BY <1>9,<2>2,<3>3 DEF Believes, Advanced
 <2> QED BY <2>1,<2>2
<1>24. CompensationIsExact' /\ RefundIsExact' /\ PaymentsFit'
  BY <1>3 DEF QInv, MoneyInv, CompensationIsExact, RefundIsExact, PaymentsFit, orders, ledger
<1> QED BY <1>13,<1>16,<1>17,<1>18,<1>20,<1>21,<1>22,<1>23,<1>24 DEF QInv, ClaimsInv, OwnersInv, MoneyInv

------------------------
(* The quiet invariant is inductive. *)

LEMMA QInitOK == Init => QInv
<1> SUFFICES ASSUME Init PROVE QInv OBVIOUS
<1>1. \A w \in Workers : worker[w] = Idle BY DEF Init
<1>2. \A w \in Workers, s \in Schedules : ~Holds(w, s) BY <1>1 DEF Holds, Idle
<1>3. \A s \in Schedules : schedule[s].exec = None /\ schedule[s].purchase = None BY DEF Init
<1>4. ClaimsInv
 <2>1. OneWorkerPerSchedule BY <1>2 DEF OneWorkerPerSchedule, Holds
 <2>2. IdsApart BY <1>2,<1>3 DEF IdsApart
 <2>3. IdsIssued BY <1>2,<1>3 DEF IdsIssued, Init
 <2>4. HoldsFit BY <1>2 DEF HoldsFit, Fits, Holds
 <2> QED BY <2>1,<2>2,<2>3,<2>4 DEF ClaimsInv
<1>5. \A e \in Executions, p \in Purchases : ~Owns(e, p) BY <1>2,<1>3, NoneAssumption DEF Owns, Init
<1>6. OwnersInv BY <1>3,<1>5 DEF OwnersInv, OwnersKnown, OneOwner, DebitIsLinked
<1>7. BeliefsFit BY <1>1 DEF BeliefsFit, Believes, Idle
<1>8. CompensationIsExact BY DEF Init, CompensationIsExact, NoCompensation
<1>9. RefundIsExact /\ PaymentsFit BY DEF Init, RefundIsExact, PaymentsFit
<1> QED BY <1>4,<1>6,<1>7,<1>8,<1>9 DEF QInv, MoneyInv

LEMMA QStepOK == Quiet /\ IInv /\ QInv /\ [Next]_vars => QInv'
<1> SUFFICES ASSUME Quiet, IInv, QInv, [Next]_vars PROVE QInv' OBVIOUS
<1>1. ASSUME NEW w \in Workers, ClaimDue(w) \/ RowStep(w) \/ HandlerStep(w) \/ StatementFails(w) \/ WorkerCrashes(w) PROVE QInv'
 <2>1. CASE RowStep(w) BY <2>1, QReadPlan, QReadPurchase, QCreatePurchase, QLinkPurchase, QLookupDebit, QCheckWallet, QDebitWallet, QConfirmPayment,
   QAdvanceSchedule DEF RowStep
 <2>2. CASE HandlerStep(w) BY <2>2, QInspectPurchase, QCancelPurchase, QRefundDebit, QEnqueueCompensation, QRetireAttempt DEF HandlerStep
 <2>3. CASE ClaimDue(w) \/ StatementFails(w) \/ WorkerCrashes(w) BY <2>3, QClaimDue, QStatementFails, QWorkerCrashes
 <2> QED BY <1>1,<2>1,<2>2,<2>3
<1>2. ASSUME NEW r \in Reconcilers, ClaimCompensations(r) \/ ReconcilerStep(r) PROVE QInv'
  BY <1>2, QClaimCompensations, QCompensate, QResolveCompensation, QRetryCompensation DEF ReconcilerStep
<1>3. ASSUME NEW s \in Schedules, FallDue(s) \/ ClaimGrowsStale(s) \/ SetRenewal(s) PROVE QInv' BY <1>3, QScheduleEvent
<1>4. ASSUME NEW e \in Executions, CompensationGrowsStale(e) PROVE QInv' BY <1>4, QCompensationGrowsStale
<1>5. ASSUME UNCHANGED <<schedule, orders, debit, refund, compensation, worker, issued>> PROVE QInv'
 <2>1. CompensationIsExact' /\ RefundIsExact' BY <1>5 DEF QInv, MoneyInv, CompensationIsExact, RefundIsExact
 <2> QED BY <1>5,<2>1, QOutside
<1>6. ASSUME NEW r \in Reconcilers, ReconcilerCrashes(r) PROVE QInv' BY <1>5,<1>6 DEF ReconcilerCrashes, ledger
<1>7. CASE TopUp \/ FreezeWallet \/ ThawWallet BY <1>5,<1>7 DEF TopUp, FreezeWallet, ThawWallet
<1>8. CASE DeactivatePackage \/ RepricePackage BY <1>5,<1>8 DEF DeactivatePackage, RepricePackage, ledger
<1>9. CASE UNCHANGED vars BY <1>5,<1>9 DEF vars, orders
<1> QED BY <1>1,<1>2,<1>3,<1>4,<1>6,<1>7,<1>8,<1>9 DEF Next

\* While no run outlives its claim and nobody reschedules under a run, a claim of
\* processDueRenewals is exclusive, a purchase belongs to one execution, and what a run
\* believes of its debit and its purchase is so: for any number of instances, crashes,
\* failing statements and lost acknowledgements.
THEOREM QuietInvariance == ASSUME Quiet PROVE Spec => [](IInv /\ QInv)
<1>1. Init => IInv /\ QInv BY InitOK, QInitOK
<1>2. (IInv /\ QInv) /\ [Next]_vars => (IInv /\ QInv)' BY StepOK, QStepOK
<1> QED BY <1>1,<1>2, PTL DEF Spec

\* The books of the wallet are exact: the balance is the sum of the entries, no purchase
\* is charged twice, and a refund, by the exception handler or by
\* reconcileRenewalCompensations, is of the amount that was taken.
THEOREM BooksAreExact == ASSUME Quiet PROVE Spec => []LedgerIsExact
<1>1. IInv /\ QInv /\ BalanceIsLedger => LedgerIsExact
 <2> SUFFICES ASSUME IInv, QInv PROVE OneChargePerPurchase /\ RefundIsExact BY DEF LedgerIsExact
 <2>1. ASSUME NEW d \in Executions, NEW e \in Executions, debit[d] # None, debit[e] # None, debit[d].purchase = debit[e].purchase PROVE d = e
  <3>1. debit[d].purchase \in Purchases BY <2>1 DEF IInv, TypeOK, Entries
  <3>2. Owns(d, debit[d].purchase) /\ Owns(e, debit[d].purchase) BY <2>1 DEF Owns
  <3> QED BY <3>1,<3>2 DEF QInv, OwnersInv, OneOwner
 <2> QED BY <2>1 DEF OneChargePerPurchase, QInv, MoneyInv
<1> QED BY <1>1, QuietInvariance, BalanceIsTheEntries, PTL

------------------------
(* A schedule leaves its execution only when that execution settled. *)

\* The purchase of a run that is about to advance was paid by the run's own execution.
LEMMA AdvancesSettled == ASSUME IInv, QInv, NEW w \in Workers, AdvanceSchedule(w) PROVE settlement[schedule[worker[w].row].exec] # None
<1> PICK k1 : k1 = worker[w] OBVIOUS
<1> PICK s : s = k1.row OBVIOUS
<1> PICK e : e = Job(w).exec OBVIOUS
<1> PICK p : p = Job(w).purchase OBVIOUS
<1>0. ClaimsInv /\ BeliefsFit /\ OwnersInv /\ PaymentsFit BY DEF QInv, MoneyInv
<1>1. k1.pc = "advance" BY DEF AdvanceSchedule
<1>2. Believes(k1) /\ s \in Schedules /\ Job(w) = k1.jobs[s] /\ Holds(w, s) /\ Claimed(k1, s) /\ e \in Executions /\ Job(w) \in Jobs /\ e = Execs(w, s)
  BY <1>0,<1>1, RowHeld DEF BeliefsFit
<1>3. p \in Purchases /\ purchase[p].status = "PAID" BY <1>1,<1>2 DEF Believes, Jobs
<1>4. PICK d \in Executions : settlement[d] = p BY <1>0,<1>3 DEF PaymentsFit
<1>5. debit[d] # None /\ debit[d].purchase = p BY <1>0,<1>3,<1>4, NoneAssumption DEF PaymentsFit
<1>6. Owns(d, p) /\ Owns(e, p) BY <1>2,<1>5 DEF Owns
<1>7. d = e BY <1>0,<1>2,<1>3,<1>6 DEF OwnersInv, OneOwner
<1>8. schedule[s].exec = e BY <1>2 DEF Claimed
<1> QED BY <1>3,<1>4,<1>7,<1>8, NoneAssumption

LEMMA AdvanceStepOK ==
  IInv /\ QInv /\ [Next]_vars =>
    \A s \in Schedules : schedule[s].exec # None /\ schedule'[s].exec = None => settlement[schedule[s].exec] # None
<1> DEFINE P == \A s \in Schedules : schedule[s].exec # None /\ schedule'[s].exec = None => settlement[schedule[s].exec] # None
<1> SUFFICES ASSUME IInv, QInv, [Next]_vars PROVE P OBVIOUS
<1>0. \A s \in Schedules : schedule[s] \in ScheduleRows BY DEF IInv, TypeOK
<1>1. ASSUME UNCHANGED schedule PROVE P BY <1>1
<1>2. ASSUME NEW w \in Workers, ClaimDue(w) PROVE P
 <2>1. PICK batch \in SUBSET Schedules : \E id \in [batch -> Executions] : schedule' = ClaimRows(batch, id) BY <1>2 DEF ClaimDue
 <2>2. PICK id \in [batch -> Executions] : schedule' = ClaimRows(batch, id) BY <2>1
 <2>3. ASSUME NEW s \in Schedules PROVE schedule'[s].exec = schedule[s].exec \/ schedule'[s].exec \in Executions
   BY <1>0,<2>2 DEF ClaimRows, Recovered, ScheduleRows
 <2> QED BY <2>3, NoneAssumption
<1>3. ASSUME NEW w \in Workers, LinkPurchase(w) PROVE P BY <1>3 DEF LinkPurchase, IInv, TypeOK, ScheduleRows
<1>4. ASSUME NEW w \in Workers, AdvanceSchedule(w) PROVE P
 <2>1. settlement[schedule[worker[w].row].exec] # None BY <1>4, AdvancesSettled
 <2>2. \A s \in Schedules \ {worker[w].row} : schedule'[s] = schedule[s] BY <1>4 DEF AdvanceSchedule, IInv, TypeOK
 <2> QED BY <2>1,<2>2
<1>5. ASSUME NEW w \in Workers, RetireAttempt(w) PROVE P
 <2>1. CASE UNCHANGED schedule BY <1>1,<2>1
 <2>2. CASE ~UNCHANGED schedule
  <3> PICK s : s = worker[w].row OBVIOUS
  <3> PICK to : to = IF schedule[s].failures + 1 >= FailureLimit THEN "FAILED" ELSE "ACTIVE" OBVIOUS
  <3> PICK new : new = [schedule[s] EXCEPT !.failures = @ + 1, !.claim = "none", !.status = to] OBVIOUS
  <3>1. s \in Schedules BY <1>5, RowHeld DEF QInv, RetireAttempt
  <3>2. schedule' = [schedule EXCEPT ![s] = new] BY <1>5,<2>2,<3>1 DEF RetireAttempt, IInv, TypeOK
  <3>3. new.exec = schedule[s].exec BY <1>0,<3>1 DEF ScheduleRows
  <3>4. \A t \in Schedules : schedule'[t].exec = schedule[t].exec BY <3>1,<3>2,<3>3 DEF IInv, TypeOK
  <3> QED BY <3>4
 <2> QED BY <2>1,<2>2
<1>6. ASSUME NEW s \in Schedules, FallDue(s) \/ ClaimGrowsStale(s) \/ SetRenewal(s) PROVE P
 <2>1. CASE FallDue(s) BY <1>0,<2>1 DEF FallDue, IInv, TypeOK, ScheduleRows
 <2>2. CASE ClaimGrowsStale(s) BY <1>0,<2>2 DEF ClaimGrowsStale, IInv, TypeOK, ScheduleRows
 <2>3. CASE SetRenewal(s)
  <3>1. PICK status \in {"ACTIVE", "PAUSED"}, due \in BOOLEAN :
          schedule' = [schedule EXCEPT ![s].status = status, ![s].due = due] BY <2>3 DEF SetRenewal
  <3> PICK new : new = [schedule[s] EXCEPT !.status = status, !.due = due] OBVIOUS
  <3>2. schedule' = [schedule EXCEPT ![s] = new] BY <3>1 DEF IInv, TypeOK
  <3>3. new.exec = schedule[s].exec BY <1>0 DEF ScheduleRows
  <3>4. \A t \in Schedules : schedule'[t].exec = schedule[t].exec BY <3>2,<3>3 DEF IInv, TypeOK
  <3> QED BY <3>4
 <2> QED BY <1>6,<2>1,<2>2,<2>3
<1>7. ASSUME NEW w \in Workers, RowStep(w) PROVE P
 <2>1. CASE ReadPlan(w) \/ ReadPurchase(w) \/ CreatePurchase(w) \/ LookupDebit(w) \/ CheckWallet(w)
   BY <1>1,<2>1 DEF ReadPlan, ReadPurchase, CreatePurchase, LookupDebit, CheckWallet
 <2>2. CASE DebitWallet(w) \/ ConfirmPayment(w) BY <1>1,<2>2 DEF DebitWallet, ConfirmPayment
 <2> QED BY <1>3,<1>4,<1>7,<2>1,<2>2 DEF RowStep
<1>8. ASSUME NEW w \in Workers, HandlerStep(w) \/ StatementFails(w) \/ WorkerCrashes(w) PROVE P
 <2>1. CASE InspectPurchase(w) \/ CancelPurchase(w) \/ RefundDebit(w) \/ EnqueueCompensation(w)
   BY <1>1,<2>1 DEF InspectPurchase, CancelPurchase, RefundDebit, EnqueueCompensation
 <2>2. CASE StatementFails(w) \/ WorkerCrashes(w) BY <1>1,<2>2 DEF StatementFails, WorkerCrashes
 <2> QED BY <1>5,<1>8,<2>1,<2>2 DEF HandlerStep
<1>9. ASSUME NEW r \in Reconcilers, ClaimCompensations(r) \/ ReconcilerStep(r) \/ ReconcilerCrashes(r) PROVE P
  BY <1>1,<1>9 DEF ClaimCompensations, ReconcilerStep, Compensate, ResolveCompensation, RetryCompensation, ReconcilerCrashes
<1>10. ASSUME NEW e \in Executions, CompensationGrowsStale(e) PROVE P BY <1>1,<1>10 DEF CompensationGrowsStale
<1>11. CASE TopUp \/ FreezeWallet \/ ThawWallet \/ DeactivatePackage \/ RepricePackage
  BY <1>1,<1>11 DEF TopUp, FreezeWallet, ThawWallet, DeactivatePackage, RepricePackage
<1>12. CASE UNCHANGED vars BY <1>1,<1>12 DEF vars
<1> HIDE DEF P
<1> QED BY <1>2,<1>6,<1>7,<1>8,<1>9,<1>10,<1>11,<1>12 DEF Next

\* Two runs never work on the same schedule, and a run closes a period only when the
\* period's own execution settled (AdvanceSchedule): never one that another run, another
\* execution or a failure left behind.
THEOREM ClaimsAreExclusive == ASSUME Quiet PROVE Spec => ClaimsHold
<1>1. IInv /\ QInv => TypeOK /\ OneWorkerPerSchedule BY DEF IInv, QInv, ClaimsInv
<1>2. (IInv /\ QInv) /\ [Next]_vars =>
        [\A s \in Schedules : schedule[s].exec # None /\ schedule'[s].exec = None => settlement[schedule[s].exec] # None]_vars BY AdvanceStepOK
<1> QED BY <1>1,<1>2, QuietInvariance, PTL DEF Spec, ClaimsHold, AdvanceOnlyAfterSettlement

------------------------
(* What is given back was canceled first, when the cancellation cannot fail. *)

GivesBack(k) == k.pc \in {"refund", "enqueue"}

\* A worker that gives back did so before, over the same row, or its purchase is CANCELED now.
Entitled(v) ==
  GivesBack(worker'[v]) =>
    \/ GivesBack(worker[v]) /\ worker'[v].jobs[worker'[v].row] = Job(v)
    \/ purchase'[worker'[v].jobs[worker'[v].row].purchase].status = "CANCELED"

\* A canceled purchase stays canceled and a debit stays.
Stays ==
  /\ \A p \in Purchases : purchase[p].status = "CANCELED" => purchase'[p].status = "CANCELED"
  /\ \A e \in Executions : debit[e] # None => debit'[e] = debit[e]

LEMMA CanceledKept ==
  ASSUME IInv, CanceledFirst, Stays, \A v \in Workers : Entitled(v),
      \A e \in Executions : compensation'[e].status # "ABSENT" \/ refund'[e] # None =>
        \/ compensation[e].status # "ABSENT" \/ refund[e] # None
        \/ debit[e] # None /\ purchase[debit[e].purchase].status = "CANCELED"
  PROVE CanceledFirst'
<1>1. ASSUME NEW v \in Workers, GivesBack(worker'[v]) PROVE purchase'[worker'[v].jobs[worker'[v].row].purchase].status = "CANCELED"
 <2>1. CASE GivesBack(worker[v]) /\ worker'[v].jobs[worker'[v].row] = Job(v)
  <3>1. Job(v).purchase \in Purchases BY <2>1 DEF IInv, WorkersOK, WorkerOK, GivesBack, Job
  <3>2. purchase[Job(v).purchase].status = "CANCELED" BY <2>1 DEF CanceledFirst, GivesBack
  <3> QED BY <2>1,<3>1,<3>2 DEF Stays
 <2> QED BY <1>1,<2>1 DEF Entitled
<1>2. ASSUME NEW e \in Executions, compensation'[e].status # "ABSENT" \/ refund'[e] # None PROVE purchase'[debit'[e].purchase].status = "CANCELED"
 <2>1. debit[e] # None /\ purchase[debit[e].purchase].status = "CANCELED"
   BY <1>2 DEF IInv, CompensationsOK, CompensationOK, RefundImpliesDebited, CanceledFirst
 <2>2. debit'[e] = debit[e] /\ debit[e].purchase \in Purchases BY <2>1 DEF Stays, IInv, TypeOK, Entries
 <2> QED BY <2>1,<2>2 DEF Stays
<1> QED BY <1>1,<1>2 DEF CanceledFirst, GivesBack, Job

LEMMA EntitledByStep ==
  ASSUME TypeOK, NEW w \in Workers, NEW k, Become(w, k),
      GivesBack(k) => \/ GivesBack(worker[w]) /\ k.jobs[k.row] = Job(w)
                      \/ purchase'[k.jobs[k.row].purchase].status = "CANCELED"
  PROVE \A v \in Workers : Entitled(v)
<1>1. worker'[w] = k /\ \A v \in Workers \ {w} : worker'[v] = worker[v] BY DEF TypeOK, Become
<1> QED BY <1>1 DEF Entitled, Job

\* The exception of a statement other than the cancellation leads to no new refund.
LEMMA ThrownGives ==
  ASSUME NEW k \in WorkerStates, k.pc # "cancel" PROVE GivesBack(Catch(k)) => GivesBack(k) /\ Catch(k).jobs[Catch(k).row] = k.jobs[k.row]
<1>1. CASE k.pc = "retire" BY <1>1 DEF Catch, Finish, GivesBack
<1>2. CASE k.pc # "retire"
 <2>1. Catch(k) = [k EXCEPT !.pc = Landing(k)] BY <1>2 DEF Catch, Enter
 <2>2. Catch(k).pc = Landing(k) /\ Catch(k).jobs = k.jobs /\ Catch(k).row = k.row BY <2>1 DEF WorkerStates
 <2>3. Landing(k) \in {"refund", "enqueue"} => k.pc = "refund" BY DEF Landing
 <2> QED BY <2>2,<2>3 DEF GivesBack
<1> QED BY <1>1,<1>2

LEMMA EntitledByCatch ==
  ASSUME TypeOK, NEW w \in Workers, worker[w].pc # "cancel", Become(w, Catch(worker[w]))
  PROVE \A v \in Workers : Entitled(v) BY ThrownGives, EntitledByStep DEF TypeOK, Job

LEMMA EntitledByReturn ==
  ASSUME TypeOK, NEW w \in Workers, NEW k, worker[w].pc # "cancel", Return(w, k), ~GivesBack(k)
  PROVE \A v \in Workers : Entitled(v) BY EntitledByCatch, EntitledByStep DEF Return

LEMMA EntitledByRow == ASSUME TypeOK, NEW w \in Workers, ClaimDue(w) \/ RowStep(w) PROVE \A v \in Workers : Entitled(v)
<1> PICK k : k = worker[w] OBVIOUS
<1>0. k \in WorkerStates BY DEF TypeOK
<1>1. ASSUME NEW l \in {"advance", "lookup", "check", "debit", "confirm", "inspect", "retire"} PROVE ~GivesBack(Enter(k, l))
  BY <1>0,<1>1 DEF Enter, GivesBack, WorkerStates
<1>2. ~GivesBack(Finish(k)) BY DEF Finish, GivesBack
<1>3. CASE ClaimDue(w)
 <2>1. PICK batch, id : Become(w, ClaimJobs(batch, id)) BY <1>3 DEF ClaimDue
 <2>2. ~GivesBack(ClaimJobs(batch, id)) BY DEF ClaimJobs, Idle, GivesBack
 <2> QED BY <2>1,<2>2, EntitledByStep
<1>4. CASE ReadPlan(w)
 <2>1. PICK s \in Schedules : \/ Become(w, [[k EXCEPT !.row = s] EXCEPT !.pc = "purchase", !.amount = package.price])
                              \/ Become(w, Catch([k EXCEPT !.row = s])) BY <1>4 DEF ReadPlan
 <2>2. [k EXCEPT !.row = s] \in WorkerStates /\ [k EXCEPT !.row = s].pc = "plan" BY <1>0,<1>4 DEF ReadPlan, WorkerStates
 <2>3. ~GivesBack(Catch([k EXCEPT !.row = s])) BY <2>2, ThrownGives DEF GivesBack
 <2>4. ~GivesBack([[k EXCEPT !.row = s] EXCEPT !.pc = "purchase", !.amount = package.price]) BY <2>2 DEF GivesBack, WorkerStates
 <2> QED BY <2>1,<2>3,<2>4, EntitledByStep
<1>5. CASE ReadPurchase(w) BY <1>1,<1>5, EntitledByStep DEF ReadPurchase
<1>6. CASE CreatePurchase(w)
 <2>1. CASE Become(w, Catch(k)) BY <1>6,<2>1, EntitledByCatch DEF CreatePurchase
 <2>2. CASE ~Become(w, Catch(k))
  <3>1. PICK p \in Purchases : Return(w, [k EXCEPT !.pc = "link", !.jobs[k.row].purchase = p]) BY <1>6,<2>2 DEF CreatePurchase
  <3>2. ~GivesBack([k EXCEPT !.pc = "link", !.jobs[k.row].purchase = p]) BY <1>0 DEF GivesBack, WorkerStates
  <3> QED BY <1>6,<3>1,<3>2, EntitledByReturn DEF CreatePurchase
 <2> QED BY <2>1,<2>2
<1>7. CASE LinkPurchase(w) BY <1>1,<1>7, EntitledByReturn DEF LinkPurchase
<1>8. CASE LookupDebit(w)
 <2>1. ~GivesBack([k EXCEPT !.debited = TRUE, !.pc = "confirm"]) BY <1>0 DEF GivesBack, WorkerStates
 <2> QED BY <1>1,<1>8,<2>1, EntitledByStep DEF LookupDebit
<1>9. CASE CheckWallet(w) BY <1>1,<1>9, EntitledByStep, EntitledByCatch DEF CheckWallet
<1>10. CASE DebitWallet(w)
 <2>1. ~GivesBack([k EXCEPT !.debited = TRUE, !.pc = "confirm"]) BY <1>0 DEF GivesBack, WorkerStates
 <2> QED BY <1>10,<2>1, EntitledByReturn, EntitledByCatch DEF DebitWallet
<1>11. CASE ConfirmPayment(w) BY <1>1,<1>11, EntitledByReturn, EntitledByCatch DEF ConfirmPayment
<1>12. CASE AdvanceSchedule(w) BY <1>2,<1>12, EntitledByReturn DEF AdvanceSchedule
<1> QED BY <1>3,<1>4,<1>5,<1>6,<1>7,<1>8,<1>9,<1>10,<1>11,<1>12 DEF RowStep

\* The exception handler but for the cancellation.
LEMMA EntitledByHandler ==
  ASSUME TypeOK, NEW w \in Workers, InspectPurchase(w) \/ RefundDebit(w) \/ EnqueueCompensation(w) \/ RetireAttempt(w)
  PROVE \A v \in Workers : Entitled(v)
<1> PICK k : k = worker[w] OBVIOUS
<1>0. k \in WorkerStates BY DEF TypeOK
<1>1. ~GivesBack(Enter(k, "retire")) BY <1>0 DEF Enter, GivesBack, WorkerStates
<1>2. CASE InspectPurchase(w)
 <2>1. PICK amount : Become(w, Enter(k, "retire")) \/ Become(w, [k EXCEPT !.pc = "cancel", !.amount = amount]) BY <1>2 DEF InspectPurchase
 <2>2. ~GivesBack([k EXCEPT !.pc = "cancel", !.amount = amount]) BY <1>0 DEF GivesBack, WorkerStates
 <2> QED BY <1>1,<2>1,<2>2, EntitledByStep
<1>3. CASE RefundDebit(w) BY <1>1,<1>3, EntitledByReturn, EntitledByCatch DEF RefundDebit
<1>4. CASE EnqueueCompensation(w) BY <1>1,<1>4, EntitledByReturn DEF EnqueueCompensation
<1>5. CASE RetireAttempt(w)
 <2>1. ~GivesBack(Finish(k)) BY DEF Finish, GivesBack
 <2> QED BY <1>5,<2>1, EntitledByReturn DEF RetireAttempt
<1> QED BY <1>2,<1>3,<1>4,<1>5

\* The cancellation of an unpaid purchase: it is CANCELED when the refund comes.
LEMMA CancelCancels == ASSUME IInv, QInv, NEW w \in Workers, CancelPurchase(w) PROVE Stays /\ \A v \in Workers : Entitled(v)
<1> PICK k : k = worker[w] OBVIOUS
<1> PICK e : e = Job(w).exec OBVIOUS
<1> PICK p : p = Job(w).purchase OBVIOUS
<1>0. TypeOK /\ OwnersKnown /\ PaymentsFit /\ k \in WorkerStates BY DEF IInv, TypeOK, QInv, OwnersInv, MoneyInv
<1>1. k.pc = "cancel" /\ k.row \in Schedules /\ Job(w) = k.jobs[k.row] /\ Job(w) \in Jobs /\ p \in Purchases
  BY DEF CancelPurchase, IInv, WorkersOK, WorkerOK, Job
<1>2. e \in Executions /\ debit[e] # None /\ debit[e].purchase = p /\ purchase[p].status # "PAID"
  BY <1>1 DEF IInv, WorkersOK, WorkerOK, QInv, MoneyInv, BeliefsFit, Believes, Jobs
<1>3. purchase[p].status \in {"PENDING_PAYMENT", "CANCELED"}
 <2>1. Owns(e, p) BY <1>2 DEF Owns
 <2>2. purchase[p].status # "ABSENT" BY <1>0,<1>1,<1>2,<2>1 DEF OwnersKnown
 <2>3. purchase[p] \in PurchaseRows BY <1>0,<1>1 DEF TypeOK
 <2> QED BY <1>2,<2>2,<2>3 DEF PurchaseRows
<1>4. purchase[p].status = "PENDING_PAYMENT" => cancellation[e] = None BY <1>0,<1>1,<1>2 DEF PaymentsFit
<1>5. purchase'[p].status = "CANCELED" /\ \A q \in Purchases \ {p} : purchase'[q] = purchase[q]
 <2>1. CASE purchase[p].status = "PENDING_PAYMENT"
  <3>1. purchase' = [purchase EXCEPT ![p].status = "CANCELED"] BY <1>4,<2>1 DEF CancelPurchase, Inserts
  <3> QED BY <1>0,<1>1,<3>1 DEF TypeOK, PurchaseRows
 <2>2. CASE purchase[p].status = "CANCELED"
  <3>1. purchase' = purchase BY <2>2 DEF CancelPurchase, Inserts
  <3> QED BY <2>2,<3>1
 <2> QED BY <1>3,<2>1,<2>2
<1>6. Stays BY <1>1,<1>5 DEF Stays, CancelPurchase, ledger
<1>7. Catch(k).jobs[Catch(k).row] = Job(w)
 <2>1. Catch(k) = [k EXCEPT !.pc = Landing(k)] BY <1>1 DEF Catch, Enter
 <2>2. Catch(k).jobs = k.jobs /\ Catch(k).row = k.row BY <1>0,<2>1 DEF WorkerStates
 <2> QED BY <1>1,<2>2
<1>8. \A v \in Workers : Entitled(v)
 <2>1. Become(w, Catch(k)) BY DEF CancelPurchase
 <2> QED BY <1>0,<1>5,<1>7,<2>1, EntitledByStep
<1> QED BY <1>6,<1>8

\* The order of a run: cancel, refund, enqueue.  The other steps leave what is given back.
LEMMA CanceledStepOK == ASSUME Quiet, "cancel" \notin FailingSteps, IInv, QInv, CanceledFirst, [Next]_vars PROVE CanceledFirst'
<1> DEFINE Same == \A e \in Executions : compensation'[e].status # "ABSENT" \/ refund'[e] # None =>
                     \/ compensation[e].status # "ABSENT" \/ refund[e] # None
                     \/ debit[e] # None /\ purchase[debit[e].purchase].status = "CANCELED"
<1>0. TypeOK BY DEF IInv
<1>1. ASSUME Stays, \A v \in Workers : Entitled(v), Same PROVE CanceledFirst' BY <1>1, CanceledKept
<1>2. ASSUME UNCHANGED <<compensation, refund>> PROVE Same BY <1>2
<1>3. ASSUME UNCHANGED <<purchase, debit>> PROVE Stays BY <1>3 DEF Stays
<1>4. ASSUME UNCHANGED worker PROVE \A v \in Workers : Entitled(v) BY <1>4 DEF Entitled, Job
<1>5. ASSUME NEW w \in Workers, ClaimDue(w) \/ RowStep(w) PROVE CanceledFirst'
 <2>1. \A v \in Workers : Entitled(v) BY <1>0,<1>5, EntitledByRow
 <2>2. Same BY <1>2,<1>5 DEF ClaimDue, RowStep, ReadPlan, ReadPurchase, CreatePurchase, LinkPurchase, LookupDebit, CheckWallet, DebitWallet,
   ConfirmPayment, AdvanceSchedule, ledger
 <2>3. Stays
  <3>1. CASE CreatePurchase(w) BY <1>0,<3>1 DEF CreatePurchase, Stays, TypeOK, ledger
  <3>2. CASE DebitWallet(w)
   <4>1. CASE Debitable(w)
    <5>1. debit[Job(w).exec] = None BY <4>1 DEF Debitable, PriorDebit
    <5>2. UNCHANGED purchase BY <3>2 DEF DebitWallet, orders
    <5>3. \A e \in Executions : debit[e] # None => debit'[e] = debit[e] BY <1>0,<3>2,<4>1,<5>1 DEF DebitWallet, TypeOK
    <5> QED BY <5>2,<5>3 DEF Stays
   <4>2. CASE ~Debitable(w) BY <1>3,<3>2,<4>2 DEF DebitWallet, orders
   <4> QED BY <4>1,<4>2
  <3>3. CASE ConfirmPayment(w)
   <4>1. CASE Inserts(Job(w).purchase, settlement[Job(w).exec])
    <5>1. purchase[Job(w).purchase].status = "PENDING_PAYMENT" BY <4>1 DEF Inserts
    <5>2. purchase' = [purchase EXCEPT ![Job(w).purchase].status = "PAID"] /\ UNCHANGED debit BY <3>3,<4>1 DEF ConfirmPayment, ledger
    <5> QED BY <1>0,<5>1,<5>2 DEF Stays, TypeOK
   <4>2. CASE ~Inserts(Job(w).purchase, settlement[Job(w).exec]) BY <1>3,<3>3,<4>2 DEF ConfirmPayment, ledger
   <4> QED BY <4>1,<4>2
  <3>4. CASE ClaimDue(w) \/ ReadPlan(w) \/ ReadPurchase(w) \/ LinkPurchase(w) \/ LookupDebit(w) \/ CheckWallet(w) \/ AdvanceSchedule(w)
    BY <1>3,<3>4 DEF ClaimDue, ReadPlan, ReadPurchase, LinkPurchase, LookupDebit, CheckWallet, AdvanceSchedule, ledger, orders
  <3> QED BY <1>5,<3>1,<3>2,<3>3,<3>4 DEF RowStep
 <2> QED BY <1>1,<2>1,<2>2,<2>3
<1>6. ASSUME NEW w \in Workers, CancelPurchase(w) PROVE CanceledFirst' BY <1>1,<1>2,<1>6, CancelCancels DEF CancelPurchase, ledger
<1>7. ASSUME NEW w \in Workers, InspectPurchase(w) \/ RefundDebit(w) \/ EnqueueCompensation(w) \/ RetireAttempt(w) PROVE CanceledFirst'
 <2>1. \A v \in Workers : Entitled(v) BY <1>0,<1>7, EntitledByHandler
 <2>2. Stays BY <1>3,<1>7 DEF InspectPurchase, RefundDebit, EnqueueCompensation, RetireAttempt, Refunds, ledger, orders
 <2>3. Same
  <3>1. CASE InspectPurchase(w) \/ RetireAttempt(w) BY <1>2,<3>1 DEF InspectPurchase, RetireAttempt, ledger
  <3>2. CASE RefundDebit(w) \/ EnqueueCompensation(w)
   <4> PICK x : x = Job(w).exec OBVIOUS
   <4>1. GivesBack(worker[w]) /\ Job(w) \in Jobs BY <3>2 DEF GivesBack, RefundDebit, EnqueueCompensation, IInv, WorkersOK, WorkerOK, Job
   <4>2. x \in Executions /\ debit[x] # None /\ debit[x].purchase = Job(w).purchase
     BY <4>1 DEF IInv, WorkersOK, WorkerOK, GivesBack, Job, QInv, MoneyInv, BeliefsFit, Believes, Jobs
   <4>3. purchase[debit[x].purchase].status = "CANCELED" BY <4>1,<4>2 DEF CanceledFirst, GivesBack
   <4>4. \A e \in Executions \ {x} : compensation'[e] = compensation[e] /\ refund'[e] = refund[e]
     BY <1>0,<3>2,<4>2 DEF RefundDebit, EnqueueCompensation, Refunds, ledger, TypeOK
   <4> QED BY <4>2,<4>3,<4>4
  <3> QED BY <1>7,<3>1,<3>2
 <2> QED BY <1>1,<2>1,<2>2,<2>3
<1>8. ASSUME NEW w \in Workers, StatementFails(w) PROVE CanceledFirst'
 <2>1. worker[w].pc # "cancel" BY <1>8 DEF StatementFails
 <2>2. \A v \in Workers : Entitled(v) BY <1>0,<1>8,<2>1, EntitledByCatch DEF StatementFails
 <2> QED BY <1>1,<1>2,<1>3,<1>8,<2>2 DEF StatementFails, ledger, orders
<1>9. ASSUME NEW w \in Workers, WorkerCrashes(w) PROVE CanceledFirst'
 <2>1. ~GivesBack(Idle) BY DEF GivesBack, Idle
 <2>2. \A v \in Workers : Entitled(v) BY <1>0,<1>9,<2>1, EntitledByStep DEF WorkerCrashes
 <2> QED BY <1>1,<1>2,<1>3,<1>9,<2>2 DEF WorkerCrashes, ledger, orders
<1>10. ASSUME NEW r \in Reconcilers, ClaimCompensations(r) \/ ReconcilerStep(r) \/ ReconcilerCrashes(r) PROVE CanceledFirst'
 <2>1. UNCHANGED <<purchase, worker>> /\ UNCHANGED debit
   BY <1>10 DEF ClaimCompensations, ReconcilerStep, Compensate, ResolveCompensation, RetryCompensation, ReconcilerCrashes, Refunds, ledger, orders
 <2>2. Same
  <3>1. CASE ReconcilerCrashes(r) BY <1>2,<3>1 DEF ReconcilerCrashes, ledger
  <3>2. CASE Compensate(r)
   <4>1. PICK x \in reconciler[r].jobs : Refunds(x, compensation[x].amount, compensation[x].purchase) \/ UNCHANGED ledger BY <3>2 DEF Compensate
   <4>2. x \in Executions /\ compensation[x].status # "ABSENT" BY DEF IInv, TypeOK, ReconcilersOK, ReconcilerStates
   <4>3. UNCHANGED compensation /\ \A e \in Executions \ {x} : refund'[e] = refund[e]
     BY <1>0,<3>2,<4>1,<4>2 DEF Compensate, Refunds, ledger, TypeOK
   <4> QED BY <4>2,<4>3
  <3>3. CASE ClaimCompensations(r)
   <4>1. UNCHANGED refund BY <3>3 DEF ClaimCompensations, ledger
   <4>2. PICK jobs \in SUBSET Executions :
            /\ compensation' = [e \in Executions |->
                 IF e \in jobs THEN [Reap(compensation[e]) EXCEPT !.status = "PROCESSING", !.attempts = @ + 1]
                               ELSE Reap(compensation[e])]
            /\ \A e \in jobs : Reap(compensation[e]).status \in {"PENDING", "FAILED"} BY <3>3 DEF ClaimCompensations
   <4>3. ASSUME NEW e \in Executions, compensation[e].status = "ABSENT" PROVE compensation'[e].status = "ABSENT"
    <5>1. Reap(compensation[e]) = compensation[e] BY <4>3 DEF Reap
    <5>2. e \notin jobs BY <4>2,<4>3,<5>1
    <5> QED BY <4>2,<4>3,<5>1,<5>2
   <4> QED BY <4>1,<4>3
  <3>4. CASE ResolveCompensation(r) \/ RetryCompensation(r)
   <4>1. UNCHANGED refund BY <3>4 DEF ResolveCompensation, RetryCompensation, ledger
   <4>2. reconciler[r].row \in Executions /\ compensation[reconciler[r].row].status # "ABSENT"
     BY <3>4 DEF IInv, ReconcilersOK, ResolveCompensation, RetryCompensation
   <4>3. \A e \in Executions \ {reconciler[r].row} : compensation'[e] = compensation[e]
     BY <1>0,<3>4,<4>2 DEF ResolveCompensation, RetryCompensation, TypeOK
   <4> QED BY <4>1,<4>2,<4>3
  <3> QED BY <1>10,<3>1,<3>2,<3>3,<3>4 DEF ReconcilerStep
 <2> QED BY <1>1,<1>3,<1>4,<2>1,<2>2
<1>11. ASSUME UNCHANGED <<purchase, worker, debit, refund>>, UNCHANGED compensation PROVE CanceledFirst' BY <1>1,<1>2,<1>3,<1>4,<1>11
<1>12. ASSUME NEW s \in Schedules, FallDue(s) \/ ClaimGrowsStale(s) \/ SetRenewal(s) PROVE CanceledFirst'
  BY <1>11,<1>12 DEF FallDue, ClaimGrowsStale, SetRenewal, orders, ledger
<1>13. ASSUME NEW e \in Executions, CompensationGrowsStale(e) PROVE CanceledFirst'
 <2>1. \A x \in Executions : compensation'[x].status = compensation[x].status BY <1>0,<1>13 DEF CompensationGrowsStale, TypeOK, CompensationRows
 <2>2. UNCHANGED <<purchase, worker, debit, refund>> BY <1>13 DEF CompensationGrowsStale, orders, ledger
 <2> QED BY <1>1,<1>3,<1>4,<2>1,<2>2
<1>14. CASE TopUp \/ FreezeWallet \/ ThawWallet BY <1>11,<1>14 DEF TopUp, FreezeWallet, ThawWallet, orders
<1>15. CASE DeactivatePackage \/ RepricePackage BY <1>11,<1>15 DEF DeactivatePackage, RepricePackage, ledger, orders
<1>16. CASE UNCHANGED vars BY <1>11,<1>16 DEF vars
<1> HIDE DEF Same
<1> QED BY <1>5,<1>6,<1>7,<1>8,<1>9,<1>10,<1>12,<1>13,<1>14,<1>15,<1>16 DEF Next, HandlerStep

\* Design document, section 5: an execution is settled or its debit is given back, never
\* both, by whichever of the exception handler and reconcileRenewalCompensations: as long
\* as the cancellation's own failure is not swallowed.
THEOREM PaidOrRefunded == ASSUME Quiet, "cancel" \notin FailingSteps PROVE Spec => []NeverPaidAndRefunded
<1>1. Init => IInv /\ QInv /\ CanceledFirst
 <2>1. Init => CanceledFirst BY DEF Init, CanceledFirst, Idle, NoCompensation
 <2> QED BY <2>1, InitOK, QInitOK
<1>2. (IInv /\ QInv /\ CanceledFirst) /\ [Next]_vars => (IInv /\ QInv /\ CanceledFirst)' BY StepOK, QStepOK, CanceledStepOK
<1>3. IInv /\ QInv /\ CanceledFirst => NeverPaidAndRefunded BY DEF IInv, QInv, MoneyInv, PaymentsFit, CanceledFirst, NeverPaidAndRefunded
<1> QED BY <1>1,<1>2,<1>3, PTL DEF Spec

\* A statement makes one entry, or settles one execution, or neither.
Enters(f, e, x) == f[e] = None /\ x # None
LedgerStep ==
  \/ UNCHANGED <<debit, settlement, refund>>
  \/ \E e \in Executions : \E x : Enters(debit, e, x) /\ debit' = [debit EXCEPT ![e] = x] /\ UNCHANGED <<settlement, refund>>
  \/ \E e \in Executions : \E x : Enters(settlement, e, x) /\ settlement' = [settlement EXCEPT ![e] = x] /\ UNCHANGED <<debit, refund>>
  \/ \E e \in Executions : \E x : Enters(refund, e, x) /\ refund' = [refund EXCEPT ![e] = x] /\ UNCHANGED <<debit, settlement>>

LEMMA RefundEnters ==
  ASSUME NEW e \in Executions, NEW amount \in Nat, NEW p \in Purchases, Refunds(e, amount, p), UNCHANGED settlement PROVE LedgerStep
<1>1. CASE refund[e] # None BY <1>1 DEF Refunds, LedgerStep, ledger
<1>2. CASE refund[e] = None
 <2> PICK x : x = [amount |-> amount, purchase |-> p] OBVIOUS
 <2>1. x # None BY NoneAssumption DEF Entries
 <2>2. refund' = [refund EXCEPT ![e] = x] /\ UNCHANGED debit BY <1>2 DEF Refunds
 <2> QED BY <1>2,<2>1,<2>2 DEF LedgerStep, Enters
<1> QED BY <1>1,<1>2

LEMMA StillLedger == ASSUME UNCHANGED <<debit, settlement, refund>> PROVE LedgerStep BY DEF LedgerStep

LEMMA LedgerMoves == ASSUME IInv, [Next]_vars PROVE LedgerStep
<1>0. TypeOK /\ WorkersOK BY DEF IInv
<1>1. ASSUME NEW w \in Workers, DebitWallet(w) PROVE LedgerStep
 <2>1. worker[w].pc = "debit" /\ UNCHANGED <<settlement, refund>> BY <1>1 DEF DebitWallet, orders
 <2>2. /\ Job(w).exec \in Executions /\ Job(w).purchase \in Purchases /\ worker[w].amount \in Nat
   BY <1>0,<2>1, BusyOK DEF WorkerOK, WorkerStates, Job, Jobs
 <2>3. CASE Debitable(w)
  <3> PICK e \in Executions : e = Job(w).exec BY <2>2
  <3> PICK x : x = [amount |-> worker[w].amount, purchase |-> Job(w).purchase] OBVIOUS
  <3>1. x # None BY <2>2, NoneAssumption DEF Entries
  <3>2. debit[e] = None /\ debit' = [debit EXCEPT ![e] = x] BY <1>1,<2>3 DEF DebitWallet, Debitable, PriorDebit
  <3> QED BY <2>1,<3>1,<3>2 DEF LedgerStep, Enters
 <2>4. CASE ~Debitable(w) BY <1>1,<2>1,<2>4, StillLedger DEF DebitWallet
 <2> QED BY <2>3,<2>4
<1>2. ASSUME NEW w \in Workers, ConfirmPayment(w) PROVE LedgerStep
 <2>1. worker[w].pc = "confirm" /\ UNCHANGED <<debit, refund>> BY <1>2 DEF ConfirmPayment, ledger
 <2>2. /\ Job(w).exec \in Executions /\ Job(w).purchase \in Purchases BY <1>0,<2>1, BusyOK DEF WorkerOK, WorkerStates, Job, Jobs
 <2> PICK e \in Executions, x \in Purchases : e = Job(w).exec /\ x = Job(w).purchase BY <2>2
 <2>3. CASE Inserts(x, settlement[e])
  <3>1. x # None BY NoneAssumption
  <3>2. settlement[e] = None /\ settlement' = [settlement EXCEPT ![e] = x] BY <1>2,<2>3 DEF ConfirmPayment, Inserts
  <3> QED BY <2>1,<3>1,<3>2 DEF LedgerStep, Enters
 <2>4. CASE ~Inserts(x, settlement[e]) BY <1>2,<2>1,<2>4, StillLedger DEF ConfirmPayment
 <2> QED BY <2>3,<2>4
<1>3. ASSUME NEW w \in Workers, RefundDebit(w) PROVE LedgerStep
 <2>1. worker[w].pc = "refund" /\ UNCHANGED settlement BY <1>3 DEF RefundDebit, orders
 <2>2. /\ Job(w).exec \in Executions /\ Job(w).purchase \in Purchases /\ worker[w].amount \in Nat
   BY <1>0,<2>1, BusyOK DEF WorkerOK, WorkerStates, Job, Jobs
 <2>3. Refunds(Job(w).exec, worker[w].amount, Job(w).purchase) \/ UNCHANGED ledger BY <1>3 DEF RefundDebit
 <2>4. CASE UNCHANGED ledger BY <2>1,<2>4, StillLedger DEF ledger
 <2> QED BY <2>1,<2>2,<2>3,<2>4, RefundEnters
<1>4. ASSUME NEW r \in Reconcilers, Compensate(r) PROVE LedgerStep
 <2>1. UNCHANGED settlement BY <1>4 DEF Compensate, orders
 <2>2. PICK e \in reconciler[r].jobs : Refunds(e, compensation[e].amount, compensation[e].purchase) \/ UNCHANGED ledger BY <1>4 DEF Compensate
 <2>3. e \in Executions /\ compensation[e].purchase \in Purchases /\ compensation[e].amount \in Nat
   BY DEF IInv, TypeOK, ReconcilersOK, ReconcilerStates, CompensationsOK, CompensationOK, CompensationRows
 <2>4. CASE UNCHANGED ledger BY <2>1,<2>4, StillLedger DEF ledger
 <2> QED BY <2>1,<2>2,<2>3,<2>4, RefundEnters
<1>5. ASSUME NEW w \in Workers, \/ ClaimDue(w) \/ ReadPlan(w) \/ ReadPurchase(w) \/ CreatePurchase(w) \/ LinkPurchase(w)
                                \/ LookupDebit(w) \/ CheckWallet(w) \/ AdvanceSchedule(w)
  PROVE LedgerStep
 <2> SUFFICES UNCHANGED <<debit, settlement, refund>> BY StillLedger
 <2> QED BY <1>5 DEF ClaimDue, ReadPlan, ReadPurchase, CreatePurchase, LinkPurchase, LookupDebit, CheckWallet, AdvanceSchedule, ledger, orders
<1>6. ASSUME NEW w \in Workers, \/ InspectPurchase(w) \/ CancelPurchase(w) \/ EnqueueCompensation(w) \/ RetireAttempt(w)
                                \/ StatementFails(w) \/ WorkerCrashes(w)
  PROVE LedgerStep
 <2> SUFFICES UNCHANGED <<debit, settlement, refund>> BY StillLedger
 <2> QED BY <1>6 DEF InspectPurchase, CancelPurchase, EnqueueCompensation, RetireAttempt, StatementFails, WorkerCrashes, ledger, orders
<1>7. ASSUME NEW r \in Reconcilers, ClaimCompensations(r) \/ ResolveCompensation(r) \/ RetryCompensation(r) \/ ReconcilerCrashes(r) PROVE LedgerStep
 <2> SUFFICES UNCHANGED <<debit, settlement, refund>> BY StillLedger
 <2> QED BY <1>7 DEF ClaimCompensations, ResolveCompensation, RetryCompensation, ReconcilerCrashes, ledger, orders
<1>8. ASSUME NEW s \in Schedules, FallDue(s) \/ ClaimGrowsStale(s) \/ SetRenewal(s) PROVE LedgerStep
 <2> SUFFICES UNCHANGED <<debit, settlement, refund>> BY StillLedger
 <2> QED BY <1>8 DEF FallDue, ClaimGrowsStale, SetRenewal, ledger, orders
<1>9. ASSUME NEW e \in Executions, CompensationGrowsStale(e) PROVE LedgerStep
 <2> SUFFICES UNCHANGED <<debit, settlement, refund>> BY StillLedger
 <2> QED BY <1>9 DEF CompensationGrowsStale, ledger, orders
<1>10. CASE TopUp \/ FreezeWallet \/ ThawWallet \/ DeactivatePackage \/ RepricePackage
 <2> SUFFICES UNCHANGED <<debit, settlement, refund>> BY StillLedger
 <2> QED BY <1>10 DEF TopUp, FreezeWallet, ThawWallet, DeactivatePackage, RepricePackage, ledger, orders
<1>11. CASE UNCHANGED vars BY <1>11, StillLedger DEF vars, ledger, orders
<1> QED BY <1>1,<1>2,<1>3,<1>4,<1>5,<1>6,<1>7,<1>8,<1>9,<1>10,<1>11 DEF Next, RowStep, HandlerStep, ReconcilerStep

\* The invariants that make the view of an execution a walk.
LedgerFits == TypeOK /\ SettledImpliesDebited /\ RefundImpliesDebited /\ NeverPaidAndRefunded

\* What one changed entry makes of the view.
LEMMA ChargeMoves == ASSUME LedgerFits, LedgerFits', LedgerStep PROVE [Charge!Next]_charge
<1>0. /\ debit \in [Executions -> Entries \cup {None}] /\ refund \in [Executions -> Entries \cup {None}]
      /\ settlement \in [Executions -> Purchases \cup {None}]
      /\ SettledImpliesDebited /\ RefundImpliesDebited /\ NeverPaidAndRefunded
      /\ SettledImpliesDebited' /\ RefundImpliesDebited' /\ NeverPaidAndRefunded' BY DEF LedgerFits, TypeOK
<1>1. CASE UNCHANGED <<debit, settlement, refund>> BY <1>1 DEF charge
<1>a. ASSUME NEW e \in Executions, NEW a, NEW b, charge[e] = a, charge'[e] = b, \A d \in Executions \ {e} : charge'[d] = charge[d]
  PROVE Charge!Move(e, a, b)
 <2>1. DOMAIN charge = Executions /\ charge = [d \in Executions |-> charge[d]] BY DEF charge
 <2>2. charge' = [d \in Executions |-> charge'[d]] BY DEF charge
 <2> QED BY ONLY <1>a,<2>1,<2>2 DEF Charge!Move
<1>2. ASSUME NEW e \in Executions, NEW x, Enters(debit, e, x), debit' = [debit EXCEPT ![e] = x], UNCHANGED <<settlement, refund>> PROVE Charge!Next
 <2>1. settlement[e] = None /\ refund[e] = None /\ debit[e] = None /\ debit'[e] # None
   BY <1>0,<1>2 DEF Enters, SettledImpliesDebited, RefundImpliesDebited
 <2>2. \A d \in Executions \ {e} : debit'[d] = debit[d] BY <1>0,<1>2
 <2>3. charge[e] = "none" /\ charge'[e] = "debited" BY <1>2,<2>1 DEF charge
 <2>4. \A d \in Executions \ {e} : charge'[d] = charge[d] BY <1>2,<2>2 DEF charge
 <2> QED BY <1>a,<2>3,<2>4 DEF Charge!Next, Charge!Debit
<1>3. ASSUME NEW e \in Executions, NEW x, Enters(settlement, e, x), settlement' = [settlement EXCEPT ![e] = x], UNCHANGED <<debit, refund>>
  PROVE Charge!Next
 <2>1. settlement[e] = None /\ settlement'[e] # None BY <1>0,<1>3 DEF Enters
 <2>2. debit[e] # None /\ refund[e] = None /\ debit'[e] # None /\ refund'[e] = None
   BY <1>0,<1>3,<2>1 DEF SettledImpliesDebited, NeverPaidAndRefunded
 <2>3. \A d \in Executions \ {e} : settlement'[d] = settlement[d] BY <1>0,<1>3
 <2>4. charge[e] = "debited" /\ charge'[e] = "settled" BY <2>1,<2>2 DEF charge
 <2>5. \A d \in Executions \ {e} : charge'[d] = charge[d] BY <1>3,<2>3 DEF charge
 <2> QED BY <1>a,<2>4,<2>5 DEF Charge!Next, Charge!Settle
<1>4. ASSUME NEW e \in Executions, NEW x, Enters(refund, e, x), refund' = [refund EXCEPT ![e] = x], UNCHANGED <<debit, settlement>> PROVE Charge!Next
 <2>1. refund[e] = None /\ refund'[e] # None BY <1>0,<1>4 DEF Enters
 <2>2. debit[e] # None /\ settlement[e] = None BY <1>0,<1>4,<2>1 DEF RefundImpliesDebited, NeverPaidAndRefunded
 <2>3. \A d \in Executions \ {e} : refund'[d] = refund[d] BY <1>0,<1>4
 <2>4. charge[e] = "debited" /\ charge'[e] = "refunded" BY <2>1,<2>2 DEF charge
 <2>5. \A d \in Executions \ {e} : charge'[d] = charge[d] BY <1>4,<2>3 DEF charge
 <2> QED BY <1>a,<2>4,<2>5 DEF Charge!Next, Charge!Refund
<1> QED BY <1>1,<1>2,<1>3,<1>4 DEF LedgerStep

\* The steps of WalletCharge, without the promise that a debit ends.
ChargeSafety == Charge!Init /\ [][Charge!Next]_charge

\* The renewal saga implements WalletCharge step by step (design document, section 5): an
\* execution takes the price at most once, and what it took is settled or given back, by
\* whichever of processDueRenewals and reconcileRenewalCompensations, for every number of
\* schedules and runs; as long as the cancellation's own failure is not swallowed.
THEOREM ImplementsWalletCharge == ASSUME Quiet, "cancel" \notin FailingSteps PROVE Spec => ChargeSafety
<1>1. Init => Charge!Init BY DEF Init, Charge!Init, charge
<1>2. IInv /\ NeverPaidAndRefunded => LedgerFits BY DEF IInv, LedgerFits
<1>3. IInv /\ [Next]_vars => LedgerStep BY LedgerMoves
<1>4. LedgerFits /\ LedgerFits' /\ LedgerStep => [Charge!Next]_charge BY ChargeMoves
<1>5. Spec => []IInv BY Invariance
<1>6. Spec => []NeverPaidAndRefunded BY PaidOrRefunded
<1> QED BY <1>1,<1>2,<1>3,<1>4,<1>5,<1>6, PTL DEF Spec, ChargeSafety

------------------------
(* What people share beside messages. *)

Circles == SUBSET Folk

\* The tabs that are about to open a conversation of the people in c.
Asking(c) == {t \in Tabs : directAsk[t] = c}

\* Conversations were opened, and are about to be, by different tabs; people who did not
\* collide have one tab that is about to open it, and only while there is none.
DirectInv ==
  /\ direct \in [Circles -> Nat] /\ directAsk \in [Tabs -> Circles]
  /\ direct[NoPair] = 0
  /\ \A c \in Circles \ {NoPair} : direct[c] + Cardinality(Asking(c)) <= Cardinality(Tabs)
  /\ \A c \in Circles : c \notin collided => direct[c] <= 1
  /\ \A c \in Circles \ {NoPair} : c \notin collided =>
       \A t, u \in Asking(c) : direct[c] = 0 /\ u = t

RoomsInv ==
  /\ rooms \in [Slugs -> [kind : {"NONE", "CHANNEL", "COMMUNITY"}, role : [Folk -> {"NONE", "OWNER", "MEMBER"}]]]
  /\ OwnerStays

Ballots == [at : {"idle", "delete", "insert"}, choice : SUBSET PollOptions]
Voting(t) == ballot[t].at # "idle"

\* A person who did not vote in two tabs has one ballot at a time, and the old vote is
\* gone when its option is inserted.
BallotOK(t) ==
  Voting(t) =>
    /\ ~poll.multiple => \E c \in PollOptions : ballot[t].choice = {c}
    /\ UserOf(t) \notin doubled =>
         /\ \A u \in Tabs : UserOf(u) = UserOf(t) /\ Voting(u) => u = t
         /\ ~poll.multiple /\ ballot[t].at = "insert" => votes[UserOf(t)] = {}

AtMostOne(S) == S = {} \/ \E c \in PollOptions : S = {c}

PollInv ==
  /\ poll \in [open : BOOLEAN, multiple : BOOLEAN] /\ votes \in [Folk -> SUBSET PollOptions]
  /\ ballot \in [Tabs -> Ballots]
  /\ \A t \in Tabs : BallotOK(t)
  /\ ~poll.multiple => \A p \in Folk \ doubled : AtMostOne(votes[p])

PrefRows == [Fields -> BOOLEAN]
PrefInv ==
  /\ pref \in PrefRows /\ wish \in PrefRows /\ crossedPref \in BOOLEAN
  /\ prefAsk \in [1..2 -> [at : {"idle", "write"}, row : PrefRows, field : Fields, value : BOOLEAN]]
  /\ PreferencesKept
  /\ ~crossedPref => \A i \in 1..2 : prefAsk[i].at = "write" =>
                       prefAsk[i].row = pref /\ \A j \in 1..2 \ {i} : prefAsk[j].at = "idle"

StoryInv ==
  /\ active \subseteq Folk
  /\ story \in [audience : {"NONE", "PUBLIC", "CONTACTS", "PRIVATE", "CUSTOM"}, allowed : SUBSET Folk, seen : SUBSET Folk]
  /\ AudienceIsComplete

CommunityInv == DirectInv /\ RoomsInv /\ PollInv /\ PrefInv /\ StoryInv /\ LaunchIsGranted

LEMMA TabsAreFinite == IsFiniteSet(Tabs) /\ Cardinality(Tabs) \in Nat /\ \A t \in Tabs : UserOf(t) \in Folk
<1>1. IsFiniteSet({1, 2})
 <2>1. IsFiniteSet({1}) BY FS_Singleton
 <2>2. {1, 2} = {1} \union {2} OBVIOUS
 <2> QED BY <2>1,<2>2, FS_AddElement
<1>2. IsFiniteSet(Tabs) BY <1>1, FolkAssumption, FS_Product DEF Tabs
<1> QED BY <1>2, FS_CardinalityType DEF Tabs, UserOf

LEMMA AskingIsFinite == ASSUME NEW c PROVE IsFiniteSet(Asking(c)) /\ Cardinality(Asking(c)) \in Nat /\ Cardinality(Asking(c)) <= Cardinality(Tabs)
<1>1. Asking(c) \in SUBSET Tabs BY DEF Asking
<1>2. IsFiniteSet(Asking(c)) /\ Cardinality(Asking(c)) <= Cardinality(Tabs) BY <1>1, TabsAreFinite, FS_Subset
<1> QED BY <1>2, FS_CardinalityType

LEMMA CommunityBegins == CommunityInit => CommunityInv
<1> SUFFICES ASSUME CommunityInit PROVE CommunityInv OBVIOUS
<1>1. DirectInv
 <2>0. NoPair \in Circles BY DEF NoPair, Circles
 <2>1. direct \in [Circles -> Nat] /\ directAsk \in [Tabs -> Circles] /\ direct[NoPair] = 0 BY <2>0 DEF CommunityInit, Circles
 <2>2. \A c \in Circles \ {NoPair} : Asking(c) = {}
  <3>1. \A t \in Tabs : directAsk[t] = NoPair BY DEF CommunityInit
  <3> QED BY <3>1 DEF Asking
 <2>3. \A c \in Circles : direct[c] = 0 BY DEF CommunityInit, Circles
 <2>4. \A c \in Circles \ {NoPair} : direct[c] + Cardinality(Asking(c)) <= Cardinality(Tabs) BY <2>2,<2>3, FS_EmptySet, TabsAreFinite
 <2> QED BY <2>1,<2>2,<2>3,<2>4 DEF DirectInv
<1>2. RoomsInv BY DEF CommunityInit, RoomsInv, OwnerStays
<1>3. PollInv
 <2>1. NoBallot \in Ballots /\ NoBallot.at = "idle" BY DEF NoBallot, Ballots
 <2> QED BY <2>1 DEF CommunityInit, PollInv, BallotOK, Voting, AtMostOne
<1>4. PrefInv
 <2>1. Defaults \in PrefRows BY DEF Defaults, PrefRows
 <2>2. NoAsk \in [at : {"idle", "write"}, row : PrefRows, field : Fields, value : BOOLEAN] /\ NoAsk.at = "idle" BY <2>1 DEF NoAsk, Fields
 <2> QED BY <2>1,<2>2 DEF CommunityInit, PrefInv, PreferencesKept
<1>5. StoryInv BY DEF CommunityInit, StoryInv, NoStory, AudienceIsComplete
<1>6. LaunchIsGranted BY DEF CommunityInit, LaunchIsGranted
<1> QED BY <1>1,<1>2,<1>3,<1>4,<1>5,<1>6 DEF CommunityInv

LEMMA AskKeepsDirect == ASSUME DirectInv, NEW t \in Tabs, NEW p \in Folk, AskDirect(t, p) PROVE DirectInv'
<1> PICK c \in Circles : c = {UserOf(t), p} BY TabsAreFinite DEF Circles
<1>1. c # NoPair BY DEF NoPair
<1>2. /\ directAsk[t] = NoPair /\ direct[c] = 0 /\ directAsk' = [directAsk EXCEPT ![t] = c] /\ direct' = direct
      /\ collided' = IF \E u \in Tabs : directAsk[u] = c THEN collided \union {c} ELSE collided BY DEF AskDirect, Look
<1>3. directAsk' \in [Tabs -> Circles] BY <1>2 DEF DirectInv
<1>4. Asking(c)' = Asking(c) \union {t} /\ t \notin Asking(c) BY <1>1,<1>2 DEF DirectInv, Asking
<1>5. \A d \in Circles \ {NoPair, c} : Asking(d)' = Asking(d) BY <1>2 DEF DirectInv, Asking
<1>6. direct'[c] + Cardinality(Asking(c)') <= Cardinality(Tabs)
 <2>1. Asking(c)' \in SUBSET Tabs BY DEF Asking
 <2>2. Cardinality(Asking(c)') <= Cardinality(Tabs) /\ Cardinality(Asking(c)') \in Nat BY <2>1, TabsAreFinite, FS_Subset, FS_CardinalityType
 <2> QED BY <1>2,<2>2, TabsAreFinite
<1>7. \A d \in Circles \ {NoPair} : direct'[d] + Cardinality(Asking(d)') <= Cardinality(Tabs) BY <1>2,<1>5,<1>6 DEF DirectInv
<1>8. \A d \in Circles : d \notin collided' => direct'[d] <= 1 BY <1>2 DEF DirectInv
<1>9. ASSUME NEW d \in Circles \ {NoPair}, d \notin collided', NEW u \in Asking(d)', NEW v \in Asking(d)' PROVE direct'[d] = 0 /\ v = u
 <2>1. d \notin collided BY <1>2,<1>9
 <2>2. CASE d = c
  <3>1. Asking(c) = {} BY <1>2,<1>9,<2>2 DEF Asking
  <3> QED BY <1>2,<1>4,<1>9,<2>2,<3>1
 <2>3. CASE d # c BY <1>2,<1>5,<1>9,<2>1,<2>3 DEF DirectInv
 <2> QED BY <2>2,<2>3
<1> QED BY <1>2,<1>3,<1>7,<1>8,<1>9 DEF DirectInv

LEMMA CreateKeepsDirect == ASSUME DirectInv, NEW t \in Tabs, CreateDirect(t) PROVE DirectInv'
<1> PICK c \in Circles : c = directAsk[t] BY DEF DirectInv
<1>1. c # NoPair /\ direct' = [direct EXCEPT ![c] = direct[c] + 1] /\ directAsk' = [directAsk EXCEPT ![t] = NoPair] /\ collided' = collided
  BY DEF CreateDirect
<1>2. NoPair \in Circles BY DEF NoPair, Circles
<1>3. direct' \in [Circles -> Nat] /\ directAsk' \in [Tabs -> Circles] /\ direct'[NoPair] = 0 BY <1>1,<1>2 DEF DirectInv
<1>4. direct'[c] = direct[c] + 1 /\ \A d \in Circles \ {c} : direct'[d] = direct[d] BY <1>1 DEF DirectInv
<1>5. Asking(c)' = Asking(c) \ {t} /\ t \in Asking(c) BY <1>1 DEF DirectInv, Asking
<1>6. \A d \in Circles \ {NoPair, c} : Asking(d)' = Asking(d) BY <1>1 DEF DirectInv, Asking
<1>7. Cardinality(Asking(c)') = Cardinality(Asking(c)) - 1 BY <1>5, AskingIsFinite, FS_RemoveElement
<1>8. direct'[c] + Cardinality(Asking(c)') = direct[c] + Cardinality(Asking(c)) BY <1>4,<1>7, AskingIsFinite DEF DirectInv
<1>9. \A d \in Circles \ {NoPair} : direct'[d] + Cardinality(Asking(d)') <= Cardinality(Tabs)
 <2>1. direct[c] + Cardinality(Asking(c)) <= Cardinality(Tabs) BY <1>1 DEF DirectInv
 <2> QED BY <1>4,<1>6,<1>8,<2>1 DEF DirectInv
<1>10. c \notin collided => direct[c] = 0 /\ Asking(c)' = {} BY <1>1,<1>5 DEF DirectInv
<1>11. \A d \in Circles : d \notin collided' => direct'[d] <= 1 BY <1>1,<1>4,<1>10 DEF DirectInv
<1>12. ASSUME NEW d \in Circles \ {NoPair}, d \notin collided', NEW u \in Asking(d)', NEW v \in Asking(d)' PROVE direct'[d] = 0 /\ v = u
 <2>1. d # c BY <1>1,<1>10,<1>12
 <2> QED BY <1>1,<1>4,<1>6,<1>12,<2>1 DEF DirectInv
<1> QED BY <1>3,<1>9,<1>11,<1>12 DEF DirectInv

LEMMA RoomsAreKept ==
  ASSUME RoomsInv, NEW slug \in Slugs, NEW p \in Folk, JoinCommunity(p, slug) \/ \E k \in {"CHANNEL", "COMMUNITY"} : CreateRoom(p, slug, k)
  PROVE RoomsInv'
<1> PICK old \in [kind : {"NONE", "CHANNEL", "COMMUNITY"}, role : [Folk -> {"NONE", "OWNER", "MEMBER"}]] : old = rooms[slug] BY DEF RoomsInv
<1>1. ASSUME NEW new \in [kind : {"NONE", "CHANNEL", "COMMUNITY"}, role : [Folk -> {"NONE", "OWNER", "MEMBER"}]],
    rooms' = [rooms EXCEPT ![slug] = new], new.kind # "NONE" => new.role[Administrator] = "OWNER"
  PROVE RoomsInv'
 <2>1. rooms'[slug] = new /\ \A s \in Slugs \ {slug} : rooms'[s] = rooms[s] BY <1>1 DEF RoomsInv
 <2> QED BY <1>1,<2>1 DEF RoomsInv, OwnerStays
<1>2. CASE JoinCommunity(p, slug)
 <2> PICK roles : roles = [old.role EXCEPT ![p] = JoinedAs(old.role[p])] OBVIOUS
 <2> PICK new : new = [old EXCEPT !.role = roles] OBVIOUS
 <2>1. rooms' = [rooms EXCEPT ![slug] = new] BY <1>2 DEF JoinCommunity
 <2>2. roles \in [Folk -> {"NONE", "OWNER", "MEMBER"}] BY DEF JoinedAs
 <2>3. old.kind # "NONE" => old.role[Administrator] = "OWNER" BY DEF RoomsInv, OwnerStays
 <2>4. old.kind # "NONE" => roles[Administrator] = "OWNER" BY <2>3, FolkAssumption DEF JoinedAs
 <2>5. new.kind = old.kind /\ new.role = roles
       /\ new \in [kind : {"NONE", "CHANNEL", "COMMUNITY"}, role : [Folk -> {"NONE", "OWNER", "MEMBER"}]] BY <2>2
 <2> QED BY <1>1,<2>1,<2>4,<2>5
<1>3. ASSUME NEW k \in {"CHANNEL", "COMMUNITY"}, CreateRoom(p, slug, k) PROVE RoomsInv'
 <2> PICK roles : roles = [q \in Folk |-> IF q = p THEN "OWNER" ELSE "NONE"] OBVIOUS
 <2> PICK new : new = [kind |-> k, role |-> roles] OBVIOUS
 <2>1. rooms' = [rooms EXCEPT ![slug] = new] /\ p = Administrator BY <1>3 DEF CreateRoom
 <2>2. roles \in [Folk -> {"NONE", "OWNER", "MEMBER"}] /\ roles[Administrator] = "OWNER" BY <2>1, FolkAssumption
 <2> QED BY <1>1,<2>1,<2>2
<1> QED BY <1>2,<1>3

LEMMA BallotsChange ==
  ASSUME PollInv, NEW t \in Tabs, NEW new \in Ballots, BallotTo(t, new)
  PROVE  /\ ballot' \in [Tabs -> Ballots] /\ ballot'[t] = new /\ \A u \in Tabs \ {t} : ballot'[u] = ballot[u]
         /\ Voting(t)' <=> new.at # "idle"
         /\ \A u \in Tabs \ {t} : Voting(u)' <=> Voting(u) BY DEF PollInv, BallotTo, Voting

LEMMA PollsAreKept == ASSUME PollInv, PollNext PROVE PollInv'
<1>0. /\ poll \in [open : BOOLEAN, multiple : BOOLEAN] /\ votes \in [Folk -> SUBSET PollOptions]
      /\ \A t \in Tabs : BallotOK(t) BY DEF PollInv
<1>1. ASSUME \/ poll' = [poll EXCEPT !.open = FALSE]
             \/ /\ poll' \in [open : BOOLEAN, multiple : BOOLEAN]
                /\ (\A p \in Folk : votes[p] = {}) /\ \A t \in Tabs : ~Voting(t), UNCHANGED <<votes, ballot, doubled>>
  PROVE PollInv'
 <2>1. CASE poll' = [poll EXCEPT !.open = FALSE]
  <3>1. poll' \in [open : BOOLEAN, multiple : BOOLEAN] /\ poll'.multiple = poll.multiple BY <1>0,<2>1
  <3> QED BY <1>1,<3>1 DEF PollInv, BallotOK, Voting
 <2>2. CASE poll' \in [open : BOOLEAN, multiple : BOOLEAN] /\ (\A p \in Folk : votes[p] = {}) /\ \A t \in Tabs : ~Voting(t)
   BY <1>1,<2>2 DEF PollInv, BallotOK, Voting, AtMostOne
 <2> QED BY <1>1,<2>1,<2>2
<1>2. ASSUME NEW multiple \in BOOLEAN, CreatePoll(multiple) PROVE PollInv'
 <2>1. \A t \in Tabs : ~Voting(t) BY <1>2 DEF CreatePoll, Voting, NoBallot
 <2> QED BY <1>1,<1>2,<2>1 DEF CreatePoll
<1>3. ASSUME ClosePoll PROVE PollInv' BY <1>1,<1>3 DEF ClosePoll
<1>4. ASSUME NEW t \in Tabs, NEW choice \in SUBSET PollOptions, AskToVote(t, choice) PROVE PollInv'
 <2> PICK new : new = [at |-> "delete", choice |-> choice] OBVIOUS
 <2>1. /\ ~Voting(t) /\ BallotTo(t, new) /\ (poll.multiple \/ Cardinality(choice) = 1) /\ UNCHANGED <<poll, votes>>
       /\ doubled' = IF \E u \in Tabs : UserOf(u) = UserOf(t) /\ Voting(u) THEN doubled \union {UserOf(t)} ELSE doubled BY <1>4 DEF AskToVote, Voting
 <2>2. new \in Ballots /\ new.at = "delete" /\ new.choice = choice BY DEF Ballots
 <2>3. ~poll.multiple => \E c \in PollOptions : choice = {c}
  <3>1. IsFiniteSet(choice) BY FolkAssumption, FS_Subset
  <3> QED BY <2>1,<3>1, FS_Singleton
 <2>4. BallotOK(t)'
  <3>1. UserOf(t) \notin doubled' => \A u \in Tabs : UserOf(u) = UserOf(t) => ~Voting(u) BY <2>1
  <3> QED BY <2>1,<2>2,<2>3,<3>1, BallotsChange DEF BallotOK
 <2>5. ASSUME NEW u \in Tabs \ {t} PROVE BallotOK(u)'
  <3>1. BallotOK(u) BY <1>0
  <3>2. Voting(u) /\ UserOf(u) \notin doubled' => UserOf(u) # UserOf(t) /\ UserOf(u) \notin doubled BY <2>1
  <3> QED BY <2>1,<2>2,<3>1,<3>2, BallotsChange DEF BallotOK
 <2> QED BY <1>0,<2>1,<2>2,<2>4,<2>5, BallotsChange DEF PollInv
<1>5. ASSUME NEW t \in Tabs, NEW new \in Ballots, BallotTo(t, new), votes' \in [Folk -> SUBSET PollOptions],
    \A p \in Folk \ {UserOf(t)} : votes'[p] = votes[p], UNCHANGED <<poll, doubled>>, Voting(t), new.at # "idle" => BallotOK(t)',
    UserOf(t) \notin doubled /\ ~poll.multiple => AtMostOne(votes'[UserOf(t)])
  PROVE PollInv'
 <2>1. ASSUME NEW u \in Tabs \ {t} PROVE BallotOK(u)'
  <3>1. BallotOK(u) /\ UserOf(u) \in Folk BY <1>0, TabsAreFinite
  <3>2. Voting(u) /\ UserOf(u) \notin doubled => UserOf(u) # UserOf(t) BY <1>5,<3>1 DEF BallotOK
  <3> QED BY <1>5,<3>1,<3>2, BallotsChange DEF BallotOK
 <2>2. BallotOK(t)' BY <1>5, BallotsChange DEF BallotOK
 <2>3. ~poll.multiple => \A p \in Folk \ doubled : AtMostOne(votes'[p]) BY <1>5, TabsAreFinite DEF PollInv
 <2> QED BY <1>0,<1>5,<2>1,<2>2,<2>3, BallotsChange DEF PollInv
<1>6. ASSUME NEW t \in Tabs, ClearVotes(t) PROVE PollInv'
 <2> PICK old \in Ballots : old = ballot[t] BY DEF PollInv
 <2> PICK new : new = [old EXCEPT !.at = "insert"] OBVIOUS
 <2>1. new \in Ballots /\ new.at = "insert" /\ new.choice = old.choice BY DEF Ballots
 <2>2. Voting(t) /\ BallotTo(t, new) /\ votes' = [votes EXCEPT ![UserOf(t)] = {}] /\ UNCHANGED <<poll, doubled>>
   BY <1>6 DEF ClearVotes, DeleteVotes, Voting
 <2>3. votes' \in [Folk -> SUBSET PollOptions] /\ votes'[UserOf(t)] = {} /\ \A p \in Folk \ {UserOf(t)} : votes'[p] = votes[p]
   BY <1>0,<2>2, TabsAreFinite
 <2>4. BallotOK(t)' BY <1>0,<2>1,<2>2,<2>3, BallotsChange DEF BallotOK
 <2> QED BY <1>5,<2>1,<2>2,<2>3,<2>4 DEF AtMostOne
<1>7. ASSUME NEW t \in Tabs, InsertVote(t) PROVE PollInv'
 <2> PICK old \in Ballots : old = ballot[t] BY DEF PollInv
 <2>1. PICK c \in old.choice : votes' = [votes EXCEPT ![UserOf(t)] = votes[UserOf(t)] \union {c}]
               /\ BallotTo(t, IF old.choice = {c} THEN NoBallot ELSE [old EXCEPT !.choice = old.choice \ {c}]) BY <1>7 DEF InsertVote
 <2> PICK new : new = IF old.choice = {c} THEN NoBallot ELSE [old EXCEPT !.choice = old.choice \ {c}] OBVIOUS
 <2>2. Voting(t) /\ old.at = "insert" /\ BallotTo(t, new) /\ UNCHANGED <<poll, doubled>> BY <1>7,<2>1 DEF InsertVote, Voting
 <2>3. c \in PollOptions /\ new \in Ballots /\ (new.at # "idle" => old.choice # {c}) BY DEF Ballots, NoBallot
 <2>4. votes' \in [Folk -> SUBSET PollOptions] /\ votes'[UserOf(t)] = votes[UserOf(t)] \union {c}
       /\ \A p \in Folk \ {UserOf(t)} : votes'[p] = votes[p] BY <1>0,<2>1,<2>3, TabsAreFinite
 <2>5. ~poll.multiple => old.choice = {c} BY <1>0,<2>2 DEF BallotOK
 <2>6. new.at # "idle" => BallotOK(t)' BY <1>0,<2>2,<2>3,<2>5, BallotsChange DEF BallotOK
 <2>7. UserOf(t) \notin doubled /\ ~poll.multiple => AtMostOne(votes'[UserOf(t)]) BY <1>0,<2>2,<2>3,<2>4 DEF BallotOK, AtMostOne
 <2> QED BY <1>5,<2>2,<2>3,<2>4,<2>6,<2>7
<1>8. ASSUME NEW t \in Tabs, VoteFails(t) PROVE PollInv'
 <2>1. NoBallot \in Ballots /\ NoBallot.at = "idle" BY DEF NoBallot, Ballots
 <2>2. UserOf(t) \notin doubled /\ ~poll.multiple => AtMostOne(votes[UserOf(t)]) BY TabsAreFinite DEF PollInv
 <2>3. Voting(t) /\ BallotTo(t, NoBallot) /\ UNCHANGED <<poll, votes, doubled>> BY <1>8 DEF VoteFails, Voting
 <2> QED BY <1>0,<1>5,<2>1,<2>2,<2>3
<1> QED BY <1>2,<1>3,<1>4,<1>6,<1>7,<1>8 DEF PollNext

PrefAsks == [at : {"idle", "write"}, row : PrefRows, field : Fields, value : BOOLEAN]

LEMMA PreferencesAreKept == ASSUME PrefInv, PreferenceNext PROVE PrefInv'
<1>0. NoAsk \in PrefAsks /\ NoAsk.at = "idle" BY DEF NoAsk, PrefAsks, Fields, PrefRows, Defaults
<1>1. ASSUME NEW i \in 1..2, WritePreference(i) PROVE PrefInv'
 <2> PICK ask \in PrefAsks : ask = prefAsk[i] BY <1>1 DEF PrefInv, PrefAsks
 <2>1. /\ ask.at = "write" /\ pref' = [ask.row EXCEPT ![ask.field] = ask.value]
       /\ wish' = [wish EXCEPT ![ask.field] = ask.value] /\ prefAsk' = [prefAsk EXCEPT ![i] = NoAsk]
       /\ crossedPref' = crossedPref BY <1>1 DEF WritePreference
 <2>2. pref' \in PrefRows /\ wish' \in PrefRows
  <3>1. ask.row \in PrefRows /\ wish \in PrefRows /\ ask.value \in BOOLEAN BY DEF PrefAsks, PrefInv
  <3> QED BY <2>1,<3>1 DEF PrefRows
 <2>3. prefAsk' \in [1..2 -> PrefAsks] /\ prefAsk'[i].at = "idle" /\ \A j \in 1..2 \ {i} : prefAsk'[j] = prefAsk[j]
   BY <1>0,<2>1 DEF PrefInv, PrefAsks
 <2>4. ~crossedPref => ask.row = pref /\ pref = wish /\ \A j \in 1..2 \ {i} : prefAsk[j].at = "idle" BY <1>1,<2>1 DEF PrefInv, PreferencesKept
 <2> QED BY <2>1,<2>2,<2>3,<2>4 DEF PrefInv, PreferencesKept, PrefAsks
<1>2. ASSUME NEW i \in 1..2, NEW f \in Fields, NEW v \in BOOLEAN, ReadPreference(i, f, v) PROVE PrefInv'
 <2> PICK ask : ask = [at |-> "write", row |-> pref, field |-> f, value |-> v] OBVIOUS
 <2>1. /\ prefAsk[i].at = "idle" /\ prefAsk' = [prefAsk EXCEPT ![i] = ask] /\ UNCHANGED <<pref, wish>>
       /\ crossedPref' = (crossedPref \/ \E j \in 1..2 : prefAsk[j].at # "idle") BY <1>2 DEF ReadPreference
 <2>2. ask \in PrefAsks /\ ask.row = pref BY DEF PrefAsks, PrefInv
 <2>3. prefAsk' \in [1..2 -> PrefAsks] /\ prefAsk'[i] = ask /\ \A j \in 1..2 \ {i} : prefAsk'[j] = prefAsk[j] BY <2>1,<2>2 DEF PrefInv, PrefAsks
 <2>4. crossedPref' \in BOOLEAN BY <2>1 DEF PrefInv
 <2>5. ~crossedPref' => ~crossedPref /\ \A j \in 1..2 : prefAsk[j].at = "idle" BY <2>1
 <2>6. ~crossedPref' => \A j \in 1..2 : prefAsk'[j].at = "write" =>
                          prefAsk'[j].row = pref' /\ \A k \in 1..2 \ {j} : prefAsk'[k].at = "idle" BY <2>1,<2>2,<2>3,<2>5
 <2>7. PreferencesKept' BY <2>1,<2>5 DEF PrefInv, PreferencesKept
 <2> QED BY <2>1,<2>3,<2>4,<2>6,<2>7 DEF PrefInv, PrefAsks
<1> QED BY <1>1,<1>2 DEF PreferenceNext

Stories == [audience : {"NONE", "PUBLIC", "CONTACTS", "PRIVATE", "CUSTOM"}, allowed : SUBSET Folk, seen : SUBSET Folk]

LEMMA StoriesAreKept == ASSUME StoryInv, StoryNext PROVE StoryInv'
<1>0. active \subseteq Folk /\ story \in Stories BY DEF StoryInv, Stories
<1>1. ASSUME NEW audience \in {"PUBLIC", "CONTACTS", "PRIVATE", "CUSTOM"}, NEW users \in SUBSET Folk, CreateStory(audience, users) PROVE StoryInv'
 <2> PICK allowed : allowed = IF audience = "CUSTOM" THEN users \intersect active ELSE {} OBVIOUS
 <2> PICK new : new = [audience |-> audience, allowed |-> allowed, seen |-> {}] OBVIOUS
 <2>1. /\ audience = "CUSTOM" => users # {} /\ Cardinality(users \intersect active) = Cardinality(users)
       /\ story' = new /\ active' = active /\ asked' = IF audience = "CUSTOM" THEN users ELSE {} BY <1>1 DEF CreateStory
 <2>2. new \in Stories BY DEF Stories
 <2>3. audience = "CUSTOM" => allowed = users
  <3>1. IsFiniteSet(users) BY FolkAssumption, FS_Subset
  <3>2. users \intersect active \in SUBSET users OBVIOUS
  <3> QED BY <2>1,<3>1,<3>2, FS_Subset
 <2>4. AudienceIsComplete' BY <2>1,<2>3 DEF AudienceIsComplete
 <2> QED BY <1>0,<2>1,<2>2,<2>4 DEF StoryInv, Stories
<1>2. ASSUME NEW p \in Folk, ViewStory(p) PROVE StoryInv'
 <2> PICK old \in Stories : old = story BY <1>0
 <2> PICK new : new = [old EXCEPT !.seen = old.seen \union {p}] OBVIOUS
 <2>1. new \in Stories /\ new.audience = old.audience /\ new.allowed = old.allowed BY DEF Stories
 <2>2. story' = new /\ UNCHANGED <<active, asked>> BY <1>2 DEF ViewStory
 <2> QED BY <1>0,<2>1,<2>2 DEF StoryInv, AudienceIsComplete, Stories
<1>3. ASSUME NEW p \in Folk, Deactivate(p) PROVE StoryInv' BY <1>3 DEF Deactivate, StoryInv, storyVars, AudienceIsComplete
<1> QED BY <1>1,<1>2,<1>3 DEF StoryNext

LEMMA AppsAreKept == ASSUME LaunchIsGranted, AppNext PROVE LaunchIsGranted'
<1>1. ASSUME NEW p \in Folk, VerifyMiniAppLaunch(p) PROVE LaunchIsGranted'
 <2>1. launch[p].permissions \ installs[p].permissions = {} BY <1>1 DEF VerifyMiniAppLaunch, StillGranted
 <2>2. launched' = launched \union {<<p, {}>>} BY <1>1,<2>1 DEF VerifyMiniAppLaunch
 <2> QED BY <2>2 DEF LaunchIsGranted
<1>2. ASSUME UNCHANGED launched PROVE LaunchIsGranted' BY <1>2 DEF LaunchIsGranted
<1> QED BY <1>1,<1>2 DEF AppNext, RegisterMiniApp, ChangeMiniApp, InstallMiniApp, OpenMiniApp, LaunchExpires

LEMMA FolkStutters ==
  /\ DirectInv /\ UNCHANGED directVars => DirectInv'
  /\ RoomsInv /\ UNCHANGED rooms => RoomsInv'
  /\ PollInv /\ UNCHANGED pollVars => PollInv'
  /\ PrefInv /\ UNCHANGED prefVars => PrefInv'
  /\ StoryInv /\ UNCHANGED <<active, storyVars>> => StoryInv'
  /\ LaunchIsGranted /\ UNCHANGED launched => LaunchIsGranted'
<1>1. DirectInv /\ UNCHANGED directVars => DirectInv' BY DEF DirectInv, directVars, Asking
<1>2. RoomsInv /\ UNCHANGED rooms => RoomsInv' BY DEF RoomsInv, OwnerStays
<1>3. PollInv /\ UNCHANGED pollVars => PollInv' BY DEF PollInv, pollVars, BallotOK, Voting
<1>4. PrefInv /\ UNCHANGED prefVars => PrefInv' BY DEF PrefInv, prefVars, PreferencesKept
<1>5. StoryInv /\ UNCHANGED <<active, storyVars>> => StoryInv' BY DEF StoryInv, storyVars, AudienceIsComplete
<1>6. LaunchIsGranted /\ UNCHANGED launched => LaunchIsGranted' BY DEF LaunchIsGranted
<1> QED BY <1>1,<1>2,<1>3,<1>4,<1>5,<1>6

LEMMA CommunityInvariance == CommunitySpec => []CommunityInv
<1>1. CommunityInv /\ [CommunityNext]_folkVars => CommunityInv'
 <2> SUFFICES ASSUME CommunityInv, [CommunityNext]_folkVars PROVE CommunityInv' OBVIOUS
 <2>0. DirectInv /\ RoomsInv /\ PollInv /\ PrefInv /\ StoryInv /\ LaunchIsGranted BY DEF CommunityInv
 <2>1. CASE DirectNext
  <3>1. UNCHANGED <<active, pollVars, prefVars, storyVars, launched>>
    BY <2>1 DEF DirectNext, CreateDirect, AskDirect, JoinCommunity, CreateRoom, appVars
  <3>2. CASE \E t \in Tabs : CreateDirect(t) \/ \E p \in Folk : AskDirect(t, p)
   <4>1. UNCHANGED rooms BY <3>2 DEF CreateDirect, AskDirect
   <4>2. DirectInv' BY <2>0,<3>2, AskKeepsDirect, CreateKeepsDirect
   <4> QED BY <2>0,<3>1,<4>1,<4>2, FolkStutters DEF CommunityInv
  <3>3. CASE \E slug \in Slugs, p \in Folk :
               JoinCommunity(p, slug) \/ \E k \in {"CHANNEL", "COMMUNITY"} : CreateRoom(p, slug, k)
   <4>1. UNCHANGED directVars BY <3>3 DEF JoinCommunity, CreateRoom
   <4>2. RoomsInv' BY <2>0,<3>3, RoomsAreKept
   <4> QED BY <2>0,<3>1,<4>1,<4>2, FolkStutters DEF CommunityInv
  <3> QED BY <2>1,<3>2,<3>3 DEF DirectNext
 <2>2. CASE PollNext
  <3>1. UNCHANGED <<active, directVars, rooms, prefVars, storyVars, launched>>
    BY <2>2 DEF PollNext, ClosePoll, CreatePoll, ClearVotes, InsertVote, VoteFails, AskToVote, appVars
  <3> QED BY <2>0,<2>2,<3>1, PollsAreKept, FolkStutters DEF CommunityInv
 <2>3. CASE PreferenceNext
  <3>1. UNCHANGED <<active, directVars, rooms, pollVars, storyVars, launched>> BY <2>3 DEF PreferenceNext, WritePreference, ReadPreference, appVars
  <3> QED BY <2>0,<2>3,<3>1, PreferencesAreKept, FolkStutters DEF CommunityInv
 <2>4. CASE StoryNext
  <3>1. UNCHANGED <<directVars, rooms, pollVars, prefVars, launched>> BY <2>4 DEF StoryNext, CreateStory, ViewStory, Deactivate, appVars
  <3> QED BY <2>0,<2>4,<3>1, StoriesAreKept, FolkStutters DEF CommunityInv
 <2>5. CASE AppNext
  <3>1. UNCHANGED <<active, directVars, rooms, pollVars, prefVars, storyVars>>
    BY <2>5 DEF AppNext, RegisterMiniApp, ChangeMiniApp, InstallMiniApp, OpenMiniApp, LaunchExpires, VerifyMiniAppLaunch
  <3> QED BY <2>0,<2>5,<3>1, AppsAreKept, FolkStutters DEF CommunityInv
 <2>6. CASE UNCHANGED folkVars
  <3>1. UNCHANGED <<active, directVars, rooms, pollVars, prefVars, storyVars, launched>> BY <2>6 DEF folkVars, appVars
  <3> QED BY <2>0,<3>1, FolkStutters DEF CommunityInv
 <2> QED BY <2>1,<2>2,<2>3,<2>4,<2>5,<2>6 DEF CommunityNext
<1> QED BY <1>1, CommunityBegins, PTL DEF CommunitySpec

\* Whatever people do at once, in however many requests: two people share one direct
\* conversation unless their requests collided, a poll of one choice counts one vote of a
\* person, a preference is as it was last set, owners stay, a custom story is for everybody
\* it names, and no launch is accepted beyond what was granted (communication.service.ts,
\* communication.platform.ts, communication.superapp.ts).
THEOREM CommunityIsKept == CommunitySpec => []CommunityHolds
<1>1. CommunityInv => CommunityHolds
 <2> SUFFICES ASSUME CommunityInv PROVE CommunityHolds OBVIOUS
 <2>0. DirectInv /\ RoomsInv /\ PollInv /\ PrefInv /\ StoryInv /\ LaunchIsGranted BY DEF CommunityInv
 <2>1. DirectIsShared BY <2>0 DEF DirectInv, DirectIsShared
 <2>2. OneChoice
  <3> SUFFICES ASSUME ~poll.multiple, NEW p \in Folk \ doubled PROVE Cardinality(votes[p]) <= 1 BY DEF OneChoice
  <3>1. AtMostOne(votes[p]) BY <2>0 DEF PollInv
  <3>2. Cardinality(votes[p]) \in {0, 1} BY <3>1, FS_EmptySet, FS_Singleton DEF AtMostOne
  <3> QED BY <3>2
 <2>3. FolkTypeOK
  <3>1. \A c \in DOMAIN direct : direct[c] \in 0..Cardinality(Tabs)
   <4> SUFFICES ASSUME NEW c \in Circles PROVE direct[c] \in 0..Cardinality(Tabs) BY <2>0 DEF DirectInv
   <4>1. direct[c] \in Nat BY <2>0 DEF DirectInv
   <4>2. CASE c = NoPair BY <2>0,<4>2, TabsAreFinite DEF DirectInv
   <4>3. CASE c # NoPair
    <5>1. direct[c] + Cardinality(Asking(c)) <= Cardinality(Tabs) BY <2>0,<4>3 DEF DirectInv
    <5> QED BY <4>1,<5>1, AskingIsFinite, TabsAreFinite
   <4> QED BY <4>2,<4>3
  <3>2. \A s \in Slugs : rooms[s].kind \in {"NONE", "CHANNEL", "COMMUNITY"} /\ rooms[s].role \in [Folk -> {"NONE", "OWNER", "MEMBER"}]
    BY <2>0 DEF RoomsInv
  <3>3. votes \in [Folk -> SUBSET PollOptions] /\ pref \in [Fields -> BOOLEAN] BY <2>0 DEF PollInv, PrefInv, PrefRows
  <3>4. active \subseteq Folk /\ story.seen \subseteq Folk BY <2>0 DEF StoryInv
  <3> QED BY <3>1,<3>2,<3>3,<3>4 DEF FolkTypeOK
 <2> QED BY <2>0,<2>1,<2>2,<2>3 DEF CommunityHolds, RoomsInv, PrefInv, StoryInv
<1> QED BY <1>1, CommunityInvariance, PTL

------------------------
(* The operators' assistant. *)

AiRows == [tool : {"none", "terminateSession"} \union ReadTools \union EffectTools, status : {"none", "AWAITING_CONFIRMATION", "SUCCESS", "FAILED"}]
ConfirmerStates == [at : {"idle", "execute", "record", "close", "catch"}, run : AiRuns \union {"none"}]
Confirming(c) == confirmer[c].at # "idle"
Smooth(e) == e \notin metTwice \union broken

AssistTypes ==
  /\ aiRun \in [AiRuns -> AiRows] /\ confirmer \in [Confirmers -> ConfirmerStates]
  /\ disconnects \in [AiRuns -> 0..MaxQueued] /\ aiRole \in {"NOC_ENGINEER", "SUPPORT_AGENT", "READ_ONLY"}
  /\ chatting \in {"none"} \union ReadTools \union EffectTools
  /\ tickets \in Nat /\ posts \in Nat /\ aiFaults \in Nat

\* Only a termination waits for a confirmation, and disconnects; an execution that is not
\* being confirmed has disconnected once it is closed as a success, and not before unless
\* two confirmations met or one broke off behind the queue.
RunOK(e) ==
  /\ aiRun[e].status = "none" <=> aiRun[e].tool = "none"
  /\ aiRun[e].status = "AWAITING_CONFIRMATION" => aiRun[e].tool = "terminateSession"
  /\ disconnects[e] > 0 => aiRun[e].tool = "terminateSession" /\ MayCommand
  /\ aiRun[e].tool = "terminateSession" /\ aiRun[e].status = "SUCCESS" => disconnects[e] > 0
  /\ Smooth(e) =>
       /\ disconnects[e] <= 1
       /\ aiRun[e].status = "FAILED" => disconnects[e] = 0
       /\ aiRun[e].status = "AWAITING_CONFIRMATION" /\ (\A c \in Confirmers : confirmer[c].run # e) => disconnects[e] = 0

\* A confirmation has read its execution, and has disconnected from the record on.
ConfirmOK(c) ==
  /\ IF Confirming(c) THEN confirmer[c].run \in AiRuns ELSE confirmer[c] = IdleConfirm
  /\ Confirming(c) => LET e == confirmer[c].run IN
       /\ aiRun[e].tool = "terminateSession"
       /\ confirmer[c].at \in {"record", "close"} => disconnects[e] > 0
       /\ Smooth(e) =>
            /\ aiRun[e].status = "AWAITING_CONFIRMATION"
            /\ \A d \in Confirmers : confirmer[d].run = e => d = c
            /\ confirmer[c].at \in {"execute", "catch"} => disconnects[e] = 0

Effects == {e \in AiRuns : aiRun[e].tool \in EffectTools}

AssistInv ==
  /\ AssistTypes /\ EffectsAreRecorded
  /\ \A e \in AiRuns : RunOK(e)
  /\ \A c \in Confirmers : ConfirmOK(c)

\* What an execution ended as stays.
ClosedStays == \A e \in AiRuns : aiRun[e].status \in {"SUCCESS", "FAILED"} => aiRun'[e] = aiRun[e]

LEMMA AssistBegins == AssistInit => AssistInv
<1> SUFFICES ASSUME AssistInit PROVE AssistInv OBVIOUS
<1>1. NoRunYet \in AiRows /\ NoRunYet.status = "none" /\ NoRunYet.tool = "none" BY DEF NoRunYet, AiRows
<1>2. IdleConfirm \in ConfirmerStates /\ IdleConfirm.at = "idle" BY DEF IdleConfirm, ConfirmerStates
<1>3. AssistTypes
 <2>1. aiRun \in [AiRuns -> AiRows] /\ confirmer \in [Confirmers -> ConfirmerStates] BY <1>1,<1>2 DEF AssistInit
 <2>2. disconnects \in [AiRuns -> 0..MaxQueued] BY AssistAssumption DEF AssistInit
 <2> QED BY <2>1,<2>2 DEF AssistTypes, AssistInit
<1>4. EffectsAreRecorded
 <2>1. {e \in AiRuns : aiRun[e].tool \in EffectTools} = {} BY <1>1 DEF AssistInit, EffectTools
 <2>2. tickets = 0 /\ posts = 0 /\ aiFaults = 0 /\ chatting = "none" BY DEF AssistInit
 <2> QED BY <2>1,<2>2, FS_EmptySet DEF EffectsAreRecorded, EffectTools
<1>5. \A e \in AiRuns : RunOK(e) BY <1>1 DEF AssistInit, RunOK
<1>6. \A c \in Confirmers : ConfirmOK(c) BY <1>2 DEF AssistInit, ConfirmOK, Confirming
<1> QED BY <1>3,<1>4,<1>5,<1>6 DEF AssistInv

\* An execution that is entered in its row.
LEMMA EntryIsKept ==
  ASSUME AssistInv, NEW e \in AiRuns, aiRun[e] = NoRunYet, NEW new \in AiRows,
      aiRun' = [aiRun EXCEPT ![e] = new],
      \/ new.tool = "terminateSession" /\ new.status = "AWAITING_CONFIRMATION"
      \/ new.tool \in ReadTools \union EffectTools /\ new.status = "SUCCESS", UNCHANGED <<aiRole, confirmer, disconnects, metTwice, broken>>
  PROVE  /\ aiRun' \in [AiRuns -> AiRows] /\ (\A d \in AiRuns : RunOK(d)') /\ (\A c \in Confirmers : ConfirmOK(c)')
         /\ ClosedStays /\ Effects' = IF new.tool \in EffectTools THEN Effects \union {e} ELSE Effects
         /\ e \notin Effects
<1>1. aiRun' \in [AiRuns -> AiRows] /\ aiRun'[e] = new /\ \A d \in AiRuns \ {e} : aiRun'[d] = aiRun[d] BY DEF AssistInv, AssistTypes
<1>2. aiRun[e].status = "none" /\ aiRun[e].tool = "none" /\ disconnects[e] = 0
 <2>1. aiRun[e].status = "none" /\ aiRun[e].tool = "none" BY DEF NoRunYet
 <2>2. disconnects[e] \in 0..MaxQueued /\ RunOK(e) BY DEF AssistInv, AssistTypes
 <2> QED BY <2>1,<2>2, AssistAssumption DEF RunOK
<1>3. ASSUME NEW c \in Confirmers PROVE ConfirmOK(c)'
 <2>1. ConfirmOK(c) BY DEF AssistInv
 <2>2. Confirming(c) => confirmer[c].run # e BY <1>2,<2>1 DEF ConfirmOK
 <2> QED BY <1>1,<2>1,<2>2 DEF ConfirmOK, Confirming, Smooth
<1>4. RunOK(e)' BY <1>1,<1>2 DEF RunOK, Smooth, ReadTools, EffectTools
<1>5. ASSUME NEW d \in AiRuns \ {e} PROVE RunOK(d)' BY <1>1 DEF AssistInv, RunOK, Smooth, MayCommand
<1>6. ClosedStays BY <1>1,<1>2 DEF ClosedStays
<1>7. e \notin Effects BY <1>2 DEF Effects, EffectTools
<1>8. Effects' = IF new.tool \in EffectTools THEN Effects \union {e} ELSE Effects BY <1>1,<1>7 DEF Effects
<1> QED BY <1>1,<1>3,<1>4,<1>5,<1>6,<1>7,<1>8

\* A confirmation that moves on to the state new, and the execution e it is about.
LEMMA ConfirmersChange ==
  ASSUME AssistTypes, NEW c \in Confirmers, NEW new \in ConfirmerStates, ConfirmerTo(c, new)
  PROVE  /\ confirmer' \in [Confirmers -> ConfirmerStates] /\ confirmer'[c] = new
         /\ \A d \in Confirmers \ {c} : confirmer'[d] = confirmer[d] BY DEF AssistTypes, ConfirmerTo

LEMMA ConfirmTypes ==
  /\ IdleConfirm \in ConfirmerStates /\ IdleConfirm.at = "idle" /\ IdleConfirm.run = "none"
  /\ \A e \in AiRuns : aiRun[e].status = "AWAITING_CONFIRMATION" /\ RunOK(e) => aiRun[e].tool = "terminateSession"
BY DEF IdleConfirm, ConfirmerStates, RunOK

LEMMA ReadKeepsAssist == ASSUME AssistInv, NEW c \in Confirmers, NEW e \in AiRuns, ReadRun(c, e) PROVE AssistInv' /\ ClosedStays
<1>0. AssistTypes /\ (\A d \in AiRuns : RunOK(d)) /\ \A d \in Confirmers : ConfirmOK(d) BY DEF AssistInv
<1> PICK new : new = [at |-> "execute", run |-> e] OBVIOUS
<1>1. new \in ConfirmerStates /\ new.at = "execute" /\ new.run = e BY DEF ConfirmerStates
<1>2. /\ confirmer[c].at = "idle" /\ aiRun[e].status = "AWAITING_CONFIRMATION" /\ ConfirmerTo(c, new)
      /\ UNCHANGED <<aiRole, aiRun, chatting, disconnects, tickets, posts, broken, aiFaults>>
      /\ metTwice' = IF \E d \in Confirmers : confirmer[d].run = e THEN metTwice \union {e} ELSE metTwice BY DEF ReadRun
<1>3. /\ confirmer' \in [Confirmers -> ConfirmerStates] /\ confirmer'[c] = new
      /\ \A d \in Confirmers \ {c} : confirmer'[d] = confirmer[d] BY <1>0,<1>1,<1>2, ConfirmersChange
<1>4. AssistTypes' BY <1>0,<1>2,<1>3 DEF AssistTypes
<1>5. EffectsAreRecorded' BY <1>2 DEF AssistInv, EffectsAreRecorded
<1>6. \A d \in AiRuns : Smooth(d)' => Smooth(d) BY <1>2 DEF Smooth
<1>7. Smooth(e)' => \A d \in Confirmers : confirmer[d].run # e BY <1>2 DEF Smooth
<1>8. confirmer[c].run \notin AiRuns BY <1>0,<1>2, ConfirmTypes, AssistAssumption DEF ConfirmOK, Confirming
<1>9. ASSUME NEW d \in AiRuns PROVE RunOK(d)'
 <2>1. RunOK(d) BY <1>0
 <2>2. (\A b \in Confirmers : confirmer'[b].run # d) => \A b \in Confirmers : confirmer[b].run # d BY <1>3,<1>8
 <2> QED BY <1>2,<1>6,<2>1,<2>2 DEF RunOK, MayCommand
<1>10. ConfirmOK(c)'
 <2>1. aiRun[e].tool = "terminateSession" BY <1>0,<1>2, ConfirmTypes
 <2>2. Smooth(e)' => disconnects[e] = 0 BY <1>0,<1>2,<1>6,<1>7 DEF RunOK
 <2>3. Smooth(e)' => \A d \in Confirmers : confirmer'[d].run = e => d = c BY <1>3,<1>7
 <2> QED BY <1>1,<1>2,<1>3,<2>1,<2>2,<2>3 DEF ConfirmOK, Confirming
<1>11. ASSUME NEW d \in Confirmers \ {c} PROVE ConfirmOK(d)'
 <2>1. ConfirmOK(d) /\ confirmer'[d] = confirmer[d] BY <1>0,<1>3
 <2>2. CASE ~Confirming(d) BY <2>1,<2>2, ConfirmTypes DEF ConfirmOK, Confirming
 <2>3. CASE Confirming(d)
  <3> PICK b \in AiRuns : b = confirmer[d].run BY <2>1,<2>3 DEF ConfirmOK
  <3>1. Smooth(b)' => b # e BY <1>7
  <3>2. b # e => \A x \in Confirmers : confirmer'[x].run = b => confirmer[x].run = b BY <1>1,<1>3
  <3>3. Smooth(b)' => Smooth(b) BY <1>6
  <3> QED BY <1>2,<2>1,<2>3,<3>1,<3>2,<3>3 DEF ConfirmOK, Confirming
 <2> QED BY <2>2,<2>3
<1> QED BY <1>2,<1>4,<1>5,<1>9,<1>10,<1>11 DEF AssistInv, ClosedStays

LEMMA ExecuteKeepsAssist == ASSUME AssistInv, NEW c \in Confirmers, ExecuteConfirmed(c) PROVE AssistInv' /\ ClosedStays
<1>0. AssistTypes /\ (\A d \in AiRuns : RunOK(d)) /\ \A d \in Confirmers : ConfirmOK(d) BY DEF AssistInv
<1> PICK old \in ConfirmerStates : old = confirmer[c] BY <1>0 DEF AssistTypes
<1>1. old.at = "execute" /\ disconnects[old.run] < MaxQueued BY DEF ExecuteConfirmed
<1> PICK e \in AiRuns : e = old.run BY <1>0,<1>1 DEF ConfirmOK, Confirming
<1> PICK ok \in BOOLEAN : ok <=> MayCommand /\ CanTerminate OBVIOUS
<1> PICK new : new = [old EXCEPT !.at = IF ok THEN "record" ELSE "catch"] OBVIOUS
<1> PICK n : n = IF ok THEN disconnects[e] + 1 ELSE disconnects[e] OBVIOUS
<1>2. new \in ConfirmerStates /\ new.run = e /\ new.at = IF ok THEN "record" ELSE "catch" BY DEF ConfirmerStates
<1>3. /\ ConfirmerTo(c, new) /\ UNCHANGED <<aiRole, aiRun, chatting, tickets, posts, metTwice, broken, aiFaults>>
      /\ disconnects' = [disconnects EXCEPT ![e] = n]
 <2>1. (MayCommand /\ CanTerminate) = ok BY DEF MayCommand, CanTerminate
 <2> QED BY <2>1 DEF ExecuteConfirmed
<1>4. /\ confirmer' \in [Confirmers -> ConfirmerStates] /\ confirmer'[c] = new
      /\ \A d \in Confirmers \ {c} : confirmer'[d] = confirmer[d] BY <1>0,<1>2,<1>3, ConfirmersChange
<1>5. disconnects[e] \in 0..MaxQueued /\ disconnects[e] < MaxQueued BY <1>0,<1>1 DEF AssistTypes
<1>6. n \in 0..MaxQueued /\ (ok => n > 0) /\ (~ok => n = disconnects[e]) /\ (disconnects[e] = 0 => n <= 1)
      /\ (disconnects[e] > 0 => n > 0) BY <1>5, AssistAssumption
<1>7. disconnects' \in [AiRuns -> 0..MaxQueued] /\ disconnects'[e] = n /\ \A d \in AiRuns \ {e} : disconnects'[d] = disconnects[d]
  BY <1>0,<1>3,<1>6 DEF AssistTypes
<1>8. AssistTypes' BY <1>0,<1>3,<1>4,<1>7 DEF AssistTypes
<1>9. EffectsAreRecorded' BY <1>3 DEF AssistInv, EffectsAreRecorded
<1>10. /\ aiRun[e].tool = "terminateSession"
       /\ Smooth(e) => /\ aiRun[e].status = "AWAITING_CONFIRMATION" /\ disconnects[e] = 0
                       /\ \A d \in Confirmers : confirmer[d].run = e => d = c BY <1>0,<1>1 DEF ConfirmOK, Confirming
<1>11. RunOK(e)'
 <2>1. ok => MayCommand OBVIOUS
 <2>2. RunOK(e) BY <1>0
 <2>3. n > 0 => MayCommand BY <1>5,<1>6,<2>1,<2>2 DEF RunOK
 <2> QED BY <1>2,<1>3,<1>4,<1>6,<1>7,<1>10,<2>2,<2>3 DEF RunOK, Smooth, MayCommand
<1>12. ASSUME NEW d \in AiRuns \ {e} PROVE RunOK(d)'
 <2>1. RunOK(d) BY <1>0
 <2>2. (\A b \in Confirmers : confirmer'[b].run # d) => \A b \in Confirmers : confirmer[b].run # d BY <1>2,<1>4
 <2> QED BY <1>3,<1>7,<2>1,<2>2 DEF RunOK, Smooth, MayCommand
<1>13. ConfirmOK(c)' BY <1>2,<1>3,<1>4,<1>6,<1>7,<1>10 DEF ConfirmOK, Confirming, Smooth
<1>14. ASSUME NEW d \in Confirmers \ {c} PROVE ConfirmOK(d)'
 <2>1. ConfirmOK(d) /\ confirmer'[d] = confirmer[d] BY <1>0,<1>4
 <2>2. CASE ~Confirming(d) BY <2>1,<2>2, ConfirmTypes DEF ConfirmOK, Confirming
 <2>3. CASE Confirming(d)
  <3> PICK b \in AiRuns : b = confirmer[d].run BY <2>1,<2>3 DEF ConfirmOK
  <3>1. Smooth(b) => b # e BY <1>10
  <3>2. disconnects[b] > 0 => disconnects'[b] > 0 BY <1>6,<1>7
  <3>3. b # e => disconnects'[b] = disconnects[b] BY <1>7
  <3>4. \A x \in Confirmers : confirmer'[x].run = confirmer[x].run BY <1>2,<1>4
  <3> QED BY <1>3,<2>1,<2>3,<3>1,<3>2,<3>3,<3>4 DEF ConfirmOK, Confirming, Smooth
 <2> QED BY <2>2,<2>3
<1> QED BY <1>3,<1>8,<1>9,<1>11,<1>12,<1>13,<1>14 DEF AssistInv, ClosedStays

LEMMA CloseKeepsAssist == ASSUME AssistInv, NEW c \in Confirmers, CloseRun(c) \/ FailRun(c) PROVE AssistInv' /\ ClosedStays
<1>0. AssistTypes /\ (\A d \in AiRuns : RunOK(d)) /\ \A d \in Confirmers : ConfirmOK(d) BY DEF AssistInv
<1> PICK old \in ConfirmerStates : old = confirmer[c] BY <1>0 DEF AssistTypes
<1> PICK to : to = IF old.at = "close" THEN "SUCCESS" ELSE "FAILED" OBVIOUS
<1>1. old.at \in {"close", "catch"} /\ ClosesAs(c, to) BY DEF CloseRun, FailRun
<1> PICK e \in AiRuns : e = old.run BY <1>0,<1>1 DEF ConfirmOK, Confirming
<1> PICK row \in AiRows : row = aiRun[e] BY <1>0 DEF AssistTypes
<1> PICK closed : closed = [row EXCEPT !.status = to] OBVIOUS
<1> PICK new : new = IF row.status = "AWAITING_CONFIRMATION" THEN closed ELSE row OBVIOUS
<1>2. new \in AiRows /\ new.tool = row.tool BY DEF AiRows
<1>3. /\ row.status = "AWAITING_CONFIRMATION" => new.status = to
      /\ row.status # "AWAITING_CONFIRMATION" => new = row BY DEF AiRows
<1>4. /\ ConfirmerTo(c, IdleConfirm) /\ aiRun' = [aiRun EXCEPT ![e] = new]
      /\ UNCHANGED <<aiRole, chatting, disconnects, tickets, posts, metTwice, broken, aiFaults>> BY <1>0,<1>1 DEF ClosesAs, Closes, AssistTypes
<1>5. /\ confirmer' \in [Confirmers -> ConfirmerStates] /\ confirmer'[c] = IdleConfirm
      /\ \A d \in Confirmers \ {c} : confirmer'[d] = confirmer[d] BY <1>0,<1>4, ConfirmTypes, ConfirmersChange
<1>6. aiRun' \in [AiRuns -> AiRows] /\ aiRun'[e] = new /\ \A d \in AiRuns \ {e} : aiRun'[d] = aiRun[d] BY <1>0,<1>2,<1>4 DEF AssistTypes
<1>7. AssistTypes' BY <1>0,<1>4,<1>5,<1>6 DEF AssistTypes
<1>8. EffectsAreRecorded'
 <2>1. \A d \in AiRuns : aiRun'[d].tool = aiRun[d].tool BY <1>2,<1>6
 <2>2. {d \in AiRuns : aiRun'[d].tool \in EffectTools} = {d \in AiRuns : aiRun[d].tool \in EffectTools} BY <2>1
 <2> QED BY <1>4,<2>2 DEF AssistInv, EffectsAreRecorded
<1>9. /\ row.tool = "terminateSession" /\ (to = "SUCCESS" => disconnects[e] > 0)
      /\ Smooth(e) => /\ row.status = "AWAITING_CONFIRMATION" /\ (to = "FAILED" => disconnects[e] = 0)
                      /\ \A d \in Confirmers : confirmer[d].run = e => d = c BY <1>0,<1>1 DEF ConfirmOK, Confirming
<1>10. RunOK(e)'
 <2>1. RunOK(e) /\ new.status \in {"SUCCESS", "FAILED"} \union {row.status} BY <1>0,<1>3
 <2> QED BY <1>2,<1>3,<1>4,<1>6,<1>9,<2>1 DEF RunOK, Smooth, MayCommand
<1>11. ASSUME NEW d \in AiRuns \ {e} PROVE RunOK(d)'
 <2>1. RunOK(d) BY <1>0
 <2>2. (\A b \in Confirmers : confirmer'[b].run # d) => \A b \in Confirmers : confirmer[b].run # d BY <1>5
 <2> QED BY <1>4,<1>6,<2>1,<2>2 DEF RunOK, Smooth, MayCommand
<1>12. ConfirmOK(c)' BY <1>5, ConfirmTypes DEF ConfirmOK, Confirming
<1>13. ASSUME NEW d \in Confirmers \ {c} PROVE ConfirmOK(d)'
 <2>1. ConfirmOK(d) /\ confirmer'[d] = confirmer[d] BY <1>0,<1>5
 <2>2. CASE ~Confirming(d) BY <2>1,<2>2, ConfirmTypes DEF ConfirmOK, Confirming
 <2>3. CASE Confirming(d)
  <3> PICK b \in AiRuns : b = confirmer[d].run BY <2>1,<2>3 DEF ConfirmOK
  <3>1. Smooth(b) => b # e BY <1>9
  <3>2. aiRun'[b].tool = aiRun[b].tool /\ (b # e => aiRun'[b] = aiRun[b]) BY <1>2,<1>6
  <3>3. \A x \in Confirmers : confirmer'[x].run = b => confirmer[x].run = b BY <1>5, ConfirmTypes, AssistAssumption
  <3> QED BY <1>4,<2>1,<2>3,<3>1,<3>2,<3>3 DEF ConfirmOK, Confirming, Smooth
 <2> QED BY <2>2,<2>3
<1>14. ClosedStays BY <1>3,<1>6 DEF ClosedStays
<1> QED BY <1>7,<1>8,<1>10,<1>11,<1>12,<1>13,<1>14 DEF AssistInv

LEMMA MoveKeepsAssist ==
  ASSUME AssistInv, NEW c \in Confirmers, RecordConfirmed(c) \/ ConfirmingFails(c) \/ ConfirmBreaksOff(c) PROVE AssistInv' /\ ClosedStays
<1>0. AssistTypes /\ (\A d \in AiRuns : RunOK(d)) /\ \A d \in Confirmers : ConfirmOK(d) BY DEF AssistInv
<1> PICK old \in ConfirmerStates : old = confirmer[c] BY <1>0 DEF AssistTypes
<1>1. Confirming(c) BY DEF RecordConfirmed, ConfirmingFails, ConfirmBreaksOff, Confirming
<1> PICK e \in AiRuns : e = old.run BY <1>0,<1>1 DEF ConfirmOK
<1> DEFINE behind == old.at \in {"record", "close"}
<1> PICK new \in ConfirmerStates : /\ ConfirmerTo(c, new) /\ UNCHANGED <<aiRole, aiRun, chatting, disconnects, tickets, posts, metTwice>>
      /\ \/ behind /\ new.run = e /\ new.at = "close" /\ UNCHANGED <<broken, aiFaults>>
         \/ /\ new = IdleConfirm \/ (new.run = e /\ new.at = "catch" /\ old.at \in {"execute", "record", "close"})
            /\ broken' = (IF behind THEN broken \union {e} ELSE broken) /\ aiFaults' = aiFaults + 1
 <2>1. CASE RecordConfirmed(c)
  <3> PICK next : next = [old EXCEPT !.at = "close"] OBVIOUS
  <3>1. next \in ConfirmerStates /\ next.run = e /\ next.at = "close" BY DEF ConfirmerStates
  <3> QED BY <2>1,<3>1 DEF RecordConfirmed
 <2>2. CASE ConfirmingFails(c)
  <3> PICK next : next = [old EXCEPT !.at = "catch"] OBVIOUS
  <3>1. next \in ConfirmerStates /\ next.run = e /\ next.at = "catch" BY DEF ConfirmerStates
  <3> QED BY <2>2,<3>1 DEF ConfirmingFails, QueuedBy
 <2>3. CASE ConfirmBreaksOff(c) BY <2>3, ConfirmTypes DEF ConfirmBreaksOff, QueuedBy
 <2> QED BY <2>1,<2>2,<2>3
<1>2. \/ behind /\ new.run = e /\ new.at = "close" /\ UNCHANGED <<broken, aiFaults>>
      \/ /\ new = IdleConfirm \/ (new.run = e /\ new.at = "catch" /\ old.at \in {"execute", "record", "close"})
         /\ broken' = (IF behind THEN broken \union {e} ELSE broken) /\ aiFaults' = aiFaults + 1 OBVIOUS
<1>3. /\ confirmer' \in [Confirmers -> ConfirmerStates] /\ confirmer'[c] = new
      /\ \A d \in Confirmers \ {c} : confirmer'[d] = confirmer[d] BY <1>0, ConfirmersChange
<1>4. aiFaults \in Nat /\ aiFaults' \in Nat /\ aiFaults <= aiFaults' /\ tickets \in Nat /\ posts \in Nat BY <1>0 DEF AssistTypes
<1>5. AssistTypes' BY <1>0,<1>3,<1>4 DEF AssistTypes
<1>6. Cardinality({d \in AiRuns : aiRun[d].tool \in EffectTools}) \in Nat BY AssistAssumption, FS_Subset, FS_CardinalityType
<1>7. EffectsAreRecorded' BY <1>4,<1>6 DEF AssistInv, EffectsAreRecorded
<1>8. (\A d \in AiRuns : Smooth(d)' => Smooth(d)) /\ (Smooth(e)' => ~behind \/ new.at = "close") BY <1>2 DEF Smooth
<1>9. /\ aiRun[e].tool = "terminateSession" /\ (behind => disconnects[e] > 0)
      /\ Smooth(e) => /\ aiRun[e].status = "AWAITING_CONFIRMATION" /\ (~behind => disconnects[e] = 0)
                      /\ \A d \in Confirmers : confirmer[d].run = e => d = c BY <1>0,<1>1 DEF ConfirmOK, Confirming, ConfirmerStates
<1>10. new.run \in {e, "none"} /\ (new.at = "close" => behind) /\ (new # IdleConfirm => new.run = e /\ new.at \in {"close", "catch"})
  BY <1>2, ConfirmTypes
<1>11. ASSUME NEW d \in AiRuns PROVE RunOK(d)'
 <2>1. RunOK(d) BY <1>0
 <2>2. d # e /\ (\A b \in Confirmers : confirmer'[b].run # d) => \A b \in Confirmers : confirmer[b].run # d BY <1>3
 <2>3. (\A b \in Confirmers : confirmer'[b].run # e) => new = IdleConfirm BY <1>3,<1>10
 <2>4. Smooth(e)' /\ (\A b \in Confirmers : confirmer'[b].run # e) => disconnects[e] = 0 BY <1>8,<1>9,<2>3, ConfirmTypes
 <2> QED BY <1>8,<2>1,<2>2,<2>4 DEF RunOK, MayCommand
<1>12. ASSUME NEW d \in Confirmers PROVE ConfirmOK(d)'
 <2>0. \A b \in AiRuns : \A x \in Confirmers : confirmer'[x].run = b => confirmer[x].run = b BY <1>3,<1>10, AssistAssumption
 <2>1. CASE d = c
  <3>1. CASE new = IdleConfirm BY <1>3,<2>1,<3>1, ConfirmTypes DEF ConfirmOK, Confirming
  <3>2. CASE new # IdleConfirm BY <1>3,<1>8,<1>9,<1>10,<2>0,<2>1,<3>2 DEF ConfirmOK, Confirming
  <3> QED BY <3>1,<3>2
 <2>2. CASE d # c
  <3>1. ConfirmOK(d) /\ confirmer'[d] = confirmer[d] BY <1>0,<1>3,<2>2
  <3>2. CASE ~Confirming(d) BY <3>1,<3>2, ConfirmTypes DEF ConfirmOK, Confirming
  <3>3. CASE Confirming(d) BY <1>8,<2>0,<3>1,<3>3 DEF ConfirmOK, Confirming
  <3> QED BY <3>2,<3>3
 <2> QED BY <2>1,<2>2
<1> QED BY <1>5,<1>7,<1>11,<1>12 DEF AssistInv, ClosedStays

LEMMA AssistStands ==
  ASSUME AssistInv, UNCHANGED <<aiRole, aiRun, confirmer, disconnects, metTwice, broken>>
  PROVE (\A d \in AiRuns : RunOK(d)') /\ (\A c \in Confirmers : ConfirmOK(c)') /\ ClosedStays
<1>1. \A d \in AiRuns : RunOK(d)' BY DEF AssistInv, RunOK, Smooth, MayCommand
<1>2. \A c \in Confirmers : ConfirmOK(c)' BY DEF AssistInv, ConfirmOK, Confirming, Smooth
<1>3. ClosedStays BY DEF ClosedStays
<1> QED BY <1>1,<1>2,<1>3

LEMMA CountsAreNat == AssistTypes => tickets \in Nat /\ posts \in Nat /\ aiFaults \in Nat /\ Cardinality(Effects) \in Nat /\ IsFiniteSet(Effects)
<1>1. IsFiniteSet(Effects) BY AssistAssumption, FS_Subset DEF Effects
<1> QED BY <1>1, FS_CardinalityType DEF AssistTypes

LEMMA ChatKeepsAssist ==
  ASSUME AssistInv, ChatBreaksOff \/ \E tool \in ReadTools \union EffectTools : ExecuteTool(tool) PROVE AssistInv' /\ ClosedStays
<1>0. AssistTypes BY DEF AssistInv
<1> DEFINE owed == IF chatting \in EffectTools THEN 1 ELSE 0
<1>1. tickets + posts <= Cardinality(Effects) + aiFaults + owed BY DEF AssistInv, EffectsAreRecorded, Effects
<1>2. UNCHANGED <<aiRole, aiRun, confirmer, disconnects, metTwice, broken>> BY DEF ChatBreaksOff, ExecuteTool
<1>3. Effects' = Effects BY <1>2 DEF Effects
<1>4. CASE ChatBreaksOff
 <2>1. chatting' = "none" /\ aiFaults' = aiFaults + 1 /\ UNCHANGED <<tickets, posts>> BY <1>4 DEF ChatBreaksOff
 <2>2. AssistTypes' BY <1>0,<1>2,<2>1 DEF AssistTypes
 <2>3. owed \in 0..1 /\ owed' = 0 BY <2>1 DEF EffectTools
 <2>4. tickets' + posts' <= Cardinality(Effects)' + aiFaults' + owed' BY <1>0,<1>1,<1>3,<2>1,<2>3, CountsAreNat
 <2>5. EffectsAreRecorded' BY <2>4 DEF EffectsAreRecorded, Effects
 <2> QED BY <1>2,<2>2,<2>5, AssistStands DEF AssistInv
<1>5. ASSUME NEW tool \in ReadTools \union EffectTools, ExecuteTool(tool) PROVE AssistInv' /\ ClosedStays
 <2>1. /\ chatting = "none" /\ chatting' = tool /\ aiFaults' = aiFaults
       /\ tickets' = (IF tool = "createTicket" THEN tickets + 1 ELSE tickets)
       /\ posts' = IF tool = "sendMessage" THEN posts + 1 ELSE posts BY <1>5 DEF ExecuteTool
 <2>2. tickets \in Nat /\ posts \in Nat BY <1>0 DEF AssistTypes
 <2>3. tickets' \in Nat /\ posts' \in Nat BY <2>1,<2>2
 <2>4. AssistTypes' BY <1>0,<1>2,<2>1,<2>3 DEF AssistTypes
 <2>5. owed = 0 /\ owed' = (IF tool \in EffectTools THEN 1 ELSE 0) /\ owed' \in 0..1 BY <2>1 DEF EffectTools
 <2>6. tickets' + posts' <= tickets + posts + owed'
  <3>1. CASE tool = "createTicket" BY <2>1,<2>2,<2>5,<3>1 DEF EffectTools
  <3>2. CASE tool = "sendMessage" BY <2>1,<2>2,<2>5,<3>2 DEF EffectTools
  <3>3. CASE tool \notin {"createTicket", "sendMessage"} BY <2>1,<2>2,<2>5,<3>3
  <3> QED BY <3>1,<3>2,<3>3
 <2>7. tickets' + posts' <= Cardinality(Effects)' + aiFaults' + owed' BY <1>0,<1>1,<1>3,<2>1,<2>3,<2>5,<2>6, CountsAreNat
 <2>8. EffectsAreRecorded' BY <2>7 DEF EffectsAreRecorded, Effects
 <2> QED BY <1>2,<2>4,<2>8, AssistStands DEF AssistInv
<1> QED BY <1>4,<1>5

LEMMA EntriesKeepAssist == ASSUME AssistInv, NEW e \in AiRuns, RecordTool(e) \/ ProposeTermination(e) PROVE AssistInv' /\ ClosedStays
<1>0. AssistTypes BY DEF AssistInv
<1> DEFINE owed == IF chatting \in EffectTools THEN 1 ELSE 0
<1>1. tickets + posts <= Cardinality(Effects) + aiFaults + owed BY DEF AssistInv, EffectsAreRecorded, Effects
<1>2. aiRun[e] = NoRunYet /\ UNCHANGED <<aiRole, confirmer, disconnects, metTwice, broken, tickets, posts, aiFaults>> /\ chatting' = "none"
  BY DEF RecordTool, ProposeTermination
<1> PICK new : new = IF chatting = "none" THEN [tool |-> "terminateSession", status |-> "AWAITING_CONFIRMATION"]
                     ELSE [tool |-> chatting, status |-> "SUCCESS"] OBVIOUS
<1>3. aiRun' = [aiRun EXCEPT ![e] = new] BY DEF RecordTool, ProposeTermination
<1>4. chatting # "none" => chatting \in ReadTools \union EffectTools BY <1>0 DEF AssistTypes
<1>5. new \in AiRows BY <1>4 DEF AiRows
<1>6. \/ new.tool = "terminateSession" /\ new.status = "AWAITING_CONFIRMATION"
      \/ new.tool \in ReadTools \union EffectTools /\ new.status = "SUCCESS" BY <1>4
<1>7. new.tool \in EffectTools <=> chatting \in EffectTools BY DEF EffectTools
<1>8. /\ aiRun' \in [AiRuns -> AiRows] /\ (\A d \in AiRuns : RunOK(d)') /\ (\A c \in Confirmers : ConfirmOK(c)')
      /\ ClosedStays /\ Effects' = (IF new.tool \in EffectTools THEN Effects \union {e} ELSE Effects) /\ e \notin Effects
  BY <1>2,<1>3,<1>5,<1>6, EntryIsKept
<1>9. AssistTypes' BY <1>0,<1>2,<1>8 DEF AssistTypes
<1>10. Cardinality(Effects') = Cardinality(Effects) + owed
 <2>1. CASE chatting \in EffectTools BY <1>0,<1>7,<1>8,<2>1, CountsAreNat, FS_AddElement
 <2>2. CASE chatting \notin EffectTools BY <1>0,<1>7,<1>8,<2>2, CountsAreNat
 <2> QED BY <2>1,<2>2
<1>11. owed' = 0 /\ owed \in 0..1 BY <1>2 DEF EffectTools
<1>12. tickets' + posts' <= Cardinality(Effects') + aiFaults' + owed' BY <1>0,<1>1,<1>2,<1>10,<1>11, CountsAreNat
<1>13. EffectsAreRecorded' BY <1>12 DEF EffectsAreRecorded, Effects
<1> QED BY <1>8,<1>9,<1>13 DEF AssistInv

LEMMA AssistStep == AssistInv /\ [AssistNext]_assistVars => AssistInv' /\ ClosedStays
<1> SUFFICES ASSUME AssistInv, [AssistNext]_assistVars PROVE AssistInv' /\ ClosedStays OBVIOUS
<1>1. ASSUME UNCHANGED <<aiRole, aiRun, chatting, confirmer, disconnects, tickets, posts, metTwice, broken, aiFaults>>
  PROVE AssistInv' /\ ClosedStays
 <2>1. AssistTypes' BY <1>1 DEF AssistInv, AssistTypes
 <2>2. EffectsAreRecorded' BY <1>1 DEF AssistInv, EffectsAreRecorded
 <2> QED BY <1>1,<2>1,<2>2, AssistStands DEF AssistInv
<1>2. CASE AiNext
 <2>1. ASSUME NEW to \in {"ACTIVE", "ENDED", "UNMANAGED"}, SessionChanges(to) PROVE AssistInv' /\ ClosedStays BY <1>1,<2>1 DEF SessionChanges
 <2> QED BY <1>2,<2>1, ChatKeepsAssist, EntriesKeepAssist, ReadKeepsAssist, ExecuteKeepsAssist, CloseKeepsAssist, MoveKeepsAssist DEF AiNext
<1>3. CASE CommandNext BY <1>1,<1>3 DEF CommandNext, ExecuteCommand, ExecuteBot, PostBotResult, aiVars
<1>4. CASE UNCHANGED assistVars BY <1>1,<1>4 DEF assistVars, aiVars
<1> QED BY <1>2,<1>3,<1>4 DEF AssistNext

LEMMA AssistInvImplies == AssistInv => AssistTypeOK /\ OneDisconnectPerRun /\ DisconnectsWereProposed /\ ClosedAsDone /\ EffectsAreRecorded
<1> SUFFICES ASSUME AssistInv PROVE AssistTypeOK /\ OneDisconnectPerRun /\ DisconnectsWereProposed /\ ClosedAsDone /\ EffectsAreRecorded OBVIOUS
<1>1. AssistTypeOK BY DEF AssistInv, AssistTypes, AssistTypeOK, AiRows
<1>2. OneDisconnectPerRun BY DEF AssistInv, RunOK, Smooth, OneDisconnectPerRun
<1>3. DisconnectsWereProposed BY DEF AssistInv, RunOK, DisconnectsWereProposed
<1>4. ClosedAsDone BY DEF AssistInv, RunOK, Smooth, ClosedAsDone
<1> QED BY <1>1,<1>2,<1>3,<1>4 DEF AssistInv

\* However many confirmations of one execution are open at once, and wherever one breaks
\* off or fails: an execution disconnects once, and is FAILED only without a disconnection,
\* unless two met or one failed behind the queue; it disconnects only what was proposed and
\* by whoever may, is a SUCCESS only with a disconnection, and stays as it was closed; and
\* what the assistant brought about is recorded (communication.ai.ts).
THEOREM AssistantIsKept == AssistSpec => AssistantHolds
<1>1. AssistInv /\ [AssistNext]_assistVars =>
        [\A e \in AiRuns : aiRun[e].status \in {"SUCCESS", "FAILED"} => aiRun'[e] = aiRun[e]]_aiRun BY AssistStep DEF ClosedStays
<1> QED BY <1>1, AssistBegins, AssistStep, AssistInvImplies, PTL DEF AssistSpec, AssistantHolds

------------------------
(* The answers of the web application itself: what find() returns. *)

LEMMA FoundFirst ==
  ASSUME NEW S \in SUBSET Nat, IsFiniteSet(S)
  PROVE  /\ S = {} => Found(S) = 0
         /\ S # {} => Found(S) \in S /\ \A j \in S : Found(S) <= j
<1>1. S = {} => Found(S) = 0 BY DEF Found
<1>2. ASSUME S # {} PROVE \E i \in S : \A j \in S : i <= j
 <2> PICK g : g = [x \in S |-> -x] OBVIOUS
 <2>1. \A x \in S : g[x] \in Int /\ g[x] = -x /\ x \in Int OBVIOUS
 <2>2. PICK i \in S : \A j \in S : g[j] <= g[i] BY ONLY <1>2,<2>1, IsFiniteSet(S), GreatestValue
 <2>3. \A j \in S : i <= j BY <2>1,<2>2
 <2> QED BY <2>3
<1> QED BY <1>1,<1>2 DEF Found

\* What was found is found still when only later rows match too.
LEMMA FoundStays ==
  ASSUME NEW T \in SUBSET Nat, IsFiniteSet(T), NEW S \in SUBSET T, S # {}, \A t \in T \ S : \A s \in S : s <= t PROVE Found(T) = Found(S)
<1>1. IsFiniteSet(S) BY FS_Subset
<1>2. Found(S) \in S /\ \A j \in S : Found(S) <= j BY <1>1, FoundFirst
<1>3. Found(T) \in T /\ \A j \in T : Found(T) <= j BY FoundFirst
<1>4. Found(S) <= Found(T) /\ Found(T) <= Found(S) BY <1>2,<1>3
<1>5. Found(S) \in Nat /\ Found(T) \in Nat BY <1>2,<1>3
<1> QED BY ONLY <1>4,<1>5

ShelfRows == [id : Nat, price : Nat, devices : Nat, portal : BOOLEAN]
VoucherRows == [id : Nat, code : CodesOnShow, package : Nat, status : {"UNUSED", "USED"}, devices : Nat]
Matching(id) == {i \in DOMAIN shelf : shelf[i].id = id}
UsedUp == {i \in DOMAIN vouchers : vouchers[i].status = "USED"}

\* The prices of what is on show are found, and are those of the sales.
SalesFit == \A i \in DOMAIN DemoSales : PackageAt(DemoSales[i].package) # 0 /\ DemoSales[i].amount = PackageFor(DemoSales[i].package).price
SessionsFit == \A s \in inSession : s.customer \in ToSet(subscribers) /\ s.router \in ToSet(gear)
CustomersFit == \A i \in DOMAIN DemoSales : DemoSales[i].customer \in ToSet(subscribers)
DemoInv ==
  /\ DemoTypeOK /\ demoNow \in Nat /\ redeemed \in Nat /\ shelf # << >>
  /\ LimitIsItsPackages /\ RedeemedOneByOne /\ SalesFit /\ SessionsFit /\ CustomersFit

LEMMA DemoTypes ==
  ASSUME DemoInv
  PROVE  /\ shelf \in Seq(ShelfRows) /\ Len(shelf) \in Nat \ {0} /\ vouchers \in Seq(VoucherRows)
         /\ subscribers \in Seq(Nat) /\ gear \in Seq(Nat) /\ bindings \in Seq({"ACTIVE", "SUSPENDED"}) /\ NewId \in Nat
BY DEF DemoInv, DemoTypeOK, ShelfRows, VoucherRows, NewId

LEMMA MatchingTypes ==
  ASSUME NEW rows \in Seq(ShelfRows), NEW id
  PROVE LET M == {i \in DOMAIN rows : rows[i].id = id} IN M \subseteq 1..Len(rows) /\ M \in SUBSET Nat /\ IsFiniteSet(M)
<1> DEFINE M == {i \in DOMAIN rows : rows[i].id = id}
<1>1. M \subseteq 1..Len(rows) /\ Len(rows) \in Nat OBVIOUS
<1>2. IsFiniteSet(1..Len(rows)) BY <1>1, FS_Interval
<1>3. M \in SUBSET (1..Len(rows)) /\ M \in SUBSET Nat BY <1>1
<1>4. IsFiniteSet(M)
 <2> HIDE DEF M
 <2> QED BY <1>2,<1>3, FS_Subset
<1> QED BY <1>1,<1>3,<1>4

\* A package is found under its number, or the first one is taken, which is found under
\* its own number.
LEMMA PackageFacts ==
  ASSUME DemoInv, NEW id
  PROVE  /\ PackageAt(id) # 0 <=> Matching(id) # {}
         /\ PackageAt(id) # 0 => PackageAt(id) \in Matching(id)
         /\ PackageFor(id) \in ShelfRows
         /\ PackageAt(PackageFor(id).id) # 0 /\ PackageFor(PackageFor(id).id) = PackageFor(id)
<1>0. shelf \in Seq(ShelfRows) /\ Len(shelf) \in Nat \ {0} BY DemoTypes
<1>1. \A x : Matching(x) \subseteq 1..Len(shelf) /\ Matching(x) \in SUBSET Nat /\ IsFiniteSet(Matching(x)) BY <1>0, MatchingTypes DEF Matching
<1>2. \A x : PackageAt(x) = Found(Matching(x)) BY DEF PackageAt, Matching
<1>3. \A x : /\ Matching(x) = {} => PackageAt(x) = 0
             /\ Matching(x) # {} => PackageAt(x) \in Matching(x) /\ \A j \in Matching(x) : PackageAt(x) <= j BY <1>1,<1>2, FoundFirst
<1>4. \A x : Matching(x) # {} => PackageAt(x) # 0 BY <1>1,<1>3
<1>5. PackageFor(id) \in ShelfRows
 <2>1. PackageAt(id) # 0 => PackageAt(id) \in 1..Len(shelf) BY <1>1,<1>3
 <2> HIDE DEF ShelfRows
 <2> QED BY <1>0,<2>1 DEF PackageFor
<1>6. CASE PackageAt(id) # 0
 <2>1. PackageFor(id).id = id BY <1>3,<1>6 DEF PackageFor, Matching
 <2> QED BY <1>3,<1>4,<1>5,<1>6,<2>1
<1>7. CASE PackageAt(id) = 0
 <2>1. PackageFor(id) = shelf[1] /\ 1 \in DOMAIN shelf BY <1>0,<1>7 DEF PackageFor
 <2>2. 1 \in Matching(shelf[1].id) BY <2>1 DEF Matching
 <2>3. PackageAt(shelf[1].id) \in Matching(shelf[1].id) /\ PackageAt(shelf[1].id) <= 1 BY <1>3,<2>2
 <2>4. PackageAt(shelf[1].id) = 1 BY <1>0,<1>1,<2>3
 <2>5. PackageFor(shelf[1].id) = shelf[1] BY <2>4 DEF PackageFor
 <2> QED BY <1>3,<1>4,<1>5,<2>1,<2>4,<2>5
<1> QED BY <1>3,<1>4,<1>5,<1>6,<1>7

LEMMA DemoBegins == DemoInit => DemoInv
<1> SUFFICES ASSUME DemoInit PROVE DemoInv OBVIOUS
<1>1. shelf = DemoPackages /\ vouchers = DemoVouchers /\ subscribers = DemoCustomers /\ gear = DemoRouters
      /\ inSession = DemoSessions /\ bindings = DemoBindings /\ demoNow = 0 /\ redeemed = 0 BY DEF DemoInit
<1>2. DOMAIN shelf = 1..6 /\ \A i \in 1..6 : shelf[i].id = i BY <1>1 DEF DemoPackages
<1>3. \A i \in 1..6 : Matching(i) = {i} BY <1>2 DEF Matching
<1>4. \A i \in 1..6 : PackageAt(i) = i /\ PackageFor(i) = shelf[i]
 <2>1. TAKE i \in 1..6
 <2>2. IsFiniteSet({i}) /\ {i} \in SUBSET Nat /\ {i} # {} BY FS_Singleton
 <2>3. Found({i}) = i BY <2>2, FoundFirst
 <2>4. PackageAt(i) = i BY <1>3,<2>3 DEF PackageAt, Matching
 <2> QED BY <2>4 DEF PackageFor
<1>5. DemoTypeOK
 <2>1. shelf \in Seq([id : Nat, price : Nat, devices : Nat, portal : BOOLEAN]) BY <1>1 DEF DemoPackages
 <2>2. vouchers \in Seq(VoucherRows)
  <3>1. DOMAIN DemoVouchers = 1..5 BY DEF DemoVouchers
  <3>2. \A i \in 1..5 : DemoVouchers[i].code \in CodesOnShow BY <3>1 DEF CodesOnShow
  <3>3. \A i \in 1..5 : DemoVouchers[i] \in VoucherRows BY <3>2 DEF DemoVouchers, DemoVoucher, VoucherRows
  <3>4. DemoVouchers = [i \in 1..5 |-> DemoVouchers[i]] BY DEF DemoVouchers
  <3> HIDE DEF DemoVouchers, VoucherRows
  <3> QED BY <1>1,<3>3,<3>4
 <2>3. subscribers \in Seq(Nat) /\ gear \in Seq(Nat) /\ bindings \in Seq({"ACTIVE", "SUSPENDED"})
   BY <1>1 DEF DemoCustomers, DemoRouters, DemoBindings
 <2> QED BY <2>1,<2>2,<2>3 DEF DemoTypeOK, VoucherRows
<1>6. LimitIsItsPackages
 <2>1. \A i \in DOMAIN vouchers : vouchers[i].package \in 1..6 /\ vouchers[i].devices = shelf[vouchers[i].package].devices
   BY <1>1 DEF DemoVouchers, DemoVoucher, DemoPackages
 <2> QED BY <1>4,<2>1 DEF LimitIsItsPackages
<1>7. RedeemedOneByOne
 <2>1. UsedUp = {4} BY <1>1 DEF UsedUp, DemoVouchers, DemoVoucher
 <2>2. Cardinality({4}) = 1 BY FS_Singleton
 <2> QED BY <1>1,<2>1,<2>2 DEF RedeemedOneByOne, UsedUp
<1>8. SalesFit
 <2>1. \A i \in DOMAIN DemoSales : DemoSales[i].package \in 1..6 /\ DemoSales[i].amount = shelf[DemoSales[i].package].price
   BY <1>1 DEF DemoSales, DemoPackages
 <2> QED BY <1>4,<2>1 DEF SalesFit
<1>9. SessionsFit /\ CustomersFit
 <2>1. 1..4 \subseteq ToSet(subscribers)
  <3>1. DOMAIN subscribers = 1..5 /\ \A i \in 1..5 : subscribers[i] = i BY <1>1 DEF DemoCustomers
  <3> QED BY <3>1 DEF ToSet
 <2>2. 1..4 \subseteq ToSet(gear)
  <3>1. DOMAIN gear = 1..4 /\ \A i \in 1..4 : gear[i] = i BY <1>1 DEF DemoRouters
  <3> QED BY <3>1 DEF ToSet
 <2>3. \A s \in DemoSessions : s.customer \in 1..4 /\ s.router \in 1..4 BY DEF DemoSessions
 <2>4. \A i \in DOMAIN DemoSales : DemoSales[i].customer \in 1..4 BY DEF DemoSales
 <2> QED BY <1>1,<2>1,<2>2,<2>3,<2>4 DEF SessionsFit, CustomersFit
<1>10. shelf # << >> BY <1>1 DEF DemoPackages
<1> QED BY <1>1,<1>5,<1>6,<1>7,<1>8,<1>9,<1>10 DEF DemoInv

\* A package at the end of the list changes nothing about those found before.
LEMMA ShelfGrows ==
  ASSUME DemoInv, NEW row \in ShelfRows, shelf' = Append(shelf, row)
  PROVE  /\ shelf' \in Seq(ShelfRows) /\ shelf' # << >>
         /\ \A id : PackageAt(id) # 0 => PackageAt(id)' = PackageAt(id) /\ PackageFor(id)' = PackageFor(id)
<1>0. shelf \in Seq(ShelfRows) /\ Len(shelf) \in Nat \ {0} BY DemoTypes
<1> PICK new : new = shelf' OBVIOUS
<1> HIDE DEF ShelfRows
<1>1. new \in Seq(ShelfRows) /\ Len(new) = Len(shelf) + 1 /\ \A i \in 1..Len(shelf) : new[i] = shelf[i] BY <1>0
<1>2. ASSUME NEW id, PackageAt(id) # 0 PROVE PackageAt(id)' = PackageAt(id) /\ PackageFor(id)' = PackageFor(id)
 <2> DEFINE T == {i \in DOMAIN new : new[i].id = id}
            S == {i \in DOMAIN shelf : shelf[i].id = id}
 <2>1. T \subseteq 1..Len(new) /\ T \in SUBSET Nat /\ IsFiniteSet(T) BY <1>1, MatchingTypes
 <2>2. S \subseteq 1..Len(shelf) /\ S \in SUBSET Nat /\ IsFiniteSet(S) BY <1>0, MatchingTypes
 <2>3. S \in SUBSET T
  <3>1. SUFFICES ASSUME NEW i \in S PROVE i \in T OBVIOUS
  <3>2. i \in 1..Len(shelf) /\ shelf[i].id = id BY <2>2
  <3>3. i \in DOMAIN new /\ new[i] = shelf[i] BY <1>0,<1>1,<3>2
  <3> QED BY <3>2,<3>3
 <2>4. S # {} BY <1>2, PackageFacts DEF Matching
 <2>5. \A t \in T \ S : \A i \in S : i <= t
  <3>1. SUFFICES ASSUME NEW t \in T \ S, NEW i \in S PROVE i <= t OBVIOUS
  <3>2. t \in 1..Len(new) /\ new[t].id = id /\ i \in 1..Len(shelf) BY <2>1,<2>2
  <3>3. t \notin 1..Len(shelf) BY <1>0,<1>1,<3>2
  <3> QED BY <1>0,<1>1,<3>2,<3>3
 <2>6. Found(T) = Found(S)
  <3> HIDE DEF S, T
  <3> QED BY <2>1,<2>3,<2>4,<2>5, FoundStays
 <2>7. PackageAt(id) = Found(S) BY DEF PackageAt
 <2>8. PackageAt(id)' = Found(T) BY DEF PackageAt, Found
 <2>9. PackageAt(id) \in DOMAIN shelf BY <1>2, PackageFacts DEF Matching
 <2>10. PackageFor(id) = shelf[PackageAt(id)] BY <1>2 DEF PackageFor
 <2>11. PackageFor(id)' = new[PackageAt(id)'] BY <1>2,<2>6,<2>7,<2>8 DEF PackageFor
 <2> PICK m : m = PackageAt(id) OBVIOUS
 <2>12. m \in 1..Len(shelf) /\ PackageAt(id)' = m
  <3> HIDE DEF S, T
  <3> QED BY <1>0,<2>6,<2>7,<2>8,<2>9
 <2>13. new[m] = shelf[m] BY ONLY <1>1,<2>12
 <2> QED BY <2>10,<2>11,<2>12,<2>13
<1>3. new # << >> BY <1>0,<1>1
<1> QED BY <1>1,<1>2,<1>3

NewPackage(devices, portal) == [id |-> NewId, price |-> 5000, devices |-> devices, portal |-> portal]

LEMMA CreateDemoPackageKeeps == ASSUME DemoInv, NEW devices \in Nat, NEW portal \in BOOLEAN, CreateDemoPackage(devices, portal) PROVE DemoInv'
<1> PICK row : row = NewPackage(devices, portal) OBVIOUS
<1>1. row \in ShelfRows BY DemoTypes DEF ShelfRows, NewPackage
<1>2. shelf' = Append(shelf, row) BY DEF CreateDemoPackage, Shelved, NewPackage
<1>3. /\ shelf' \in Seq(ShelfRows) /\ shelf' # << >>
      /\ \A id : PackageAt(id) # 0 => PackageAt(id)' = PackageAt(id) /\ PackageFor(id)' = PackageFor(id) BY <1>1,<1>2, ShelfGrows
<1>4. UNCHANGED <<vouchers, subscribers, gear, inSession, bindings, demoNow, redeemed>> BY DEF CreateDemoPackage
<1>5. LimitIsItsPackages' BY <1>3,<1>4 DEF DemoInv, LimitIsItsPackages
<1>6. SalesFit'
 <2>1. \A i \in DOMAIN DemoSales : PackageAt(DemoSales[i].package) # 0 /\ DemoSales[i].amount = PackageFor(DemoSales[i].package).price
   BY DEF DemoInv, SalesFit
 <2> HIDE DEF DemoSales
 <2>2. ASSUME NEW i \in DOMAIN DemoSales PROVE PackageAt(DemoSales[i].package)' # 0 /\ DemoSales[i].amount = PackageFor(DemoSales[i].package)'.price
  <3>1. PackageAt(DemoSales[i].package)' = PackageAt(DemoSales[i].package) /\ PackageFor(DemoSales[i].package)' = PackageFor(DemoSales[i].package)
    BY <1>3,<2>1
  <3> QED BY <2>1,<3>1
 <2> QED BY <2>2 DEF SalesFit, DemoSales
<1>7. DemoTypeOK' BY <1>3,<1>4 DEF DemoInv, DemoTypeOK, ShelfRows
<1> QED BY <1>3,<1>4,<1>5,<1>6,<1>7 DEF DemoInv, RedeemedOneByOne, SessionsFit, CustomersFit

\* Rows of the other lists.
LEMMA ListsKeep ==
  ASSUME DemoInv, UNCHANGED <<shelf, vouchers, redeemed>>, demoNow' \in Nat, inSession' \subseteq inSession,
      subscribers' \in Seq(Nat), gear' \in Seq(Nat), bindings' \in Seq({"ACTIVE", "SUSPENDED"}),
      ToSet(subscribers) \subseteq ToSet(subscribers)', ToSet(gear) \subseteq ToSet(gear)'
  PROVE DemoInv'
<1>1. \A id : PackageAt(id)' = PackageAt(id) /\ PackageFor(id)' = PackageFor(id) BY DEF PackageAt, PackageFor, Found
<1>2. SalesFit' BY <1>1 DEF DemoInv, SalesFit
<1>3. LimitIsItsPackages' /\ RedeemedOneByOne' BY <1>1 DEF DemoInv, LimitIsItsPackages, RedeemedOneByOne
<1>4. SessionsFit' BY DEF DemoInv, SessionsFit
<1>5. CustomersFit' BY DEF DemoInv, CustomersFit
<1>6. DemoTypeOK' BY DEF DemoInv, DemoTypeOK
<1> QED BY <1>2,<1>3,<1>4,<1>5,<1>6 DEF DemoInv
LEMMA VoucherSets == ASSUME DemoInv, NEW S \in SUBSET DOMAIN vouchers PROVE IsFiniteSet(S) /\ Cardinality(S) \in Nat /\ S \in SUBSET Nat
<1>1. vouchers \in Seq(VoucherRows) BY DemoTypes
<1>2. DOMAIN vouchers = 1..Len(vouchers) /\ Len(vouchers) \in Nat BY ONLY <1>1
<1>3. IsFiniteSet(DOMAIN vouchers) BY <1>2, FS_Interval
<1> QED BY <1>2,<1>3, FS_Subset, FS_CardinalityType

\* A batch heads the list of vouchers.
LEMMA BatchKeeps ==
  ASSUME DemoInv, NEW n \in Nat, NEW new \in Seq(VoucherRows), Len(new) = n, vouchers' = new \o vouchers,
      \A i \in 1..n : /\ new[i].status = "UNUSED" /\ PackageAt(new[i].package) # 0
                      /\ new[i].devices = PackageFor(new[i].package).devices,
      UNCHANGED <<shelf, subscribers, gear, inSession, bindings, demoNow, redeemed>>
  PROVE DemoInv'
<1>0. vouchers \in Seq(VoucherRows) /\ Len(vouchers) \in Nat BY DemoTypes
<1> PICK all : all = new \o vouchers OBVIOUS
<1>1. /\ all \in Seq(VoucherRows) /\ Len(all) = n + Len(vouchers) /\ DOMAIN all = 1..Len(all)
      /\ \A i \in 1..n : all[i] = new[i]
      /\ \A i \in 1..Len(vouchers) : all[n + i] = vouchers[i]
 <2> HIDE DEF VoucherRows
 <2>0. new \in Seq(VoucherRows) /\ Len(new) = n /\ n \in Nat /\ all = new \o vouchers OBVIOUS
 <2>a. Len(all) = n + Len(vouchers)
  <3>1. new \in Seq(VoucherRows) /\ vouchers \in Seq(VoucherRows) BY ONLY <1>0,<2>0
  <3>2. Len(new \o vouchers) = Len(new) + Len(vouchers) BY ONLY <3>1, ConcatProperties
  <3> QED BY ONLY <2>0,<3>2
 <2>b. all \in Seq(VoucherRows) BY ONLY <1>0,<2>0
 <2>1. all \in Seq(VoucherRows) /\ Len(all) = n + Len(vouchers) BY ONLY <2>a,<2>b
 <2>2. DOMAIN all = 1..Len(all) BY ONLY <2>1
 <2>3. \A i \in 1..n : all[i] = new[i] BY ONLY <1>0,<2>0
 <2>4. ASSUME NEW i \in 1..Len(vouchers) PROVE all[n + i] = vouchers[i]
  <3>1. n + i \in 1..(n + Len(vouchers)) /\ n + i > n /\ n + i - n = i BY ONLY <1>0,<2>0, i \in 1..Len(vouchers)
  <3> QED BY ONLY <1>0,<2>0,<3>1
 <2> QED BY <2>1,<2>2,<2>3,<2>4
<1>2. \A j \in DOMAIN all : j \in 1..n \/ \E i \in DOMAIN vouchers : j = n + i
 <2>0. DOMAIN all = 1..(n + Len(vouchers)) /\ DOMAIN vouchers = 1..Len(vouchers) BY ONLY <1>0,<1>1
 <2>1. SUFFICES ASSUME NEW j \in DOMAIN all, j \notin 1..n PROVE \E i \in DOMAIN vouchers : j = n + i OBVIOUS
 <2>2. j \in 1..(n + Len(vouchers)) BY ONLY <2>0,<2>1
 <2>3. j - n \in 1..Len(vouchers) /\ j = n + (j - n) BY ONLY <1>0,<2>1,<2>2, n \in Nat
 <2> QED BY ONLY <2>0,<2>3
<1>3. \A id : PackageAt(id)' = PackageAt(id) /\ PackageFor(id)' = PackageFor(id) BY DEF PackageAt, PackageFor, Found
<1>4. LimitIsItsPackages'
 <2>1. SUFFICES ASSUME NEW j \in DOMAIN all
   PROVE PackageAt(all[j].package) # 0 /\ all[j].devices = PackageFor(all[j].package).devices BY <1>3 DEF LimitIsItsPackages
 <2>2. CASE j \in 1..n BY <1>1,<2>2
 <2>3. ASSUME NEW i \in DOMAIN vouchers, j = n + i PROVE PackageAt(all[j].package) # 0 /\ all[j].devices = PackageFor(all[j].package).devices
  <3>1. all[j] = vouchers[i] BY <1>0,<1>1,<2>3
  <3> QED BY <3>1 DEF DemoInv, LimitIsItsPackages
 <2> QED BY <1>2,<2>2,<2>3
<1>5. RedeemedOneByOne'
 <2> DEFINE later == {j \in DOMAIN all : all[j].status = "USED"}
            f == [i \in UsedUp |-> n + i]
 <2>1. IsFiniteSet(UsedUp)
  <3>1. UsedUp \in SUBSET DOMAIN vouchers BY DEF UsedUp
  <3> QED BY <3>1, VoucherSets
 <2>2. f \in Bijection(UsedUp, later)
  <3>1. \A i \in UsedUp : n + i \in later BY <1>0,<1>1 DEF UsedUp
  <3>2. \A j \in later : \E i \in UsedUp : n + i = j
   <4>1. SUFFICES ASSUME NEW j \in DOMAIN all, all[j].status = "USED" PROVE \E i \in UsedUp : n + i = j OBVIOUS
   <4>2. j \notin 1..n BY <1>1,<4>1
   <4>3. PICK i \in DOMAIN vouchers : j = n + i BY <1>2,<4>2
   <4>4. vouchers[i].status = "USED" BY <1>0,<1>1,<4>1,<4>3
   <4> QED BY <4>3,<4>4 DEF UsedUp
  <3>3. \A i \in UsedUp, j \in UsedUp : n + i = n + j => i = j
   <4>1. UsedUp \subseteq Nat BY <1>0 DEF UsedUp
   <4> QED BY ONLY <4>1, n \in Nat
  <3>4. f \in [UsedUp -> later] BY <3>1
  <3> HIDE DEF later
  <3> QED BY <3>2,<3>3,<3>4 DEF Bijection, Injection, Surjection, IsInjective
 <2>3. Cardinality(later) = Cardinality(UsedUp)
  <3> HIDE DEF f, later
  <3> QED BY <2>1,<2>2, FS_Bijection DEF ExistsBijection
 <2> QED BY <2>3 DEF DemoInv, RedeemedOneByOne, UsedUp
<1>6. SalesFit' BY <1>3 DEF DemoInv, SalesFit
<1>7. DemoTypeOK' BY <1>1 DEF DemoInv, DemoTypeOK, VoucherRows, CodesOnShow
<1> QED BY <1>4,<1>5,<1>6,<1>7 DEF DemoInv, SessionsFit, CustomersFit

LEMMA CreateBatchKeeps == ASSUME DemoInv, NEW id, NEW codes \in Seq(DemoCodes), CreateBatch(id, codes) PROVE DemoInv'
<1> PICK p : p = PackageFor(id) OBVIOUS
<1>1. p \in ShelfRows /\ PackageAt(p.id) # 0 /\ PackageFor(p.id) = p BY PackageFacts
<1> PICK n : n = Len(codes) OBVIOUS
<1>2. n \in Nat /\ DOMAIN codes = 1..n OBVIOUS
<1> PICK drawn : drawn = [i \in 1..n |-> DemoVoucher(NewId, codes[i], p.id, "UNUSED", p.devices)] OBVIOUS
<1>3. \A i \in 1..n : drawn[i] \in VoucherRows /\ drawn[i].status = "UNUSED" /\ drawn[i].package = p.id /\ drawn[i].devices = p.devices
 <2>1. SUFFICES ASSUME NEW i \in 1..n
   PROVE drawn[i] \in VoucherRows /\ drawn[i].status = "UNUSED" /\ drawn[i].package = p.id /\ drawn[i].devices = p.devices OBVIOUS
 <2>2. codes[i] \in CodesOnShow BY <1>2 DEF CodesOnShow
 <2>3. p.id \in Nat /\ p.devices \in Nat /\ NewId \in Nat BY <1>1, DemoTypes DEF ShelfRows
 <2>4. drawn[i] = DemoVoucher(NewId, codes[i], p.id, "UNUSED", p.devices) OBVIOUS
 <2> QED BY <2>2,<2>3,<2>4 DEF VoucherRows, DemoVoucher
<1>4. Len(drawn) = n BY <1>2
<1> PICK new : new = [i \in 1..n |-> drawn[n - i + 1]] OBVIOUS
<1>5. \A i \in 1..n : n - i + 1 \in 1..n BY ONLY <1>2
<1>6. new \in Seq(VoucherRows) /\ Len(new) = n
 <2> HIDE DEF VoucherRows
 <2> QED BY <1>2,<1>3,<1>5
<1>7. \A i \in 1..n : /\ new[i].status = "UNUSED" /\ PackageAt(new[i].package) # 0
                      /\ new[i].devices = PackageFor(new[i].package).devices
 <2>1. TAKE i \in 1..n
 <2> PICK j \in 1..n : j = n - i + 1 BY <1>5
 <2>2. new[i] = drawn[j] OBVIOUS
 <2> QED BY <1>1,<1>3,<2>2
<1>8. vouchers' = new \o vouchers
 <2>1. vouchers' = Reverse(drawn) \o vouchers BY <1>2 DEF CreateBatch
 <2>2. Reverse(drawn) = new BY <1>4 DEF Reverse
 <2> QED BY <2>1,<2>2
<1>9. UNCHANGED <<shelf, subscribers, gear, inSession, bindings, demoNow, redeemed>> BY DEF CreateBatch
<1> QED BY ONLY <1>2,<1>6,<1>7,<1>8,<1>9, DemoInv, BatchKeeps

\* A redemption marks one voucher more, or none.
LEMMA RedeemDemoKeeps == ASSUME DemoInv, NEW code, RedeemDemo(code) PROVE DemoInv'
<1>0. vouchers \in Seq(VoucherRows) /\ Len(vouchers) \in Nat BY DemoTypes
<1> DEFINE hits == {i \in DOMAIN vouchers : vouchers[i].code = code /\ vouchers[i].status = "UNUSED"}
<1>1. UNCHANGED <<shelf, subscribers, gear, inSession, bindings, demoNow>> BY DEF RedeemDemo
<1>2. \A id : PackageAt(id)' = PackageAt(id) /\ PackageFor(id)' = PackageFor(id) BY <1>1 DEF PackageAt, PackageFor, Found
<1>3. CASE UNCHANGED <<vouchers, redeemed>>
 <2>1. LimitIsItsPackages' /\ RedeemedOneByOne' /\ SalesFit' BY <1>2,<1>3 DEF DemoInv, LimitIsItsPackages, RedeemedOneByOne, SalesFit
 <2> QED BY <1>1,<1>3,<2>1 DEF DemoInv, DemoTypeOK, SessionsFit, CustomersFit
<1>4. CASE ~ UNCHANGED <<vouchers, redeemed>>
 <2> PICK m : m = Unused(code) OBVIOUS
 <2>1. m # 0 /\ vouchers' = [vouchers EXCEPT ![m].status = "USED"] /\ redeemed' = redeemed + 1 BY <1>4 DEF RedeemDemo
 <2>2. hits \in SUBSET DOMAIN vouchers OBVIOUS
 <2>3. IsFiniteSet(hits) /\ hits \in SUBSET Nat
  <3> HIDE DEF hits
  <3> QED BY <2>2, VoucherSets
 <2>4. m = Found(hits) BY DEF Unused
 <2>5. m \in hits
  <3> HIDE DEF hits
  <3> QED BY <2>1,<2>2,<2>3,<2>4, FoundFirst
 <2>6. m \in DOMAIN vouchers /\ vouchers[m].status = "UNUSED" BY <2>5
 <2> PICK row \in VoucherRows : row = vouchers[m]
  <3> HIDE DEF VoucherRows
  <3> QED BY <1>0,<2>6
 <2> PICK used : used = [row EXCEPT !.status = "USED"] OBVIOUS
 <2>7. used \in VoucherRows /\ used.package = row.package /\ used.devices = row.devices /\ used.status = "USED" BY DEF VoucherRows
 <2>8. vouchers' = [vouchers EXCEPT ![m] = used] BY <2>1
 <2> PICK all : all = vouchers' OBVIOUS
 <2>9. /\ all \in Seq(VoucherRows) /\ DOMAIN all = DOMAIN vouchers
       /\ all[m] = used /\ \A i \in DOMAIN vouchers \ {m} : all[i] = vouchers[i]
  <3> HIDE DEF VoucherRows
  <3> QED BY <1>0,<2>6,<2>7,<2>8
 <2>10. LimitIsItsPackages'
  <3>1. \A i \in DOMAIN all : all[i].package = vouchers[i].package /\ all[i].devices = vouchers[i].devices BY <2>7,<2>9
  <3>2. \A i \in DOMAIN all : PackageAt(all[i].package) # 0 /\ all[i].devices = PackageFor(all[i].package).devices
    BY <2>9,<3>1 DEF DemoInv, LimitIsItsPackages
  <3> QED BY <1>2,<3>2 DEF LimitIsItsPackages
 <2>11. RedeemedOneByOne'
  <3> DEFINE later == {i \in DOMAIN all : all[i].status = "USED"}
  <3>1. later = UsedUp \cup {m}
   <4>1. ASSUME NEW i \in DOMAIN vouchers, i # m PROVE i \in later <=> i \in UsedUp BY <2>9,<4>1 DEF UsedUp
   <4>2. m \in later BY <2>6,<2>7,<2>9
   <4>3. later \subseteq DOMAIN vouchers /\ UsedUp \subseteq DOMAIN vouchers BY <2>9 DEF UsedUp
   <4> HIDE DEF later
   <4> QED BY ONLY <2>6,<4>1,<4>2,<4>3
  <3>2. m \notin UsedUp BY <2>6 DEF UsedUp
  <3>3. UsedUp \in SUBSET DOMAIN vouchers BY DEF UsedUp
  <3>4. IsFiniteSet(UsedUp) /\ Cardinality(UsedUp) \in Nat BY <3>3, VoucherSets
  <3>5. Cardinality(UsedUp \cup {m}) = Cardinality(UsedUp) + 1 BY <3>2,<3>4, FS_AddElement
  <3>6. redeemed = Cardinality(UsedUp) - 1 BY DEF DemoInv, RedeemedOneByOne, UsedUp
  <3>7. redeemed' = Cardinality(later) - 1
   <4> HIDE DEF later
   <4> QED BY <2>1,<3>1,<3>4,<3>5,<3>6
  <3> QED BY <3>7 DEF RedeemedOneByOne
 <2>12. SalesFit' BY <1>2 DEF DemoInv, SalesFit
 <2>13. DemoTypeOK' BY <1>1,<2>9 DEF DemoInv, DemoTypeOK, VoucherRows, CodesOnShow
 <2>14. redeemed' \in Nat BY <2>1 DEF DemoInv
 <2> QED BY <1>1,<2>10,<2>11,<2>12,<2>13,<2>14 DEF DemoInv, SessionsFit, CustomersFit
<1> QED BY <1>3,<1>4

LEMMA CreateDemoCustomerKeeps == ASSUME DemoInv, CreateDemoCustomer PROVE DemoInv'
<1>0. subscribers \in Seq(Nat) /\ Len(subscribers) \in Nat /\ NewId \in Nat BY DemoTypes
<1> PICK all : all = <<NewId>> \o subscribers OBVIOUS
<1>1. subscribers' = all BY DEF CreateDemoCustomer
<1>2. all \in Seq(Nat) BY <1>0
<1>3. Len(all) = 1 + Len(subscribers) BY <1>0
<1>4. ASSUME NEW i \in DOMAIN subscribers PROVE i + 1 \in DOMAIN all /\ all[i + 1] = subscribers[i]
 <2>1. i \in 1..Len(subscribers) BY <1>0
 <2>2. i + 1 \in 1..Len(all) /\ i + 1 > 1 /\ i + 1 - 1 = i BY ONLY <1>0,<1>3,<2>1
 <2> QED BY <1>0,<1>2,<2>1,<2>2
<1>5. ToSet(subscribers) \subseteq ToSet(subscribers)' BY <1>1,<1>4 DEF ToSet
<1>6. /\ UNCHANGED <<shelf, vouchers, redeemed>> /\ demoNow' \in Nat /\ inSession' \subseteq inSession
      /\ gear' \in Seq(Nat) /\ bindings' \in Seq({"ACTIVE", "SUSPENDED"}) /\ ToSet(gear) \subseteq ToSet(gear)'
  BY DemoTypes DEF CreateDemoCustomer, DemoInv
<1> QED BY <1>1,<1>2,<1>5,<1>6, ListsKeep

LEMMA CreateDemoRouterKeeps == ASSUME DemoInv, CreateDemoRouter PROVE DemoInv'
<1>0. gear \in Seq(Nat) /\ Len(gear) \in Nat /\ NewId \in Nat BY DemoTypes
<1> PICK all : all = Append(gear, NewId) OBVIOUS
<1>1. gear' = all BY DEF CreateDemoRouter
<1>2. all \in Seq(Nat) /\ \A i \in DOMAIN gear : i \in DOMAIN all /\ all[i] = gear[i] BY <1>0
<1>3. ToSet(gear) \subseteq ToSet(gear)' BY <1>1,<1>2 DEF ToSet
<1>4. /\ UNCHANGED <<shelf, vouchers, redeemed>> /\ demoNow' \in Nat /\ inSession' \subseteq inSession
      /\ subscribers' \in Seq(Nat) /\ bindings' \in Seq({"ACTIVE", "SUSPENDED"}) /\ ToSet(subscribers) \subseteq ToSet(subscribers)'
  BY DemoTypes DEF CreateDemoRouter, DemoInv
<1> QED BY <1>1,<1>2,<1>3,<1>4, ListsKeep

LEMMA ListActionsKeep ==
  ASSUME DemoInv,
      \/ DemoTick
      \/ \E id \in {1, 5}, state \in {"ACTIVE", "SUSPENDED", ""} : SetBinding(id, state)
      \/ \E id \in {1, 4} : TerminateSession(id)
  PROVE DemoInv'
<1>0. /\ subscribers \in Seq(Nat) /\ gear \in Seq(Nat) /\ bindings \in Seq({"ACTIVE", "SUSPENDED"}) /\ demoNow \in Nat BY DemoTypes DEF DemoInv
<1>1. CASE DemoTick
 <2>1. /\ UNCHANGED <<shelf, vouchers, redeemed>> /\ demoNow' \in Nat /\ inSession' \subseteq inSession
       /\ subscribers' = subscribers /\ gear' = gear /\ bindings' = bindings
  <3>1. demoNow' = demoNow + 1 /\ UNCHANGED <<shelf, vouchers, subscribers, gear, inSession, bindings, redeemed>> BY <1>1 DEF DemoTick
  <3> QED BY ONLY <1>0,<3>1
 <2>2. ToSet(subscribers)' = ToSet(subscribers) /\ ToSet(gear)' = ToSet(gear) BY <2>1
 <2> QED BY <1>0,<2>1,<2>2, ListsKeep
<1>2. ASSUME NEW id \in {1, 5}, NEW state \in {"ACTIVE", "SUSPENDED", ""}, SetBinding(id, state) PROVE DemoInv'
 <2>1. UNCHANGED <<shelf, vouchers, redeemed>> /\ demoNow' = demoNow /\ inSession' = inSession /\ subscribers' = subscribers /\ gear' = gear
   BY <1>2 DEF SetBinding
 <2> PICK to : to = IF state # "" THEN state ELSE IF bindings[id] = "ACTIVE" THEN "SUSPENDED" ELSE "ACTIVE" OBVIOUS
 <2>2. to \in {"ACTIVE", "SUSPENDED"} OBVIOUS
 <2>3. bindings' = [bindings EXCEPT ![id] = to] BY <1>2 DEF SetBinding
 <2>4. bindings' \in Seq({"ACTIVE", "SUSPENDED"})
  <3> DEFINE S == {"ACTIVE", "SUSPENDED"}
  <3>1. bindings \in Seq(S) /\ to \in S BY <1>0,<2>2
  <3>0. SUFFICES bindings' \in Seq(S) OBVIOUS
  <3> HIDE DEF S
  <3>2. CASE id \in 1..Len(bindings) BY ONLY <2>3,<3>1,<3>2, ExceptSeq
  <3>3. CASE id \notin 1..Len(bindings)
   <4>0. bindings \in [1..Len(bindings) -> S] BY ONLY <3>1, LenProperties
   <4>1. bindings' = bindings BY ONLY <2>3,<3>3,<4>0
   <4> QED BY <3>1,<4>1
  <3> QED BY <3>2,<3>3
 <2>5. ToSet(subscribers)' = ToSet(subscribers) /\ ToSet(gear)' = ToSet(gear) BY <2>1
 <2> QED BY <1>0,<2>1,<2>4,<2>5, ListsKeep
<1>3. ASSUME NEW id \in {1, 4}, TerminateSession(id) PROVE DemoInv'
 <2>1. /\ UNCHANGED <<shelf, vouchers, redeemed>> /\ demoNow' = demoNow /\ inSession' \subseteq inSession
       /\ subscribers' = subscribers /\ gear' = gear /\ bindings' = bindings BY <1>3 DEF TerminateSession
 <2>2. ToSet(subscribers)' = ToSet(subscribers) /\ ToSet(gear)' = ToSet(gear) BY <2>1
 <2> QED BY <1>0,<2>1,<2>2, ListsKeep
<1> QED BY <1>1,<1>2,<1>3

LEMMA DemoStepKeeps == DemoInv /\ [DemoNext]_demoVars => DemoInv'
<1> SUFFICES ASSUME DemoInv, [DemoNext]_demoVars PROVE DemoInv' OBVIOUS
<1>1. CASE UNCHANGED demoVars
 <2>1. \A id : PackageAt(id)' = PackageAt(id) /\ PackageFor(id)' = PackageFor(id) BY <1>1 DEF PackageAt, PackageFor, Found, demoVars
 <2>2. LimitIsItsPackages' /\ RedeemedOneByOne' /\ SalesFit' BY <1>1,<2>1 DEF DemoInv, LimitIsItsPackages, RedeemedOneByOne, SalesFit, demoVars
 <2> QED BY <1>1,<2>2 DEF DemoInv, DemoTypeOK, SessionsFit, CustomersFit, demoVars
<1>2. CASE ShelfNext
 <2>1. ASSUME NEW devices \in 1..2, CreateDemoPackage(devices, TRUE) PROVE DemoInv'
  <3>1. devices \in Nat /\ TRUE \in BOOLEAN OBVIOUS
  <3> QED BY <2>1,<3>1, CreateDemoPackageKeeps
 <2>2. ASSUME NEW id, NEW c \in DemoCodes, NEW d \in DemoCodes, CreateBatch(id, <<c>>) \/ CreateBatch(id, <<c, d>>) PROVE DemoInv'
  <3>1. <<c>> \in Seq(DemoCodes) /\ <<c, d>> \in Seq(DemoCodes) OBVIOUS
  <3> QED BY <2>2,<3>1, CreateBatchKeeps
 <2>3. ASSUME NEW code, RedeemDemo(code) PROVE DemoInv' BY <2>3, RedeemDemoKeeps
 <2> QED BY <1>2,<2>1,<2>2,<2>3 DEF ShelfNext
<1>3. CASE ListNext
 <2>1. ASSUME NEW portal \in BOOLEAN, CreateDemoPackage(1, portal) PROVE DemoInv'
  <3>1. 1 \in Nat OBVIOUS
  <3> QED BY <2>1,<3>1, CreateDemoPackageKeeps
 <2> QED BY <1>3,<2>1, CreateDemoCustomerKeeps, CreateDemoRouterKeeps, ListActionsKeep DEF ListNext
<1> QED BY <1>1,<1>2,<1>3, ListActionsKeep DEF DemoNext

\* Whatever batches draw and packages are made, and in whatever moments: a voucher admits
\* what the package found under its number admits, every redemption that found a voucher
\* used up one, and what is on show belongs together (route.ts, store.ts).
THEOREM DemoIsKept == DemoSpec => []DemoHolds
<1>1. DemoInv => DemoHolds BY DEF DemoInv, DemoHolds, SalesFit, SessionsFit, CustomersFit, ShownBelongTogether
<1> QED BY <1>1, DemoBegins, DemoStepKeeps, PTL DEF DemoSpec
====
