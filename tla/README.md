# A verification development for Jaslyn Net

Jaslyn Net is a multi-tenant platform for WiFi and internet service providers: a NestJS
API over PostgreSQL (`src/apps/api`), a Next.js console (`src/apps/web`) and a landing
page. Customers buy plans, a purchase opens an access grant, the network side pushes
policies to routers and disconnects customers whose grant has ended.

This directory holds TLA+ models of the parts where state changes interleave (timers in
every API instance, request handlers, transactions that commit separately, pages whose
answers come late), TLC configurations that check them, and TLAPS proofs about them.
Every definition is translated from the source; `PROJECT.json` maps it to the lines it
stands for, and lists the components, runs, mutants, hazards and theorems.

To check: `tlc -config MCPeople.cfg MCPeople`; to prove: `tlapm RenewalProofs.tla`.
The table in section 3 says which module each configuration belongs to.

## 1. The system

One Node.js process runs the HTTP handlers and about ten timers; production runs several
such processes against one PostgreSQL database, which is the source of truth. Components
interact through

- **tables** that several timers and handlers read and write, each statement or
  transaction atomic, most updates guarded by a `WHERE status=...` that silently matches
  nothing when somebody else was faster;
- **calls** between services of one process, some of which run inside the caller's
  transaction (a `PoolClient` is passed) and some in a transaction of their own;
- **requests** to routers, payment and SMS providers and webhook endpoints, with timeouts:
  they may have had their effect when the caller sees an error;
- **domain events**: rows of an outbox, announced with `pg_notify` and handed to
  listeners of one process;
- **pages**, which keep what an answer said while the next question is on its way.

The repository holds no SQL schema. Unique constraints are read off the `ON CONFLICT`
clauses and the handling of error 23505, and are treated as external; so is the rounding
of a NUMERIC column, which the model takes to the nearest unit.

| Component (`src/apps/api/src/...`) | State | Operations | What is hard, and what makes it correct |
| --- | --- | --- | --- |
| Automatic renewal, `customer-commerce` | renewal schedules, wallets and entries, compensation rows; locals of each run | set a renewal, claim due schedules, purchase, debit, confirm, advance; compensate; reconcile compensations | a saga of seven transactions with crashes and errors between any two; two runs on one schedule. A debit is made once and ends settled or refunded |
| Network command fabric, `modules/traffic` | command rows with a lease; routers | queue, claim, execute, read back, mark, retry | unclaimed and claimed execution of one row; requests with unknown outcome. VERIFIED only what happened; every command settles |
| Traffic policy, `modules/traffic` | managed queues of a router, samples | evaluate, decide, write and delete queues | two evaluations cross; a queue is found by name and changed by id |
| Collector and vendors, `modules/traffic` | readings, samples, a lease | list clients page by page, count, subtract | clients come and go between the pages |
| Routers, `routers` | rows with sealed credentials, key ring | register, update, rotate, enforce a plan by hand | updates and key changes cross |
| WAN load balancing, `modules/traffic` | connections, health, routes | drain, disable, decide, rebalance, read back | one route per request; the page shows late answers |
| Access and sessions, `sessions` | grants, sessions, disconnect commands | expire grants, disconnect, end or retain or make stale, restore | five callers at once, the grant is bought again while the client is being disconnected. Nobody without a grant stays online, nobody with one is put off |
| Sign-on, `radius`, `captive-portal`, `customers` | sessions of the access server, voucher attempts, customer rows | access, accounting, portal redemption | packets repeated and reordered, statements outside transactions |
| Purchases, payments, vouchers, promotions, finance | purchases, payments, ledger, grants, vouchers, invoices, refunds, commissions | create, pay, verify, settle, redeem, refund, cancel | provider's answers twice or late; two paths to PAID. One settlement per purchase, a grant for each, limits kept |
| Notification outbox and SMS, `notifications` | outbox rows with attempts and lock | enqueue, claim, send, defer, fail, recover | death between the provider's answer and the mark. Delivered at least once or FAILED after the last attempt |
| Domain events, `communication` | event rows | enqueue, claim, dispatch, mark, recover | handlers that finish after the mark. Every event handled |
| Webhook delivery, `procurement` | delivery rows | enqueue, claim, post, mark | rows left DELIVERING. At least once or DEAD |
| Scheduled messages, `communication` | rows with a status | claim, send, mark, cancel | cancellation between selection and claim |
| Incidents and status page, `incidents` | incidents, windows, announcements | open, acknowledge, resolve, escalate, publish | event enqueued after the commit. Levels rise one at a time, each announced |
| Expiry, field jobs, `isp-operations` | bindings, service state, jobs and device queues | expire, suspend, notify; synchronise | notices after the commit; answers lost after the commit |
| Workflows, `workflows` | definitions, runs, approvals | claim, step, wait, approve, retry, replay | a run repeated by two workers; the position written seldom |
| Communication platform, `communication` | messages, receipts, conversations, polls, stories | send, edit, pin, mark read, vote | read in one statement, written in the next |
| Procurement, `procurement` | orders, stock, supplier invoices, credit notes | receive, bill, pay, issue | two services write one stock |
| Workspace: `account`, `auth`, `secrets-vault`, `ipam` | members, sessions, secrets and keys, addresses | change, revoke, rotate, allocate, sign up | overlapping requests of administrators |
| Web console, `apps/web` | pages, a store of its own, a technician's queue | click, scan, tick, synchronise | answers late, in any order, or never |
| HTTP, reports, migrations, UPESIPAY, documents | none of their own | reads, framework, text | not modelled |

## 2. How it is modelled

**A module per component.** Statements or inner transactions are actions; what a process
keeps in local variables between two of them is a variable indexed by the process.
Crashes, errors, lost answers and the environment are actions under a budget
(`MaxDisturbances`, `Max...Faults`), so that behaviours are finite and faults are few
enough to be blamed: several properties say that only a fault of a certain kind can have
a certain consequence. Data are model values and small numbers.

**By turns.** Components that share no state are checked in one run: an `MC` module
extends them, a variable `turn` chosen in `Init` says which of them moves in this
behaviour, and the others stay in their initial state. Properties of the components are
conjoined under one name. Of processes that are alike the same one is first (`FirstOf`). Renewal, settlement and the fabric, which are large, have runs
of their own or instances of their own.

**Abstract specifications.** `WalletCharge` (what the renewal owes the customer),
`CommandLifecycle` (what the fabric owes the operator), `PurchaseLifecycle` (what a shop
owes both) and `Delivery` (what every outbox owes) are each implemented by the detailed
module under a refinement mapping, as a `PROPERTY` of a run; the safety parts of all four
are theorems.

**Bounds.** Two processes of each kind, since every conflict in this code is between two;
one or two rows, since sharing of a wallet, a stock or a router needs two; a budget of
faults that lets the deepest known scenario happen. Identifiers come from pools as large
as an instance can use; when a pool is empty the operation does not happen, which only
shortens behaviours. Limits of the code (8 attempts, 20 rows, three pins) are constants with
small values; the proofs leave them free. Where bounds multiply, the turn of the MC module
limits them together and says so: a run of a workflow meets two faults or a fault and a slow
worker, one of two messages is edited, clients do not move after a fault of their collector.

**Fairness** is stated for timers of live processes and the statements of a run in
flight, for the passing of time, and for nothing else: not for customers, operators,
crashes or errors. Two exceptions are named where they are used: a wallet that was frozen
is thawed at last, and a pair of faults ends.

**Deadlock** is not checked: a bounded behaviour ends when its requests, changes and
faults are used up.

## 3. Modules and runs

| Module | What it is |
| --- | --- |
| `Renewal` | automatic renewal of a plan out of the customer's wallet, and its compensation |
| `WalletCharge` | abstract: what the renewal promises of the customer's money |
| `NetworkCommand` | the queue of router commands, its workers, the traffic enforcer and the router |
| `CommandLifecycle` | abstract: what the fabric promises of every command |
| `AccessReconciliation` | sessions, grants and `reconcileAccessState`, over an instance of `NetworkCommand` |
| `PurchaseSettlement` | purchases, payments, promotions, vouchers, invoices and refunds |
| `PurchaseLifecycle` | abstract: what purchases promise |
| `SmsOutbox`, `WebhookDelivery`, `DomainEvents`, `ScheduledMessages` | the three outboxes, the intake of payment webhooks, the scheduler of messages |
| `Delivery` | abstract: what every outbox promises of a row |
| `Incidents` | incidents, escalation, maintenance windows and the public status page |
| `FieldJobs` | jobs of technicians and the queue on their device |
| `ServiceExpiry` | access bindings, service state and the expiry run |
| `Workflows` | definitions, runs, approvals, replays and their workers |
| `Messages` | one conversation; what its readers have received and read |
| `Procurement` | orders, stock, supplier invoices, credit notes, commissions |
| `Community`, `Assistant` | conversations, polls, stories, mini apps; the assistant, its tools and bots |
| `DemoStore`, `PurchaseDesk`, `FieldDesk` | the web application's own store and two of its pages |
| `WanRouting` | WAN connections of a router, rebalances, health and their page |
| `RouterFleet`, `Telemetry` | rows and credentials of routers and plans put on them by hand; the collector |
| `TrafficPolicy`, `Hotspot` | the fair-share evaluation of a router; sign-on, accounting and the captive portal |
| `Account`, `Vault`, `Addresses` | members and sessions of a workspace and sign-up; secrets and the audit chain; the address inventory |
| `MCPeople`, `MCLive`, `MCPlant`, `MCAccess`, `MCOutboxes`, `MCOperations`, `MCRecords` | the components by turns, for TLC |
| `Sums` | lemmas about sums over finite sets |
| `RenewalProofs`, `NetworkCommandProofs`, `AccessReconciliationProofs`, `PurchaseSettlementProofs`, `OutboxProofs`, `OperationsProofs`, `RecordsProofs` | the theorems (section 11) |

| Run | Configuration, module | Shows |
| --- | --- | --- |
| `people` | `MCPeople` | renewal under all failures; community, assistant, demo store, the two pages |
| `renewal_shared` | `MCRenewalShared.cfg`, `Renewal` | two schedules over one wallet |
| `live` | `MCLive` | `WalletCharge` and `CommandLifecycle` implemented, liveness included |
| `plant` | `MCPlant` | the fabric with two workers and an enforcer; WAN, routers, collector |
| `access` | `MCAccess` | sessions and their reconciliation; policy, hotspot, workspace |
| `settlement` | `MCSettlement.cfg`, `PurchaseSettlement` | the shop where everything is scarce; `PurchaseLifecycle` implemented |
| `outboxes` | `MCOutboxes` | the outboxes and the scheduler; `Delivery` implemented; every row ends |
| `operations` | `MCOperations` | incidents, field jobs, expiry; their liveness and that of workflow runs |
| `records` | `MCRecords` | conversations, receipts, books, workflows: their authors, their runs |
| `renewal_paid_refunded` | `RenewalPaidRefunded.cfg`, `Renewal` | violation: paid and refunded |
| `workflow_replay` | `WorkflowReplay.cfg`, `MCRecords` | violation: a replay repeats deliveries |
| `fairness` | `Fairness.cfg`, `MCAccess` | violation: half of the capacity is left unused |

Each property of a passing run is shown to depend on the code by a mutant: a definition
of the model replaced by one with a plausible bug (`PROJECT.json`, "mutants"), under
which TLC refutes the property. Mutated operators stand before the ones they replace and
are marked as such.

## 4. Renewal

`processDueRenewals` (customer-commerce.service.ts:182-414) claims due schedules and, for
each, reads the package, creates or reads a purchase, links it, looks for an earlier
debit, debits the wallet, confirms the payment and advances the schedule: seven
transactions. Its `catch` block looks at the purchase, cancels it, refunds the debit or
leaves a compensation row, and counts the failure. `reconcileRenewalCompensations`
(104-179) works off the compensation rows.

| In the model | In the code |
| --- | --- |
| `schedule[s]`: `due`, `claim`, `failures`, `exec`, `purchase` | `commerce_renewal_schedules`: `next_run_at <= now()`, `claimed_at` against ten minutes, `failure_count`, `execution_id`, `purchase_id` |
| `debit[e]`, `refund[e]` | wallet entries with keys `renewal-debit:e` and `renewal-refund:e` |
| `settlement[e]`, `cancellation[e]` | payments with keys `wallet-payment:e`, `wallet-payment-failed:e` |
| `compensation[e]` | `commerce_renewal_reconciliations` |
| `worker[w]`, `reconciler[r]` | the local variables of a run: rows claimed and left, `debited`, `amount` |
| one action per statement or inner transaction | the awaits of the two functions in their order |
| `Landing`, `Catch` | which `catch` an exception at a statement reaches, and where it continues |
| `Return` | a statement that committed and whose acknowledgement is lost |
| `Confirms`, `Inserts` | `PurchasesService.confirmPayment`: idempotency by key, refusal of a purchase that is not payable |
| `SetRenewal`: "reschedule", "resume" | `setRenewal` over any row; the same while no run holds the schedule |

Disturbances (`Env`, `FailingSteps`, `LostAcks`) are switched on per instance and share a
budget: crashes, errors of a statement, lost acknowledgements, slow runs, a customer who
reschedules, a frozen wallet, a withdrawn or repriced package, top-ups.

**Runs.** `people`: one schedule, two runs, an error at every statement but the
cancellation, and the code's own limit of five attempts. `renewal_shared`: two schedules
and one wallet. `live`: failures after the debit; the saga implements `WalletCharge` under
`charge` (none, debited, settled, refunded), liveness included: a debit does not stay a
debit. `CompensationLimit` (8 in the code) exceeds there the number of disturbances, since
beyond it the code gives up by design.

**What the code does not keep.** `setRenewal` overwrites a row a run is working on, and
its upsert sets it ACTIVE: a second run claims it. With "reschedule" in `Env`, TLC finds a
purchase charged under two executions and an execution both paid and refunded; the passing
instances and the second half of the theorems exclude it. The cancellation in the handler
is followed by `.catch(() => undefined)`: `renewal_paid_refunded`. A package withdrawn
after the debit, and a retry that throws before it looks the debit up, compensate nothing
until the schedule is given up.

**Left out**: notifications sent after the row's updates (their errors are ignored), the
grant's own expiry, several currencies, and the operations on other tables of the service.

## 5. The network: fabric, sessions, policy, WAN, routers, collector

**`NetworkCommand`.** A command is a row of `network_commands`. It is executed by one of
two kinds of process: the **worker** of each instance claims rows that are QUEUED,
RETRYING, or SENT for longer than the lease; the **enforcer**, a run of `evaluateRouter`,
queues a batch of bandwidth policies and executes it at once, without a claim. Both apply
on the router, mark EXECUTED, read the router back, mark VERIFIED or FAILED. Every mark is
an `UPDATE` guarded by the status alone.

| In the model | In the code |
| --- | --- |
| `row[c]`: `status`, `stale`, `kind`, `session` | `status`, `sent_at` against the lease, `command_type`, `target` |
| `Queued`, `Claimable`, `Claimed`, `Executed`, `Failed`, `Verified`, `Unverified`, `Retried` | the statements of `NetworkCommandService` |
| `actor[a]`: `pc`, `jobs`, `batch`, `todo`, `ok` | the awaits, the claimed rows not yet started, the commands of the call, the loop's rest, what was read back |
| `policy`, `online` | the managed queues and the active list of the router |
| `carried` | history: commands the router ever carried out |
| `Landing`, `Throw`, `Caught` | the `catch` blocks of the two executions, and the one of `process()` |
| `Evaluate`, `ClearManaged`, `Prune` | `evaluateRouter`: congestion, no congestion, `reconcileManaged` |
| `Terminate` | an operator's session termination (`communication.command.ts:103`) |

An enforcer executes rows that it queued but never claimed, so a worker may claim and
execute the same row: the router can be told twice, even what is VERIFIED already; the
theorems hold all the same. A process that fails between `markExecuted` and the outcome of
the read-back strands the row EXECUTED for ever: `live` keeps that window free of failures.

**`AccessReconciliation`.** `reconcileAccessState` (sessions.service.ts:210-338) expires
grants, selects the ACTIVE sessions without one, and for each queues a disconnect command,
calls `disconnectClient` and records what came of it. The request it queues and the one
`disconnectClient` queues under the same correlation differ in their reason, so
`disconnectClient` is refused every time: `DisconnectAlwaysRefused` is an invariant and a
theorem, and the branches behind it are unreachable. The tests do not meet this because
they mock both services. A client is put off only when a command worker claims the row in
the moment between the queue and the handler, or after an operator's retry; a session made
STALE is not selected again. `SessionsSettle` collects what is left: no command waits
behind a STALE session, a lapse is noticed unless the router changed its protocol (`queue`
is called outside the `try`, so a conflict ends the whole run), a session that is paid
again is restored.

| In the model | In the code |
| --- | --- |
| `grant[s]`, `session[s]` | the customer's latest `access_grants` row with its grace; `sessions.status` |
| `binding[s]` | the row of `network_commands` with correlation `access-reconcile:s`, and its request |
| `run[r]` | the locals of one call: the selected sessions still to do, the one at hand |
| `seen`, `Poll`, `Collect` | the collector's list of clients and its loop; `restoreSessionIfEntitled` |
| `moved`, `Reprovision`, `Refuse` | a router's new management protocol, with which old rows no longer match |
| `Fabric` | an instance of `NetworkCommand` without enforcers: rows, workers, router |

**`TrafficPolicy`.** `Evaluate` measures, decides a mode and an allocation, and writes or
removes managed queues one at a time; two evaluations cross. After an evaluation that ran
alone and met no failure the router holds what it decided (`RouterHoldsTheDecision`), and
the caps of a decision fit the capacity (`CapsFit`). The allocation is not work-conserving
(`fairness`). A session whose purchase row is missing counts as ACTIVE without a cap;
sessions with their quota used up or stale samples lose their queue; nothing but a GET
request evaluates.

**`WanRouting`.** A rebalance decides on what it read and writes one route per request
while operators drain and connections fail. `NoFaultNoBlackHole`: without a failed request
the router keeps a default route; `AppliedIsInForce`, `RecoversInSteps` and the page's
`WanPageHolds` are the other parts. A connection that is enabled again stays DISABLED or
DRAINING, for nothing sets it back. On the page a failed or late status leaves another
policy's panel in place, whose button rebalances the picked policy; the last result of a
rebalance that was left is shown under another policy.

**`RouterFleet`, `Telemetry`.** Updates of a router read the row, merge and write all of
it: one that crosses a change of vendor writes the old catalogue back, and every update
drops capabilities the form does not know. The catalogue fits the vendor, and credentials
can be opened, while no two requests cross (`CatalogueFitsVendor`, `CredentialsCanBeOpened`).
A plan put on by hand is correlated with router, address and plan: A, then B, then A again
is refused as already terminal, while the audit says it was executed. Its command is claimed
by workers too (`WorkerTakes`, `claimPending`): while the request is at it, when its holder
died between router and mark (`HandDies`), or after an operator's `retry` (`RetryPlan`).
`again` remembers these; `PlanIsAppliedOnce` speaks of all other plans. With `MaxEnforcements`
of three, requests and retries together, A, B and A again fit.

A reading misses a client only if one left, and counts one twice only if one came
(`MissesOnlyByDepartures`, `CountsTwiceOnlyByArrivals`); collections exclude each other through
an advisory lock of a pooled connection, so two collectors overlap when it is returned.
`MatchSession` finds the session of a client by MAC, else by address, else by user name; a
client without one, or with a counter that is no number, is passed over. Two devices under one
name, or an address leased again, write the samples of one session, of one moment over each
other, and the code computes a throughput of the difference: `ThroughputIsReal` claims nothing
of two samples from different clients.

## 6. Money at the counter: `PurchaseSettlement`

A plan is bought by a purchase that is confirmed with a manual payment, or by a voucher,
which makes a paid purchase of its own. Each handler is one transaction (finance's
invoices excepted), so what is hard is two requests at once, repetitions under the same or
another idempotency key, and the order in which requests come.

| In the model | In the code |
| --- | --- |
| `purchase[p]`: `status`, `customer`, `price`, `promo` | `wifi_plan_purchases`, the price after the discount, `promo_code_id` |
| `payment[y]`: `status`, `purchase`, `provider`, `key` | `payments` |
| `verified` | payments that `recordVerifiedSettlement` marked VERIFIED, with their ledger transaction and webhook rows |
| `access`, `announced`, `redeemed` | `access_grants`; domain events `purchase-paid:p` and `voucher-redeemed:v` |
| `promo`, `redemption` | `promo_codes.times_redeemed` and `status='EXHAUSTED'`; `promo_redemptions` |
| `voucher[v]`, `invoice[p]`, `refund[k]` | `vouchers`, `invoices` with the sum of their lines, `refunds` by idempotency key |
| `clerk[c]` | a request in flight: what it has read and therefore which rows it has locked |
| `PurchaseFree`, `PackageFree`, `PaymentFree` | the wait for a `FOR UPDATE` lock |
| `LockPurchase`, then `Settle` or `Fail` | `confirmPayment`: the locked read, then everything up to the COMMIT |
| `LockVoucher`, `Redeem`; `LockPayment`, `RequestRefund` | `VouchersService.redeem`; `requestRefund` |
| `OpenInvoice`, `AddLine`, `Retotal` | `addInvoiceLine`, which has no transaction: three statements |
| `Leave` | ROLLBACK: a refusal, an error or the death of the process |

What the model makes visible: the test for an earlier free trial locks nothing, and is
safe only because the first statement of `redeem`, a `FOR UPDATE` over a join, locks the
package and the customer too. The usage limit of a code is tested when a purchase is
created and counted when it is confirmed, so several pending purchases can pass the last
use; what holds is that the count is exact. A confirmation that finds no pending payment
inserts a PAID one and does not call `recordVerifiedSettlement`. A line added to an
invoice rewrites its total after it was settled. `firstPaymentOnly` looks for a payment
status that no payment has, and is not modelled.

**Left out**: other tenants and packages, the amounts in the ledger, adjustments and
disputes, refused requests of inactive customers.

## 7. Outboxes and the scheduler

A row is claimed (`UPDATE ... FOR UPDATE SKIP LOCKED`, which counts the attempt), its
effect happens outside the database, and a further statement says what became of it.
Everything hard lies between these three.

| Module | Effect | What differs |
| --- | --- | --- |
| `SmsOutbox` | an SMS of Beem or a log line | consent and campaign are looked at after the claim; a row may be deferred; an aged lock is claimed again |
| `WebhookDelivery` | a POST | the mark names the row alone; a row left DELIVERING is selected by no claim |
| `DomainEvents` | listeners of one process | handlers finish after the mark; a stale row is recovered by time or by an operator |
| `ScheduledMessages` | a message in a conversation | claim and mark in transactions of their own; cancellation in between |

`Delivery` is the abstract row: claimed, in effect, delivered or given up, with as many
claims as attempts. `OutboxesDeliver` says that each of the three implements it under
`SmsPlace`, `HookPlace`, `EventPlace`. `AttemptsAreCounted` adds what the marks rest on:
no effect beyond the attempts, none given up before them, and one holder of a DELIVERING
row. `OnlyAFaultStrands` is the converse of the recoveries: a row no claim selects, a
notice that never came, has a crash or a failed statement behind it. `OutcomesAreFinal`:
what a list showed as final stays. `OutboxesSettle` is the liveness, with the rows the code
leaves behind named in it.

A message the provider refuses for good is not retried, docs/PROVIDER-AGNOSTIC-SMS-GATEWAY.md:24
says. The Beem branch keeps that; a custom endpoint's 4xx is an ordinary error there
(sms-gateway.service.ts:197) and is tried until the attempts are used up.

The intake of payment webhooks (`PaymentNext` in `DomainEvents`) stores an event once
per provider and identifier. Nothing in the repository ever writes PROCESSED: a repeated
webhook is answered "duplicate, requiresVerification" for ever.

## 8. Operations and records

**`Incidents`.** A router is taken offline by a timer and back by a heartbeat; a
synthetic monitor fails and passes; operators acknowledge, resolve and declare
maintenance; levels rise by time. The event is enqueued in a transaction behind the one
that changed the incident. A heartbeat may itself say OFFLINE: that opens no incident, and
the stale check, which looks for routers not yet OFFLINE, does not pick the router up later;
`reported` remembers these, and `OfflineIsKnown` excepts them. `IncidentsAreKnown` joins
four statements: an offline router has its incident, and every level and resolution that was committed is announced, unless a
fault came between; nothing is announced that did not happen; and the public status page
(`StatusPageIsTrue`) neither hides a lasting trouble nor makes one up. Two cases are
excepted there because the code does not keep them: a public incident that is not
critical, or maintenance, hides the MAJOR_OUTAGE a component was set to by hand.

**`FieldJobs`.** Operations made offline are queued with keys, sent in batches whose answer
may be lost, and applied to a job the office changes. `SyncIsExact`: each reaches the job
once, in the order they were made.

**`ServiceExpiry`.** `ExpiryIsRecorded`: whoever is suspended was due when his row was
locked, the history ends in the state of the row, and the first suspension of a customer who
is active with a telephone number all along is told unless a fault came between
(`FirstExpiryIsTold`). Three suspensions are silent: of a customer who is inactive or has no
number (isp-expiry.service.ts:164); every one after the first, whose notice has the same key
(169); and one whose process died behind the COMMIT.

**`Workflows`.** Runs are walked by `RunsNext` in both compositions: `operations` asks
whether they end, `records` (`RunTurn`; `AuthorTurn` with the authors) what they never do.
`RunsAreSafe`: with two workers, takeovers of an aged lock, retries, lost answers and hasty
approvals, no effect of a step happens twice (`EffectsOnce`), nothing behind an approval
happens before it is granted (`GateHolds`), a run that succeeds did what its version says
(`SucceededAsWritten`, by `Meant`), a waiting run can be decided, and an ended run stays ended.
Two programs of four steps have between them every type of step but LOG and WAIT, which are in
those of `operations`. `MaxStarted` is one run: runs share no row; beside the authors, who meet
one run and its replay, the worker in `Awake` is at work. `RunsItsVersion`: a run keeps to the
definition it began with. `workflow_replay` is about replays.

The payload is what a CONDITION would say of it. TRANSFORM and the response of an HTTP_REQUEST
may make it either (`Changing`), and doing them again need not give what it gave. What the code
does not keep is excepted by name.

- The payload is saved after every step, the position at a WAIT, an APPROVAL and the end only.
  A run that is claimed again starts at the older position with the newer payload (`fresh` is
  FALSE, `rewound`): it repeats a TRANSFORM on its own result or a CONDITION on another
  response and may take the other branch. It then stands at one approval while an operator
  decides the one that the first way asked for, and `decideApproval` (workflows.service.ts:282)
  releases the run whatever step it waits at. `GateHolds` and `SucceededAsWritten` speak of runs
  that stay `OnOneWay`: neither rewound nor overtaken, or of a program that changes no payload.
- A worker that is overtaken writes back its position, payload and status (513, 519, 525, 566)
  without looking whose run it is; `overtaken` is excepted from what is said of ends and waits.
- A write whose answer is lost goes to the catch (529-533), which queues or fails the run whatever
  it is by then: a SUCCEEDED run is executed once more. `EndedStaysEnded` excepts `unheard`.
- A decision between the question and the parking strands the run (`hasty`).

**`Messages`.** Read-then-write requests of members that overlap.
`ConversationIsWhole`: three pins at most, one message per client key, each text of an
edited message in its history, an administrator remains. `ReceiptsAgree`: in any order of
the statements what was marked as read has the receipt READ, unless it was forwarded (a
forwarded message has no receipts, communication.service.ts:461), and no receipt goes back
(`SeenIsRead`, `ReceiptsMoveForward`). The unread counter is computed from `read_at`: what was
marked as read is not counted afterwards unless the reader's screens mark at the same time
(`SeenIsNotCounted`); what was created before a reading and committed after it is not counted
at all. The two pointers agree unless screens overlap or a statement fails (`PointersAgree`).
`archived_at` and `muted_until` are read by nobody; `archive` is for the whole
tenant; `createChannel` inserts no member rows.

**`Procurement`.** `BooksAgree`: the stock is the sum of its movements at their average
cost, bounded by half a unit per piece and rounding; what was received came in; what is
owed is what was invoiced less what was paid; a submitted order keeps its lines; a credit
note fits the balance when it is issued; a commission is settled once. A refund reverses no
commission, and an accrual can cross the suspension of the reseller.

## 9. People, console, workspace

**`Community`, `Assistant`.** Direct conversations, polls, preferences, stories and mini
apps out of two tabs; confirmations of what the assistant proposed. Each property names the
overlap the code does not exclude (two tabs that asked before either conversation was
there, two confirmations at once). A confirmation queues the disconnection, records it and
closes its row in statements of their own: if one behind the queue fails, the catch
(communication.ai.ts:156) says FAILED of a disconnection that is queued, and a request that
ends there leaves the row to be confirmed, and the session disconnected, again (`broken`).
The assistant's history is the first thirty messages,
not the last.

**`DemoStore`, `PurchaseDesk`, `FieldDesk`.** The store of the web application numbers rows
by the millisecond and draws codes that may exist. The purchases page: once nothing is
under way the binding under the operator's hand is of the selected customer, and the ledger
is the server's, unless loads crossed or an answer was lost. What the conditions hide in
text: the binding of a customer selected before can stay after an access change; Enter
bypasses the busy flag; a lost answer to a creation makes a second purchase. The field page:
a camera whose opening outlasts its overlay stays on, for opening the overlay again stops
nothing, and only until it takes `controlsRef` and a later clean-up stops it; `CameraIsPutOut`
says that no more than these stay on (`early`). Without a connection a label may show
another device whose name contains it; a failed lookup leaves the earlier card; the ticks of
a checklist are sent in the order of random keys.

**`Hotspot`.** Sign-on, accounting packets repeated and reordered, the portal. `HotspotHolds`
joins eleven statements about what is accepted, recorded and blocked. Known and excepted:
`blocked_until` is never consulted by its own request; the session timeout is the whole
duration of the plan, whatever has been used; a missing package gives one second; two
tenants with one access server silence each other; two redemptions that cross make two
customers.

**`Account`, `Vault`, `Addresses`.** `WorkspaceHolds`: authority that was taken away ends
with the token, only owners demote owners, lifecycle and tenant agree while no request
crossed another; a rotated key is not needed any more, one transaction holds a secret, the
integrity check alarms only when an entry came between; pools are disjoint, an address has
one holder. Excepted or visible in the model: `cancelDeletion` after a closure leaves an
ARCHIVED tenant OPEN; `reopen` keeps the deletion date; deactivation revokes no session;
nothing protects the last owner; a repeated release frees the address of its next holder;
`lease_expires_at` is enforced by nothing; a registration whose answer was lost is refused
when repeated.

## 10. Where the code and its documents disagree

| Run | What it shows |
| --- | --- |
| `renewal_paid_refunded` | the confirmation fails, the cancellation fails too and its error is ignored, the refund succeeds: the retry settles the purchase with the money already back |
| `workflow_replay` | a run that failed behind its deliveries stands at step zero, is replayed, and delivers again |
| `fairness` | two sessions that both ask for more than their share get a quarter each |

The quotes from documents and tests are in `PROJECT.json`, "findings". What else the code
does not keep is an exception written in the property concerned and told in sections 4 to
9. Most of these exceptions happen in the runs; one that names a fault may be left out of an
instance, as those sections or the constants of the configuration say.

Two things in the code have no property because nothing in the repository depends on them:
`finance.reconcile` never uses the third parameter of its last UPDATE, so its run stays
RUNNING; `createIntegration` accepts an enabled SMS or PAYMENT integration without a secret.

## 11. What is proved

The theorems hold for every value of the constants (any number of processes, rows, keys,
customers), with every disturbance, under the assumptions named.

**`RenewalProofs`.** `IInv` adds to the types what a run knows: past the debit, or with
`debited` set, the debit of its execution exists (`WorkersOK`); a compensation row and a
reconciler's job exist only for a debit (`CompensationsOK`, `ReconcilersOK`). Debits are
never withdrawn, which carries all three over the steps of others (`DebitsGrow`). From it:
`TypeCorrect`, `SettledIsDebited` (no free plan), `RefundIsDebited`.
`BalanceIsTheEntries`: a wallet's balance is its opening balance and top-ups, less the
debits, plus the refunds, as sums over whatever executions exist. The sum is
`SumFunction` over a finite set; `Sums` proves what one changed or added entry does to it.

The other theorems are about two runs on one schedule, and need `Quiet`: a run is not
slower than its claim and no customer sets a renewal a run is working on (section 4 shows
what happens otherwise). `QInv` then has three parts: `ClaimsInv` (one worker per schedule, execution identifiers apart,
and what a run holds is the row of the table until it has advanced it), `OwnersInv` (a
purchase is linked by one execution, and a debit is of the purchase that is linked),
`MoneyInv` (what a run believes of the debit is so; compensation rows and refunds are of the
amount taken; payments fit their purchases). From
`QuietInvariance` follow `ClaimsAreExclusive` (with the action property that the period
advances only behind a settlement) and `BooksAreExact` (no wallet below zero, one charge per
purchase, refunds of the amount taken). `PaidOrRefunded` assumes besides that the
cancellation does not fail: a refund then has its purchase canceled first (`CanceledFirst`),
and a canceled purchase is never paid. Without this assumption `renewal_paid_refunded`
refutes it. With it the saga implements `WalletCharge` step by step, `ImplementsWalletCharge`
(`ChargeSafety`, the abstract steps without their liveness): a step makes one entry or settles
one execution (`LedgerMoves`), and what is entered finds the execution where the abstract step
takes it from (`ChargeMoves`), because a settled or refunded execution was debited and none is
both.

The same module holds three components of `people`. `CommunityIsKept`: what is shared beside
messages, for any number of members, options and permissions. `AssistantIsKept`: each label of a confirmation says whether
its disconnection is queued, and one that left its row behind is `broken`; for any number of
executions and requests. `DemoIsKept`: the web
application's own answers, for every set of codes. `DemoInv` is what its rows owe each other
(`SalesFit`, `SessionsFit`, `CustomersFit`); the step that needs work is a new batch of
vouchers at the head of the list, which shifts the used ones by a bijection, and `FoundStays`:
what `find()` found is found still when only later rows match too.

**`NetworkCommandProofs`.** `ActorsOK`: the rows a process works on exist; at `apply` the
router carried out the commands no longer in `todo`, at `executed` the whole batch; `carried`
only grows. From it `VerifiedIsCarriedOut`, `OutcomesAreFinal` and the safety of the
refinement, `ImplementsLifecycle`.

`FleetIsKept` (`RouterFleet`): what an update in flight has read is the row still unless
another crossed it (`DeviceInv`), and a plan has reached the router as often as hands have passed
`apply` with it, once while its command is at one of them and not in `again` (`HandInv`). `RoutesAreKept` (`WanRouting`) rests on two invariants.
`WanInv`: the routes a rebalance saw are there still (`RebFits`); the routes of a connection
and the rebalances about to add one are together no more than rebalances went at once
(`CountsFit`); while none crossed there is one (`OneRebalance`), what it has written is on the
router up to where it stands (`WritesLast`), and at rest the router has what was applied
(`AppliedFits`). The order of a decision has every connection exactly once (`OrderedIsAll`, an
injection between finite sets of the same size). `PageInv`: every answer on its way to the page
is of the policy it was asked for (`FlowOK`), and the panel and the verdict are of the picked
policy unless a request failed or came late.

**`AccessReconciliationProofs`.** A run with a session at hand has a command for it, bound to
the run's own request (`RunsBound`), which no other run changes (`BindingsKept`). From it
`DisconnectIsRefused`; and `EndedStaysEnded`.

Three components of `access` follow. `PolicyIsKept` (`TrafficPolicy`): an evaluation that
began alone and has met no failure has on the router exactly the part of its decision it has
written (`HoldsSoFar`); the caps of a decision fit the capacity because each pass gives out at
most what is left (`SatisfiedFit`, `AllocationFits`, with the sums of `Sums`). `HotspotIsKept`
(`Hotspot`): a call in flight is of one tenant (`OneTenant`), what it has counted is there
still unless another crossed it (`CountsOK`, `OneAtATime`), and attempts are counted
(`AttemptsOK`). `WorkspaceIsKept` and `AddressesAreKept`: `AddressesInv` (pools apart, an
address in its network, one holder: `PoolsReserved`, `AddressesPlaced`, `NetworksApart`),
`SignUpInv`, `AccountInv` (what a login or a request in flight knows of its user and tenant:
`LoginsOK`, `RequestsOK`; lifecycle and tenant agree while requests do not cross:
`LifecycleSettled`) and `VaultInv` (one transaction holds the head of the chain, an old key is
gone once its rotation is over, and the head counts the entries of the audit: `HeadHeld`,
`OldKeyGone`, `Chain`).

**`PurchaseSettlementProofs`.** What the lock is for: a confirmation in flight saw the
status that is there still, two of them hold different purchases (`LocksHeld`), and a
successful payment belongs to a PAID purchase (`ReceiptsSettled`). From it
`ImplementsLifecycle`, `SettlementsAreWhole`, `InvoicesAreCollected`. The same shape for
the other locks: a redemption in flight is the only one, its voucher is unused and its
claimant without a trial (`VoucherHeld`), which keeps used vouchers, the purchases they
settled and their announcements in step (`VouchersInv`); a refund in flight has its payment
alone and the total it has read is the sum of the refunds there are (`RefundHeld`). From
these `LimitsKept`, with the lemmas of `Sums` for the total.

`TelemetryIsKept` (`Telemetry`) is in this module too. A page is a stretch of a list that
clients leave and enter between two requests. `ReadingFits` says of a reading before its page
p: the clients that stayed, stand `Behind` p in the list of now and have not been read are no
more than the departures, and what was read twice, or was read and stands `Ahead` of p, is no
more than the arrivals. A departure moves one client at most from ahead to behind
(`PassedBy`), an arrival one at most the other way (`ComesUp`), whether it enters at the head
or at the end; a page passes over its places (`PlacesPass`), and after the last one everyone is
behind (`LastIsAll`). For the traffic, while no connection was lost: one process is not idle
(`OneHolder`), and a sample `Leads` a later one of its client and the counter of now: its bytes
have grown by no more than what was transferred, or the counter started again (`SamplesFit`,
`RowTraffic`), whichever session it was written to.

**`OutboxProofs`**, about `MCOutboxes` with all its components. One invariant per outbox
(`SmsInv`, `HookInv`, `EvtInv`, `PayInv`, `SchedInv`) says what the label of a worker means
for the row in its hands (`SmsWork`, `HookWork`, `EvtWork`): the row carries the attempt the
worker counted, or another worker took it and this one's marks match nothing; a worker past
its effect has had it. `Owing` counts the effect a worker is about to have, so that the
effects so far and those owed stay within the attempts. Theorems: `AttemptsCounted`,
`FaultsAloneStrand`, `OutcomesStay`, and the whole of `OutboxesDeliver`
(`OutboxesImplementDelivery`).

**`RecordsProofs`**, about `MCRecords`. `MsgInv`: texts are counted and bounded, an edit is of
a message that was sent, and, unless two edits of it crossed, what an open edit read is there
still (`ReadIsCurrent`). `ReceiptInv`: without faults and overlapping screens, the reader's
row and the member's row meet except between the two statements that write them
(`PointersMeet`). `ProcInv`: lines, stock, invoices and credit notes against the sums of their
movements and payments. `CommissionInv`: what is being accrued belongs to a paid purchase.
`CounterInv`: while a reader's screens do not overlap, the moment that is kept is not before the
moment of what was marked (`CountedSince`). `WorkflowInv`: a run's version exists, and a worker's
copy fits the run it was made from. `RunInv` says who holds a run: one worker alone unless it was
overtaken (`OneHolder`); what is held is RUNNING unless its holder is about to `Catch` a lost
answer (`HeldRuns`); a worker about to park has asked a question that is pending (`AboutToWait`).
Theorems: `ConversationWhole`, `ReceiptsAlwaysAgree`, `BooksAlwaysAgree`, `RunsItsOwnVersion`, and
`RunsStayEnded` for `EffectsOnce`, `WaitingCanBeDecided` and `EndedStaysEnded`.

**`OperationsProofs`**, about `MCOperations`. `FieldInv`: each effect is counted by its
receipt, a batch on its way is a part of the queue as it was when it was read, in its order,
and what has left the queue has its receipt (`SyncOK`). `IncidentInv`: each row has been
told, or is owed, what `Told` lists; each key in the outbox happened (`Happened`); each
offline router is `Known`; and a router with a heartbeat under way is not silent, so that a
recovery is never of a router the stale check has taken down (`BeatingOK`). `StatusInv`:
halfway, the request knows nothing but what was public and, of the tables it has read, every
trouble that has been public all along (`ReadSoFar`). `ServiceInv`: what the run has done so
far fits the rows it has locked (`RunOK`). Theorems: `FieldSyncIsExact`,
`OperatorsKnowIncidents`, `ExpiriesAreRecorded`.

**`Sums`.** A sum over a finite set does not depend on order: proved from the definition of
the fold, by a smallest counterexample, since induction over an operator is out of the
prover's reach. It is monotone in its terms and in its set, bounded by the largest term times
the size, and splits over a disjoint union; a finite set of naturals that is not empty has a
greatest member.

**Assumptions on constants** are named where they are declared: amounts and limits are
natural numbers, sets of processes and rows are finite where they are counted, the marks
"none", `Nobody` and `Absent` are not members of the sets they stand beside, limits of the
code that it divides by or counts up to (page size, thresholds, batch sizes) are not zero.

## 12. What stays with TLC

Liveness (`SessionsSettle`, `OutboxesSettle`, `OperationsSettle`, the liveness of
`WalletChargeSpec` and `LifecycleSpec`) is out of the prover's reach. Model-checked on
the instances and not proved: `DeskHolds`, what a single operator sees of two pages; and
`GateHolds` and `SucceededAsWritten`, what a run does of its program.

## 13. What is not modelled

`PROJECT.json`, "components", gives the reason for each part. HTTP routing, formatting,
reports, migrations, legal texts and the landing page have no protocol of their own; the
drivers of vendors other than MikroTik are modelled only by how a request can fail; UPESIPAY
is a client of the purchases modelled here.
