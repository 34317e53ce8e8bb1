---- MODULE PurchaseSettlement ----
(* How a WiFi plan is bought: purchases, payments, promotions, vouchers, invoices and refunds
   (apps/api/src/purchases, payments, promotions, vouchers and finance).

   Every operation is a request that runs one database transaction. Those that look before they
   write hold a row lock between the two (SELECT ... FOR UPDATE) and are two steps here, with the
   lock as the guard of the others; those whose statements all run under one lock are one step. Two
   requests of finance run in no transaction: each statement is a step.

   One tenant, one currency, one package, one promotion code. *)
EXTENDS Naturals, FiniteSets, Functions, TLC

CONSTANTS
  Clerks,         \* requests in flight: cashiers, portals, the renewal timer
  Customers,
  Purchases, Payments, Vouchers,  \* pools of row ids
  Keys,           \* idempotency keys a request may carry
  Refunds,        \* idempotency keys of refunds; the key is unique, so it names the row
  Price, Discount,
  PromoLimit, CustomerPromoLimit,  \* usage_limit_total, usage_limit_per_customer
  Frequency,      \* free_trial_frequency of the package
  SamePhone,      \* customers who share one telephone number; the others have none
  Totals,         \* amounts of invoices, invoice lines and refunds
  MaxRequests,    \* bound on the number of requests in a behaviour
  None            \* SQL NULL

ASSUME AmountAssumption ==
  /\ Price \in Nat
  /\ Discount \in 0..Price
  /\ Totals \subseteq Nat
  /\ PromoLimit \in Nat
  /\ CustomerPromoLimit \in Nat
  /\ MaxRequests \in Nat
ASSUME TrialAssumption ==
  /\ Frequency \in {"UNLIMITED", "ONCE_PER_PHONE", "ONCE_PER_CUSTOMER"}
  /\ SamePhone \subseteq Customers
ASSUME NoneAssumption == None \notin Customers \cup Purchases \cup Keys
ASSUME PoolAssumption == IsFiniteSet(Purchases) /\ IsFiniteSet(Vouchers) /\ IsFiniteSet(Refunds)

VARIABLES
  purchase,     \* wifi_plan_purchases
  payment,      \* payments
  verified,     \* the payments that went through recordVerifiedSettlement: VERIFIED, with
                \* their ledger transaction, its two entries and the webhook rows
  access,       \* access_grants, by purchase
  announced,    \* domain events purchase-paid:<purchase>
  promo,        \* the promo code's times_redeemed and status = 'EXHAUSTED'
  redemption,   \* promo_redemptions, by purchase
  voucher,      \* vouchers
  redeemed,     \* domain events voucher-redeemed:<voucher>: the purchase they carry
  invoice,      \* the invoice of each purchase
  refund,       \* refunds
  clerk,        \* local state of each request
  requests      \* requests so far

vars == <<purchase, payment, verified, access, announced, promo, redemption,
          voucher, redeemed, invoice, refund, clerk, requests>>

PurchaseRows == [status   : {"ABSENT", "PENDING_PAYMENT", "PAID", "CANCELED"},
                 customer : Customers \cup {None},
                 price    : Nat,
                 promo    : BOOLEAN]
PaymentRows  == [status   : {"ABSENT", "PENDING", "PAID", "FAILED"},
                 purchase : Purchases \cup {None},
                 provider : {"manual", "external"},
                 key      : Keys \cup {None}]
InvoiceRows  == [status : {"ABSENT", "ISSUED", "PARTIALLY_PAID", "PAID", "OVERDUE"},
                 total : Nat, lines : Nat, paid : Nat]
RefundRows   == [status  : {"ABSENT", "REQUESTED", "APPROVED"},
                 payment : Payments \cup {None},
                 amount  : Nat]

Idle == [op |-> "idle"]
Requests == {Idle}
  \cup [op : {"confirm"}, purchase : Purchases, saw : {"PENDING_PAYMENT", "PAID", "CANCELED"}]
  \cup [op : {"redeem"}, voucher : Vouchers, customer : Customers]
  \cup [op : {"refund"}, payment : Payments, used : Nat]
  \cup [op : {"line", "total"}, purchase : Purchases]

TypeOK ==
  /\ purchase   \in [Purchases -> PurchaseRows]
  /\ payment    \in [Payments -> PaymentRows]
  /\ verified   \in SUBSET Payments
  /\ access     \in SUBSET Purchases
  /\ announced  \in SUBSET Purchases
  /\ promo      \in [redeemed : Nat, exhausted : BOOLEAN]
  /\ redemption \in SUBSET Purchases
  /\ voucher    \in [Vouchers -> {"ABSENT", "UNUSED", "USED"}]
  /\ redeemed   \in [Vouchers -> Purchases \cup {None}]
  /\ invoice    \in [Purchases -> InvoiceRows]
  /\ refund     \in [Refunds -> RefundRows]
  /\ clerk      \in [Clerks -> Requests]
  /\ requests   \in Nat

Init ==
  /\ purchase = [p \in Purchases |-> [status |-> "ABSENT", customer |-> None,
                                      price |-> 0, promo |-> FALSE]]
  /\ payment = [y \in Payments |-> [status |-> "ABSENT", purchase |-> None,
                                    provider |-> "manual", key |-> None]]
  /\ verified = {}
  /\ access = {}
  /\ announced = {}
  /\ promo = [redeemed |-> 0, exhausted |-> FALSE]
  /\ redemption = {}
  /\ voucher = [v \in Vouchers |-> "ABSENT"]
  /\ redeemed = [v \in Vouchers |-> None]
  /\ invoice = [p \in Purchases |-> [status |-> "ABSENT", total |-> 0, lines |-> 0, paid |-> 0]]
  /\ refund = [k \in Refunds |-> [status |-> "ABSENT", payment |-> None, amount |-> 0]]
  /\ clerk = [c \in Clerks |-> Idle]
  /\ requests = 0

orders   == <<purchase, payment, verified, access, announced>>
coupons  == <<promo, redemption>>
vouchers == <<voucher, redeemed>>
books    == <<invoice, refund>>

------------------------
(* Requests and the rows they lock. *)

Request == requests < MaxRequests /\ requests' = requests + 1
Begin(c, r) ==
  /\ clerk[c] = Idle
  /\ clerk' = [clerk EXCEPT ![c] = r]
  /\ Request
Become(c, r) == clerk' = [clerk EXCEPT ![c] = r] /\ UNCHANGED requests
Done(c) == Become(c, Idle)

\* Mutants: the row is read without FOR UPDATE.
PurchaseUnlocked(p) == TRUE

\* confirmPayment holds the purchase, redeem the voucher with its package and customer
\* (FOR UPDATE locks the rows of every joined table), requestRefund the payment.
PurchaseFree(p) == \A d \in Clerks : clerk[d].op = "confirm" => clerk[d].purchase # p
PackageFree     == \A d \in Clerks : clerk[d].op # "redeem"
PaymentFree(y)  == \A d \in Clerks : clerk[d].op = "refund" => clerk[d].payment # y

Receipts(p) == {y \in Payments : payment[y].status = "PAID" /\ payment[y].purchase = p}
Pending(p)  == {y \in Payments : payment[y].status = "PENDING" /\ payment[y].purchase = p}
ByKey(k)    == {y \in Payments : payment[y].status # "ABSENT" /\ payment[y].key = k}

------------------------
(* Purchases and payment intents. *)

\* A code is refused once its recorded uses reach a limit, whatever its status says;
\* uses not yet confirmed are not counted.
PromoUsable(u) ==
  /\ promo.redeemed < PromoLimit
  /\ Cardinality({p \in redemption : purchase[p].customer = u}) < CustomerPromoLimit

Create(u, withPromo) ==
  /\ PackageFree
  /\ withPromo => PromoUsable(u)
  /\ \E p \in Purchases :
       /\ purchase[p].status = "ABSENT"
       /\ purchase' = [purchase EXCEPT ![p] =
            [status |-> "PENDING_PAYMENT", customer |-> u, promo |-> withPromo,
             price |-> IF withPromo THEN Price - Discount ELSE Price]]
  /\ Request
  /\ UNCHANGED <<payment, verified, access, announced, coupons, vouchers, books, clerk>>

\* A known key, or the unique index on the active payment of a purchase, gives the
\* request the payment that is already there: nothing is written.
CreateIntent(p, provider, k) ==
  /\ PurchaseFree(p)
  /\ purchase[p].status = "PENDING_PAYMENT"
  /\ ByKey(k) = {}
  /\ Pending(p) = {}
  /\ \E y \in Payments :
       /\ payment[y].status = "ABSENT"
       /\ payment' = [payment EXCEPT ![y] =
            [status |-> "PENDING", purchase |-> p, provider |-> provider, key |-> k]]
  /\ Request
  /\ UNCHANGED <<purchase, verified, access, announced, coupons, vouchers, books, clerk>>

------------------------
(* Confirmation: confirmPayment locks the purchase, looks at its status, and then finds or makes the
   payment to close. *)

LockPurchase(c, p) ==
  /\ purchase[p].status # "ABSENT"
  /\ PurchaseFree(p)
  /\ Begin(c, [op |-> "confirm", purchase |-> p, saw |-> purchase[p].status])
  /\ UNCHANGED <<orders, coupons, vouchers, books>>

\* The payments a confirmation under key k may close: the one of that key, else the
\* pending one, else a new one.  A row of another purchase or provider, or one that is
\* settled already, ends the request.
Payable(p, k) ==
  IF ByKey(k) # {}
  THEN {y \in ByKey(k) : /\ payment[y].purchase = p
                         /\ payment[y].provider = "manual"
                         /\ payment[y].status = "PENDING"}
  ELSE IF Pending(p) # {}
  THEN {y \in Pending(p) : payment[y].provider = "manual"}
  ELSE {y \in Payments : payment[y].status = "ABSENT"}

Close(y, p, k, status) ==
  payment' = [payment EXCEPT ![y] = [status |-> status, purchase |-> p,
                                     provider |-> "manual", key |-> k]]

\* Mutant: any payment makes the invoice PAID in full.
CollectedInFull(row, amount) ==
  IF row.status = "ABSENT" THEN row ELSE [row EXCEPT !.paid = row.total, !.status = "PAID"]
\* What recordVerifiedSettlement makes of an invoice once amount has been paid.
Collected(row, amount) ==
  IF row.status = "ABSENT" THEN row
  ELSE [row EXCEPT !.paid = IF amount < row.total THEN amount ELSE row.total,
                   !.status = IF amount >= row.total THEN "PAID"
                              ELSE IF amount > 0 THEN "PARTIALLY_PAID" ELSE @]

\* A payment that was pending is verified and booked, with the sum of all successful
\* payments of the purchase, each of its price; a new one is not.
RecordSettlement(y, p) ==
  IF payment[y].status = "PENDING"
  THEN /\ verified' = verified \cup {y}
       /\ invoice' = [invoice EXCEPT ![p] = Collected(@, (Cardinality(Receipts(p)) + 1) * purchase[p].price)]
  ELSE UNCHANGED <<verified, invoice>>

\* Mutant: the status is decided on the count before this use.
RecordRedemptionLate(p) ==
  IF purchase[p].promo /\ p \notin redemption
  THEN /\ redemption' = redemption \cup {p}
       /\ promo' = [redeemed |-> promo.redeemed + 1,
                    exhausted |-> promo.exhausted \/ promo.redeemed >= PromoLimit]
  ELSE UNCHANGED coupons
\* One redemption per purchase; the status follows the count.
RecordRedemption(p) ==
  IF purchase[p].promo /\ p \notin redemption
  THEN /\ redemption' = redemption \cup {p}
       /\ promo' = [redeemed |-> promo.redeemed + 1,
                    exhausted |-> promo.exhausted \/ promo.redeemed + 1 >= PromoLimit]
  ELSE UNCHANGED coupons

Confirming(c) == clerk[c].op = "confirm" /\ clerk[c].saw = "PENDING_PAYMENT"

Settle(c, k) ==
  /\ Confirming(c)
  /\ PackageFree
  /\ LET p == clerk[c].purchase IN
       /\ \E y \in Payable(p, k) : Close(y, p, k, "PAID") /\ RecordSettlement(y, p)
       /\ purchase' = [purchase EXCEPT ![p].status = "PAID"]
       /\ RecordRedemption(p)
       /\ announced' = announced \cup {p}
       /\ access' = access \cup {p}
  /\ Done(c)
  /\ UNCHANGED <<vouchers, refund>>

Fail(c, k) ==
  /\ Confirming(c)
  /\ LET p == clerk[c].purchase IN
       /\ \E y \in Payable(p, k) : Close(y, p, k, "FAILED")
       /\ purchase' = [purchase EXCEPT ![p].status = "CANCELED"]
  /\ Done(c)
  /\ UNCHANGED <<verified, access, announced, coupons, vouchers, books>>

------------------------
(* Vouchers. *)

CreateBatch(V) ==
  /\ V # {}
  /\ \A v \in V : voucher[v] = "ABSENT"
  /\ PackageFree
  /\ voucher' = [v \in Vouchers |-> IF v \in V THEN "UNUSED" ELSE voucher[v]]
  /\ Request
  /\ UNCHANGED <<orders, coupons, redeemed, books, clerk>>

\* Any purchase of the package counts as the free trial, whatever became of it; a
\* customer without a telephone number has none that counts.
Peers(u) == CASE Frequency = "UNLIMITED"         -> {}
              [] Frequency = "ONCE_PER_CUSTOMER" -> {u}
              [] Frequency = "ONCE_PER_PHONE"    -> IF u \in SamePhone THEN SamePhone ELSE {}
\* Mutant: the telephone number is not compared.
TrialClaimedByCustomer(u) == \E p \in Purchases : purchase[p].customer = u
TrialClaimed(u) == \E p \in Purchases : purchase[p].customer \in Peers(u)

LockVoucher(c, v, u) ==
  /\ PackageFree
  /\ voucher[v] = "UNUSED"
  /\ ~TrialClaimed(u)
  /\ Begin(c, [op |-> "redeem", voucher |-> v, customer |-> u])
  /\ UNCHANGED <<orders, coupons, vouchers, books>>

Redeem(c) ==
  /\ clerk[c].op = "redeem"
  /\ LET v == clerk[c].voucher IN
     \E p \in Purchases :
       /\ purchase[p].status = "ABSENT"
       /\ purchase' = [purchase EXCEPT ![p] =
            [status |-> "PAID", customer |-> clerk[c].customer, price |-> Price, promo |-> FALSE]]
       /\ access' = access \cup {p}
       /\ voucher' = [voucher EXCEPT ![v] = "USED"]
       /\ redeemed' = [redeemed EXCEPT ![v] = IF @ = None THEN p ELSE @]
  /\ Done(c)
  /\ UNCHANGED <<payment, verified, announced, coupons, books>>

------------------------
(* Refunds. *)

Refunded(y) == {k \in Refunds : refund[k].status # "ABSENT" /\ refund[k].payment = y}
RefundTotal(y) == SumFunction([k \in Refunded(y) |-> refund[k].amount])

LockPayment(c, y) ==
  /\ PaymentFree(y)
  /\ payment[y].status = "PAID"
  /\ Begin(c, [op |-> "refund", payment |-> y, used |-> RefundTotal(y)])
  /\ UNCHANGED <<orders, coupons, vouchers, books>>

\* A key that is there already answers the request, or refuses it.
RequestRefund(c, k, amount) ==
  /\ clerk[c].op = "refund"
  /\ refund[k].status = "ABSENT"
  /\ clerk[c].used + amount <= purchase[payment[clerk[c].payment].purchase].price
  /\ refund' = [refund EXCEPT ![k] = [status |-> "REQUESTED", payment |-> clerk[c].payment,
                                      amount |-> amount]]
  /\ Done(c)
  /\ UNCHANGED <<orders, coupons, vouchers, invoice>>

ApproveRefund(k) ==
  /\ refund[k].status = "REQUESTED"
  /\ refund' = [refund EXCEPT ![k].status = "APPROVED"]
  /\ Request
  /\ UNCHANGED <<orders, coupons, vouchers, invoice, clerk>>

------------------------
(* Invoices: no transaction, one statement a step. *)

Issue(p, total) ==
  /\ purchase[p].status # "ABSENT"
  /\ invoice[p].status = "ABSENT"
  /\ invoice' = [invoice EXCEPT ![p] = [status |-> "ISSUED", total |-> total,
                                        lines |-> 0, paid |-> 0]]
  /\ Request
  /\ UNCHANGED <<orders, coupons, vouchers, refund, clerk>>

\* addInvoiceLine tests the status of the invoice, adds the line and then rewrites the
\* total as the sum of the lines.
OpenInvoice(c, p) ==
  /\ invoice[p].status \notin {"ABSENT", "PAID"}
  /\ Begin(c, [op |-> "line", purchase |-> p])
  /\ UNCHANGED <<orders, coupons, vouchers, books>>

AddLine(c, amount) ==
  /\ clerk[c].op = "line"
  /\ invoice' = [invoice EXCEPT ![clerk[c].purchase].lines = @ + amount]
  /\ Become(c, [op |-> "total", purchase |-> clerk[c].purchase])
  /\ UNCHANGED <<orders, coupons, vouchers, refund>>

Retotal(c) ==
  /\ clerk[c].op = "total"
  /\ invoice' = [invoice EXCEPT ![clerk[c].purchase].total = invoice[clerk[c].purchase].lines]
  /\ Done(c)
  /\ UNCHANGED <<orders, coupons, vouchers, refund>>

SweepOverdue(P) ==
  /\ P # {}
  /\ \A p \in P : invoice[p].status \in {"ISSUED", "PARTIALLY_PAID"}
  /\ invoice' = [p \in Purchases |-> IF p \in P THEN [invoice[p] EXCEPT !.status = "OVERDUE"]
                                     ELSE invoice[p]]
  /\ Request
  /\ UNCHANGED <<orders, coupons, vouchers, refund, clerk>>

------------------------
\* A refusal, an error of any statement or the death of the process: the transaction is
\* rolled back and its locks are gone; a line stays without its total.
Leave(c) ==
  /\ clerk[c] # Idle
  /\ Done(c)
  /\ UNCHANGED <<orders, coupons, vouchers, books>>

ClerkStep(c) ==
  \/ \E p \in Purchases : LockPurchase(c, p)
  \/ \E k \in Keys : Settle(c, k) \/ Fail(c, k)
  \/ \E v \in Vouchers, u \in Customers : LockVoucher(c, v, u)
  \/ Redeem(c)
  \/ \E y \in Payments : LockPayment(c, y)
  \/ \E k \in Refunds, a \in Totals : RequestRefund(c, k, a)
  \/ \E p \in Purchases : OpenInvoice(c, p)
  \/ \E a \in Totals : AddLine(c, a)
  \/ Retotal(c)
  \/ Leave(c)

RequestStep ==
  \/ \E u \in Customers, b \in BOOLEAN : Create(u, b)
  \/ \E p \in Purchases, provider \in {"manual", "external"}, k \in Keys :
       CreateIntent(p, provider, k)
  \/ \E V \in SUBSET Vouchers : CreateBatch(V)
  \/ \E k \in Refunds : ApproveRefund(k)
  \/ \E p \in Purchases, a \in Totals : Issue(p, a)
  \/ \E P \in SUBSET Purchases : SweepOverdue(P)

Next == RequestStep \/ \E c \in Clerks : ClerkStep(c)

Spec == Init /\ [][Next]_vars

------------------------
(* What is promised. *)

\* docs/PRODUCT-STRATEGY-AND-ROADMAP.md:143-144: purchases implement PurchaseLifecycle;
\* a purchase is settled once, by one payment or voucher, however often its confirmation
\* is repeated, under whatever keys, and only a settled one gives access.
Phase(p) == CASE purchase[p].status = "ABSENT"          -> "none"
              [] purchase[p].status = "PENDING_PAYMENT" -> "placed"
              [] purchase[p].status = "PAID"            -> "settled"
              [] purchase[p].status = "CANCELED"        -> "canceled"
Lifecycle == INSTANCE PurchaseLifecycle WITH
  Orders   <- Purchases,
  state    <- [p \in Purchases |-> Phase(p)],
  receipts <- [p \in Purchases |-> Receipts(p)],
  access   <- access
LifecycleSpec == Lifecycle!Spec

\* The announcement of a settlement and the use of its promotion are neither lost nor
\* repeated (confirmPayment, recordRedemption): they are there exactly for the purchases
\* that a payment settled, and the code's counter is their number.
SettlementIsWhole ==
  /\ announced = {p \in Purchases : Receipts(p) # {}}
  /\ redemption = {p \in announced : purchase[p].promo}
  /\ promo.redeemed = Cardinality(redemption)
  /\ promo.exhausted <=> redemption # {} /\ promo.redeemed >= PromoLimit

\* The purchases a voucher settled.
ByVoucher == {p \in Purchases : purchase[p].status = "PAID" /\ Receipts(p) = {}}

\* A voucher is good for one purchase, announced under the voucher's own key, whatever
\* concurrent redemptions do (VouchersService.redeem).
VoucherIsUsedOnce ==
  /\ Cardinality(ByVoucher) = Cardinality({v \in Vouchers : voucher[v] = "USED"})
  /\ {redeemed[v] : v \in Vouchers} \ {None} = ByVoucher

\* vouchers.service.ts:96, "already been claimed for the configured frequency": customers
\* who count as one claimant redeem one free trial between them, at any interleaving.
FreeTrialOnce == \A u \in Customers :
  Cardinality({p \in ByVoucher : purchase[p].customer \in Peers(u)}) <= 1

\* finance.service.ts:154, "Refund exceeds settled payment amount": concurrent requests,
\* approvals and repeated keys never promise more than the payment brought in.
RefundWithinPayment == \A y \in Payments :
  Refunded(y) # {} => /\ payment[y].status = "PAID"
                      /\ RefundTotal(y) <= purchase[payment[y].purchase].price

\* No interleaving of requests takes more than there is: a voucher twice, a second free
\* trial under one claimant, or a refund beyond the payment.
LimitsAreKept == VoucherIsUsedOnce /\ FreeTrialOnce /\ RefundWithinPayment

\* docs/ENTERPRISE-FEATURES-EXECUTION.md:24, amount_paid comes from verified settlements:
\* an invoice counts as collected, in whole or in part, only what a verified payment of
\* its purchase brought in, whichever of issue, settlement, lines and sweep comes first.
InvoiceIsCollected == \A p \in Purchases :
  invoice[p].paid > 0 \/ invoice[p].status \in {"PARTIALLY_PAID", "PAID"} =>
    /\ Receipts(p) \cap verified # {}
    /\ invoice[p].paid <= purchase[p].price

\* Row ids, keys and requests are interchangeable: TLC's symmetry.
ShopSymmetry == Permutations(Clerks) \cup Permutations(Purchases) \cup Permutations(Payments)
                \cup Permutations(Keys) \cup Permutations(Vouchers)
                \cup Permutations(Refunds) \cup Permutations(SamePhone)
====
