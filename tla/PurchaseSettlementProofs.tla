---- MODULE PurchaseSettlementProofs ----
(* Theorems about PurchaseSettlement, for any number of requests, purchases, payments, vouchers and
   refunds, and without a bound on the requests other than MaxRequests. At the end: what the
   collector makes of the clients of a router (Telemetry), for every number of clients and
   collectors. *)
EXTENDS PurchaseSettlement, Telemetry, SequenceTheorems, Sums, FiniteSetTheorems, TLAPS

RowTypes == purchase \in [Purchases -> PurchaseRows] /\ payment \in [Payments -> PaymentRows] /\ access \in SUBSET Purchases

\* A confirmation in flight holds its purchase: what it saw is what is there.  A
\* redemption knows its customer.
Holds(c) ==
  /\ clerk[c].op = "confirm" =>
       clerk[c].purchase \in Purchases /\ clerk[c].saw = purchase[clerk[c].purchase].status /\ clerk[c].saw # "ABSENT"
  /\ clerk[c].op = "redeem" => clerk[c].customer \in Customers
LocksHeld ==
  /\ clerk = [c \in Clerks |-> clerk[c]]
  /\ \A c \in Clerks : Holds(c)
  /\ \A c, d \in Clerks : /\ c # d
                          /\ clerk[c].op = "confirm"
                          /\ clerk[d].op = "confirm"
                          => clerk[c].purchase # clerk[d].purchase

\* A successful payment belongs to a settled purchase.
ReceiptsSettled == \A p \in Purchases : Receipts(p) # {} => purchase[p].status = "PAID"

\* The inductive invariant.
IInv == RowTypes /\ LocksHeld /\ ReceiptsSettled

------------------------
(* Lemmas. *)

\* A payment that a confirmation may close is not a successful one.
LEMMA PayableIsOpen ==
  ASSUME NEW p \in Purchases, NEW k \in Keys, NEW y \in Payable(p, k)
  PROVE y \in Payments /\ payment[y].status \in {"ABSENT", "PENDING"} BY DEF Payable, ByKey, Pending

\* Closing a payment changes the receipts of its purchase alone, by that payment and
\* only when it is PAID.
LEMMA CloseReceipts ==
  ASSUME RowTypes, NEW p \in Purchases, NEW k \in Keys, NEW y \in Payable(p, k), NEW s \in {"PAID", "FAILED"}, Close(y, p, k, s)
  PROVE  /\ payment' \in [Payments -> PaymentRows]
         /\ \A q \in Purchases : y \notin Receipts(q)
         /\ \A q \in Purchases : q # p => Receipts(q)' = Receipts(q)
         /\ s = "PAID" => Receipts(p)' = Receipts(p) \cup {y}
         /\ s = "FAILED" => Receipts(p)' = Receipts(p)
<1>1. y \in Payments /\ payment[y].status \in {"ABSENT", "PENDING"} BY PayableIsOpen
<1>2. payment' \in [Payments -> PaymentRows] BY <1>1 DEF Close, RowTypes, PaymentRows
<1>3. \A z \in Payments : z # y => payment'[z] = payment[z] BY <1>1 DEF Close, RowTypes
<1>4. payment'[y].status = s /\ payment'[y].purchase = p BY <1>1 DEF Close, RowTypes
<1>5. \A q \in Purchases : y \notin Receipts(q) BY <1>1 DEF Receipts
<1>6. \A q \in Purchases : Receipts(q)' = {z \in Payments : payment'[z].status = "PAID" /\ payment'[z].purchase = q} BY DEF Receipts
<1>7. ASSUME NEW q \in Purchases, q # p \/ s = "FAILED" PROVE Receipts(q)' = Receipts(q) BY <1>1,<1>3,<1>4,<1>6,<1>7 DEF Receipts
<1>8. ASSUME s = "PAID" PROVE Receipts(p)' = Receipts(p) \cup {y} BY <1>1,<1>3,<1>4,<1>6,<1>8 DEF Receipts
<1> QED BY <1>2,<1>5,<1>7,<1>8

\* The receipts depend on the payments alone.
LEMMA SameReceipts == ASSUME UNCHANGED payment PROVE \A p \in Purchases : Receipts(p)' = Receipts(p) BY DEF Receipts

\* A purchase that a request holds changes only by that request; the others' locks stay.
LEMMA LocksKept ==
  ASSUME LocksHeld, NEW c \in Clerks, Become(c, Idle), NEW p, \A d \in Clerks : d # c /\ clerk[d].op = "confirm" => clerk[d].purchase # p,
      \A q \in Purchases : q # p => purchase'[q].status = purchase[q].status
  PROVE LocksHeld'
<1>1. clerk' = [d \in Clerks |-> clerk'[d]] BY DEF LocksHeld, Become
<1>2. clerk'[c] = Idle /\ \A d \in Clerks : d # c => clerk'[d] = clerk[d] BY DEF LocksHeld, Become
<1>3. ASSUME NEW d \in Clerks PROVE Holds(d)' BY <1>2,<1>3 DEF LocksHeld, Holds, Idle
<1> QED BY <1>1,<1>2,<1>3 DEF LocksHeld, Idle

\* The same for steps that leave the requests alone and make a row of a new purchase.
LEMMA LocksKeptByNew ==
  ASSUME LocksHeld, UNCHANGED clerk, NEW p \in Purchases, purchase[p].status = "ABSENT",
      \A q \in Purchases : q # p => purchase'[q].status = purchase[q].status
  PROVE LocksHeld' BY DEF LocksHeld, Holds

------------------------
(* The abstract state. *)

Shows == [Lifecycle!Next]_(Lifecycle!vars)

LEMMA PhaseValues ==
  ASSUME NEW p
  PROVE  /\ purchase[p].status = "ABSENT" => Phase(p) = "none"
         /\ purchase[p].status = "PENDING_PAYMENT" => Phase(p) = "placed"
         /\ purchase[p].status = "PAID" => Phase(p) = "settled"
         /\ purchase[p].status = "CANCELED" => Phase(p) = "canceled" BY DEF Phase

LEMMA PhaseValuesNext ==
  ASSUME NEW p
  PROVE  /\ purchase'[p].status = "ABSENT" => Phase(p)' = "none"
         /\ purchase'[p].status = "PENDING_PAYMENT" => Phase(p)' = "placed"
         /\ purchase'[p].status = "PAID" => Phase(p)' = "settled"
         /\ purchase'[p].status = "CANCELED" => Phase(p)' = "canceled" BY DEF Phase

\* A purchase that moves from one status to another while the others stay is an order
\* that moves.
LEMMA MoveShows ==
  ASSUME NEW p \in Purchases, NEW from, NEW to, Phase(p) = from, Phase(p)' = to, \A q \in Purchases : q # p => purchase'[q] = purchase[q]
  PROVE Lifecycle!Move(p, from, to)
<1>1. \A q \in Purchases : q # p => Phase(q)' = Phase(q) BY DEF Phase
<1>2. [q \in Purchases |-> Phase(q)]' = [[q \in Purchases |-> Phase(q)] EXCEPT ![p] = to] BY <1>1
<1> QED BY <1>2 DEF Lifecycle!Move

\* Receipts that stay make an abstract variable that stays.
LEMMA ReceiptsShow == ASSUME \A p \in Purchases : Receipts(p)' = Receipts(p) PROVE UNCHANGED [p \in Purchases |-> Receipts(p)] OBVIOUS

\* A step that changes no purchase, no receipt and no access shows nothing.
LEMMA NothingShows == ASSUME UNCHANGED <<purchase, access>>, \A p \in Purchases : Receipts(p)' = Receipts(p) PROVE Shows
<1>1. [p \in Purchases |-> Phase(p)]' = [p \in Purchases |-> Phase(p)] BY DEF Phase
<1> QED BY <1>1, ReceiptsShow DEF Shows, Lifecycle!vars

------------------------
(* The steps, one lemma per action that a purchase, a payment or a lock sees. *)

\* What a request may turn into without taking a lock on a purchase.
Harmless(r) == r.op # "confirm" /\ (r.op = "redeem" => r.customer \in Customers)

\* What steps that leave purchases, payments and access alone do to the invariant.
LEMMA OtherStep == ASSUME IInv, UNCHANGED <<orders, clerk>> PROVE IInv' /\ Shows
<1>1. Shows BY SameReceipts, NothingShows DEF orders
<1>2. RowTypes' /\ ReceiptsSettled' BY SameReceipts DEF IInv, RowTypes, ReceiptsSettled, orders
<1> QED BY <1>1,<1>2 DEF IInv, LocksHeld, Holds, orders

LEMMA OtherClerkStep == ASSUME IInv, UNCHANGED orders, NEW c \in Clerks, NEW r, Harmless(r), clerk' = [clerk EXCEPT ![c] = r] PROVE IInv' /\ Shows
<1>1. Shows BY SameReceipts, NothingShows DEF orders
<1>2. RowTypes' /\ ReceiptsSettled' BY SameReceipts DEF IInv, RowTypes, ReceiptsSettled, orders
<1>3. clerk'[c] = r /\ \A d \in Clerks : d # c => clerk'[d] = clerk[d] BY DEF IInv, LocksHeld
<1>4. clerk' = [d \in Clerks |-> clerk'[d]] BY DEF IInv, LocksHeld
<1>5. \A d \in Clerks : Holds(d)' BY <1>3 DEF IInv, LocksHeld, Holds, Harmless, orders
<1> QED BY <1>1,<1>2,<1>3,<1>4,<1>5 DEF IInv, LocksHeld, Harmless

LEMMA CreateStep == ASSUME IInv, NEW u \in Customers, NEW b \in BOOLEAN, Create(u, b) PROVE IInv' /\ Shows
<1>1. PICK p \in Purchases :
        /\ purchase[p].status = "ABSENT"
        /\ purchase' = [purchase EXCEPT ![p] =
             [status |-> "PENDING_PAYMENT", customer |-> u, promo |-> b, price |-> IF b THEN Price - Discount ELSE Price]] BY DEF Create
<1>2. purchase' \in [Purchases -> PurchaseRows] BY <1>1, AmountAssumption DEF IInv, RowTypes, PurchaseRows
<1>3. \A q \in Purchases : q # p => purchase'[q] = purchase[q] BY <1>1 DEF IInv, RowTypes
<1>4. purchase'[p].status = "PENDING_PAYMENT" BY <1>1 DEF IInv, RowTypes
<1>5. \A q \in Purchases : Receipts(q)' = Receipts(q) BY SameReceipts DEF Create
<1>6. RowTypes' /\ ReceiptsSettled' BY <1>1,<1>2,<1>3,<1>4,<1>5 DEF Create, IInv, RowTypes, ReceiptsSettled
<1>7. LocksHeld' BY <1>1,<1>3, LocksKeptByNew DEF Create, IInv
<1>8. Lifecycle!Place(p) BY <1>1,<1>3,<1>4,<1>5, MoveShows, PhaseValues, PhaseValuesNext, ReceiptsShow DEF Lifecycle!Place, Create
<1> QED BY <1>6,<1>7,<1>8 DEF IInv, Shows, Lifecycle!Next

LEMMA CreateIntentStep ==
  ASSUME IInv, NEW p \in Purchases, NEW provider \in {"manual", "external"}, NEW k \in Keys, CreateIntent(p, provider, k) PROVE IInv' /\ Shows
<1>1. PICK y \in Payments :
        /\ payment[y].status = "ABSENT"
        /\ payment' = [payment EXCEPT ![y] =
             [status |-> "PENDING", purchase |-> p, provider |-> provider, key |-> k]] BY DEF CreateIntent
<1>2. payment' \in [Payments -> PaymentRows] BY <1>1 DEF IInv, RowTypes, PaymentRows
<1>3. \A q \in Purchases : Receipts(q)' = Receipts(q) BY <1>1 DEF IInv, RowTypes, Receipts
<1>4. RowTypes' /\ ReceiptsSettled' BY <1>2,<1>3 DEF CreateIntent, IInv, RowTypes, ReceiptsSettled
<1>5. LocksHeld' BY DEF CreateIntent, IInv, LocksHeld, Holds
<1> QED BY <1>3,<1>4,<1>5, NothingShows DEF IInv, CreateIntent

LEMMA LockPurchaseStep == ASSUME IInv, NEW c \in Clerks, NEW p \in Purchases, LockPurchase(c, p) PROVE IInv' /\ Shows
<1> DEFINE r == [op |-> "confirm", purchase |-> p, saw |-> purchase[p].status]
<1>1. clerk' = [clerk EXCEPT ![c] = r] /\ UNCHANGED orders BY DEF LockPurchase, Begin
<1>2. RowTypes' /\ ReceiptsSettled' /\ Shows BY <1>1, SameReceipts, NothingShows DEF IInv, RowTypes, ReceiptsSettled, orders
<1>3. clerk' = [d \in Clerks |-> clerk'[d]] BY <1>1 DEF IInv, LocksHeld
<1>4. clerk'[c] = r /\ \A d \in Clerks : d # c => clerk'[d] = clerk[d] BY <1>1 DEF IInv, LocksHeld
<1>5. purchase[p].status # "ABSENT" /\ PurchaseFree(p) BY DEF LockPurchase
<1>6. ASSUME NEW d \in Clerks PROVE Holds(d)' BY <1>1,<1>4,<1>5,<1>6 DEF IInv, LocksHeld, Holds, orders
<1>7. LocksHeld' BY <1>3,<1>4,<1>5,<1>6 DEF IInv, LocksHeld, PurchaseFree
<1> QED BY <1>2,<1>7 DEF IInv

\* What a confirmation knows when it closes a payment.
LEMMA ConfirmingHolds ==
  ASSUME IInv, NEW c \in Clerks, Confirming(c)
  PROVE  /\ clerk[c].purchase \in Purchases
         /\ purchase[clerk[c].purchase].status = "PENDING_PAYMENT"
         /\ Receipts(clerk[c].purchase) = {}
         /\ \A d \in Clerks : d # c /\ clerk[d].op = "confirm"
                               => clerk[d].purchase # clerk[c].purchase BY DEF IInv, LocksHeld, Holds, Confirming, ReceiptsSettled

LEMMA SettleStep == ASSUME IInv, NEW c \in Clerks, NEW k \in Keys, Settle(c, k) PROVE IInv' /\ Shows
<1>1. PICK p \in Purchases :
        /\ p = clerk[c].purchase
        /\ purchase[p].status = "PENDING_PAYMENT"
        /\ Receipts(p) = {}
        /\ \A d \in Clerks : d # c /\ clerk[d].op = "confirm" => clerk[d].purchase # p BY ConfirmingHolds DEF Settle
<1>2. PICK y \in Payable(p, k) : Close(y, p, k, "PAID") BY <1>1 DEF Settle
<1>3. purchase' = [purchase EXCEPT ![p].status = "PAID"] /\ access' = access \cup {p} BY <1>1 DEF Settle
<1>4. /\ payment' \in [Payments -> PaymentRows]
      /\ \A q \in Purchases : y \notin Receipts(q)
      /\ \A q \in Purchases : q # p => Receipts(q)' = Receipts(q)
      /\ Receipts(p)' = Receipts(p) \cup {y} BY <1>2, CloseReceipts DEF IInv
<1>5. purchase' \in [Purchases -> PurchaseRows] BY <1>1,<1>3 DEF IInv, RowTypes, PurchaseRows
<1>6. /\ \A q \in Purchases : q # p => purchase'[q] = purchase[q]
      /\ purchase'[p].status = "PAID" BY <1>1,<1>3 DEF IInv, RowTypes, PurchaseRows
<1>7. RowTypes' /\ ReceiptsSettled' BY <1>1,<1>3,<1>4,<1>5,<1>6 DEF IInv, RowTypes, ReceiptsSettled
<1>8. LocksHeld'
 <2>1. Become(c, Idle) BY DEF Settle, Done
 <2>2. \A q \in Purchases : q # p => purchase'[q].status = purchase[q].status BY <1>6
 <2> QED BY <1>1,<2>1,<2>2, LocksKept DEF IInv
<1>9. Lifecycle!Settle(p, y)
 <2>1. Lifecycle!Move(p, "placed", "settled") BY <1>1,<1>6, MoveShows, PhaseValues, PhaseValuesNext
 <2>2. Receipts(p)' = {y} BY <1>1,<1>4
 <2>3. [q \in Purchases |-> Receipts(q)]' =
       [[q \in Purchases |-> Receipts(q)] EXCEPT ![p] = {y}] BY <1>4,<2>2
 <2> QED BY <1>1,<1>3,<1>4,<2>1,<2>3 DEF Lifecycle!Settle
<1>10. y \in Payments BY <1>2, PayableIsOpen
<1> QED BY <1>7,<1>8,<1>9,<1>10 DEF IInv, Shows, Lifecycle!Next

LEMMA FailStep == ASSUME IInv, NEW c \in Clerks, NEW k \in Keys, Fail(c, k) PROVE IInv' /\ Shows
<1>1. PICK p \in Purchases :
        /\ p = clerk[c].purchase
        /\ purchase[p].status = "PENDING_PAYMENT"
        /\ Receipts(p) = {}
        /\ \A d \in Clerks : d # c /\ clerk[d].op = "confirm" => clerk[d].purchase # p BY ConfirmingHolds DEF Fail
<1>2. PICK y \in Payable(p, k) : Close(y, p, k, "FAILED") BY <1>1 DEF Fail
<1>3. purchase' = [purchase EXCEPT ![p].status = "CANCELED"] /\ access' = access BY <1>1 DEF Fail
<1>4. /\ payment' \in [Payments -> PaymentRows]
      /\ \A q \in Purchases : Receipts(q)' = Receipts(q) BY <1>2, CloseReceipts DEF IInv
<1>5. purchase' \in [Purchases -> PurchaseRows] BY <1>1,<1>3 DEF IInv, RowTypes, PurchaseRows
<1>6. /\ \A q \in Purchases : q # p => purchase'[q] = purchase[q]
      /\ purchase'[p].status = "CANCELED" BY <1>1,<1>3 DEF IInv, RowTypes, PurchaseRows
<1>7. RowTypes' /\ ReceiptsSettled' BY <1>1,<1>3,<1>4,<1>5,<1>6 DEF IInv, RowTypes, ReceiptsSettled
<1>8. LocksHeld'
 <2>1. Become(c, Idle) BY DEF Fail, Done
 <2>2. \A q \in Purchases : q # p => purchase'[q].status = purchase[q].status BY <1>6
 <2> QED BY <1>1,<2>1,<2>2, LocksKept DEF IInv
<1>9. Lifecycle!Cancel(p) BY <1>1,<1>3,<1>4,<1>6, MoveShows, PhaseValues, PhaseValuesNext, ReceiptsShow DEF Lifecycle!Cancel
<1> QED BY <1>7,<1>8,<1>9 DEF IInv, Shows, Lifecycle!Next

LEMMA RedeemStep == ASSUME IInv, NEW c \in Clerks, Redeem(c) PROVE IInv' /\ Shows
<1>1. PICK p \in Purchases :
        /\ purchase[p].status = "ABSENT"
        /\ purchase' = [purchase EXCEPT ![p] =
             [status |-> "PAID", customer |-> clerk[c].customer, price |-> Price, promo |-> FALSE]]
        /\ access' = access \cup {p} BY DEF Redeem
<1>2. /\ \A q \in Purchases : q # p => purchase'[q] = purchase[q]
      /\ purchase'[p].status = "PAID" BY <1>1 DEF IInv, RowTypes
<1>3. \A q \in Purchases : Receipts(q)' = Receipts(q) BY SameReceipts DEF Redeem
<1>4. RowTypes'
 <2>1. clerk[c].customer \in Customers BY DEF Redeem, IInv, LocksHeld, Holds
 <2>2. purchase' \in [Purchases -> PurchaseRows] BY <1>1,<2>1, AmountAssumption DEF IInv, RowTypes, PurchaseRows
 <2> QED BY <1>1,<2>2 DEF Redeem, IInv, RowTypes
<1>5. ReceiptsSettled' BY <1>2,<1>3 DEF IInv, ReceiptsSettled
<1>6. LocksHeld'
 <2>1. Become(c, Idle) BY DEF Redeem, Done
 <2>2. \A q \in Purchases : q # p => purchase'[q].status = purchase[q].status BY <1>2
 <2>3. \A d \in Clerks : d # c /\ clerk[d].op = "confirm" => clerk[d].purchase # p BY <1>1 DEF IInv, LocksHeld, Holds
 <2> QED BY <2>1,<2>2,<2>3, LocksKept DEF IInv
<1>7. Lifecycle!Redeem(p) BY <1>1,<1>2,<1>3, MoveShows, PhaseValues, PhaseValuesNext, ReceiptsShow DEF Lifecycle!Redeem
<1> QED BY <1>4,<1>5,<1>6,<1>7 DEF IInv, Shows, Lifecycle!Next

\* Where a request goes next, for the steps of a request that touch no purchase.
LEMMA ClerkStepCase == ASSUME IInv, NEW c \in Clerks, ClerkStep(c) PROVE IInv' /\ Shows
<1>1. CASE \E p \in Purchases : LockPurchase(c, p) BY <1>1, LockPurchaseStep
<1>2. CASE \E k \in Keys : Settle(c, k) \/ Fail(c, k) BY <1>2, SettleStep, FailStep
<1>3. ASSUME NEW v \in Vouchers, NEW u \in Customers, LockVoucher(c, v, u)
  PROVE IInv' /\ Shows BY <1>3, OtherClerkStep DEF LockVoucher, Begin, Harmless
<1>4. CASE Redeem(c) BY <1>4, RedeemStep
<1>5. ASSUME NEW y \in Payments, LockPayment(c, y) PROVE IInv' /\ Shows
 <2>1. Harmless([op |-> "refund", payment |-> y, used |-> RefundTotal(y)]) BY DEF Harmless
 <2> QED BY <1>5,<2>1, OtherClerkStep DEF LockPayment, Begin
<1>6. ASSUME NEW k \in Refunds, NEW a \in Totals, RequestRefund(c, k, a)
  PROVE IInv' /\ Shows BY <1>6, OtherClerkStep DEF RequestRefund, Done, Become, Idle, Harmless
<1>7. ASSUME NEW p \in Purchases, OpenInvoice(c, p) PROVE IInv' /\ Shows BY <1>7, OtherClerkStep DEF OpenInvoice, Begin, Harmless
<1>8. ASSUME NEW a \in Totals, AddLine(c, a) PROVE IInv' /\ Shows BY <1>8, OtherClerkStep DEF AddLine, Become, Harmless
<1>9. CASE Retotal(c) BY <1>9, OtherClerkStep DEF Retotal, Done, Become, Idle, Harmless
<1>10. CASE Leave(c) BY <1>10, OtherClerkStep DEF Leave, Done, Become, Idle, Harmless
<1> QED BY <1>1,<1>2,<1>3,<1>4,<1>5,<1>6,<1>7,<1>8,<1>9,<1>10 DEF ClerkStep

LEMMA RequestStepCase == ASSUME IInv, RequestStep PROVE IInv' /\ Shows
<1>1. CASE \E u \in Customers, b \in BOOLEAN : Create(u, b) BY <1>1, CreateStep
<1>2. CASE \E p \in Purchases, provider \in {"manual", "external"}, k \in Keys :
             CreateIntent(p, provider, k) BY <1>2, CreateIntentStep
<1>3. CASE \E V \in SUBSET Vouchers : CreateBatch(V) BY <1>3, OtherStep DEF CreateBatch
<1>4. CASE \E k \in Refunds : ApproveRefund(k) BY <1>4, OtherStep DEF ApproveRefund
<1>5. CASE \E p \in Purchases, a \in Totals : Issue(p, a) BY <1>5, OtherStep DEF Issue
<1>6. CASE \E P \in SUBSET Purchases : SweepOverdue(P) BY <1>6, OtherStep DEF SweepOverdue
<1> QED BY <1>1,<1>2,<1>3,<1>4,<1>5,<1>6 DEF RequestStep

------------------------
(* The theorems. *)

LEMMA Initially == ASSUME Init PROVE IInv /\ Lifecycle!Init
<1>1. RowTypes BY DEF Init, RowTypes, PurchaseRows, PaymentRows
<1>2. LocksHeld BY DEF Init, LocksHeld, Holds, Idle
<1>3. \A p \in Purchases : Receipts(p) = {} /\ Phase(p) = "none" BY DEF Init, Receipts, Phase
<1> QED BY <1>1,<1>2,<1>3 DEF Init, IInv, ReceiptsSettled, Lifecycle!Init

LEMMA EveryStep == ASSUME IInv, [Next]_vars PROVE IInv' /\ Shows
<1>1. CASE Next BY <1>1, ClerkStepCase, RequestStepCase DEF Next
<1>2. CASE UNCHANGED vars BY <1>2, OtherStep DEF vars, orders
<1> QED BY <1>1,<1>2

\* Two requests never confirm the same purchase, the one that does sees its current
\* status (FOR UPDATE in confirmPayment), and a successful payment is one of a PAID
\* purchase.
THEOREM Invariance == Spec => []IInv
<1>1. Init => IInv BY Initially
<1>2. IInv /\ [Next]_vars => IInv' BY EveryStep
<1> QED BY <1>1,<1>2, PTL DEF Spec

\* PurchasesService, VouchersService and FinanceService implement PurchaseLifecycle: one
\* settlement of a purchase, by one payment, and access from a settlement only.
THEOREM ImplementsLifecycle == Spec => LifecycleSpec
<1>1. Init => Lifecycle!Init BY Initially
<1>2. IInv /\ [Next]_vars => [Lifecycle!Next]_(Lifecycle!vars) BY EveryStep DEF Shows
<1> QED BY <1>1,<1>2, Invariance, PTL DEF Spec, LifecycleSpec, Lifecycle!Spec

------------------------
(* Invoices count what verified payments brought in. *)

BooksTypes == invoice \in [Purchases -> InvoiceRows]

\* Inductive: a collected invoice needs a receipt, and no purchase gets a new row while
\* it has one (ReceiptsSettled), so the price it was collected against stays.
BooksInv == IInv /\ BooksTypes /\ InvoiceIsCollected

Collects(p) ==
  invoice[p].paid > 0 \/ invoice[p].status \in {"PARTIALLY_PAID", "PAID"} =>
    Receipts(p) \cap verified # {} /\ invoice[p].paid <= purchase[p].price

\* A purchase that keeps its price, its verified receipts and what its invoice collected.
LEMMA CollectsKept ==
  ASSUME NEW p, Collects(p), Receipts(p) \cap verified \subseteq (Receipts(p) \cap verified)', purchase'[p].price = purchase[p].price,
      invoice'[p].paid = invoice[p].paid, invoice'[p].status \in {invoice[p].status, "OVERDUE"}
  PROVE Collects(p)' BY DEF Collects

\* Steps that leave the invoices alone, and the receipts and the price of every purchase
\* that has receipts.
LEMMA BooksUntouched ==
  ASSUME BooksInv, IInv', UNCHANGED <<verified, invoice>>,
      \A p \in Purchases : /\ Receipts(p) \subseteq Receipts(p)'
                           /\ Receipts(p) # {} => purchase'[p].price = purchase[p].price
  PROVE BooksInv'
<1>1. ASSUME NEW p \in Purchases PROVE Collects(p)' BY <1>1 DEF BooksInv, InvoiceIsCollected, Collects
<1> QED BY <1>1 DEF BooksInv, BooksTypes, InvoiceIsCollected, Collects

\* Steps of finance on one or more invoices, which change no amount paid.
LEMMA BooksWritten ==
  ASSUME BooksInv, IInv', UNCHANGED orders, BooksTypes',
      \A p \in Purchases :
        \/ invoice'[p].paid = 0 /\ invoice'[p].status = "ISSUED"
        \/ /\ invoice'[p].paid = invoice[p].paid
           /\ invoice'[p].status \in {invoice[p].status, "OVERDUE"}
  PROVE BooksInv'
<1>1. \A p \in Purchases : Receipts(p)' = Receipts(p) BY SameReceipts DEF orders
<1>2. ASSUME NEW p \in Purchases PROVE Collects(p)'
 <2>1. Collects(p) BY DEF BooksInv, InvoiceIsCollected, Collects
 <2>2. CASE invoice'[p].paid = 0 /\ invoice'[p].status = "ISSUED" BY <2>2 DEF Collects
 <2>3. CASE invoice'[p].paid = invoice[p].paid
            /\ invoice'[p].status \in {invoice[p].status, "OVERDUE"} BY <1>1,<2>1,<2>3, CollectsKept DEF orders
 <2> QED BY <2>2,<2>3
<1> QED BY <1>2 DEF BooksInv, InvoiceIsCollected, Collects

LEMMA SettleBooks == ASSUME BooksInv, IInv', NEW c \in Clerks, NEW k \in Keys, Settle(c, k) PROVE BooksInv'
<1>1. PICK p \in Purchases :
        p = clerk[c].purchase /\ Receipts(p) = {} BY ConfirmingHolds DEF Settle, BooksInv
<1>2. PICK y \in Payable(p, k) : Close(y, p, k, "PAID") /\ RecordSettlement(y, p) BY <1>1 DEF Settle
<1>3. /\ \A q \in Purchases : q # p => Receipts(q)' = Receipts(q)
      /\ Receipts(p)' = {y} BY <1>1,<1>2, CloseReceipts DEF BooksInv, IInv
<1>4. \A q \in Purchases : purchase'[q].price = purchase[q].price /\ purchase[q].price \in Nat
  BY <1>1 DEF Settle, BooksInv, IInv, RowTypes, PurchaseRows
<1>5. \A q \in Purchases : Collects(q) BY DEF BooksInv, InvoiceIsCollected, Collects
<1>6. CASE payment[y].status = "PENDING"
 <2>1. verified' = verified \cup {y} BY <1>2,<1>6 DEF RecordSettlement
 <2>2. invoice' = [invoice EXCEPT ![p] = Collected(@, purchase[p].price)]
  <3>1. (Cardinality(Receipts(p)) + 1) * purchase[p].price = purchase[p].price BY <1>1,<1>4, FS_EmptySet
  <3> QED BY <1>2,<1>6,<3>1 DEF RecordSettlement
 <2>3. Collected(invoice[p], purchase[p].price) \in InvoiceRows BY <1>4 DEF BooksInv, BooksTypes, InvoiceRows, Collected
 <2>4. BooksTypes' BY <2>2,<2>3 DEF BooksInv, BooksTypes
 <2>5. ASSUME NEW q \in Purchases, q # p PROVE Collects(q)' BY <1>3,<1>4,<1>5,<2>1,<2>2,<2>5, CollectsKept DEF BooksInv, BooksTypes
 <2>6. Collects(p)'
  <3>1. invoice'[p] = Collected(invoice[p], purchase[p].price) BY <2>2 DEF BooksInv, BooksTypes
  <3>2. invoice'[p].paid <= purchase[p].price \/ invoice'[p] = invoice[p] BY <1>4,<3>1 DEF Collected, BooksInv, BooksTypes, InvoiceRows
  <3>3. (Receipts(p) \cap verified)' = {y} BY <1>3,<2>1
  <3> QED BY <1>1,<1>4,<1>5,<3>2,<3>3 DEF Collects
 <2> QED BY <2>4,<2>5,<2>6 DEF BooksInv, InvoiceIsCollected, Collects
<1>7. CASE payment[y].status # "PENDING"
 <2>1. UNCHANGED <<verified, invoice>> BY <1>2,<1>7 DEF RecordSettlement
 <2> QED BY <1>1,<1>3,<1>4,<2>1, BooksUntouched
<1> QED BY <1>6,<1>7

LEMMA FailBooks == ASSUME BooksInv, IInv', NEW c \in Clerks, NEW k \in Keys, Fail(c, k) PROVE BooksInv'
<1>1. PICK p \in Purchases : p = clerk[c].purchase BY ConfirmingHolds DEF Fail, BooksInv
<1>2. PICK y \in Payable(p, k) : Close(y, p, k, "FAILED") BY <1>1 DEF Fail
<1>3. \A q \in Purchases : Receipts(q)' = Receipts(q) BY <1>2, CloseReceipts DEF BooksInv, IInv
<1>4. \A q \in Purchases : purchase'[q].price = purchase[q].price BY <1>1 DEF Fail, BooksInv, IInv, RowTypes, PurchaseRows
<1> QED BY <1>3,<1>4, BooksUntouched DEF Fail, books

\* A new row of a purchase: it had no receipts.
LEMMA NewRowBooks ==
  ASSUME BooksInv, IInv', UNCHANGED <<payment, verified, invoice>>, NEW p \in Purchases, purchase[p].status = "ABSENT",
      NEW row, purchase' = [purchase EXCEPT ![p] = row]
  PROVE BooksInv'
<1>1. \A q \in Purchases : Receipts(q)' = Receipts(q) BY SameReceipts
<1>2. Receipts(p) = {} BY DEF BooksInv, IInv, ReceiptsSettled
<1>3. \A q \in Purchases : q # p => purchase'[q] = purchase[q] BY DEF BooksInv, IInv, RowTypes
<1> QED BY <1>1,<1>2,<1>3, BooksUntouched

LEMMA ClerkBooks == ASSUME BooksInv, IInv', NEW c \in Clerks, ClerkStep(c) PROVE BooksInv'
<1>1. ASSUME UNCHANGED <<orders, invoice>> PROVE BooksInv' BY <1>1, SameReceipts, BooksUntouched DEF orders
<1>2. CASE \E p \in Purchases : LockPurchase(c, p) BY <1>1,<1>2 DEF LockPurchase, books
<1>3. CASE \E k \in Keys : Settle(c, k) \/ Fail(c, k) BY <1>3, SettleBooks, FailBooks
<1>4. CASE \E v \in Vouchers, u \in Customers : LockVoucher(c, v, u) BY <1>1,<1>4 DEF LockVoucher, books
<1>5. CASE Redeem(c) BY <1>5, NewRowBooks DEF Redeem, books
<1>6. CASE \E y \in Payments : LockPayment(c, y) BY <1>1,<1>6 DEF LockPayment, books
<1>7. CASE \E k \in Refunds, a \in Totals : RequestRefund(c, k, a) BY <1>1,<1>7 DEF RequestRefund
<1>8. CASE \E p \in Purchases : OpenInvoice(c, p) BY <1>1,<1>8 DEF OpenInvoice, books
<1>9. ASSUME NEW a \in Totals, AddLine(c, a) PROVE BooksInv'
 <2>1. invoice' = [invoice EXCEPT ![clerk[c].purchase].lines = @ + a] BY <1>9 DEF AddLine
 <2>2. a \in Nat BY AmountAssumption
 <2>3. BooksTypes'
  <3>1. ASSUME NEW p \in Purchases PROVE [invoice[p] EXCEPT !.lines = @ + a] \in InvoiceRows BY <2>2 DEF BooksInv, BooksTypes, InvoiceRows
  <3> QED BY <2>1,<3>1 DEF BooksInv, BooksTypes
 <2>4. \A p \in Purchases : /\ invoice'[p].paid = invoice[p].paid
                            /\ invoice'[p].status = invoice[p].status BY <2>1 DEF BooksInv, BooksTypes, InvoiceRows
 <2> QED BY <1>9,<2>3,<2>4, BooksWritten DEF AddLine
<1>10. CASE Retotal(c)
 <2>1. invoice' = [invoice EXCEPT
                    ![clerk[c].purchase].total = invoice[clerk[c].purchase].lines] BY <1>10 DEF Retotal
 <2>2. BooksTypes' BY <2>1 DEF BooksInv, BooksTypes, InvoiceRows
 <2>3. \A p \in Purchases : /\ invoice'[p].paid = invoice[p].paid
                            /\ invoice'[p].status = invoice[p].status BY <2>1 DEF BooksInv, BooksTypes, InvoiceRows
 <2> QED BY <1>10,<2>2,<2>3, BooksWritten DEF Retotal
<1>11. CASE Leave(c) BY <1>1,<1>11 DEF Leave, books
<1> QED BY <1>2,<1>3,<1>4,<1>5,<1>6,<1>7,<1>8,<1>9,<1>10,<1>11 DEF ClerkStep

LEMMA RequestBooks == ASSUME BooksInv, IInv', RequestStep PROVE BooksInv'
<1>1. ASSUME UNCHANGED <<orders, invoice>> PROVE BooksInv' BY <1>1, SameReceipts, BooksUntouched DEF orders
<1>2. ASSUME NEW u \in Customers, NEW b \in BOOLEAN, Create(u, b) PROVE BooksInv' BY <1>2, NewRowBooks DEF Create, books
<1>3. ASSUME NEW p \in Purchases, NEW provider \in {"manual", "external"}, NEW k \in Keys, CreateIntent(p, provider, k) PROVE BooksInv'
 <2>1. \A q \in Purchases : Receipts(q)' = Receipts(q) BY <1>3 DEF CreateIntent, BooksInv, IInv, RowTypes, Receipts
 <2> QED BY <1>3,<2>1, BooksUntouched DEF CreateIntent, books
<1>4. CASE \E V \in SUBSET Vouchers : CreateBatch(V) BY <1>1,<1>4 DEF CreateBatch, books
<1>5. CASE \E k \in Refunds : ApproveRefund(k) BY <1>1,<1>5 DEF ApproveRefund
<1>6. ASSUME NEW p \in Purchases, NEW a \in Totals, Issue(p, a) PROVE BooksInv'
 <2>1. invoice' = [invoice EXCEPT ![p] = [status |-> "ISSUED", total |-> a, lines |-> 0, paid |-> 0]] BY <1>6 DEF Issue
 <2>2. a \in Nat BY AmountAssumption
 <2>3. BooksTypes' BY <2>1,<2>2 DEF BooksInv, BooksTypes, InvoiceRows
 <2>4. \A q \in Purchases : \/ invoice'[q] = invoice[q]
                            \/ invoice'[q].paid = 0 /\ invoice'[q].status = "ISSUED" BY <2>1 DEF BooksInv, BooksTypes
 <2> QED BY <1>6,<2>3,<2>4, BooksWritten DEF Issue
<1>7. ASSUME NEW P \in SUBSET Purchases, SweepOverdue(P) PROVE BooksInv'
 <2>1. invoice' = [p \in Purchases |-> IF p \in P THEN [invoice[p] EXCEPT !.status = "OVERDUE"]
                                       ELSE invoice[p]] BY <1>7 DEF SweepOverdue
 <2>2. BooksTypes' BY <2>1 DEF BooksInv, BooksTypes, InvoiceRows
 <2>3. \A p \in Purchases : /\ invoice'[p].paid = invoice[p].paid
                            /\ invoice'[p].status \in {invoice[p].status, "OVERDUE"} BY <2>1 DEF BooksInv, BooksTypes, InvoiceRows
 <2> QED BY <1>7,<2>2,<2>3, BooksWritten DEF SweepOverdue
<1> QED BY <1>2,<1>3,<1>4,<1>5,<1>6,<1>7 DEF RequestStep

\* An invoice counts as collected only what a verified payment of its purchase brought in
\* (recordVerifiedSettlement), in any order of issue, lines, settlement and sweep.
THEOREM InvoicesAreCollected == Spec => []InvoiceIsCollected
<1>1. Init => BooksInv BY Initially DEF Init, BooksInv, BooksTypes, InvoiceRows, InvoiceIsCollected
<1>2. BooksInv /\ IInv' /\ [Next]_vars => BooksInv'
 <2>1. BooksInv /\ IInv' /\ Next => BooksInv' BY ClerkBooks, RequestBooks DEF Next
 <2>2. BooksInv /\ IInv' /\ UNCHANGED vars => BooksInv' BY SameReceipts, BooksUntouched DEF vars
 <2> QED BY <2>1,<2>2
<1>3. BooksInv => InvoiceIsCollected BY DEF BooksInv
<1> QED BY <1>1,<1>2,<1>3, Invariance, PTL DEF Spec

------------------------
(* The announcement and the promotion of a settlement. *)

WholeInv ==
  /\ IInv
  /\ promo \in [redeemed : Nat, exhausted : BOOLEAN]
  /\ IsFiniteSet(redemption)
  /\ SettlementIsWhole

\* Steps that settle nothing.
LEMMA WholeUntouched ==
  ASSUME WholeInv, IInv', UNCHANGED <<announced, coupons>>,
      \A p \in Purchases : /\ Receipts(p)' = Receipts(p)
                           /\ Receipts(p) # {} => purchase'[p].promo = purchase[p].promo
  PROVE WholeInv'
<1>1. {p \in Purchases : Receipts(p) # {}}' = {p \in Purchases : Receipts(p) # {}} OBVIOUS
<1>2. {p \in announced : purchase[p].promo}' = {p \in announced : purchase[p].promo} BY DEF WholeInv, SettlementIsWhole
<1> QED BY <1>1,<1>2 DEF WholeInv, SettlementIsWhole, coupons

LEMMA SettleWhole == ASSUME WholeInv, IInv', NEW c \in Clerks, NEW k \in Keys, Settle(c, k) PROVE WholeInv'
<1>1. PICK p \in Purchases :
        p = clerk[c].purchase /\ Receipts(p) = {} BY ConfirmingHolds DEF Settle, WholeInv
<1>2. PICK y \in Payable(p, k) : Close(y, p, k, "PAID") BY <1>1 DEF Settle
<1>3. /\ \A q \in Purchases : q # p => Receipts(q)' = Receipts(q)
      /\ Receipts(p)' = {y} BY <1>1,<1>2, CloseReceipts DEF WholeInv, IInv
<1>4. announced' = announced \cup {p} /\ RecordRedemption(p) BY <1>1 DEF Settle
<1>5. \A q \in Purchases : purchase'[q].promo = purchase[q].promo BY <1>1 DEF Settle, WholeInv, IInv, RowTypes, PurchaseRows
<1>6. announced' = {q \in Purchases : Receipts(q) # {}}' BY <1>3,<1>4 DEF WholeInv, SettlementIsWhole
<1>7. p \notin redemption BY <1>1 DEF WholeInv, SettlementIsWhole
<1>8. CASE purchase[p].promo
 <2>1. /\ redemption' = redemption \cup {p}
       /\ promo' = [redeemed |-> promo.redeemed + 1,
                    exhausted |-> promo.exhausted \/ promo.redeemed + 1 >= PromoLimit] BY <1>4,<1>7,<1>8 DEF RecordRedemption
 <2>2. redemption' = {q \in announced : purchase[q].promo}' BY <1>4,<1>5,<1>8,<2>1 DEF WholeInv, SettlementIsWhole
 <2>3. IsFiniteSet(redemption') /\ Cardinality(redemption') = Cardinality(redemption) + 1 BY <1>7,<2>1, FS_AddElement DEF WholeInv
 <2>4. promo' \in [redeemed : Nat, exhausted : BOOLEAN] BY <2>1 DEF WholeInv
 <2>5. promo'.redeemed = Cardinality(redemption') BY <2>1,<2>3 DEF WholeInv, SettlementIsWhole
 <2>6. promo'.exhausted <=> redemption' # {} /\ promo'.redeemed >= PromoLimit
  <3>1. promo.redeemed >= PromoLimit => promo.redeemed + 1 >= PromoLimit BY AmountAssumption DEF WholeInv
  <3>2. promo.exhausted => promo.redeemed >= PromoLimit BY Zenon DEF WholeInv, SettlementIsWhole
  <3>3. promo'.redeemed = promo.redeemed + 1 BY <2>1
  <3>4. promo'.exhausted = (promo.exhausted \/ promo.redeemed + 1 >= PromoLimit) BY <2>1
  <3>5. redemption' # {} BY <2>1
  <3> QED BY <3>1,<3>2,<3>3,<3>4,<3>5, Zenon
 <2> QED BY <1>6,<2>2,<2>3,<2>4,<2>5,<2>6 DEF WholeInv, SettlementIsWhole
<1>9. CASE ~purchase[p].promo
 <2>1. UNCHANGED coupons BY <1>4,<1>9 DEF RecordRedemption
 <2>2. {q \in announced : purchase[q].promo}' = {q \in announced : purchase[q].promo} BY <1>4,<1>5,<1>9 DEF WholeInv, SettlementIsWhole
 <2> QED BY <1>6,<2>1,<2>2 DEF WholeInv, SettlementIsWhole, coupons
<1> QED BY <1>8,<1>9

LEMMA FailWhole == ASSUME WholeInv, IInv', NEW c \in Clerks, NEW k \in Keys, Fail(c, k) PROVE WholeInv'
<1>1. PICK p \in Purchases : p = clerk[c].purchase BY ConfirmingHolds DEF Fail, WholeInv
<1>2. PICK y \in Payable(p, k) : Close(y, p, k, "FAILED") BY <1>1 DEF Fail
<1>3. \A q \in Purchases : Receipts(q)' = Receipts(q) BY <1>2, CloseReceipts DEF WholeInv, IInv
<1>4. \A q \in Purchases : purchase'[q].promo = purchase[q].promo BY <1>1 DEF Fail, WholeInv, IInv, RowTypes, PurchaseRows
<1> QED BY <1>3,<1>4, WholeUntouched DEF Fail

LEMMA NewRowWhole ==
  ASSUME WholeInv, IInv', UNCHANGED <<payment, announced, coupons>>, NEW p \in Purchases, purchase[p].status = "ABSENT",
      NEW row, purchase' = [purchase EXCEPT ![p] = row]
  PROVE WholeInv'
<1>1. \A q \in Purchases : Receipts(q)' = Receipts(q) BY SameReceipts
<1>2. Receipts(p) = {} BY DEF WholeInv, IInv, ReceiptsSettled
<1>3. \A q \in Purchases : q # p => purchase'[q] = purchase[q] BY DEF WholeInv, IInv, RowTypes
<1> QED BY <1>1,<1>2,<1>3, WholeUntouched

LEMMA EveryWhole == ASSUME WholeInv, IInv', [Next]_vars PROVE WholeInv'
<1>1. ASSUME UNCHANGED <<orders, coupons>> PROVE WholeInv' BY <1>1, SameReceipts, WholeUntouched DEF orders
<1>2. ASSUME NEW u \in Customers, NEW b \in BOOLEAN, Create(u, b) PROVE WholeInv' BY <1>2, NewRowWhole DEF Create
<1>3. ASSUME NEW p \in Purchases, NEW provider \in {"manual", "external"}, NEW k \in Keys, CreateIntent(p, provider, k) PROVE WholeInv'
 <2>1. \A q \in Purchases : Receipts(q)' = Receipts(q) BY <1>3 DEF CreateIntent, WholeInv, IInv, RowTypes, Receipts
 <2> QED BY <1>3,<2>1, WholeUntouched DEF CreateIntent
<1>4. ASSUME NEW c \in Clerks, Redeem(c) PROVE WholeInv' BY <1>4, NewRowWhole DEF Redeem
<1>5. CASE RequestStep BY <1>1,<1>2,<1>3,<1>5 DEF RequestStep, CreateBatch, ApproveRefund, Issue, SweepOverdue
<1>6. ASSUME NEW c \in Clerks, ClerkStep(c) PROVE WholeInv' BY <1>1,<1>4,<1>6, SettleWhole, FailWhole DEF ClerkStep, LockPurchase, LockVoucher,
  LockPayment, RequestRefund, OpenInvoice, AddLine, Retotal, Leave
<1>7. CASE UNCHANGED vars BY <1>1,<1>7 DEF vars, orders, coupons
<1> QED BY <1>5,<1>6,<1>7 DEF Next

\* A settlement is announced and its promotion counted in the transaction that closes the
\* payment (confirmPayment, recordRedemption): once, and never without the others.
THEOREM SettlementsAreWhole == Spec => []SettlementIsWhole
<1>1. Init => WholeInv
 <2>1. IsFiniteSet({}) /\ Cardinality({}) = 0 BY FS_EmptySet
 <2>2. Init => \A p \in Purchases : Receipts(p) = {} BY DEF Init, Receipts
 <2> QED BY <2>1,<2>2, Initially DEF Init, WholeInv, SettlementIsWhole
<1>2. WholeInv /\ IInv' /\ [Next]_vars => WholeInv' BY EveryWhole
<1>3. WholeInv => SettlementIsWhole BY DEF WholeInv
<1> QED BY <1>1,<1>2,<1>3, Invariance, PTL DEF Spec

------------------------
(* Vouchers and free trials. *)

\* A redemption in flight holds its voucher unused and its customer without a trial, and
\* there is one at a time.
VoucherHeld ==
  /\ \A c \in Clerks : clerk[c].op = "redeem" =>
       clerk[c].voucher \in Vouchers /\ voucher[clerk[c].voucher] = "UNUSED" /\ ~TrialClaimed(clerk[c].customer)
  /\ \A c, d \in Clerks : clerk[c].op = "redeem" /\ clerk[d].op = "redeem" => c = d

VoucherTypes == voucher \in [Vouchers -> {"ABSENT", "UNUSED", "USED"}] /\ redeemed \in [Vouchers -> Purchases \cup {None}]

UsedAreRedeemed == \A v \in Vouchers : voucher[v] = "USED" <=> redeemed[v] # None

VouchersInv == IInv /\ VoucherTypes /\ VoucherHeld /\ UsedAreRedeemed /\ VoucherIsUsedOnce /\ FreeTrialOnce

\* The purchases of one claimant.
Trials(u) == {p \in ByVoucher : purchase[p].customer \in Peers(u)}

\* One claimant's customers are the same whichever of them asks.
LEMMA PeersShare == ASSUME NEW u \in Customers, NEW w \in Customers, u \in Peers(w) PROVE Peers(w) = Peers(u) BY TrialAssumption DEF Peers

LEMMA TrialsSame ==
  ASSUME ByVoucher' = ByVoucher, \A p \in ByVoucher : purchase'[p].customer = purchase[p].customer
  PROVE \A u \in Customers : Trials(u)' = Trials(u) BY DEF Trials, Peers

\* Steps that use no voucher and, if a redemption is in flight, leave the customers of
\* the purchases alone.
LEMMA VouchersUntouched ==
  ASSUME VouchersInv, IInv', UNCHANGED vouchers, ByVoucher' = ByVoucher, \A p \in ByVoucher : purchase'[p].customer = purchase[p].customer,
      \A d \in Clerks : clerk'[d].op = "redeem" => clerk'[d] = clerk[d],
      PackageFree \/ \A p \in Purchases : purchase'[p].customer = purchase[p].customer
  PROVE VouchersInv'
<1>1. VoucherTypes' /\ UsedAreRedeemed' /\ VoucherIsUsedOnce' BY DEF VouchersInv, VoucherTypes, UsedAreRedeemed, VoucherIsUsedOnce, vouchers
<1>2. FreeTrialOnce'
 <2>1. \A u \in Customers : Trials(u)' = Trials(u) BY TrialsSame
 <2>2. FreeTrialOnce <=> \A u \in Customers : Cardinality(Trials(u)) <= 1 BY DEF FreeTrialOnce, Trials
 <2>3. FreeTrialOnce' <=> \A u \in Customers : Cardinality(Trials(u)') <= 1 BY DEF FreeTrialOnce, Trials
 <2> QED BY <2>1,<2>2,<2>3 DEF VouchersInv
<1>3. VoucherHeld'
 <2>1. ASSUME NEW c \in Clerks, clerk'[c].op = "redeem"
   PROVE clerk'[c].voucher \in Vouchers /\ voucher'[clerk'[c].voucher] = "UNUSED" /\ ~TrialClaimed(clerk[c].customer)'
  <3>1. clerk'[c] = clerk[c] /\ clerk[c].op = "redeem" BY <2>1
  <3>2. clerk[c].customer \in Customers /\ ~TrialClaimed(clerk[c].customer) BY <3>1 DEF VouchersInv, VoucherHeld, IInv, LocksHeld, Holds
  <3>3. \A p \in Purchases : purchase'[p].customer = purchase[p].customer BY <3>1 DEF PackageFree
  <3>4. \A p \in Purchases : purchase'[p].customer \notin Peers(clerk[c].customer) BY <3>2,<3>3 DEF TrialClaimed
  <3>5. ~TrialClaimed(clerk[c].customer)' BY <3>1,<3>4 DEF TrialClaimed, Peers
  <3> QED BY <3>1,<3>5 DEF VouchersInv, VoucherHeld, vouchers
 <2>2. \A c, d \in Clerks : clerk'[c].op = "redeem" /\ clerk'[d].op = "redeem" => c = d BY DEF VouchersInv, VoucherHeld
 <2> QED BY <2>1,<2>2 DEF VoucherHeld
<1> QED BY <1>1,<1>2,<1>3 DEF VouchersInv

\* What settles by a payment is no purchase that a voucher settled, before or after.
LEMMA ByVoucherSame ==
  ASSUME NEW p, p \notin ByVoucher, purchase'[p].status = "PAID" => Receipts(p)' # {},
      \A q \in Purchases : q # p => /\ Receipts(q)' = Receipts(q)
                                    /\ purchase'[q] = purchase[q]
  PROVE  /\ ByVoucher' = ByVoucher
         /\ \A q \in ByVoucher : purchase'[q].customer = purchase[q].customer
<1>1. ByVoucher' = {q \in Purchases : purchase'[q].status = "PAID" /\ Receipts(q)' = {}} BY DEF ByVoucher
<1>2. \A q \in Purchases : q \in ByVoucher' <=> q \in ByVoucher
 <2>1. TAKE q \in Purchases
 <2>2. CASE q = p BY <1>1,<2>2
 <2>3. CASE q # p BY <1>1,<2>3 DEF ByVoucher
 <2> QED BY <2>2,<2>3
<1>3. ByVoucher' \subseteq Purchases /\ ByVoucher \subseteq Purchases BY <1>1 DEF ByVoucher
<1>4. ByVoucher' = ByVoucher BY <1>2,<1>3
<1> QED BY <1>3,<1>4

LEMMA SettleVouchers == ASSUME VouchersInv, IInv', NEW c \in Clerks, NEW k \in Keys, Settle(c, k) PROVE VouchersInv'
<1>1. IInv BY DEF VouchersInv
<1>2. PICK p \in Purchases :
        p = clerk[c].purchase /\ Receipts(p) = {} /\ purchase[p].status = "PENDING_PAYMENT" BY <1>1, ConfirmingHolds DEF Settle
<1>3. PICK y \in Payable(p, k) : Close(y, p, k, "PAID") BY <1>2 DEF Settle
<1>4. /\ \A q \in Purchases : q # p => Receipts(q)' = Receipts(q)
      /\ Receipts(p)' = {y} BY <1>1,<1>2,<1>3, CloseReceipts DEF IInv
<1>5. \A q \in Purchases : q # p => purchase'[q] = purchase[q] BY <1>1,<1>2 DEF Settle, IInv, RowTypes
<1>6. p \notin ByVoucher BY <1>2 DEF ByVoucher
<1>7. /\ ByVoucher' = ByVoucher
      /\ \A q \in ByVoucher : purchase'[q].customer = purchase[q].customer BY <1>4,<1>5,<1>6, ByVoucherSame
<1>8. \A d \in Clerks : clerk'[d].op = "redeem" => clerk'[d] = clerk[d] BY <1>1 DEF Settle, Done, Become, Idle, IInv, LocksHeld
<1>9. PackageFree /\ UNCHANGED vouchers BY DEF Settle
<1> QED BY <1>7,<1>8,<1>9, VouchersUntouched

LEMMA FailVouchers == ASSUME VouchersInv, IInv', NEW c \in Clerks, NEW k \in Keys, Fail(c, k) PROVE VouchersInv'
<1>1. IInv BY DEF VouchersInv
<1>2. PICK p \in Purchases : p = clerk[c].purchase /\ purchase[p].status = "PENDING_PAYMENT" BY <1>1, ConfirmingHolds DEF Fail
<1>3. PICK y \in Payable(p, k) : Close(y, p, k, "FAILED") BY <1>2 DEF Fail
<1>4. \A q \in Purchases : Receipts(q)' = Receipts(q) BY <1>1,<1>3, CloseReceipts DEF IInv
<1>5. purchase' = [purchase EXCEPT ![p].status = "CANCELED"] BY <1>2 DEF Fail
<1>6. /\ \A q \in Purchases : q # p => purchase'[q] = purchase[q]
      /\ purchase'[p].status = "CANCELED"
      /\ purchase'[p].customer = purchase[p].customer BY <1>1,<1>5 DEF IInv, RowTypes, PurchaseRows
<1>7. p \notin ByVoucher BY <1>2 DEF ByVoucher
<1>8. /\ ByVoucher' = ByVoucher
      /\ \A q \in ByVoucher : purchase'[q].customer = purchase[q].customer BY <1>4,<1>6,<1>7, ByVoucherSame
<1>9. \A d \in Clerks : clerk'[d].op = "redeem" => clerk'[d] = clerk[d] BY <1>1 DEF Fail, Done, Become, Idle, IInv, LocksHeld
<1>10. \A q \in Purchases : purchase'[q].customer = purchase[q].customer BY <1>6
<1>11. UNCHANGED vouchers BY DEF Fail
<1> QED BY <1>8,<1>9,<1>10,<1>11, VouchersUntouched

LEMMA CreateVouchers == ASSUME VouchersInv, IInv', NEW u \in Customers, NEW b \in BOOLEAN, Create(u, b) PROVE VouchersInv'
<1>1. IInv BY DEF VouchersInv
<1>2. PICK p \in Purchases :
        /\ purchase[p].status = "ABSENT"
        /\ purchase' = [purchase EXCEPT ![p] =
             [status |-> "PENDING_PAYMENT", customer |-> u, promo |-> b, price |-> IF b THEN Price - Discount ELSE Price]] BY DEF Create
<1>3. /\ \A q \in Purchases : q # p => purchase'[q] = purchase[q]
      /\ purchase'[p].status = "PENDING_PAYMENT" BY <1>1,<1>2 DEF IInv, RowTypes
<1>4. \A q \in Purchases : Receipts(q)' = Receipts(q) BY SameReceipts DEF Create
<1>5. p \notin ByVoucher BY <1>2 DEF ByVoucher
<1>6. /\ ByVoucher' = ByVoucher
      /\ \A q \in ByVoucher : purchase'[q].customer = purchase[q].customer BY <1>3,<1>4,<1>5, ByVoucherSame
<1>7. PackageFree /\ UNCHANGED <<vouchers, clerk>> BY DEF Create
<1> QED BY <1>6,<1>7, VouchersUntouched

\* A redemption: one more voucher is used, for one more purchase, of a claimant with none.
LEMMA RedeemVouchers == ASSUME VouchersInv, IInv', NEW c \in Clerks, Redeem(c) PROVE VouchersInv'
<1>1. IInv /\ VoucherTypes /\ VoucherHeld /\ UsedAreRedeemed /\ VoucherIsUsedOnce /\ FreeTrialOnce BY DEF VouchersInv
<1>2. PICK u \in Customers, v \in Vouchers :
        u = clerk[c].customer /\ v = clerk[c].voucher /\ voucher[v] = "UNUSED" /\ ~TrialClaimed(u)
          BY <1>1 DEF Redeem, IInv, LocksHeld, Holds, VoucherHeld
<1>3. PICK p \in Purchases :
        /\ purchase[p].status = "ABSENT"
        /\ purchase' = [purchase EXCEPT ![p] =
             [status |-> "PAID", customer |-> u, price |-> Price, promo |-> FALSE]]
        /\ voucher' = [voucher EXCEPT ![v] = "USED"]
        /\ redeemed' = [redeemed EXCEPT ![v] = IF @ = None THEN p ELSE @] BY <1>2 DEF Redeem
<1>4. /\ \A q \in Purchases : q # p => purchase'[q] = purchase[q]
      /\ purchase'[p].status = "PAID"
      /\ purchase'[p].customer = u BY <1>1,<1>3 DEF IInv, RowTypes
<1>5. \A q \in Purchases : Receipts(q)' = Receipts(q) BY SameReceipts DEF Redeem
<1>6. Receipts(p) = {} /\ p \notin ByVoucher BY <1>1,<1>3 DEF IInv, ReceiptsSettled, ByVoucher
<1>7. ByVoucher' = ByVoucher \cup {p} BY <1>4,<1>5,<1>6 DEF ByVoucher
<1>8. redeemed[v] = None BY <1>1,<1>2 DEF UsedAreRedeemed
<1>9. /\ voucher'[v] = "USED" /\ redeemed'[v] = p /\ p # None
      /\ \A w \in Vouchers : w # v => voucher'[w] = voucher[w] /\ redeemed'[w] = redeemed[w] BY <1>1,<1>3,<1>8, NoneAssumption DEF VoucherTypes
<1>10. VoucherTypes' BY <1>1,<1>3,<1>8 DEF VoucherTypes
<1>11. UsedAreRedeemed' BY <1>1,<1>9 DEF UsedAreRedeemed
<1>12. VoucherIsUsedOnce'
 <2> DEFINE Used == {w \in Vouchers : voucher[w] = "USED"}
            Named == {redeemed[w] : w \in Vouchers}
 <2>1. Used' = Used \cup {v} /\ v \notin Used BY <1>2,<1>9
 <2>2. IsFiniteSet(Used) /\ IsFiniteSet(ByVoucher) BY PoolAssumption, FS_Subset DEF ByVoucher
 <2>3. Cardinality(Used \cup {v}) = Cardinality(Used) + 1 BY <2>1,<2>2, FS_AddElement
 <2>4. Cardinality(ByVoucher \cup {p}) = Cardinality(ByVoucher) + 1 BY <1>6,<2>2, FS_AddElement
 <2>5. Cardinality(ByVoucher') = Cardinality(Used') BY <1>1,<1>7,<2>1,<2>3,<2>4 DEF VoucherIsUsedOnce
 <2>6. Named' \ {None} = (Named \ {None}) \cup {p}
  <3>1. Named' = {redeemed'[w] : w \in Vouchers} OBVIOUS
  <3>2. \A x \in Named' \ {None} : x \in (Named \ {None}) \cup {p} BY <1>9,<3>1
  <3>3. \A x \in (Named \ {None}) \cup {p} : x \in Named' \ {None} BY <1>8,<1>9,<3>1
  <3> QED BY <3>2,<3>3
 <2> QED BY <1>1,<1>7,<2>5,<2>6 DEF VoucherIsUsedOnce
<1>13. FreeTrialOnce'
 <2>1. ASSUME NEW w \in Customers PROVE Cardinality(Trials(w)') <= 1
  <3>1. Trials(w)' = {q \in ByVoucher' : purchase'[q].customer \in Peers(w)} BY DEF Trials, Peers
  <3>2. CASE u \in Peers(w)
   <4>1. Peers(w) = Peers(u) BY <3>2, PeersShare
   <4>2. \A q \in ByVoucher : q \in Purchases /\ purchase[q].customer \notin Peers(w) BY <1>2,<4>1 DEF TrialClaimed, ByVoucher
   <4>3. \A q \in ByVoucher : q # p BY <1>6
   <4>4. Trials(w)' = {p} BY <1>4,<1>7,<3>1,<3>2,<4>2,<4>3
   <4>5. Cardinality({p}) = 1 BY FS_Singleton, Zenon
   <4> QED BY <4>4,<4>5
  <3>3. CASE u \notin Peers(w)
   <4>1. \A q \in ByVoucher : q \in Purchases /\ q # p BY <1>6 DEF ByVoucher
   <4>2. Trials(w)' = Trials(w) BY <1>4,<1>7,<3>1,<3>3,<4>1 DEF Trials
   <4> QED BY <1>1,<4>2 DEF FreeTrialOnce, Trials
  <3> QED BY <3>2,<3>3
 <2>2. FreeTrialOnce' <=> \A w \in Customers : Cardinality(Trials(w)') <= 1 BY DEF FreeTrialOnce, Trials
 <2> QED BY <2>1,<2>2
<1>14. VoucherHeld'
 <2>1. \A d \in Clerks : clerk'[d].op # "redeem" BY <1>1 DEF Redeem, Done, Become, Idle, IInv, LocksHeld, VoucherHeld
 <2> QED BY <2>1 DEF VoucherHeld
<1> QED BY <1>10,<1>11,<1>12,<1>13,<1>14 DEF VouchersInv

LEMMA BatchVouchers == ASSUME VouchersInv, IInv', NEW V \in SUBSET Vouchers, CreateBatch(V) PROVE VouchersInv'
<1>1. /\ VoucherTypes /\ UsedAreRedeemed /\ VoucherIsUsedOnce /\ FreeTrialOnce BY DEF VouchersInv
<1>2. /\ UNCHANGED <<purchase, payment, redeemed, clerk>> /\ PackageFree
      /\ voucher' = [v \in Vouchers |-> IF v \in V THEN "UNUSED" ELSE voucher[v]]
      /\ \A v \in V : voucher[v] = "ABSENT" BY DEF CreateBatch, orders
<1>3. ByVoucher' = ByVoucher BY <1>2, SameReceipts DEF ByVoucher
<1>4. \A v \in Vouchers : voucher'[v] = "USED" <=> voucher[v] = "USED" BY <1>2
<1>5. VoucherTypes' /\ UsedAreRedeemed' BY <1>1,<1>2,<1>4 DEF VoucherTypes, UsedAreRedeemed
<1>6. VoucherIsUsedOnce' BY <1>1,<1>2,<1>3,<1>4 DEF VoucherIsUsedOnce
<1>7. FreeTrialOnce'
 <2>1. \A u \in Customers : Trials(u)' = Trials(u) BY <1>2,<1>3, TrialsSame
 <2>2. FreeTrialOnce' <=> \A u \in Customers : Cardinality(Trials(u)') <= 1 BY DEF FreeTrialOnce, Trials
 <2> QED BY <1>1,<2>1,<2>2 DEF FreeTrialOnce, Trials
<1>8. VoucherHeld' BY <1>2 DEF PackageFree, VoucherHeld
<1> QED BY <1>5,<1>6,<1>7,<1>8 DEF VouchersInv

LEMMA LockVouchers == ASSUME VouchersInv, IInv', NEW c \in Clerks, NEW v \in Vouchers, NEW u \in Customers, LockVoucher(c, v, u) PROVE VouchersInv'
<1>1. /\ IInv /\ VoucherTypes /\ UsedAreRedeemed /\ VoucherIsUsedOnce /\ FreeTrialOnce BY DEF VouchersInv
<1>2. /\ UNCHANGED <<purchase, payment, voucher, redeemed>> /\ PackageFree
      /\ voucher[v] = "UNUSED" /\ ~TrialClaimed(u)
      /\ clerk' = [clerk EXCEPT ![c] = [op |-> "redeem", voucher |-> v, customer |-> u]] BY DEF LockVoucher, orders, vouchers, Begin
<1>3. /\ clerk'[c] = [op |-> "redeem", voucher |-> v, customer |-> u]
      /\ \A d \in Clerks : d # c => clerk'[d] = clerk[d] BY <1>1,<1>2 DEF IInv, LocksHeld
<1>4. ByVoucher' = ByVoucher BY <1>2, SameReceipts DEF ByVoucher
<1>5. VoucherTypes' /\ UsedAreRedeemed' /\ VoucherIsUsedOnce' BY <1>1,<1>2,<1>4 DEF VoucherTypes, UsedAreRedeemed, VoucherIsUsedOnce
<1>6. FreeTrialOnce'
 <2>1. \A w \in Customers : Trials(w)' = Trials(w) BY <1>2,<1>4, TrialsSame
 <2>2. FreeTrialOnce' <=> \A w \in Customers : Cardinality(Trials(w)') <= 1 BY DEF FreeTrialOnce, Trials
 <2> QED BY <1>1,<2>1,<2>2 DEF FreeTrialOnce, Trials
<1>7. VoucherHeld'
 <2>1. \A d \in Clerks : clerk'[d].op = "redeem" => d = c BY <1>2,<1>3 DEF PackageFree
 <2>2. ~(\E p \in Purchases : purchase'[p].customer \in Peers(u)) BY <1>2 DEF TrialClaimed
 <2>3. ASSUME NEW d \in Clerks, clerk'[d].op = "redeem"
   PROVE  /\ clerk'[d].voucher \in Vouchers
          /\ voucher'[clerk'[d].voucher] = "UNUSED"
          /\ ~\E p \in Purchases : purchase'[p].customer \in Peers(clerk'[d].customer) BY <1>2,<1>3,<2>1,<2>2,<2>3
 <2> QED BY <2>1,<2>3 DEF VoucherHeld, TrialClaimed, Peers
<1> QED BY <1>5,<1>6,<1>7 DEF VouchersInv

\* Steps of the others: purchases, payments and vouchers stay, and no redemption begins.
LEMMA OthersVouchers ==
  ASSUME VouchersInv, IInv', UNCHANGED <<orders, vouchers>>, \A d \in Clerks : clerk'[d].op = "redeem" => clerk'[d] = clerk[d] PROVE VouchersInv'
<1>1. ByVoucher' = ByVoucher BY SameReceipts DEF ByVoucher, orders
<1> QED BY <1>1, VouchersUntouched DEF orders

LEMMA OtherClerkVouchers ==
  ASSUME VouchersInv, IInv', UNCHANGED <<orders, vouchers>>, NEW c \in Clerks, NEW r, r.op # "redeem", clerk' = [clerk EXCEPT ![c] = r]
  PROVE VouchersInv'
<1>1. \A d \in Clerks : clerk'[d].op = "redeem" => clerk'[d] = clerk[d] BY DEF VouchersInv, IInv, LocksHeld
<1> QED BY <1>1, OthersVouchers

LEMMA EveryVouchers == ASSUME VouchersInv, IInv', [Next]_vars PROVE VouchersInv'
<1>1. ASSUME UNCHANGED <<orders, vouchers, clerk>> PROVE VouchersInv' BY <1>1, OthersVouchers
<1>2. ASSUME NEW p \in Purchases, NEW provider \in {"manual", "external"}, NEW k \in Keys, CreateIntent(p, provider, k) PROVE VouchersInv'
 <2>1. \A q \in Purchases : Receipts(q)' = Receipts(q) BY <1>2 DEF CreateIntent, VouchersInv, IInv, RowTypes, Receipts
 <2>2. ByVoucher' = ByVoucher BY <1>2,<2>1 DEF CreateIntent, ByVoucher
 <2> QED BY <1>2,<2>2, VouchersUntouched DEF CreateIntent
<1>3. CASE RequestStep BY <1>1,<1>2,<1>3, CreateVouchers, BatchVouchers DEF RequestStep, ApproveRefund, Issue, SweepOverdue
<1>4. ASSUME NEW c \in Clerks, ClerkStep(c) PROVE VouchersInv'
 <2>1. ASSUME NEW r, r.op # "redeem", clerk' = [clerk EXCEPT ![c] = r], UNCHANGED <<orders, vouchers>> PROVE VouchersInv' BY <2>1, OtherClerkVouchers
 <2>2. ASSUME Done(c), UNCHANGED <<orders, vouchers>> PROVE VouchersInv' BY <2>1,<2>2 DEF Done, Become, Idle
 <2>3. CASE \E p \in Purchases : LockPurchase(c, p) BY <2>1,<2>3 DEF LockPurchase, Begin
 <2>4. CASE \E y \in Payments : LockPayment(c, y) BY <2>1,<2>4 DEF LockPayment, Begin
 <2>5. CASE \E p \in Purchases : OpenInvoice(c, p) BY <2>1,<2>5 DEF OpenInvoice, Begin
 <2>6. CASE \E a \in Totals : AddLine(c, a) BY <2>1,<2>6 DEF AddLine, Become
 <2>7. CASE \E k \in Refunds, a \in Totals : RequestRefund(c, k, a) BY <2>2,<2>7 DEF RequestRefund
 <2>8. CASE Retotal(c) \/ Leave(c) BY <2>2,<2>8 DEF Retotal, Leave
 <2> QED BY <1>4,<2>3,<2>4,<2>5,<2>6,<2>7,<2>8, SettleVouchers, FailVouchers, LockVouchers, RedeemVouchers DEF ClerkStep
<1>5. CASE UNCHANGED vars BY <1>1,<1>5 DEF vars, orders, vouchers
<1> QED BY <1>3,<1>4,<1>5 DEF Next

------------------------
(* Refunds. *)

\* A refund in flight holds its payment: the total it has read is the total there is.
RefundHeld ==
  /\ \A c \in Clerks : clerk[c].op = "refund" =>
       clerk[c].payment \in Payments /\ payment[clerk[c].payment].status = "PAID" /\ clerk[c].used = RefundTotal(clerk[c].payment)
  /\ \A c, d \in Clerks : /\ clerk[c].op = "refund"
                          /\ clerk[d].op = "refund"
                          /\ clerk[c].payment = clerk[d].payment
                          => c = d

PaymentsNamed == \A y \in Payments : payment[y].status # "ABSENT" => payment[y].purchase \in Purchases

RefundsInv == IInv /\ refund \in [Refunds -> RefundRows] /\ PaymentsNamed /\ RefundHeld /\ RefundWithinPayment

LEMMA RefundedSame ==
  ASSUME NEW y, \A k \in Refunds : /\ refund'[k].amount = refund[k].amount
                                   /\ refund'[k].payment = refund[k].payment
                                   /\ refund'[k].status = "ABSENT" <=> refund[k].status = "ABSENT"
  PROVE Refunded(y)' = Refunded(y) /\ RefundTotal(y)' = RefundTotal(y)
<1>1. Refunded(y)' = Refunded(y) BY DEF Refunded
<1>2. Refunded(y) \subseteq Refunds BY DEF Refunded
<1>3. [k \in Refunded(y) |-> refund[k].amount]' = [k \in Refunded(y) |-> refund[k].amount] BY <1>1,<1>2
<1> QED BY <1>1,<1>3 DEF RefundTotal

\* Steps that promise nothing more to anyone.
LEMMA RefundsUntouched ==
  ASSUME RefundsInv, IInv', refund' \in [Refunds -> RefundRows], \A y \in Payments : Refunded(y)' = Refunded(y) /\ RefundTotal(y)' = RefundTotal(y),
      PaymentsNamed',
      \A y \in Payments : payment[y].status = "PAID" =>
        /\ payment'[y] = payment[y]
        /\ purchase'[payment[y].purchase].price = purchase[payment[y].purchase].price,
      \A d \in Clerks : clerk'[d].op = "refund" => clerk'[d] = clerk[d]
  PROVE RefundsInv'
<1>1. RefundHeld'
 <2>1. ASSUME NEW c \in Clerks, clerk'[c].op = "refund"
   PROVE clerk'[c].payment \in Payments /\ payment'[clerk'[c].payment].status = "PAID" /\ clerk'[c].used = RefundTotal(clerk[c].payment)'
  <3>1. clerk'[c] = clerk[c] BY <2>1
  <3>2. clerk[c].payment \in Payments /\ payment[clerk[c].payment].status = "PAID" /\ clerk[c].used = RefundTotal(clerk[c].payment)
    BY <2>1,<3>1 DEF RefundsInv, RefundHeld
  <3> QED BY <3>1,<3>2
 <2>2. ASSUME NEW c \in Clerks, NEW d \in Clerks, clerk'[c].op = "refund", clerk'[d].op = "refund", clerk'[c].payment = clerk'[d].payment
   PROVE c = d BY <2>2 DEF RefundsInv, RefundHeld
 <2> QED BY <2>1,<2>2 DEF RefundHeld
<1>2. RefundWithinPayment'
 <2>1. ASSUME NEW y \in Payments, Refunded(y)' # {}
   PROVE payment'[y].status = "PAID" /\ RefundTotal(y)' <= purchase'[payment'[y].purchase].price
  <3>1. Refunded(y) # {} /\ RefundTotal(y)' = RefundTotal(y) BY <2>1
  <3>2. payment[y].status = "PAID" /\ RefundTotal(y) <= purchase[payment[y].purchase].price BY <3>1 DEF RefundsInv, RefundWithinPayment
  <3> QED BY <3>1,<3>2
 <2> QED BY <2>1 DEF RefundWithinPayment
<1> QED BY <1>1,<1>2 DEF RefundsInv

\* The same for the steps that write no refund.
LEMMA RefundsStay ==
  ASSUME RefundsInv, IInv', UNCHANGED refund, PaymentsNamed',
      \A y \in Payments : payment[y].status = "PAID" =>
        /\ payment'[y] = payment[y]
        /\ purchase'[payment[y].purchase].price = purchase[payment[y].purchase].price,
      \A d \in Clerks : clerk'[d].op = "refund" => clerk'[d] = clerk[d]
  PROVE RefundsInv'
<1>1. \A y \in Payments : Refunded(y)' = Refunded(y) /\ RefundTotal(y)' = RefundTotal(y) BY RefundedSame
<1>2. refund' \in [Refunds -> RefundRows] BY DEF RefundsInv
<1> QED BY <1>1,<1>2, RefundsUntouched

LEMMA CloseRefunds ==
  ASSUME RefundsInv, IInv', UNCHANGED refund, NEW c \in Clerks, Done(c), NEW p \in Purchases, NEW k \in Keys, NEW y \in Payable(p, k),
      NEW s \in {"PAID", "FAILED"}, Close(y, p, k, s), NEW t, purchase' = [purchase EXCEPT ![p].status = t]
  PROVE RefundsInv'
<1>1. IInv BY DEF RefundsInv
<1>2. y \in Payments /\ payment[y].status \in {"ABSENT", "PENDING"} BY PayableIsOpen
<1>3. /\ \A z \in Payments : z # y => payment'[z] = payment[z]
      /\ payment'[y].purchase = p BY <1>1,<1>2 DEF Close, IInv, RowTypes
<1>4. PaymentsNamed' BY <1>3 DEF RefundsInv, PaymentsNamed
<1>5. \A z \in Payments : payment[z].status = "PAID" => payment'[z] = payment[z] BY <1>2,<1>3
<1>6. \A q \in Purchases : purchase'[q].price = purchase[q].price BY <1>1 DEF IInv, RowTypes, PurchaseRows
<1>7. \A z \in Payments : payment[z].status = "PAID" => payment[z].purchase \in Purchases BY DEF RefundsInv, PaymentsNamed
<1>8. \A d \in Clerks : clerk'[d].op = "refund" => clerk'[d] = clerk[d] BY <1>1 DEF Done, Become, Idle, IInv, LocksHeld
<1> QED BY <1>4,<1>5,<1>6,<1>7,<1>8, RefundsStay

LEMMA NewRowRefunds ==
  ASSUME RefundsInv, IInv', UNCHANGED <<payment, refund>>, NEW p \in Purchases, purchase[p].status = "ABSENT",
      NEW row, purchase' = [purchase EXCEPT ![p] = row], \A d \in Clerks : clerk'[d].op = "refund" => clerk'[d] = clerk[d]
  PROVE RefundsInv'
<1>1. IInv /\ PaymentsNamed BY DEF RefundsInv
<1>2. \A q \in Purchases : q # p => purchase'[q] = purchase[q] BY <1>1 DEF IInv, RowTypes
<1>3. \A y \in Payments : payment[y].status = "PAID" =>
        payment[y].purchase \in Purchases /\ payment[y].purchase # p BY <1>1 DEF IInv, ReceiptsSettled, Receipts, PaymentsNamed
<1>4. PaymentsNamed' BY <1>1 DEF PaymentsNamed
<1> QED BY <1>2,<1>3,<1>4, RefundsStay

\* A total that has been read is the total of the refunds there are.
LEMMA LockRefunds == ASSUME RefundsInv, IInv', NEW c \in Clerks, NEW y \in Payments, LockPayment(c, y) PROVE RefundsInv'
<1>1. IInv /\ PaymentsNamed /\ RefundHeld /\ RefundWithinPayment BY DEF RefundsInv
<1>2. /\ UNCHANGED <<purchase, payment, refund>>
      /\ payment[y].status = "PAID" /\ PaymentFree(y)
      /\ clerk' = [clerk EXCEPT ![c] = [op |-> "refund", payment |-> y, used |-> RefundTotal(y)]] BY DEF LockPayment, Begin, orders, books
<1>3. \A z : Refunded(z)' = Refunded(z) /\ RefundTotal(z)' = RefundTotal(z) BY <1>2, RefundedSame
<1>4. /\ clerk'[c].op = "refund" /\ clerk'[c].payment = y /\ clerk'[c].used = RefundTotal(y)
      /\ \A d \in Clerks : d # c => clerk'[d] = clerk[d] BY <1>1,<1>2 DEF IInv, LocksHeld
<1>5. ASSUME NEW d \in Clerks, clerk'[d].op = "refund"
  PROVE clerk'[d].payment \in Payments /\ payment'[clerk'[d].payment].status = "PAID" /\ clerk'[d].used = RefundTotal(clerk'[d].payment)
        BY <1>1,<1>2,<1>4,<1>5 DEF RefundHeld
<1>6. ASSUME NEW d \in Clerks, NEW e \in Clerks, clerk'[d].op = "refund", clerk'[e].op = "refund", clerk'[d].payment = clerk'[e].payment
  PROVE d = e BY <1>1,<1>2,<1>4,<1>6 DEF RefundHeld, PaymentFree
<1>7. RefundHeld'
 <2>1. refund' = refund BY <1>2
 <2>2. ASSUME NEW d \in Clerks, clerk'[d].op = "refund"
   PROVE clerk'[d].used = RefundTotal(clerk[d].payment)' BY <1>5,<2>1,<2>2 DEF RefundTotal, Refunded
 <2> QED BY <1>5,<1>6,<2>2 DEF RefundHeld
<1>8. RefundWithinPayment' BY <1>1,<1>2,<1>3 DEF RefundWithinPayment
<1>9. PaymentsNamed' BY <1>1,<1>2 DEF PaymentsNamed
<1> QED BY <1>2,<1>7,<1>8,<1>9 DEF RefundsInv

\* A refund is written within what its request has read, and nobody else has written one of
\* the same payment since.
LEMMA RequestRefunds == ASSUME RefundsInv, IInv', NEW c \in Clerks, NEW k \in Refunds, NEW a \in Totals, RequestRefund(c, k, a) PROVE RefundsInv'
<1>1. IInv /\ PaymentsNamed /\ RefundHeld /\ RefundWithinPayment
      /\ refund \in [Refunds -> RefundRows] BY DEF RefundsInv
<1>2. PICK y \in Payments :
        y = clerk[c].payment /\ payment[y].status = "PAID" /\ clerk[c].used = RefundTotal(y) BY <1>1 DEF RequestRefund, RefundHeld
<1>3. /\ UNCHANGED <<purchase, payment>>
      /\ refund[k].status = "ABSENT" /\ clerk[c].op = "refund"
      /\ RefundTotal(y) + a <= purchase[payment[y].purchase].price
      /\ refund' = [refund EXCEPT ![k] = [status |-> "REQUESTED", payment |-> y, amount |-> a]]
      /\ clerk' = [clerk EXCEPT ![c] = Idle] BY <1>2 DEF RequestRefund, orders, Done, Become
<1>4. a \in Nat /\ IsFiniteSet(Refunds) BY AmountAssumption, PoolAssumption
<1>5. refund' \in [Refunds -> RefundRows] BY <1>1,<1>3,<1>4 DEF RefundRows
<1>6. /\ refund'[k] = [status |-> "REQUESTED", payment |-> y, amount |-> a]
      /\ \A l \in Refunds : l # k => refund'[l] = refund[l] BY <1>1,<1>3
<1>7. Refunded(y)' = Refunded(y) \cup {k} BY <1>3,<1>6 DEF Refunded
<1>8. RefundTotal(y)' = RefundTotal(y) + a
 <2> DEFINE f == [l \in Refunded(y) |-> refund[l].amount]
            g == [l \in Refunded(y) \cup {k} |-> refund'[l].amount]
 <2>1. RefundTotal(y) = SumFunction(f) BY DEF RefundTotal
 <2>2. RefundTotal(y)' = SumFunction(g) BY <1>7 DEF RefundTotal
 <2>3. DOMAIN f = Refunded(y) /\ DOMAIN g = Refunded(y) \cup {k} /\ Refunded(y) \subseteq Refunds /\ k \notin Refunded(y) BY <1>3 DEF Refunded
 <2>4. \A l \in DOMAIN f : f[l] \in Int /\ g[l] = f[l] BY <1>1,<1>6,<2>3 DEF RefundRows
 <2>5. g[k] = a /\ g[k] \in Int BY <1>4,<1>6
 <2>6. DOMAIN f \subseteq Refunds /\ k \notin DOMAIN f /\ DOMAIN g = DOMAIN f \cup {k} BY <2>3
 <2> HIDE DEF f, g
 <2>7. SumFunction(g) = SumFunction(f) + g[k] BY ONLY <1>4,<2>4,<2>5,<2>6, SumExtends
 <2> QED BY <2>1,<2>2,<2>5,<2>7
<1>9. \A z \in Payments : z # y => Refunded(z)' = Refunded(z) BY <1>3,<1>6 DEF Refunded
<1>10. ASSUME NEW z \in Payments, z # y PROVE RefundTotal(z)' = RefundTotal(z)
 <2>1. Refunded(z)' = Refunded(z) /\ \A l \in Refunded(z) : l \in Refunds /\ l # k BY <1>3,<1>9,<1>10 DEF Refunded
 <2>2. [l \in Refunded(z) |-> refund[l].amount]' = [l \in Refunded(z) |-> refund[l].amount] BY <1>6,<2>1
 <2> QED BY <2>2 DEF RefundTotal
<1>11. RefundWithinPayment'
 <2>1. ASSUME NEW z \in Payments, Refunded(z)' # {}
   PROVE payment[z].status = "PAID" /\ RefundTotal(z)' <= purchase[payment[z].purchase].price
  <3>1. CASE z = y BY <1>2,<1>3,<1>8,<3>1
  <3>2. CASE z # y BY <1>1,<1>9,<1>10,<2>1,<3>2 DEF RefundWithinPayment
  <3> QED BY <3>1,<3>2
 <2> QED BY <1>3,<2>1 DEF RefundWithinPayment
<1>12. \A d \in Clerks : clerk'[d].op = "refund" =>
         /\ clerk'[d] = clerk[d] /\ clerk[d].op = "refund" /\ d # c BY <1>1,<1>3 DEF Idle, IInv, LocksHeld
<1>13. \A d \in Clerks : clerk'[d].op = "refund" =>
         clerk[d].payment \in Payments /\ clerk[d].payment # y BY <1>1,<1>2,<1>3,<1>12 DEF RefundHeld
<1>14. RefundHeld'
 <2>1. ASSUME NEW d \in Clerks, clerk'[d].op = "refund"
   PROVE clerk'[d].payment \in Payments /\ payment'[clerk'[d].payment].status = "PAID" /\ clerk'[d].used = RefundTotal(clerk[d].payment)'
  <3>1. clerk[d].payment \in Payments /\ payment[clerk[d].payment].status = "PAID" /\ clerk[d].used = RefundTotal(clerk[d].payment)
    BY <1>1,<1>12,<2>1 DEF RefundHeld
  <3>2. PICK z \in Payments : z = clerk[d].payment /\ z # y BY <1>13,<2>1
  <3>3. clerk'[d] = clerk[d] BY <1>12,<2>1
  <3>4. RefundTotal(z)' = RefundTotal(clerk[d].payment)' BY <3>2,<3>3 DEF RefundTotal, Refunded
  <3> QED BY <1>3,<1>10,<3>1,<3>2,<3>3,<3>4
 <2>2. \A d, e \in Clerks : /\ clerk'[d].op = "refund"
                            /\ clerk'[e].op = "refund"
                            /\ clerk'[d].payment = clerk'[e].payment
                            => d = e BY <1>1,<1>12 DEF RefundHeld
 <2> QED BY <2>1,<2>2 DEF RefundHeld
<1>15. PaymentsNamed' BY <1>1,<1>3 DEF PaymentsNamed
<1> QED BY <1>5,<1>11,<1>14,<1>15 DEF RefundsInv

LEMMA ApproveRefunds == ASSUME RefundsInv, IInv', NEW k \in Refunds, ApproveRefund(k) PROVE RefundsInv'
<1>1. UNCHANGED <<purchase, payment, clerk>> /\ refund[k].status = "REQUESTED" /\ refund' = [refund EXCEPT ![k].status = "APPROVED"]
  BY DEF ApproveRefund, orders
<1>2. refund \in [Refunds -> RefundRows] /\ PaymentsNamed BY DEF RefundsInv
<1>3. refund' \in [Refunds -> RefundRows] BY <1>1,<1>2 DEF RefundRows
<1>4. \A l \in Refunds : /\ refund'[l].amount = refund[l].amount
                         /\ refund'[l].payment = refund[l].payment
                         /\ refund'[l].status = "ABSENT" <=> refund[l].status = "ABSENT" BY <1>1,<1>2 DEF RefundRows
<1>5. \A y \in Payments : Refunded(y)' = Refunded(y) /\ RefundTotal(y)' = RefundTotal(y) BY <1>4, RefundedSame
<1>6. PaymentsNamed' BY <1>1,<1>2 DEF PaymentsNamed
<1> QED BY <1>1,<1>3,<1>5,<1>6, RefundsUntouched

LEMMA OtherClerkRefunds ==
  ASSUME RefundsInv, IInv', UNCHANGED <<orders, refund>>, NEW c \in Clerks, NEW r, r.op # "refund", clerk' = [clerk EXCEPT ![c] = r] PROVE RefundsInv'
<1>1. \A d \in Clerks : clerk'[d].op = "refund" => clerk'[d] = clerk[d] BY DEF RefundsInv, IInv, LocksHeld
<1>2. PaymentsNamed' BY DEF RefundsInv, PaymentsNamed, orders
<1> QED BY <1>1,<1>2, RefundsStay DEF orders

LEMMA ClerkRefunds == ASSUME RefundsInv, IInv', NEW c \in Clerks, ClerkStep(c) PROVE RefundsInv'
<1>1. ASSUME NEW r, r.op # "refund", clerk' = [clerk EXCEPT ![c] = r], UNCHANGED <<orders, refund>> PROVE RefundsInv' BY <1>1, OtherClerkRefunds
<1>2. ASSUME Done(c), UNCHANGED <<orders, refund>> PROVE RefundsInv' BY <1>1,<1>2 DEF Done, Become, Idle
<1>3. IInv BY DEF RefundsInv
<1>4. ASSUME NEW k \in Keys, Settle(c, k) PROVE RefundsInv'
 <2>1. PICK p \in Purchases : p = clerk[c].purchase BY <1>3,<1>4, ConfirmingHolds DEF Settle
 <2>2. PICK y \in Payable(p, k) : Close(y, p, k, "PAID") BY <1>4,<2>1 DEF Settle
 <2>3. purchase' = [purchase EXCEPT ![p].status = "PAID"] /\ UNCHANGED refund /\ Done(c) BY <1>4,<2>1 DEF Settle
 <2> QED BY <2>2,<2>3, CloseRefunds
<1>5. ASSUME NEW k \in Keys, Fail(c, k) PROVE RefundsInv'
 <2>1. PICK p \in Purchases : p = clerk[c].purchase BY <1>3,<1>5, ConfirmingHolds DEF Fail
 <2>2. PICK y \in Payable(p, k) : Close(y, p, k, "FAILED") BY <1>5,<2>1 DEF Fail
 <2>3. purchase' = [purchase EXCEPT ![p].status = "CANCELED"] /\ UNCHANGED refund /\ Done(c) BY <1>5,<2>1 DEF Fail, books
 <2> QED BY <2>2,<2>3, CloseRefunds
<1>6. CASE Redeem(c)
 <2>1. \A d \in Clerks : clerk'[d].op = "refund" => clerk'[d] = clerk[d] BY <1>3,<1>6 DEF Redeem, Done, Become, Idle, IInv, LocksHeld
 <2>2. UNCHANGED <<payment, refund>> BY <1>6 DEF Redeem, books
 <2>3. PICK p \in Purchases :
         /\ purchase[p].status = "ABSENT"
         /\ purchase' = [purchase EXCEPT ![p] =
              [status |-> "PAID", customer |-> clerk[c].customer, price |-> Price, promo |-> FALSE]] BY <1>6 DEF Redeem
 <2> QED BY <2>1,<2>2,<2>3, NewRowRefunds
<1>7. CASE \E p \in Purchases : LockPurchase(c, p) BY <1>1,<1>7 DEF LockPurchase, Begin, books
<1>8. CASE \E v \in Vouchers, u \in Customers : LockVoucher(c, v, u) BY <1>1,<1>8 DEF LockVoucher, Begin, books
<1>9. CASE \E p \in Purchases : OpenInvoice(c, p) BY <1>1,<1>9 DEF OpenInvoice, Begin, books
<1>10. CASE \E a \in Totals : AddLine(c, a) BY <1>1,<1>10 DEF AddLine, Become
<1>11. CASE Retotal(c) \/ Leave(c) BY <1>2,<1>11 DEF Retotal, Leave, books
<1> QED BY <1>4,<1>5,<1>6,<1>7,<1>8,<1>9,<1>10,<1>11, LockRefunds, RequestRefunds DEF ClerkStep

LEMMA EveryRefunds == ASSUME RefundsInv, IInv', [Next]_vars PROVE RefundsInv'
<1>1. ASSUME UNCHANGED <<orders, refund, clerk>> PROVE RefundsInv'
 <2>1. PaymentsNamed' BY <1>1 DEF RefundsInv, PaymentsNamed, orders
 <2> QED BY <1>1,<2>1, RefundsStay DEF orders
<1>2. ASSUME NEW u \in Customers, NEW b \in BOOLEAN, Create(u, b) PROVE RefundsInv' BY <1>2, NewRowRefunds DEF Create, books
<1>3. ASSUME NEW p \in Purchases, NEW provider \in {"manual", "external"}, NEW k \in Keys, CreateIntent(p, provider, k) PROVE RefundsInv'
 <2>1. PICK y \in Payments :
         /\ payment[y].status = "ABSENT"
         /\ payment' = [payment EXCEPT ![y] =
              [status |-> "PENDING", purchase |-> p, provider |-> provider, key |-> k]] BY <1>3 DEF CreateIntent
 <2>2. /\ \A z \in Payments : z # y => payment'[z] = payment[z]
       /\ payment'[y].purchase = p BY <2>1 DEF RefundsInv, IInv, RowTypes
 <2>3. PaymentsNamed' BY <2>2 DEF RefundsInv, PaymentsNamed
 <2>4. \A z \in Payments : payment[z].status = "PAID" => payment'[z] = payment[z] BY <2>1,<2>2
 <2>5. UNCHANGED <<purchase, refund, clerk>> BY <1>3 DEF CreateIntent, books
 <2> QED BY <2>3,<2>4,<2>5, RefundsStay
<1>4. CASE RequestStep BY <1>1,<1>2,<1>3,<1>4, ApproveRefunds DEF RequestStep, CreateBatch, Issue, SweepOverdue, books
<1>5. CASE UNCHANGED vars BY <1>1,<1>5 DEF vars, orders
<1> QED BY <1>4,<1>5, ClerkRefunds DEF Next

\* No interleaving of redemptions, settlements and refunds uses a voucher twice, gives one
\* claimant a second free trial or refunds more than a payment brought in
\* (VouchersService.redeem, FinanceService.requestRefund): what each of them has read is
\* still so when it writes, because the row it locks is one the others lock as well.
THEOREM LimitsKept == Spec => []LimitsAreKept
<1>1. Init => VouchersInv
 <2>1. IsFiniteSet({}) /\ Cardinality({}) = 0 BY FS_EmptySet
 <2>2. ASSUME Init PROVE VouchersInv
  <3>1. ByVoucher = {} /\ {v \in Vouchers : voucher[v] = "USED"} = {} BY <2>2 DEF Init, ByVoucher
  <3>2. {redeemed[v] : v \in Vouchers} \ {None} = {} BY <2>2 DEF Init
  <3>3. VoucherIsUsedOnce BY <3>1,<3>2 DEF VoucherIsUsedOnce
  <3>4. \A u \in Customers : {p \in ByVoucher : purchase[p].customer \in Peers(u)} = {} BY <3>1
  <3>5. FreeTrialOnce BY <2>1,<3>4 DEF FreeTrialOnce
  <3>6. VoucherTypes /\ VoucherHeld /\ UsedAreRedeemed BY <2>2 DEF Init, Idle, VoucherTypes, VoucherHeld, UsedAreRedeemed
  <3> QED BY <2>2,<3>3,<3>5,<3>6, Initially DEF VouchersInv
 <2> QED BY <2>2
<1>2. VouchersInv /\ IInv' /\ [Next]_vars => VouchersInv' BY EveryVouchers
<1>3. Init => RefundsInv BY Initially DEF Init, Idle, RefundsInv, RefundRows, PaymentsNamed, RefundHeld, RefundWithinPayment, Refunded
<1>4. RefundsInv /\ IInv' /\ [Next]_vars => RefundsInv' BY EveryRefunds
<1>5. VouchersInv /\ RefundsInv => LimitsAreKept BY DEF VouchersInv, RefundsInv, LimitsAreKept
<1> QED BY <1>1,<1>2,<1>3,<1>4,<1>5, Invariance, PTL DEF Spec

------------------------
(* Collections of a router's clients. *)

PlaceIn(S, i) == Cardinality({m \in S : m <= i})

\* The members of a finite set of naturals in order, each of them once.
LEMMA InOrderIsAll ==
  ASSUME NEW S \in SUBSET Nat, IsFiniteSet(S)
  PROVE  /\ Cardinality(S) \in Nat /\ DOMAIN InOrder(S) = 1..Cardinality(S)
         /\ \A j \in 1..Cardinality(S) : InOrder(S)[j] \in S
         /\ \A i, j \in 1..Cardinality(S) : InOrder(S)[i] = InOrder(S)[j] => i = j
         /\ \A i \in S : \E j \in 1..Cardinality(S) : InOrder(S)[j] = i
<1> PICK n : n = Cardinality(S) OBVIOUS
<1>0. n \in Nat BY FS_CardinalityType
<1>1. ASSUME NEW i \in S
  PROVE  /\ IsFiniteSet({m \in S : m <= i}) /\ PlaceIn(S, i) \in 1..n
 <2> DEFINE T == {m \in S : m <= i}
 <2>1. T \in SUBSET S /\ i \in T OBVIOUS
 <2> HIDE DEF T
 <2>2. IsFiniteSet(T) /\ Cardinality(T) \in Nat /\ Cardinality(T) <= n BY <2>1, FS_Subset, FS_CardinalityType
 <2>3. Cardinality(T) # 0 BY <2>1,<2>2, FS_EmptySet
 <2>4. Cardinality(T) \in 1..n BY ONLY <1>0,<2>2,<2>3
 <2> QED BY <2>2,<2>4 DEF T, PlaceIn
<1>2. ASSUME NEW i \in S, NEW j \in S, i < j PROVE PlaceIn(S, i) < PlaceIn(S, j)
 <2> DEFINE T == {m \in S : m <= i}
            U == {m \in S : m <= j}
 <2>1. T \in SUBSET U
  <3>1. SUFFICES ASSUME NEW m \in S, m <= i PROVE m <= j OBVIOUS
  <3>2. m \in Nat /\ i \in Nat /\ j \in Nat OBVIOUS
  <3> QED BY ONLY <1>2,<3>1,<3>2
 <2>2. j \in U /\ j \notin T BY <1>2
 <2>3. IsFiniteSet(U) BY <1>1
 <2> HIDE DEF T, U
 <2>4. Cardinality(T) <= Cardinality(U) /\ Cardinality(T) # Cardinality(U) BY <2>1,<2>2,<2>3, FS_Subset
 <2>5. Cardinality(T) \in Nat /\ Cardinality(U) \in Nat BY <2>1,<2>3, FS_Subset, FS_CardinalityType
 <2>6. Cardinality(T) < Cardinality(U) BY ONLY <2>4,<2>5
 <2> QED BY <2>6 DEF T, U, PlaceIn
<1>3. \A i, j \in S : PlaceIn(S, i) = PlaceIn(S, j) => i = j
 <2>1. SUFFICES ASSUME NEW i \in S, NEW j \in S, i # j PROVE PlaceIn(S, i) # PlaceIn(S, j) OBVIOUS
 <2>2. PlaceIn(S, i) \in Nat /\ PlaceIn(S, j) \in Nat
  <3>1. PlaceIn(S, i) \in 1..n /\ PlaceIn(S, j) \in 1..n BY <1>1
  <3> QED BY ONLY <1>0,<3>1
 <2>3. i < j \/ j < i BY <2>1
 <2> QED BY <1>2,<2>2,<2>3
<1>4. \A j \in 1..n : \E i \in S : PlaceIn(S, i) = j
 <2> DEFINE f == [i \in S |-> PlaceIn(S, i)]
 <2>1. f \in Injection(S, 1..n)
  <3>1. f \in [S -> 1..n] BY <1>1
  <3>2. \A i, j \in S : f[i] = f[j] => i = j BY <1>3
  <3> HIDE DEF f
  <3> QED BY <3>1,<3>2 DEF Injection, IsInjective
 <2>2. IsFiniteSet(1..n) /\ Cardinality(1..n) = n BY <1>0, FS_Interval
 <2>3. f \in Surjection(S, 1..n)
  <3> HIDE DEF f
  <3> QED BY <2>1,<2>2, FS_Injection
 <2>4. \A j \in 1..n : \E i \in S : f[i] = j
  <3> HIDE DEF f
  <3> QED BY <2>3 DEF Surjection
 <2> QED BY <2>4
<1> PICK f : f = InOrder(S) OBVIOUS
<1>5. DOMAIN f = 1..n BY DEF InOrder
<1>6. \A j \in 1..n : f[j] = CHOOSE i \in S : PlaceIn(S, i) = j BY DEF InOrder, PlaceIn
<1>7. \A j \in 1..n : f[j] \in S /\ PlaceIn(S, f[j]) = j BY <1>4,<1>6
<1>8. \A i, j \in 1..n : f[i] = f[j] => i = j BY <1>7
<1>9. \A i \in S : \E j \in 1..n : f[j] = i BY <1>1,<1>3,<1>7
<1> QED BY <1>0,<1>5,<1>7,<1>8,<1>9

ListRows == [client : Clients, site : Sites]
ReadRows == [client : Clients, address : Addresses, bytes : Nat, transferred : Nat]

\* The list l names every client once.
ListOK(l) == l \in Seq(ListRows) /\ \A i, j \in DOMAIN l : l[i].client = l[j].client => i = j
ClientsAt(l, places) == {l[i].client : i \in places}
\* The places of l that the requests before the p-th answered with, were l the same.
PlacesBefore(l, p) == {i \in DOMAIN l : \/ CountsPages /\ i <= (p - 1) * PageSize
                                        \/ clientListing = "site by site" /\ l[i].site < p}
Behind(l, p) == ClientsAt(l, PlacesBefore(l, p))
Ahead(l, p) == ClientsAt(l, DOMAIN l \ PlacesBefore(l, p))

LEMMA ListTypes ==
  ASSUME NEW l, ListOK(l)
  PROVE  /\ l \in Seq(ListRows) /\ Len(l) \in Nat /\ DOMAIN l = 1..Len(l) /\ DOMAIN l \in SUBSET Nat
         /\ \A i \in DOMAIN l : l[i].client \in Clients /\ l[i].site \in 1..NumSites
         /\ \A i, j \in DOMAIN l : l[i].client = l[j].client => i = j
         /\ IsFiniteSet(DOMAIN l) /\ PageSize \in Nat /\ PageSize # 0 /\ NumSites \in Nat
<1>1. l \in Seq(ListRows) /\ \A i, j \in DOMAIN l : l[i].client = l[j].client => i = j BY DEF ListOK
<1>2. Len(l) \in Nat /\ DOMAIN l = 1..Len(l) BY ONLY <1>1
<1>3. \A i \in DOMAIN l : l[i] \in ListRows BY ONLY <1>1
<1>4. \A i \in DOMAIN l : l[i].client \in Clients /\ l[i].site \in 1..NumSites BY <1>3 DEF ListRows, Sites
<1>5. IsFiniteSet(DOMAIN l) BY <1>2, FS_Interval
<1>6. DOMAIN l \in SUBSET Nat BY <1>2
<1>7. PageSize \in Nat /\ PageSize # 0 /\ NumSites \in Nat BY TelemetryAssumption
<1> QED BY <1>1,<1>2,<1>4,<1>5,<1>6,<1>7

\* A set of places has as many clients.
LEMMA ClientsOfPlaces ==
  ASSUME NEW l, ListOK(l), NEW S \in SUBSET DOMAIN l
  PROVE  /\ IsFiniteSet(S) /\ IsFiniteSet(ClientsAt(l, S)) /\ ClientsAt(l, S) \subseteq Clients
         /\ Cardinality(ClientsAt(l, S)) = Cardinality(S) /\ Cardinality(S) \in Nat
<1>1. IsFiniteSet(S) /\ Cardinality(S) \in Nat BY ListTypes, FS_Subset, FS_CardinalityType
<1> DEFINE f == [i \in S |-> l[i].client]
<1>2. f \in Bijection(S, ClientsAt(l, S))
 <2>1. f \in [S -> ClientsAt(l, S)] BY DEF ClientsAt
 <2>2. \A i, j \in S : f[i] = f[j] => i = j BY ListTypes
 <2>3. \A k \in ClientsAt(l, S) : \E i \in S : f[i] = k BY DEF ClientsAt
 <2> HIDE DEF f
 <2> QED BY <2>1,<2>2,<2>3 DEF Bijection, Injection, Surjection, IsInjective
<1>3. IsFiniteSet(ClientsAt(l, S)) /\ Cardinality(ClientsAt(l, S)) = Cardinality(S)
 <2> HIDE DEF f
 <2> QED BY <1>1,<1>2, FS_Bijection DEF ExistsBijection
<1>4. ClientsAt(l, S) \subseteq Clients BY ListTypes DEF ClientsAt
<1> QED BY <1>1,<1>3,<1>4

ReadIn(rows) == {rows[i].client : i \in DOMAIN rows}

RowsAt(p) == [i \in DOMAIN Portion(p) |-> Counted(Portion(p)[i].client)]

\* What a request answers with.
LEMMA PortionIs ==
  ASSUME ListOK(listed), lease \in [Clients -> Addresses], trafficCounter \in [Clients -> Nat], transferred \in [Clients -> Nat], NEW p, NEW rows, rows = RowsAt(p)
  PROVE  /\ rows \in Seq(ReadRows) /\ Len(rows) = Cardinality(ClientsAt(listed, PlacesOf(p))) /\ Len(rows) = Cardinality(PlacesOf(p))
         /\ ReadIn(rows) = ClientsAt(listed, PlacesOf(p))
         /\ \A i \in DOMAIN rows : rows[i] = Counted(rows[i].client) /\ rows[i].client \in Clients
<1> PICK S \in SUBSET DOMAIN listed : S = PlacesOf(p) BY DEF PlacesOf
<1>0. S \in SUBSET Nat /\ IsFiniteSet(S) BY ListTypes, ClientsOfPlaces
<1> PICK n \in Nat : n = Cardinality(S) BY <1>0, FS_CardinalityType
<1> PICK f : f = InOrder(S) OBVIOUS
<1>1. n \in Nat /\ \A j \in 1..n : f[j] \in S BY <1>0, InOrderIsAll
<1>2. \A i \in S : \E j \in 1..n : f[j] = i BY <1>0, InOrderIsAll
<1> PICK portion : portion = Portion(p) OBVIOUS
<1>3. DOMAIN portion = 1..n /\ \A j \in 1..n : portion[j] = listed[f[j]] BY DEF Portion
<1>4. DOMAIN rows = 1..n /\ \A j \in 1..n : rows[j] = Counted(listed[f[j]].client) BY <1>3 DEF RowsAt
<1>5. \A j \in 1..n : listed[f[j]].client \in Clients BY <1>1, ListTypes
<1>6. \A k \in Clients : Counted(k) \in ReadRows /\ Counted(k).client = k BY DEF Counted, ReadRows
<1>7. \A j \in 1..n : rows[j] \in ReadRows /\ rows[j].client = listed[f[j]].client BY <1>4,<1>5,<1>6
<1>8. rows \in Seq(ReadRows) /\ Len(rows) = n
 <2>1. rows = [j \in 1..n |-> rows[j]] BY <1>4 DEF RowsAt
 <2> PICK R : R = ReadRows OBVIOUS
 <2>2. \A j \in 1..n : rows[j] \in R BY <1>7
 <2>3. rows \in Seq(R) /\ Len(rows) = n BY ONLY n \in Nat, <2>1,<2>2
 <2> QED BY <2>3
<1>9. ReadIn(rows) = ClientsAt(listed, S)
 <2>1. ASSUME NEW k \in ReadIn(rows) PROVE k \in ClientsAt(listed, S)
  <3>1. PICK j \in 1..n : rows[j].client = k BY <1>4 DEF ReadIn
  <3> QED BY <1>1,<1>7,<3>1 DEF ClientsAt
 <2>2. ASSUME NEW k \in ClientsAt(listed, S) PROVE k \in ReadIn(rows)
  <3>1. PICK i \in S : listed[i].client = k BY DEF ClientsAt
  <3>2. PICK j \in 1..n : f[j] = i BY <1>2
  <3> QED BY <1>4,<1>7,<3>1,<3>2 DEF ReadIn
 <2> QED BY <2>1,<2>2
<1>10. Cardinality(ClientsAt(listed, S)) = n BY ClientsOfPlaces
<1> QED BY <1>4,<1>5,<1>7,<1>8,<1>9,<1>10

\* The p-th request answers with places that were not answered with, and the next ones
\* begin after them.
LEMMA PlacesPass ==
  ASSUME ListOK(listed), NEW p \in Nat \ {0}, clientListing # "whole"
  PROVE PlacesBefore(listed, p + 1) = PlacesBefore(listed, p) \cup PlacesOf(p) /\ PlacesOf(p) \cap PlacesBefore(listed, p) = {}
<1>1. /\ PageSize \in Nat /\ DOMAIN listed \in SUBSET Nat /\ \A i \in DOMAIN listed : listed[i].site \in Nat BY ListTypes
<1> PICK b \in Nat : b = (p - 1) * PageSize BY <1>1
<1>2. p * PageSize = b + PageSize /\ ((p + 1) - 1) * PageSize = b + PageSize BY <1>1
<1>3. CASE CountsPages
 <2>1. clientListing # "site by site" BY <1>3 DEF CountsPages
 <2>2. PlacesBefore(listed, p + 1) = {i \in DOMAIN listed : i <= b + PageSize} BY <1>2,<1>3,<2>1 DEF PlacesBefore
 <2>3. PlacesBefore(listed, p) = {i \in DOMAIN listed : i <= b} BY <1>3,<2>1 DEF PlacesBefore
 <2>4. PlacesOf(p) = {i \in DOMAIN listed : b < i /\ i <= b + PageSize} BY <1>2,<1>3,<2>1 DEF PlacesOf
 <2>5. \A i \in DOMAIN listed : i <= b + PageSize <=> i <= b \/ (b < i /\ i <= b + PageSize)
  <3>1. SUFFICES ASSUME NEW i \in Nat PROVE i <= b + PageSize <=> i <= b \/ (b < i /\ i <= b + PageSize) BY <1>1
  <3> QED BY ONLY <1>1, b \in Nat, i \in Nat
 <2>6. \A i \in DOMAIN listed : ~(i <= b /\ b < i)
  <3>1. SUFFICES ASSUME NEW i \in Nat PROVE ~(i <= b /\ b < i) BY <1>1
  <3> QED BY ONLY b \in Nat, i \in Nat
 <2> QED BY ONLY <2>2,<2>3,<2>4,<2>5,<2>6
<1>4. CASE ~CountsPages
 <2>1. PlacesBefore(listed, p + 1) = {i \in DOMAIN listed : clientListing = "site by site" /\ listed[i].site < p + 1} BY <1>4 DEF PlacesBefore
 <2>2. PlacesBefore(listed, p) = {i \in DOMAIN listed : clientListing = "site by site" /\ listed[i].site < p} BY <1>4 DEF PlacesBefore
 <2>3. PlacesOf(p) = {i \in DOMAIN listed : clientListing = "site by site" /\ listed[i].site = p} BY <1>4 DEF PlacesOf
 <2>4. \A i \in DOMAIN listed : /\ listed[i].site < p + 1 <=> listed[i].site < p \/ listed[i].site = p
                                /\ ~(listed[i].site < p /\ listed[i].site = p)
  <3>1. SUFFICES ASSUME NEW s \in Nat PROVE (s < p + 1 <=> s < p \/ s = p) /\ ~(s < p /\ s = p) BY <1>1
  <3> QED BY ONLY p \in Nat \ {0}, s \in Nat
 <2> QED BY ONLY <2>1,<2>2,<2>3,<2>4
<1> QED BY <1>3,<1>4

\* After the last request every place was answered with.
LEMMA LastIsAll ==
  ASSUME ListOK(listed), NEW p \in Nat \ {0}, NEW rows, NEW got, IsLast(p, rows, got), Len(rows) = Cardinality(PlacesOf(p)),
      CountsPages => Len(got) = (p - 1) * PageSize + Len(rows)
  PROVE PlacesBefore(listed, p) \cup PlacesOf(p) = DOMAIN listed
<1>1. /\ PageSize \in Nat /\ PageSize # 0 /\ DOMAIN listed \in SUBSET Nat /\ Len(listed) \in Nat /\ DOMAIN listed = 1..Len(listed)
      /\ \A i \in DOMAIN listed : listed[i].site \in 1..NumSites
      /\ NumSites \in Nat BY ListTypes
<1>2. PlacesBefore(listed, p) \subseteq DOMAIN listed /\ PlacesOf(p) \subseteq DOMAIN listed BY DEF PlacesBefore, PlacesOf
<1> PICK b \in Nat : b = (p - 1) * PageSize BY <1>1
<1>3. p * PageSize = b + PageSize BY <1>1
<1>p. IsFiniteSet((b + 1)..(b + PageSize)) /\ Cardinality((b + 1)..(b + PageSize)) = PageSize
 <2> PICK lo \in Int, hi \in Int : lo = b + 1 /\ hi = b + PageSize BY <1>1
 <2>1. IsFiniteSet(lo..hi) /\ Cardinality(lo..hi) = IF lo > hi THEN 0 ELSE hi - lo + 1 BY ONLY lo \in Int, hi \in Int, FS_Interval
 <2>2. ~(lo > hi) /\ hi - lo + 1 = PageSize BY ONLY <1>1, b \in Nat, lo = b + 1 /\ hi = b + PageSize
 <2> QED BY <2>1,<2>2
<1>4. CASE CountsPages
 <2>1. clientListing # "site by site" /\ clientListing # "whole" BY <1>4 DEF CountsPages
 <2>2. PlacesBefore(listed, p) = {i \in DOMAIN listed : i <= b} BY <1>4,<2>1 DEF PlacesBefore
 <2>3. PlacesOf(p) = {i \in DOMAIN listed : b < i /\ i <= b + PageSize} BY <1>3,<1>4,<2>1 DEF PlacesOf
 <2>4. Len(listed) <= b + PageSize
  <3> PICK m : m = Len(rows) OBVIOUS
  <3>1. ASSUME Len(listed) > b + PageSize PROVE m = PageSize
   <4>1. PlacesOf(p) = (b + 1)..(b + PageSize)
    <5>1. \A i \in 1..Len(listed) : b < i /\ i <= b + PageSize => i \in (b + 1)..(b + PageSize) BY ONLY <1>1, b \in Nat
    <5>2. \A i \in (b + 1)..(b + PageSize) : i \in 1..Len(listed) /\ b < i /\ i <= b + PageSize BY ONLY <1>1,<3>1, b \in Nat
    <5> QED BY <1>1,<2>3,<5>1,<5>2
   <4> QED BY <1>p,<4>1
  <3>2. CASE m < PageSize BY <1>1,<3>1,<3>2
  <3>3. CASE Len(got) >= Len(listed)
   <4>1. Len(got) = b + m /\ m \in Nat /\ m <= PageSize
    <5>1. PlacesOf(p) \in SUBSET ((b + 1)..(b + PageSize))
     <6>1. \A i \in 1..Len(listed) : b < i /\ i <= b + PageSize => i \in (b + 1)..(b + PageSize) BY ONLY <1>1, b \in Nat
     <6> QED BY <1>1,<2>3,<6>1
    <5>3. Cardinality(PlacesOf(p)) <= PageSize /\ Cardinality(PlacesOf(p)) \in Nat BY <1>p,<5>1, FS_Subset, FS_CardinalityType
    <5> QED BY <1>4,<5>3
   <4> QED BY ONLY <1>1,<3>3,<4>1, b \in Nat
  <3>4. CASE p >= PagesInAll
   <4> PICK n \in Nat : n = Len(listed) BY <1>1
   <4> PICK q : q = (n + PageSize - 1) \div PageSize OBVIOUS
   <4>0. p \in Nat /\ n + PageSize - 1 \in Nat BY <1>1
   <4>1. q \in Int /\ n + PageSize - 1 < (q + 1) * PageSize BY ONLY <1>1,<4>0, n \in Nat, q = (n + PageSize - 1) \div PageSize
   <4>2. q <= p BY <3>4 DEF PagesInAll
   <4>3. (q + 1) * PageSize <= (p + 1) * PageSize BY ONLY <1>1,<4>0,<4>1,<4>2
   <4>4. (p + 1) * PageSize = b + PageSize + PageSize BY ONLY <1>1,<1>3,<4>0, b \in Nat
   <4>5. n <= b + PageSize BY ONLY <1>1,<4>0,<4>1,<4>3,<4>4, n \in Nat, b \in Nat
   <4> QED BY <4>5
  <3> QED BY <1>4,<2>1,<3>2,<3>3,<3>4 DEF IsLast
 <2>5. \A i \in DOMAIN listed : i <= b \/ (b < i /\ i <= b + PageSize)
  <3>1. \A i \in 1..Len(listed) : i <= b \/ (b < i /\ i <= b + PageSize) BY ONLY <1>1,<2>4, b \in Nat
  <3> QED BY <1>1,<3>1
 <2> QED BY ONLY <2>2,<2>3,<2>5
<1>5. CASE ~CountsPages /\ clientListing = "site by site" /\ p = NumSites
 <2>1. PlacesBefore(listed, p) = {i \in DOMAIN listed : listed[i].site < p} /\ PlacesOf(p) = {i \in DOMAIN listed : listed[i].site = p}
   BY <1>5 DEF PlacesBefore, PlacesOf
 <2>2. \A i \in DOMAIN listed : listed[i].site < p \/ listed[i].site = p
  <3>0. p = NumSites BY <1>5
  <3>1. \A s \in 1..NumSites : s < p \/ s = p BY ONLY <1>1,<3>0
  <3> QED BY <1>1,<3>1
 <2> QED BY ONLY <2>1,<2>2
<1>6. CASE clientListing = "whole"
 <2>1. PlacesOf(p) = DOMAIN listed BY <1>6 DEF PlacesOf
 <2> QED BY <1>2,<2>1
<1>7. CountsPages \/ (clientListing = "site by site" /\ p = NumSites) \/ clientListing = "whole" BY DEF IsLast, CountsPages
<1> QED BY ONLY <1>4,<1>5,<1>6,<1>7

SampleRows == [client : Clients, bytes : Nat, transferred : Nat]
Steps == {"idle", "read", "count", "stamp", "record", "healthy", "degrade"}
ReadingRows == [at : Steps, page : Nat \ {0}, got : Seq(ReadRows), left : Seq(ReadRows),
                sessions : SUBSET SessionRows, sampledAt : Nat, stayed : SUBSET Clients, departures : Nat, arrivals : Nat]

TelTypes ==
  /\ lease \in [Clients -> Addresses]
  /\ trafficCounter \in [Clients -> Nat] /\ transferred \in [Clients -> Nat]
  /\ advisoryLock \in Collectors \cup {Nobody}
  /\ reading \in [Collectors -> ReadingRows]
  /\ routerRow \in [status : {"ONLINE", "DEGRADED"}, active_users : Nat]
  /\ DOMAIN samples = SessionRows
  /\ \A k \in SessionRows : \A t \in DOMAIN samples[k] : t \in Nat /\ samples[k][t] \in SampleRows
  /\ sampleClock \in Nat /\ lostLocks \in Nat
  /\ ListOK(listed)

LEMMA NotReadingIs == NotReading \in ReadingRows /\ NotReading.at = "idle"
<1>1. << >> \in Seq(ReadRows) OBVIOUS
<1>2. NotReading.at = "idle" BY DEF NotReading
<1> HIDE DEF ReadRows
<1> QED BY <1>1,<1>2 DEF NotReading, ReadingRows, Steps

LEMMA TelTypesBegin == TelemetryInit => TelTypes
<1> SUFFICES ASSUME TelemetryInit PROVE TelTypes OBVIOUS
<1>1. PICK order \in SetToSeqs(Clients) : \E n \in 0..Len(order) :
        listed = [i \in 1..n |-> [client |-> order[i], site |-> 1 + (i % NumSites)]] BY DEF TelemetryInit
<1>2. PICK n \in 0..Len(order) : listed = [i \in 1..n |-> [client |-> order[i], site |-> 1 + (i % NumSites)]] BY <1>1
<1> PICK m : m = Cardinality(Clients) OBVIOUS
<1>3. m \in Nat BY TelemetryAssumption, FS_CardinalityType
<1>4. order \in [1..m -> Clients] /\ \A i, j \in 1..m : order[i] = order[j] => i = j BY DEF SetToSeqs, IsInjective
<1>5. Len(order) = m BY <1>3,<1>4
<1>6. \A i \in 1..n : i \in 1..m /\ i \in Nat BY ONLY <1>3,<1>5, n \in 0..Len(order)
<1>7. \A i \in 1..n : 1 + (i % NumSites) \in Sites
 <2>1. SUFFICES ASSUME NEW i \in Nat PROVE 1 + (i % NumSites) \in 1..NumSites BY <1>6 DEF Sites
 <2>2. NumSites \in Nat /\ NumSites > 0 BY TelemetryAssumption
 <2> QED BY ONLY <2>2, i \in Nat
<1>8. n \in Nat BY ONLY <1>3,<1>5, n \in 0..Len(order)
<1>9. \A i \in 1..n : listed[i].client = order[i] /\ listed[i] \in ListRows
 <2>1. \A i \in 1..n : listed[i] = [client |-> order[i], site |-> 1 + (i % NumSites)] BY <1>2
 <2>2. \A i \in 1..n : order[i] \in Clients BY <1>4,<1>6
 <2>3. TAKE i \in 1..n
 <2>4. order[i] \in Clients /\ 1 + (i % NumSites) \in Sites BY <1>7,<2>2
 <2> PICK s : s = 1 + (i % NumSites) OBVIOUS
 <2>5. listed[i] = [client |-> order[i], site |-> s] BY <2>1
 <2> QED BY <2>4,<2>5 DEF ListRows
<1>10. listed \in Seq(ListRows) /\ DOMAIN listed = 1..n
 <2>1. DOMAIN listed = 1..n /\ listed = [i \in 1..n |-> listed[i]] BY <1>2
 <2> QED BY <1>8,<1>9,<2>1
<1>11. ListOK(listed)
 <2>1. ASSUME NEW i \in 1..n, NEW j \in 1..n, listed[i].client = listed[j].client PROVE i = j BY <1>4,<1>6,<1>9,<2>1
 <2> QED BY <1>10,<2>1 DEF ListOK
<1>12. /\ trafficCounter \in [Clients -> Nat] /\ transferred \in [Clients -> Nat] /\ lease \in [Clients -> Addresses]
       /\ DOMAIN samples = SessionRows /\ \A k \in SessionRows : DOMAIN samples[k] = {} BY DEF TelemetryInit
<1>13. reading \in [Collectors -> ReadingRows]
 <2> HIDE DEF NotReading
 <2> QED BY NotReadingIs DEF TelemetryInit
<1>14. routerRow \in [status : {"ONLINE", "DEGRADED"}, active_users : Nat] BY DEF TelemetryInit
<1>15. advisoryLock \in Collectors \cup {Nobody} /\ sampleClock \in Nat /\ lostLocks \in Nat BY DEF TelemetryInit
<1> QED BY <1>11,<1>12,<1>13,<1>14,<1>15 DEF TelTypes

\* A client leaves the list.
LEMMA Removed ==
  ASSUME NEW l, ListOK(l), NEW j \in DOMAIN l, NEW m, m = RemoveAt(l, j)
  PROVE  /\ ListOK(m) /\ Len(m) = Len(l) - 1
         /\ \A i \in DOMAIN m : /\ i < j => i \in DOMAIN l /\ m[i] = l[i]
                                /\ ~(i < j) => i + 1 \in DOMAIN l /\ m[i] = l[i + 1] /\ i + 1 # j
         /\ \A i \in DOMAIN m : m[i].client # l[j].client
         /\ \A i \in DOMAIN l \ {j} : \E h \in DOMAIN m : m[h] = l[i]
<1>0. /\ l \in Seq(ListRows) /\ Len(l) \in Nat /\ DOMAIN l = 1..Len(l)
      /\ \A h, i \in DOMAIN l : l[h].client = l[i].client => h = i BY ONLY ListOK(l), ListTypes
<1> PICK n \in Nat : n = Len(l) BY <1>0
<1>1. j \in 1..n BY <1>0
<1> DEFINE a == SubSeq(l, 1, j - 1)
           b == SubSeq(l, j + 1, n)
<1>2. a \in Seq(ListRows) /\ Len(a) = j - 1 /\ \A i \in 1..(j - 1) : a[i] = l[i] BY ONLY <1>0,<1>1, n \in Nat, n = Len(l), SubSeqProperties
<1>3. b \in Seq(ListRows) /\ Len(b) = n - j /\ \A i \in 1..(n - j) : b[i] = l[i + j] BY ONLY <1>0,<1>1, n \in Nat, n = Len(l), SubSeqProperties
<1>4. m = a \o b BY DEF RemoveAt
<1> HIDE DEF a, b
<1>5. m \in Seq(ListRows) /\ Len(m) = n - 1 /\ DOMAIN m = 1..(n - 1)
 <2>1. m \in Seq(ListRows) /\ Len(m) = Len(a) + Len(b) BY ONLY <1>2,<1>3,<1>4, ConcatProperties
 <2>2. Len(m) = n - 1
  <3>1. j \in 1..n /\ n \in Nat /\ Len(a) = j - 1 BY ONLY <1>1,<1>2, n \in Nat
  <3>2. Len(b) = n - j BY ONLY <1>3
  <3>3. Len(m) = Len(a) + Len(b) BY ONLY <2>1
  <3> QED BY ONLY <3>1,<3>2,<3>3
 <2>3. DOMAIN m = 1..Len(m) BY ONLY <2>1
 <2> QED BY <2>1,<2>2,<2>3
<1>6. \A i \in 1..(n - 1) : m[i] = IF i < j THEN l[i] ELSE l[i + 1]
 <2>1. TAKE i \in 1..(n - 1)
 <2>2. m[i] = IF i <= Len(a) THEN a[i] ELSE b[i - Len(a)] BY ONLY <1>1,<1>2,<1>3,<1>4, n \in Nat, i \in 1..(n - 1), ConcatProperties
 <2>3. CASE i < j
  <3>1. i \in 1..(j - 1) /\ i <= j - 1 BY ONLY <1>1,<2>3, n \in Nat, i \in 1..(n - 1)
  <3> QED BY <1>2,<2>2,<2>3,<3>1
 <2>4. CASE ~(i < j)
  <3>1. i - (j - 1) \in 1..(n - j) /\ ~(i <= j - 1) /\ i - (j - 1) + j = i + 1 BY ONLY <1>1,<2>4, n \in Nat, i \in 1..(n - 1)
  <3> QED BY <1>2,<1>3,<2>2,<2>4,<3>1
 <2> QED BY <2>3,<2>4
<1>7. \A i \in 1..(n - 1) : /\ i < j => i \in 1..n /\ i # j
                            /\ ~(i < j) => i + 1 \in 1..n /\ i + 1 # j BY ONLY <1>1, n \in Nat
<1>8. \A i \in DOMAIN m : /\ i < j => i \in DOMAIN l /\ m[i] = l[i]
                          /\ ~(i < j) => i + 1 \in DOMAIN l /\ m[i] = l[i + 1] /\ i + 1 # j BY <1>0,<1>5,<1>6,<1>7
<1>9. \A i \in DOMAIN m : m[i].client # l[j].client
 <2>1. TAKE i \in DOMAIN m
 <2>2. PICK h \in DOMAIN l : m[i] = l[h] /\ h # j BY <1>5,<1>7,<1>8
 <2> QED BY <1>0,<2>2
<1>10. \A i \in DOMAIN l \ {j} : \E h \in DOMAIN m : m[h] = l[i]
 <2>1. TAKE i \in DOMAIN l \ {j}
 <2>2. CASE i < j
  <3>1. i \in 1..(n - 1) BY ONLY <1>0,<1>1,<2>2, n \in Nat, n = Len(l), i \in DOMAIN l \ {j}
  <3> QED BY <1>5,<1>6,<2>2,<3>1
 <2>3. CASE ~(i < j)
  <3>1. i - 1 \in 1..(n - 1) /\ ~(i - 1 < j) /\ i - 1 + 1 = i BY ONLY <1>0,<1>1,<2>3, n \in Nat, n = Len(l), i \in DOMAIN l \ {j}
  <3> QED BY <1>5,<1>6,<3>1
 <2> QED BY <2>2,<2>3
<1>11. ListOK(m)
 <2>1. SUFFICES ASSUME NEW h \in DOMAIN m, NEW i \in DOMAIN m, m[h].client = m[i].client PROVE h = i BY <1>5 DEF ListOK
 <2>2. h \in 1..(n - 1) /\ i \in 1..(n - 1) BY <1>5
 <2> PICK hh : hh = IF h < j THEN h ELSE h + 1 OBVIOUS
 <2> PICK ii : ii = IF i < j THEN i ELSE i + 1 OBVIOUS
 <2>3. m[h] = l[hh] /\ m[i] = l[ii] /\ hh \in DOMAIN l /\ ii \in DOMAIN l BY <1>8
 <2>4. hh = ii BY <1>0,<2>1,<2>3
 <2>5. h \in Nat /\ i \in Nat /\ j \in Nat BY <1>1,<2>2
 <2>6. CASE h < j /\ i < j BY <2>4,<2>6
 <2>7. CASE h < j /\ ~(i < j)
  <3>1. h = i + 1 BY <2>4,<2>7
  <3> QED BY ONLY <2>5,<2>7,<3>1
 <2>8. CASE ~(h < j) /\ i < j
  <3>1. h + 1 = i BY <2>4,<2>8
  <3> QED BY ONLY <2>5,<2>8,<3>1
 <2>9. CASE ~(h < j) /\ ~(i < j)
  <3>1. h + 1 = i + 1 BY <2>4,<2>9
  <3> QED BY ONLY <2>5,<3>1
 <2> QED BY <2>6,<2>7,<2>8,<2>9
<1> QED BY <1>5,<1>8,<1>9,<1>10,<1>11

ListedIn(l) == ClientsAt(l, DOMAIN l)
\* What a change of the list from l to m may do to a reading that has come to the page p.
PassedBy(l, m, p, x) == Behind(m, p) \subseteq Behind(l, p) \cup {x}
ComesUp(l, m, p, x) == Ahead(m, p) \subseteq Ahead(l, p) \cup {x}

\* A client comes, and the list begins with it.
LEMMA ComesFirst ==
  ASSUME NEW l, ListOK(l), NEW row \in ListRows, row.client \notin ListedIn(l), NEW m, m = <<row>> \o l
  PROVE  /\ ListOK(m) /\ ListedIn(m) = ListedIn(l) \cup {row.client}
         /\ \A p \in Nat \ {0} : PassedBy(l, m, p, row.client) /\ \E x : ComesUp(l, m, p, x)
<1>0. /\ l \in Seq(ListRows) /\ Len(l) \in Nat /\ DOMAIN l = 1..Len(l) /\ PageSize \in Nat /\ PageSize # 0
      /\ \A h, i \in DOMAIN l : l[h].client = l[i].client => h = i BY ListTypes
<1> PICK n \in Nat : n = Len(l) BY <1>0
<1>1. m \in Seq(ListRows) /\ Len(m) = n + 1 /\ DOMAIN m = 1..(n + 1)
 <2>1. <<row>> \in Seq(ListRows) /\ Len(<<row>>) = 1 OBVIOUS
 <2>2. m \in Seq(ListRows) /\ Len(m) = Len(<<row>>) + Len(l) BY ONLY <1>0,<2>1, m = <<row>> \o l, ConcatProperties
 <2>3. Len(m) = n + 1
  <3> PICK z : z = Len(m) OBVIOUS
  <3> QED BY <2>1,<2>2
 <2>4. DOMAIN m = 1..Len(m) BY ONLY <2>2
 <2> QED BY <2>2,<2>3,<2>4
<1>2. m[1] = row /\ \A i \in 1..n : m[i + 1] = l[i] BY ONLY <1>0, m = <<row>> \o l, n \in Nat, n = Len(l), row \in ListRows
<1>3. \A i \in DOMAIN m : i = 1 \/ \E j \in 1..n : i = j + 1
 <2>1. \A i \in 1..(n + 1) : i = 1 \/ (i - 1 \in 1..n /\ i = (i - 1) + 1) BY ONLY n \in Nat
 <2> QED BY <1>1,<2>1
<1>4. 1 \in DOMAIN m /\ \A j \in 1..n : j + 1 \in DOMAIN m
 <2>1. 1 \in 1..(n + 1) /\ \A j \in 1..n : j + 1 \in 1..(n + 1) BY ONLY n \in Nat
 <2> QED BY <1>1,<2>1
<1>5. \A j \in 1..n : l[j].client # row.client BY <1>0 DEF ListedIn, ClientsAt
<1>6. ListOK(m)
 <2>1. SUFFICES ASSUME NEW h \in DOMAIN m, NEW i \in DOMAIN m, m[h].client = m[i].client PROVE h = i BY <1>1 DEF ListOK
 <2>2. CASE h = 1 /\ i = 1 BY <2>2
 <2>3. CASE h # 1 /\ i = 1
  <3>1. PICK j \in 1..n : h = j + 1 BY <1>3,<2>3
  <3> QED BY <1>2,<1>5,<2>1,<2>3,<3>1
 <2>4. CASE h = 1 /\ i # 1
  <3>1. PICK j \in 1..n : i = j + 1 BY <1>3,<2>4
  <3> QED BY <1>2,<1>5,<2>1,<2>4,<3>1
 <2>5. CASE h # 1 /\ i # 1
  <3>1. PICK hh \in 1..n : h = hh + 1 BY <1>3,<2>5
  <3>2. PICK ii \in 1..n : i = ii + 1 BY <1>3,<2>5
  <3>3. m[h] = l[hh] /\ m[i] = l[ii] BY <1>2,<3>1,<3>2
  <3>4. hh \in DOMAIN l /\ ii \in DOMAIN l BY <1>0
  <3>5. hh = ii BY <1>0,<2>1,<3>3,<3>4
  <3> QED BY <3>1,<3>2,<3>5
 <2> QED BY <2>2,<2>3,<2>4,<2>5
<1>7. ListedIn(m) = ListedIn(l) \cup {row.client}
 <2>1. ASSUME NEW k \in ListedIn(m) PROVE k \in ListedIn(l) \cup {row.client} BY <1>0,<1>2,<1>3,<2>1 DEF ListedIn, ClientsAt
 <2>2. ASSUME NEW k \in ListedIn(l) PROVE k \in ListedIn(m)
  <3>1. PICK j \in 1..n : l[j].client = k BY <1>0,<2>2 DEF ListedIn, ClientsAt
  <3>2. j + 1 \in DOMAIN m /\ m[j + 1] = l[j] BY <1>2,<1>4
  <3> QED BY <3>1,<3>2 DEF ListedIn, ClientsAt
 <2>3. row.client \in ListedIn(m) BY <1>2,<1>4 DEF ListedIn, ClientsAt
 <2> QED BY <2>1,<2>2,<2>3
<1>8. ASSUME NEW p \in Nat \ {0} PROVE PassedBy(l, m, p, row.client)
 <2> PICK b \in Nat : b = (p - 1) * PageSize BY <1>0
 <2>1. SUFFICES ASSUME NEW i \in PlacesBefore(m, p), i # 1 PROVE m[i].client \in Behind(l, p) BY <1>2 DEF PassedBy, Behind, ClientsAt
 <2>2. PICK j \in 1..n : i = j + 1 BY <1>3,<2>1 DEF PlacesBefore
 <2>3. m[i] = l[j] BY <1>2,<2>2
 <2>4. (CountsPages /\ j + 1 <= b) \/ (clientListing = "site by site" /\ l[j].site < p) BY <2>2,<2>3 DEF PlacesBefore
 <2>5. j + 1 <= b => j <= b BY ONLY n \in Nat, j \in 1..n, b \in Nat
 <2>6. j \in PlacesBefore(l, p) BY <1>0,<2>4,<2>5 DEF PlacesBefore
 <2> QED BY <2>3,<2>6 DEF Behind, ClientsAt
<1>9. ASSUME NEW p \in Nat \ {0} PROVE \E x : ComesUp(l, m, p, x)
 <2> PICK b \in Nat : b = (p - 1) * PageSize BY <1>0
 <2>1. CASE CountsPages /\ b # 0
  <3>0. clientListing # "site by site" BY <2>1 DEF CountsPages
  <3> PICK k : k = m[b + 1].client OBVIOUS
  <3> SUFFICES ComesUp(l, m, p, k) OBVIOUS
  <3>1. SUFFICES ASSUME NEW i \in DOMAIN m \ PlacesBefore(m, p), m[i].client # k PROVE m[i].client \in Ahead(l, p)
   <4>1. Ahead(m, p) = {m[i].client : i \in DOMAIN m \ PlacesBefore(m, p)} BY ONLY TRUE DEF Ahead, ClientsAt
   <4> QED BY ONLY <3>1,<4>1 DEF ComesUp
  <3>2. ~(i <= b) BY <2>1,<3>1 DEF PlacesBefore
  <3>3. i # 1
   <4>1. 1 <= b BY ONLY b \in Nat, <2>1
   <4> QED BY <3>2,<4>1
  <3>4. PICK j \in 1..n : i = j + 1 BY <1>3,<3>1,<3>3
  <3>5. j # b BY <3>1,<3>4
  <3>6. ~(j <= b) BY ONLY <3>2,<3>4,<3>5, n \in Nat, j \in 1..n, b \in Nat
  <3>7. j \notin PlacesBefore(l, p) /\ j \in DOMAIN l BY <1>0,<3>0,<3>6 DEF PlacesBefore
  <3>8. m[i] = l[j] BY <1>2,<3>4
  <3> QED BY <3>7,<3>8 DEF Ahead, ClientsAt
 <2>2. CASE ~(CountsPages /\ b # 0)
  <3> SUFFICES ComesUp(l, m, p, row.client) OBVIOUS
  <3>1. SUFFICES ASSUME NEW i \in DOMAIN m \ PlacesBefore(m, p), m[i].client # row.client
    PROVE m[i].client \in Ahead(l, p) BY DEF ComesUp, Ahead, ClientsAt
  <3>2. PICK j \in 1..n : i = j + 1 BY <1>2,<1>3,<3>1
  <3>3. m[i] = l[j] /\ j \in DOMAIN l BY <1>0,<1>2,<3>2
  <3>4. j \notin PlacesBefore(l, p)
   <4>1. ~(j <= 0) BY ONLY n \in Nat, j \in 1..n
   <4>2. ~(clientListing = "site by site" /\ l[j].site < p) BY <3>1,<3>3 DEF PlacesBefore
   <4>3. ~(CountsPages /\ j <= b) BY <2>2,<4>1
   <4> QED BY <4>2,<4>3 DEF PlacesBefore
  <3> QED BY <3>3,<3>4 DEF Ahead, ClientsAt
 <2> QED BY <2>1,<2>2
<1> QED BY ONLY <1>6,<1>7,<1>8,<1>9

\* A client comes, and the list ends with it.
LEMMA ComesLast ==
  ASSUME NEW l, ListOK(l), NEW row \in ListRows, row.client \notin ListedIn(l), NEW m, m = Append(l, row)
  PROVE  /\ ListOK(m) /\ ListedIn(m) = ListedIn(l) \cup {row.client}
         /\ \A p \in Nat \ {0} : PassedBy(l, m, p, row.client) /\ ComesUp(l, m, p, row.client)
<1>0. /\ l \in Seq(ListRows) /\ Len(l) \in Nat /\ DOMAIN l = 1..Len(l)
      /\ \A h, i \in DOMAIN l : l[h].client = l[i].client => h = i BY ONLY ListOK(l), ListTypes
<1> PICK n \in Nat : n = Len(l) BY <1>0
<1>1. m \in Seq(ListRows) /\ Len(m) = n + 1 /\ DOMAIN m = 1..(n + 1) BY ONLY <1>0, m = Append(l, row), n \in Nat, n = Len(l), row \in ListRows
<1>2. m[n + 1] = row /\ \A i \in 1..n : m[i] = l[i] BY ONLY <1>0, m = Append(l, row), n \in Nat, n = Len(l), row \in ListRows
<1>3. /\ \A i \in DOMAIN m : i = n + 1 \/ i \in 1..n
      /\ n + 1 \in DOMAIN m /\ \A i \in 1..n : i \in DOMAIN m
 <2>1. /\ \A i \in 1..(n + 1) : i = n + 1 \/ i \in 1..n
       /\ n + 1 \in 1..(n + 1) /\ \A i \in 1..n : i \in 1..(n + 1) BY ONLY n \in Nat
 <2> QED BY <1>1,<2>1
<1>4. DOMAIN l = 1..n BY <1>0
<1>5. \A j \in 1..n : l[j].client # row.client BY <1>4 DEF ListedIn, ClientsAt
<1>6. ListOK(m)
 <2>1. SUFFICES ASSUME NEW h \in DOMAIN m, NEW i \in DOMAIN m, m[h].client = m[i].client PROVE h = i BY <1>1 DEF ListOK
 <2> QED BY <1>0,<1>2,<1>3,<1>4,<1>5,<2>1
<1>7. ListedIn(m) = ListedIn(l) \cup {row.client}
 <2>1. ASSUME NEW k \in ListedIn(m) PROVE k \in ListedIn(l) \cup {row.client} BY <1>2,<1>3,<1>4,<2>1 DEF ListedIn, ClientsAt
 <2>2. ASSUME NEW k \in ListedIn(l) PROVE k \in ListedIn(m) BY <1>2,<1>3,<1>4,<2>2 DEF ListedIn, ClientsAt
 <2>3. row.client \in ListedIn(m) BY <1>2,<1>3 DEF ListedIn, ClientsAt
 <2> QED BY <2>1,<2>2,<2>3
<1>8. ASSUME NEW p \in Nat \ {0} PROVE PassedBy(l, m, p, row.client) /\ ComesUp(l, m, p, row.client)
 <2>1. \A i \in 1..n : i \in PlacesBefore(m, p) <=> i \in PlacesBefore(l, p) BY <1>2,<1>3,<1>4 DEF PlacesBefore
 <2>2. PlacesBefore(m, p) \subseteq DOMAIN m BY DEF PlacesBefore
 <2>3. PassedBy(l, m, p, row.client) BY <1>2,<1>3,<2>1,<2>2 DEF PassedBy, Behind, ClientsAt
 <2>4. ComesUp(l, m, p, row.client) BY <1>2,<1>3,<1>4,<2>1 DEF ComesUp, Ahead, ClientsAt
 <2> QED BY <2>3,<2>4
<1> QED BY <1>6,<1>7,<1>8

\* A client leaves: the next one may pass a page that was read already.
LEMMA Left ==
  ASSUME NEW l, ListOK(l), NEW j \in DOMAIN l, NEW m, m = RemoveAt(l, j)
  PROVE  /\ ListOK(m) /\ ListedIn(m) = ListedIn(l) \ {l[j].client}
         /\ \A p \in Nat \ {0} : Ahead(m, p) \subseteq Ahead(l, p) /\ \E x : PassedBy(l, m, p, x)
<1>0. /\ l \in Seq(ListRows) /\ Len(l) \in Nat /\ DOMAIN l = 1..Len(l) /\ PageSize \in Nat /\ PageSize # 0 BY ListTypes
<1>1. ListOK(m) /\ Len(m) = Len(l) - 1 BY Removed
<1>2. \A i \in DOMAIN m : /\ i < j => i \in DOMAIN l /\ m[i] = l[i]
                          /\ ~(i < j) => i + 1 \in DOMAIN l /\ m[i] = l[i + 1] /\ i + 1 # j BY Removed
<1>3. \A i \in DOMAIN m : m[i].client # l[j].client BY Removed
<1>4. \A i \in DOMAIN l \ {j} : \E h \in DOMAIN m : m[h] = l[i] BY Removed
<1>n. j \in Nat /\ \A i \in DOMAIN m : i \in Nat
 <2>1. DOMAIN m \in SUBSET Nat BY <1>1, ListTypes
 <2> QED BY <1>0,<2>1
<1>5. ListedIn(m) = ListedIn(l) \ {l[j].client}
 <2>1. ASSUME NEW k \in ListedIn(m) PROVE k \in ListedIn(l) \ {l[j].client}
  <3>1. PICK i \in DOMAIN m : k = m[i].client BY DEF ListedIn, ClientsAt
  <3>2. \E h \in DOMAIN l : m[i] = l[h] BY <1>2
  <3> QED BY <1>3,<3>1,<3>2 DEF ListedIn, ClientsAt
 <2>2. ASSUME NEW k \in ListedIn(l) \ {l[j].client} PROVE k \in ListedIn(m)
  <3>1. PICK i \in DOMAIN l \ {j} : k = l[i].client BY DEF ListedIn, ClientsAt
  <3> QED BY <1>4,<3>1 DEF ListedIn, ClientsAt
 <2> QED BY <2>1,<2>2
<1>6. ASSUME NEW p \in Nat \ {0} PROVE Ahead(m, p) \subseteq Ahead(l, p) /\ \E x : PassedBy(l, m, p, x)
 <2> PICK b \in Nat : b = (p - 1) * PageSize BY <1>0
 <2>1. Ahead(m, p) \subseteq Ahead(l, p)
  <3>1. SUFFICES ASSUME NEW i \in DOMAIN m \ PlacesBefore(m, p) PROVE m[i].client \in Ahead(l, p) BY DEF Ahead, ClientsAt
  <3>2. ~(CountsPages /\ i <= b) /\ ~(clientListing = "site by site" /\ m[i].site < p) BY DEF PlacesBefore
  <3>3. CASE i < j
   <4>1. i \notin PlacesBefore(l, p) /\ i \in DOMAIN l BY <1>2,<3>2,<3>3 DEF PlacesBefore
   <4> QED BY <1>2,<3>3,<4>1 DEF Ahead, ClientsAt
  <3>4. CASE ~(i < j)
   <4>0. i \in Nat BY <1>n
   <4>3. i + 1 <= b => i <= b BY ONLY <4>0, b \in Nat
   <4>1. ~(CountsPages /\ i + 1 <= b) BY <3>2,<4>3
   <4>2. i + 1 \notin PlacesBefore(l, p) /\ i + 1 \in DOMAIN l BY <1>2,<3>2,<3>4,<4>1 DEF PlacesBefore
   <4> QED BY <1>2,<3>4,<4>2 DEF Ahead, ClientsAt
  <3> QED BY <3>3,<3>4
 <2>2. PassedBy(l, m, p, m[b].client)
  <3>1. SUFFICES ASSUME NEW i \in PlacesBefore(m, p), i # b PROVE m[i].client \in Behind(l, p) BY DEF PassedBy, Behind, ClientsAt
  <3>2. i \in DOMAIN m /\ ((CountsPages /\ i <= b) \/ (clientListing = "site by site" /\ m[i].site < p)) BY DEF PlacesBefore
  <3>3. CASE i < j
   <4>1. i \in PlacesBefore(l, p) BY <1>2,<3>2,<3>3 DEF PlacesBefore
   <4> QED BY <1>2,<3>2,<3>3,<4>1 DEF Behind, ClientsAt
  <3>4. CASE ~(i < j)
   <4>0. i \in Nat BY <1>n,<3>2
   <4>1. i <= b => i + 1 <= b BY ONLY <3>1,<4>0, b \in Nat
   <4>2. i + 1 \in PlacesBefore(l, p) BY <1>2,<3>2,<3>4,<4>1 DEF PlacesBefore
   <4> QED BY <1>2,<3>2,<3>4,<4>2 DEF Behind, ClientsAt
  <3> QED BY <3>3,<3>4
 <2> QED BY <2>1,<2>2
<1> QED BY <1>1,<1>5,<1>6

\* A client roams to another site, in the same place.
AtSite(l, j, s) == [i \in DOMAIN l |-> IF i = j THEN [l[j] EXCEPT !.site = s] ELSE l[i]]
LEMMA Roamed ==
  ASSUME NEW l, ListOK(l), NEW j \in DOMAIN l, NEW s \in Sites, NEW m, m = AtSite(l, j, s)
  PROVE  /\ ListOK(m) /\ ListedIn(m) = ListedIn(l)
         /\ \A p \in Nat \ {0} : PassedBy(l, m, p, l[j].client) /\ ComesUp(l, m, p, l[j].client)
<1>0. /\ l \in Seq(ListRows) /\ Len(l) \in Nat /\ DOMAIN l = 1..Len(l)
      /\ \A h, i \in DOMAIN l : l[h].client = l[i].client => h = i BY ListTypes
<1>1. \A i \in DOMAIN l : l[i] \in ListRows BY ONLY <1>0
<1>2. DOMAIN m = DOMAIN l /\ \A i \in DOMAIN l : i # j => m[i] = l[i] BY DEF AtSite
<1>3. m[j] = [l[j] EXCEPT !.site = s] BY DEF AtSite
<1>4. m[j] \in ListRows /\ m[j].client = l[j].client BY <1>1,<1>3 DEF ListRows
<1>5. \A i \in DOMAIN l : m[i] \in ListRows /\ m[i].client = l[i].client BY <1>1,<1>2,<1>4
<1>6. m \in Seq(ListRows)
 <2>1. m = [i \in 1..Len(l) |-> m[i]]
  <3>1. m = [i \in DOMAIN l |-> m[i]] BY DEF AtSite
  <3> QED BY <1>0,<3>1
 <2> QED BY <1>0,<1>5,<2>1
<1>7. ListOK(m) BY <1>0,<1>2,<1>5,<1>6 DEF ListOK
<1>8. ListedIn(m) = ListedIn(l) BY <1>2,<1>5 DEF ListedIn, ClientsAt
<1>9. ASSUME NEW p \in Nat \ {0} PROVE PassedBy(l, m, p, l[j].client) /\ ComesUp(l, m, p, l[j].client)
 <2>1. \A i \in DOMAIN l : i # j => (i \in PlacesBefore(m, p) <=> i \in PlacesBefore(l, p)) BY <1>2 DEF PlacesBefore
 <2>2. PlacesBefore(m, p) \subseteq DOMAIN l BY <1>2 DEF PlacesBefore
 <2>3. PassedBy(l, m, p, l[j].client) BY <1>5,<2>1,<2>2 DEF PassedBy, Behind, ClientsAt
 <2>4. ComesUp(l, m, p, l[j].client) BY <1>2,<1>5,<2>1 DEF ComesUp, Ahead, ClientsAt
 <2> QED BY <2>3,<2>4
<1> QED BY <1>7,<1>8,<1>9

\* Cardinalities: one more, and what a request adds to a reading.
LEMMA OneMore ==
  ASSUME NEW S, IsFiniteSet(S), NEW x, NEW T, T \subseteq S \cup {x}
  PROVE IsFiniteSet(T) /\ Cardinality(T) \in Nat /\ Cardinality(T) <= Cardinality(S) + 1
<1>1. IsFiniteSet(S \cup {x}) /\ Cardinality(S \cup {x}) = IF x \in S THEN Cardinality(S) ELSE Cardinality(S) + 1 BY FS_AddElement
<1>2. T \in SUBSET (S \cup {x}) OBVIOUS
<1>3. IsFiniteSet(T) /\ Cardinality(T) <= Cardinality(S \cup {x}) BY ONLY <1>1,<1>2, FS_Subset
<1>4. Cardinality(S) \in Nat /\ Cardinality(T) \in Nat BY <1>3, FS_CardinalityType
<1> PICK n, t, u : n = Cardinality(S) /\ t = Cardinality(T) /\ u = Cardinality(S \cup {x}) OBVIOUS
<1>5. u = n \/ u = n + 1 BY <1>1
<1>6. n \in Nat /\ t \in Nat /\ t <= u BY <1>3,<1>4
<1>7. t <= n + 1 BY ONLY <1>5,<1>6
<1> QED BY <1>3,<1>4,<1>7

LEMMA ReadingMore ==
  ASSUME NEW G, IsFiniteSet(G), NEW A, NEW P \in SUBSET A, IsFiniteSet(P), NEW n \in Nat, NEW a \in Nat,
      n - Cardinality(G) + Cardinality(G \cap A) <= a
  PROVE  /\ IsFiniteSet(G \cup P)
         /\ n + Cardinality(P) - Cardinality(G \cup P) + Cardinality((G \cup P) \cap (A \ P)) <= a
         /\ n + Cardinality(P) - Cardinality(G \cup P) <= a
<1>1. IsFiniteSet(G \cup P) /\ Cardinality(G \cup P) = Cardinality(G) + Cardinality(P) - Cardinality(G \cap P) BY FS_Union
<1> PICK U : U = G \cap A OBVIOUS
<1> PICK V : V = G \cap P OBVIOUS
<1> PICK W : W = (G \cup P) \cap (A \ P) OBVIOUS
<1>2. V \in SUBSET U /\ W = U \ V /\ U \in SUBSET G OBVIOUS
<1>3. IsFiniteSet(U) /\ IsFiniteSet(V) BY ONLY <1>2, IsFiniteSet(G), FS_Subset
<1>4. Cardinality(U \ V) = Cardinality(U) - Cardinality(U \cap V) BY ONLY <1>3, FS_Difference
<1>5. U \cap V = V BY ONLY <1>2
<1>6. Cardinality(U) \in Nat /\ Cardinality(V) \in Nat /\ Cardinality(G) \in Nat /\ Cardinality(P) \in Nat /\ Cardinality(W) \in Nat
 <2>1. IsFiniteSet(U \ V) BY ONLY <1>3, FS_Difference
 <2>2. IsFiniteSet(W) BY <1>2,<2>1
 <2> QED BY <1>3,<2>2, FS_CardinalityType
<1>7. Cardinality(V) <= Cardinality(U) BY <1>2,<1>3, FS_Subset
<1> PICK g, p, u, v, w, q : /\ g = Cardinality(G) /\ p = Cardinality(P) /\ u = Cardinality(U) /\ v = Cardinality(V)
                            /\ w = Cardinality(W) /\ q = Cardinality(G \cup P) OBVIOUS
<1>8. q = g + p - v /\ w = u - v /\ v <= u /\ n - g + u <= a BY <1>1,<1>2,<1>4,<1>5,<1>7
<1>9. g \in Nat /\ p \in Nat /\ u \in Nat /\ v \in Nat /\ w \in Nat BY <1>6
<1>10. n + p - q + w <= a /\ n + p - q <= a BY ONLY <1>8,<1>9, n \in Nat, a \in Nat
<1> QED BY <1>1,<1>10

\* The clients of a reading.
LEMMA ReadInFacts ==
  ASSUME NEW got \in Seq(ReadRows), NEW rows \in Seq(ReadRows)
  PROVE  /\ IsFiniteSet(ReadIn(got)) /\ ReadIn(got \o rows) = ReadIn(got) \cup ReadIn(rows)
         /\ got \o rows \in Seq(ReadRows) /\ Len(got) \in Nat /\ Len(rows) \in Nat
         /\ Len(got \o rows) = Len(got) + Len(rows)
         /\ \A g \in Range(got \o rows) : g \in Range(got) \/ g \in Range(rows)
<1>1. /\ Len(got) \in Nat /\ DOMAIN got = 1..Len(got) /\ Len(rows) \in Nat /\ DOMAIN rows = 1..Len(rows)
  BY ONLY got \in Seq(ReadRows), rows \in Seq(ReadRows)
<1> PICK all : all = got \o rows OBVIOUS
<1>2. /\ all \in Seq(ReadRows) /\ Len(all) = Len(got) + Len(rows)
      /\ \A i \in 1..(Len(got) + Len(rows)) : all[i] = IF i <= Len(got) THEN got[i] ELSE rows[i - Len(got)]
  BY ONLY got \in Seq(ReadRows), rows \in Seq(ReadRows), all = got \o rows, ConcatProperties
<1> PICK m \in Nat, n \in Nat : m = Len(got) /\ n = Len(rows) BY <1>1
<1>3. DOMAIN all = 1..(m + n)
 <2>1. DOMAIN all = 1..Len(all) BY ONLY <1>2
 <2> QED BY <1>2,<2>1
<1>4. IsFiniteSet(ReadIn(got))
 <2>1. IsFiniteSet(DOMAIN got) BY <1>1, FS_Interval
 <2> DEFINE f == [i \in DOMAIN got |-> got[i].client]
 <2>2. f \in Surjection(DOMAIN got, ReadIn(got))
  <3>1. f \in [DOMAIN got -> ReadIn(got)] BY DEF ReadIn
  <3>2. \A k \in ReadIn(got) : \E i \in DOMAIN got : f[i] = k BY DEF ReadIn
  <3> HIDE DEF f
  <3> QED BY <3>1,<3>2 DEF Surjection
 <2> HIDE DEF f
 <2> QED BY <2>1,<2>2, FS_Surjection
<1>5. \A i \in 1..m : i \in 1..(m + n) /\ all[i] = got[i]
 <2>1. \A i \in 1..m : i \in 1..(m + n) /\ i <= m BY ONLY m \in Nat, n \in Nat
 <2> QED BY <1>2,<2>1
<1>6. \A i \in 1..n : i + m \in 1..(m + n) /\ all[i + m] = rows[i]
 <2>1. \A i \in 1..n : i + m \in 1..(m + n) /\ ~(i + m <= m) /\ i + m - m = i BY ONLY m \in Nat, n \in Nat
 <2> QED BY <1>2,<2>1
<1>7. \A i \in 1..(m + n) : i \in 1..m \/ \E j \in 1..n : i = j + m
 <2>1. \A i \in 1..(m + n) : i \in 1..m \/ (i - m \in 1..n /\ i = (i - m) + m) BY ONLY m \in Nat, n \in Nat
 <2> QED BY ONLY <2>1
<1>r. \A s : Range(s) = {s[i] : i \in DOMAIN s} BY DEF Range
<1>8. Range(all) = Range(got) \cup Range(rows)
 <2>0. /\ Range(all) = {all[i] : i \in 1..(m + n)} /\ Range(got) = {got[i] : i \in 1..m}
       /\ Range(rows) = {rows[i] : i \in 1..n} BY <1>1,<1>3,<1>r
 <2>1. ASSUME NEW x \in Range(all) PROVE x \in Range(got) \cup Range(rows)
  <3>1. PICK i \in 1..(m + n) : x = all[i] BY <2>0
  <3>2. CASE i \in 1..m
   <4>1. x = got[i] BY <1>5,<3>1,<3>2
   <4> QED BY <2>0,<3>2,<4>1
  <3>3. CASE \E j \in 1..n : i = j + m
   <4>1. PICK j \in 1..n : i = j + m BY <3>3
   <4>2. x = rows[j] BY <1>6,<3>1,<4>1
   <4> QED BY <2>0,<4>2
  <3> QED BY <1>7,<3>2,<3>3
 <2>2. ASSUME NEW x \in Range(got) PROVE x \in Range(all)
  <3>1. PICK i \in 1..m : x = got[i] BY <2>0
  <3> QED BY <1>5,<2>0,<3>1
 <2>3. ASSUME NEW x \in Range(rows) PROVE x \in Range(all)
  <3>1. PICK i \in 1..n : x = rows[i] BY <2>0
  <3> QED BY <1>6,<2>0,<3>1
 <2> QED BY <2>1,<2>2,<2>3
<1>9. \A s : ReadIn(s) = {g.client : g \in Range(s)} BY DEF ReadIn, Range
<1>10. ReadIn(all) = ReadIn(got) \cup ReadIn(rows) BY ONLY <1>8,<1>9
<1> QED BY <1>1,<1>2,<1>4,<1>8,<1>10

\* A reading that has come to a page: what it misses of the clients it has passed, and what
\* it counts twice already or can count twice yet, is paid for by departures and arrivals.
ReadingFits(r, l) ==
  /\ r.stayed \subseteq ListedIn(l)
  /\ Cardinality((r.stayed \ ReadIn(r.got)) \cap Behind(l, r.page)) <= r.departures
  /\ Len(r.got) - Cardinality(ReadIn(r.got)) + Cardinality(ReadIn(r.got) \cap Ahead(l, r.page)) <= r.arrivals
  /\ CountsPages => Len(r.got) = (r.page - 1) * PageSize
ReadFits(r) == Cardinality(r.stayed \ ReadIn(r.got)) <= r.departures /\ Len(r.got) - Cardinality(ReadIn(r.got)) <= r.arrivals
AtEnd == {"count", "stamp", "record", "healthy"}
CountFits(r, l) == (r.at = "read" => ReadingFits(r, l)) /\ (r.at \in AtEnd => ReadFits(r))

LEMMA ReadingTypes ==
  ASSUME NEW r \in ReadingRows
  PROVE  /\ r.at \in Steps /\ r.page \in Nat \ {0} /\ r.got \in Seq(ReadRows) /\ r.left \in Seq(ReadRows)
         /\ r.sessions \subseteq SessionRows /\ r.sampledAt \in Nat /\ r.stayed \subseteq Clients /\ r.departures \in Nat /\ r.arrivals \in Nat
         /\ IsFiniteSet(ReadIn(r.got)) /\ IsFiniteSet(r.stayed) /\ Len(r.got) \in Nat
<1> HIDE DEF ReadRows, Steps
<1>1. /\ r.at \in Steps /\ r.page \in Nat \ {0} /\ r.got \in Seq(ReadRows) /\ r.left \in Seq(ReadRows)
      /\ r.sessions \subseteq SessionRows /\ r.sampledAt \in Nat /\ r.stayed \subseteq Clients /\ r.departures \in Nat /\ r.arrivals \in Nat BY DEF ReadingRows
<1>2. IsFiniteSet(r.stayed)
 <2>1. r.stayed \in SUBSET Clients BY <1>1
 <2> QED BY ONLY <2>1, TelemetryAssumption, FS_Subset
<1>3. IsFiniteSet(ReadIn(r.got)) /\ Len(r.got) \in Nat BY ONLY <1>1, ReadInFacts
<1> QED BY <1>1,<1>2,<1>3

\* A smaller part of a finite set.
LEMMA SmallerPart ==
  ASSUME NEW S, IsFiniteSet(S), NEW T, T \subseteq S
  PROVE IsFiniteSet(T) /\ Cardinality(T) \in Nat /\ Cardinality(S) \in Nat /\ Cardinality(T) <= Cardinality(S)
<1>1. T \in SUBSET S OBVIOUS
<1>2. IsFiniteSet(T) /\ Cardinality(T) <= Cardinality(S) BY <1>1, FS_Subset
<1> QED BY <1>2, FS_CardinalityType

\* The clients change while a reading has ended, and while it goes on.
LEMMA EndedStill ==
  ASSUME NEW r \in ReadingRows, NEW s \in ReadingRows, s.got = r.got, s.stayed \subseteq r.stayed,
      s.departures >= r.departures, s.arrivals >= r.arrivals, ReadFits(r)
  PROVE ReadFits(s)
<1> PICK G : G = ReadIn(r.got) OBVIOUS
<1>1. /\ IsFiniteSet(G) /\ IsFiniteSet(r.stayed) /\ r.departures \in Nat /\ r.arrivals \in Nat
      /\ s.departures \in Nat /\ s.arrivals \in Nat /\ Len(r.got) \in Nat BY ReadingTypes
<1>2. IsFiniteSet(r.stayed \ G) BY ONLY <1>1, FS_Difference
<1>3. s.stayed \ G \subseteq r.stayed \ G OBVIOUS
<1>4. Cardinality(s.stayed \ G) <= Cardinality(r.stayed \ G) /\ Cardinality(s.stayed \ G) \in Nat /\ Cardinality(r.stayed \ G) \in Nat
  BY ONLY <1>2,<1>3, SmallerPart
<1>5. Cardinality(G) \in Nat BY <1>1, FS_CardinalityType
<1>6. Cardinality(r.stayed \ G) <= r.departures /\ Len(r.got) - Cardinality(G) <= r.arrivals BY DEF ReadFits
<1>7. s.departures >= r.departures /\ s.arrivals >= r.arrivals OBVIOUS
<1>8. Cardinality(s.stayed \ G) <= s.departures BY ONLY <1>1,<1>4,<1>6,<1>7
<1>9. Len(r.got) - Cardinality(G) <= s.arrivals BY ONLY <1>1,<1>5,<1>6,<1>7
<1> QED BY <1>8,<1>9 DEF ReadFits

LEMMA ReadingStill ==
  ASSUME NEW r \in ReadingRows, NEW s \in ReadingRows, NEW l, NEW m, s.got = r.got, s.page = r.page,
      s.stayed \subseteq r.stayed, s.stayed \subseteq ListedIn(m),
      \/ s.stayed \cap Behind(m, r.page) \subseteq Behind(l, r.page) /\ s.departures >= r.departures
      \/ s.departures = r.departures + 1 /\ \E x : PassedBy(l, m, r.page, x),
      \/ Ahead(m, r.page) \subseteq Ahead(l, r.page) /\ s.arrivals >= r.arrivals
      \/ s.arrivals = r.arrivals + 1 /\ \E x : ComesUp(l, m, r.page, x), ReadingFits(r, l)
  PROVE ReadingFits(s, m)
<1> PICK G, p : G = ReadIn(r.got) /\ p = r.page OBVIOUS
<1>1. /\ IsFiniteSet(G) /\ IsFiniteSet(r.stayed) /\ r.departures \in Nat /\ r.arrivals \in Nat
      /\ s.departures \in Nat /\ s.arrivals \in Nat /\ Len(r.got) \in Nat BY ReadingTypes
<1>2. /\ Cardinality((r.stayed \ G) \cap Behind(l, p)) <= r.departures
      /\ Len(r.got) - Cardinality(G) + Cardinality(G \cap Ahead(l, p)) <= r.arrivals
      /\ CountsPages => Len(r.got) = (p - 1) * PageSize BY DEF ReadingFits
<1> PICK S, T : S = (r.stayed \ G) \cap Behind(l, p) /\ T = (s.stayed \ G) \cap Behind(m, p) OBVIOUS
<1> PICK U, V : U = G \cap Ahead(l, p) /\ V = G \cap Ahead(m, p) OBVIOUS
<1>3. IsFiniteSet(S) /\ IsFiniteSet(U)
 <2>1. S \subseteq r.stayed /\ U \subseteq G OBVIOUS
 <2> QED BY <1>1,<2>1, SmallerPart
<1>4. Cardinality(S) \in Nat /\ Cardinality(U) \in Nat /\ Cardinality(G) \in Nat BY <1>1,<1>3, FS_CardinalityType
<1>5. Cardinality(T) <= s.departures
 <2>1. CASE s.stayed \cap Behind(m, p) \subseteq Behind(l, p) /\ s.departures >= r.departures
  <3>1. T \subseteq S BY <2>1
  <3>2. Cardinality(T) <= Cardinality(S) /\ Cardinality(T) \in Nat BY ONLY <1>3,<3>1, SmallerPart
  <3> QED BY <1>1,<1>2,<1>4,<2>1,<3>2
 <2>2. CASE s.departures = r.departures + 1 /\ \E x : PassedBy(l, m, p, x)
  <3>1. PICK x : PassedBy(l, m, p, x) BY <2>2
  <3>2. T \subseteq S \cup {x} BY <3>1 DEF PassedBy
  <3>3. Cardinality(T) <= Cardinality(S) + 1 /\ Cardinality(T) \in Nat BY ONLY <1>3,<3>2, OneMore
  <3> QED BY <1>1,<1>2,<1>4,<2>2,<3>3
 <2> QED BY <2>1,<2>2
<1>6. Len(r.got) - Cardinality(G) + Cardinality(V) <= s.arrivals
 <2>1. CASE Ahead(m, p) \subseteq Ahead(l, p) /\ s.arrivals >= r.arrivals
  <3>1. V \subseteq U BY <2>1
  <3>2. Cardinality(V) <= Cardinality(U) /\ Cardinality(V) \in Nat BY ONLY <1>3,<3>1, SmallerPart
  <3> QED BY <1>1,<1>2,<1>4,<2>1,<3>2
 <2>2. CASE s.arrivals = r.arrivals + 1 /\ \E x : ComesUp(l, m, p, x)
  <3>1. PICK x : ComesUp(l, m, p, x) BY <2>2
  <3>2. V \subseteq U \cup {x} BY <3>1 DEF ComesUp
  <3>3. Cardinality(V) <= Cardinality(U) + 1 /\ Cardinality(V) \in Nat BY ONLY <1>3,<3>2, OneMore
  <3> QED BY <1>1,<1>2,<1>4,<2>2,<3>3
 <2> QED BY <2>1,<2>2
<1> QED BY <1>2,<1>5,<1>6 DEF ReadingFits

\* While the vendor's way of listing is the same, so is what a reading fits.
LEMMA SameListing == ASSUME clientListing' = clientListing, NEW r, NEW l PROVE CountFits(r, l)' <=> CountFits(r, l)
BY DEF CountFits, ReadingFits, ReadFits, Behind, Ahead, PlacesBefore, CountsPages, ClientsAt, ReadIn, ListedIn

AnyLeft(r) == (r.at = "stamp" => r.got # << >>) /\ (r.at = "record" => r.left # << >>)
ReadingsFit == \A c \in Collectors : CountFits(reading[c], listed) /\ AnyLeft(reading[c])
TelCounts == TelTypes /\ ReadingsFit

LEMMA CountFitsNext ==
  ASSUME clientListing' = clientListing, NEW c \in Collectors, NEW r, NEW l, reading'[c] = r, listed' = l, CountFits(r, l)
  PROVE CountFits(reading[c], listed)'
<1>1. CountFits(r, l)' BY SameListing
<1>2. reading[c]' = r /\ listed' = l OBVIOUS
<1>3. ReadingFits(reading[c], listed)' <=> ReadingFits(r, l)'
  BY ONLY <1>2 DEF ReadingFits, Behind, Ahead, PlacesBefore, CountsPages, ClientsAt, ReadIn, ListedIn
<1>4. ReadFits(reading[c])' <=> ReadFits(r)' BY ONLY <1>2 DEF ReadFits, ReadIn
<1> QED BY ONLY <1>1,<1>2,<1>3,<1>4 DEF CountFits

\* A change of the clients leaves each collection's step alone, and a reading that is
\* whole or goes on stays so.
LEMMA ClientsChange ==
  ASSUME NEW r \in ReadingRows, NEW s \in ReadingRows, NEW l, NEW m, s.at = r.at, s.left = r.left,
      s.got = r.got, s.page = r.page, s.departures >= r.departures, s.arrivals >= r.arrivals,
      s.stayed \subseteq r.stayed, r.at = "read" => s.stayed \subseteq ListedIn(m),
      r.at = "read" =>
        /\ \/ s.stayed \cap Behind(m, r.page) \subseteq Behind(l, r.page)
           \/ s.departures = r.departures + 1 /\ \E x : PassedBy(l, m, r.page, x)
        /\ \/ Ahead(m, r.page) \subseteq Ahead(l, r.page)
           \/ s.arrivals = r.arrivals + 1 /\ \E x : ComesUp(l, m, r.page, x), CountFits(r, l), AnyLeft(r)
  PROVE CountFits(s, m) /\ AnyLeft(s)
<1>1. AnyLeft(s) BY DEF AnyLeft
<1>2. ASSUME s.at = "read" PROVE ReadingFits(s, m)
 <2>1. r.at = "read" /\ ReadingFits(r, l) BY <1>2 DEF CountFits
 <2> QED BY <2>1, ReadingStill
<1>3. ASSUME s.at \in AtEnd PROVE ReadFits(s)
 <2>1. ReadFits(r) BY <1>3 DEF CountFits
 <2> QED BY <2>1, EndedStill
<1> QED BY <1>1,<1>2,<1>3 DEF CountFits

\* The parts of the types that a step of the clients leaves alone.
RestTypes ==
  /\ advisoryLock \in Collectors \cup {Nobody}
  /\ routerRow \in [status : {"ONLINE", "DEGRADED"}, active_users : Nat]
  /\ DOMAIN samples = SessionRows
  /\ \A k \in SessionRows : \A t \in DOMAIN samples[k] : t \in Nat /\ samples[k][t] \in SampleRows
  /\ sampleClock \in Nat /\ lostLocks \in Nat

\* The ways in which a step changes a collection.
OneCame(r) == [r EXCEPT !.arrivals = @ + 1]
OneLeft(r, k) == [r EXCEPT !.departures = @ + 1, !.stayed = @ \ {k}]
OneRoamed(r) == [r EXCEPT !.departures = @ + 1, !.arrivals = @ + 1]
AtStep(r, a) == [r EXCEPT !.at = a]
GotAll(r, g) == [r EXCEPT !.got = g, !.at = "count"]
GotPage(r, g) == [r EXCEPT !.got = g, !.page = @ + 1]
Stamped(r, o, t) == [r EXCEPT !.at = "record", !.left = r.got, !.sessions = o, !.sampledAt = t]
OneRecorded(r, a) == [r EXCEPT !.left = Tail(r.left), !.at = a]
SameRead(s, r) == /\ s.at = r.at /\ s.page = r.page /\ s.got = r.got /\ s.left = r.left /\ s.sampledAt = r.sampledAt
SameGot(s, r) == s.got = r.got /\ s.stayed = r.stayed /\ s.departures = r.departures /\ s.arrivals = r.arrivals

LEMMA ReadingWith ==
  ASSUME NEW r \in ReadingRows
  PROVE  /\ OneCame(r) \in ReadingRows /\ SameRead(OneCame(r), r) /\ OneCame(r).stayed = r.stayed
         /\ OneCame(r).departures = r.departures /\ OneCame(r).arrivals = r.arrivals + 1
         /\ \A k : /\ OneLeft(r, k) \in ReadingRows /\ SameRead(OneLeft(r, k), r) /\ OneLeft(r, k).stayed = r.stayed \ {k}
                  /\ OneLeft(r, k).departures = r.departures + 1 /\ OneLeft(r, k).arrivals = r.arrivals
         /\ OneRoamed(r) \in ReadingRows /\ SameRead(OneRoamed(r), r) /\ OneRoamed(r).stayed = r.stayed
         /\ OneRoamed(r).departures = r.departures + 1 /\ OneRoamed(r).arrivals = r.arrivals + 1
         /\ \A a \in Steps : AtStep(r, a) \in ReadingRows /\ AtStep(r, a).at = a /\ SameGot(AtStep(r, a), r)
         /\ \A g \in Seq(ReadRows) :
              /\ GotAll(r, g) \in ReadingRows /\ GotAll(r, g).at = "count" /\ GotAll(r, g).got = g
              /\ GotAll(r, g).stayed = r.stayed /\ GotAll(r, g).departures = r.departures /\ GotAll(r, g).arrivals = r.arrivals
         /\ \A g \in Seq(ReadRows) :
              /\ GotPage(r, g) \in ReadingRows /\ GotPage(r, g).at = r.at /\ GotPage(r, g).page = r.page + 1
              /\ GotPage(r, g).got = g /\ GotPage(r, g).stayed = r.stayed
              /\ GotPage(r, g).departures = r.departures /\ GotPage(r, g).arrivals = r.arrivals
         /\ \A a \in Steps : Tail(r.left) \in Seq(ReadRows) =>
              /\ OneRecorded(r, a) \in ReadingRows /\ OneRecorded(r, a).at = a /\ SameGot(OneRecorded(r, a), r)
              /\ OneRecorded(r, a).left = Tail(r.left) /\ OneRecorded(r, a).sampledAt = r.sampledAt
<1>t. /\ r.at \in Steps /\ r.page \in Nat \ {0} /\ r.got \in Seq(ReadRows) /\ r.left \in Seq(ReadRows)
      /\ r.sessions \subseteq SessionRows /\ r.sampledAt \in Nat /\ r.stayed \subseteq Clients /\ r.departures \in Nat /\ r.arrivals \in Nat BY ReadingTypes
<1>c. "count" \in Steps /\ "record" \in Steps BY DEF Steps
<1> HIDE DEF ReadRows, Steps
<1>n. \A n \in Nat : n + 1 \in Nat /\ n + 1 \in Nat \ {0} OBVIOUS
<1>1. /\ OneCame(r) \in ReadingRows /\ SameRead(OneCame(r), r) /\ OneCame(r).stayed = r.stayed
      /\ OneCame(r).departures = r.departures /\ OneCame(r).arrivals = r.arrivals + 1 BY <1>t,<1>n DEF ReadingRows, OneCame, SameRead
<1>2. ASSUME NEW k
  PROVE  /\ OneLeft(r, k) \in ReadingRows /\ SameRead(OneLeft(r, k), r) /\ OneLeft(r, k).stayed = r.stayed \ {k}
         /\ OneLeft(r, k).departures = r.departures + 1 /\ OneLeft(r, k).arrivals = r.arrivals
 <2>1. r.stayed \ {k} \in SUBSET Clients BY <1>t
 <2> QED BY <1>t,<1>n,<2>1 DEF ReadingRows, OneLeft, SameRead
<1>3. /\ OneRoamed(r) \in ReadingRows /\ SameRead(OneRoamed(r), r) /\ OneRoamed(r).stayed = r.stayed
      /\ OneRoamed(r).departures = r.departures + 1 /\ OneRoamed(r).arrivals = r.arrivals + 1 BY <1>t,<1>n DEF ReadingRows, OneRoamed, SameRead
<1>4. ASSUME NEW a \in Steps PROVE AtStep(r, a) \in ReadingRows /\ AtStep(r, a).at = a /\ SameGot(AtStep(r, a), r)
  BY <1>t DEF ReadingRows, AtStep, SameGot
<1>5. ASSUME NEW g \in Seq(ReadRows)
  PROVE  /\ GotAll(r, g) \in ReadingRows /\ GotAll(r, g).at = "count" /\ GotAll(r, g).got = g
         /\ GotAll(r, g).stayed = r.stayed /\ GotAll(r, g).departures = r.departures /\ GotAll(r, g).arrivals = r.arrivals
  BY <1>t,<1>c DEF ReadingRows, GotAll
<1>6. ASSUME NEW g \in Seq(ReadRows)
  PROVE  /\ GotPage(r, g) \in ReadingRows /\ GotPage(r, g).at = r.at /\ GotPage(r, g).page = r.page + 1
         /\ GotPage(r, g).got = g /\ GotPage(r, g).stayed = r.stayed
         /\ GotPage(r, g).departures = r.departures /\ GotPage(r, g).arrivals = r.arrivals BY <1>t,<1>n DEF ReadingRows, GotPage
<1>8. ASSUME NEW a \in Steps, Tail(r.left) \in Seq(ReadRows)
  PROVE  /\ OneRecorded(r, a) \in ReadingRows /\ OneRecorded(r, a).at = a /\ SameGot(OneRecorded(r, a), r)
         /\ OneRecorded(r, a).left = Tail(r.left) /\ OneRecorded(r, a).sampledAt = r.sampledAt
 <2> PICK q : q = Tail(r.left) OBVIOUS
 <2> QED BY <1>t,<1>8 DEF ReadingRows, OneRecorded, SameGot
<1> QED BY <1>1,<1>2,<1>3,<1>4,<1>5,<1>6,<1>8

LEMMA StampedIs ==
  ASSUME NEW r \in ReadingRows, NEW o \in SUBSET SessionRows, NEW t \in Nat, NEW s, s = Stamped(r, o, t)
  PROVE  s \in ReadingRows /\ s.at = "record" /\ SameGot(s, r) /\ s.left = r.got /\ s.sampledAt = t
<1> HIDE DEF ReadRows, Steps
<1>1. "record" \in Steps BY DEF Steps
<1> QED BY <1>1, ReadingTypes DEF ReadingRows, Stamped, SameGot

\* What a step of the clients has to show: the new list and readings, each of them typed
\* and fitting.
LEMMA ClientsStep ==
  ASSUME TelCounts, clientListing' = clientListing, UNCHANGED <<advisoryLock, recordsVars, collectorBounds>>,
      lease' \in [Clients -> Addresses], trafficCounter' \in [Clients -> Nat], transferred' \in [Clients -> Nat],
      NEW m, listed' = m, ListOK(m), NEW f, reading' = f, f \in [Collectors -> ReadingRows],
      \A c \in Collectors : CountFits(f[c], m) /\ AnyLeft(f[c])
  PROVE TelCounts'
<1>1. advisoryLock' = advisoryLock /\ routerRow' = routerRow /\ samples' = samples /\ sampleClock' = sampleClock /\ lostLocks' = lostLocks
  BY DEF recordsVars, collectorBounds
<1>2. RestTypes BY DEF TelCounts, TelTypes, RestTypes
<1>3. RestTypes' BY ONLY <1>1,<1>2 DEF RestTypes
<1>4. ListOK(listed)' BY DEF ListOK
<1>5. reading' \in [Collectors -> ReadingRows] OBVIOUS
<1>6. TelTypes'
 <2> HIDE DEF ReadingRows
 <2>1. lease' \in [Clients -> Addresses] /\ trafficCounter' \in [Clients -> Nat] /\ transferred' \in [Clients -> Nat] OBVIOUS
 <2> QED BY ONLY <1>3,<1>4,<1>5,<2>1 DEF TelTypes, RestTypes
<1>7. ReadingsFit'
 <2>1. SUFFICES ASSUME NEW c \in Collectors PROVE CountFits(reading[c], listed)' /\ AnyLeft(reading[c])' BY DEF ReadingsFit
 <2>2. CountFits(f[c], m) /\ AnyLeft(f[c]) /\ reading'[c] = f[c] OBVIOUS
 <2>3. CountFits(reading[c], listed)' BY <2>2, CountFitsNext
 <2>4. AnyLeft(reading[c])' BY ONLY <2>2 DEF AnyLeft
 <2> QED BY <2>3,<2>4
<1> QED BY <1>6,<1>7 DEF TelCounts

LEMMA TelFacts ==
  ASSUME TelCounts
  PROVE  /\ ListOK(listed) /\ reading \in [Collectors -> ReadingRows] /\ \A c \in Collectors : reading[c] \in ReadingRows
         /\ \A c \in Collectors : CountFits(reading[c], listed) /\ AnyLeft(reading[c])
         /\ lease \in [Clients -> Addresses] /\ trafficCounter \in [Clients -> Nat] /\ transferred \in [Clients -> Nat] /\ RestTypes
<1>1. TelTypes /\ ReadingsFit BY DEF TelCounts
<1>2. /\ ListOK(listed) /\ reading \in [Collectors -> ReadingRows]
      /\ lease \in [Clients -> Addresses] /\ trafficCounter \in [Clients -> Nat] /\ transferred \in [Clients -> Nat] /\ RestTypes BY <1>1 DEF TelTypes, RestTypes
<1>3. \A c \in Collectors : reading[c] \in ReadingRows
 <2> PICK R : R = ReadingRows OBVIOUS
 <2>1. reading \in [Collectors -> R] BY <1>2
 <2>2. \A c \in Collectors : reading[c] \in R BY ONLY <2>1
 <2> QED BY <2>2
<1>4. \A c \in Collectors : CountFits(reading[c], listed) /\ AnyLeft(reading[c]) BY <1>1 DEF ReadingsFit
<1> QED BY ONLY <1>2,<1>3,<1>4

LEMMA ComeCounts == ASSUME TelCounts, NEW k \in Clients, NEW first \in BOOLEAN, Come(k, first) PROVE TelCounts'
<1>0. /\ ListOK(listed) /\ \A c \in Collectors : reading[c] \in ReadingRows
      /\ \A c \in Collectors : CountFits(reading[c], listed) /\ AnyLeft(reading[c])
      /\ lease \in [Clients -> Addresses] /\ trafficCounter \in [Clients -> Nat] /\ transferred \in [Clients -> Nat] BY TelFacts
<1>1. /\ clientListing' = clientListing /\ UNCHANGED <<advisoryLock, recordsVars, collectorBounds>>
      /\ transferred' = transferred /\ trafficCounter' = [trafficCounter EXCEPT ![k] = 0] /\ k \notin ListedClients
      /\ \E a \in Addresses : lease' = [lease EXCEPT ![k] = a]
      /\ \E s \in Sites :
           listed' = IF first THEN <<[client |-> k, site |-> s]>> \o listed ELSE Append(listed, [client |-> k, site |-> s])
      /\ reading' = [c \in Collectors |-> OneCame(reading[c])] BY DEF Come, OneCame
<1>2. lease' \in [Clients -> Addresses] /\ trafficCounter' \in [Clients -> Nat] /\ transferred' \in [Clients -> Nat] BY <1>0,<1>1
<1> PICK s \in Sites :
           listed' = IF first THEN <<[client |-> k, site |-> s]>> \o listed ELSE Append(listed, [client |-> k, site |-> s]) BY <1>1
<1> PICK row : row = [client |-> k, site |-> s] OBVIOUS
<1>3. row \in ListRows /\ row.client = k BY DEF ListRows
<1>4. row.client \notin ListedIn(listed) BY <1>1,<1>3 DEF ListedIn, ClientsAt, ListedClients
<1> PICK m : m = IF first THEN <<row>> \o listed ELSE Append(listed, row) OBVIOUS
<1>5. /\ ListOK(m) /\ ListedIn(m) = ListedIn(listed) \cup {k}
      /\ \A p \in Nat \ {0} : PassedBy(listed, m, p, k) /\ \E x : ComesUp(listed, m, p, x)
 <2>1. CASE first
  <3>1. m = <<row>> \o listed BY <2>1
  <3> QED BY <1>0,<1>3,<1>4,<3>1, ComesFirst
 <2>2. CASE ~first
  <3>1. m = Append(listed, row) BY <2>2
  <3>2. /\ ListOK(m) /\ ListedIn(m) = ListedIn(listed) \cup {k}
        /\ \A p \in Nat \ {0} : PassedBy(listed, m, p, k) /\ ComesUp(listed, m, p, k) BY <1>0,<1>3,<1>4,<3>1, ComesLast
  <3> QED BY <3>2
 <2> QED BY <2>1,<2>2
<1>6. listed' = m OBVIOUS
<1> DEFINE f == [c \in Collectors |-> OneCame(reading[c])]
<1>7. f \in [Collectors -> ReadingRows] BY <1>0, ReadingWith
<1>8. ASSUME NEW c \in Collectors PROVE CountFits(f[c], m) /\ AnyLeft(f[c])
 <2> PICK r \in ReadingRows : r = reading[c] BY <1>0
 <2> PICK z \in ReadingRows : z = OneCame(r) BY ReadingWith
 <2>0. r.departures \in Nat /\ r.arrivals \in Nat /\ r.page \in Nat \ {0} BY ReadingTypes
 <2>1. /\ z.at = r.at /\ z.left = r.left /\ z.got = r.got /\ z.page = r.page /\ z.departures = r.departures
       /\ z.arrivals = r.arrivals + 1 /\ z.stayed = r.stayed
  <3> QED BY ReadingWith DEF SameRead
 <2>2. CountFits(r, listed) /\ AnyLeft(r) BY <1>0
 <2>3. ASSUME r.at = "read" PROVE z.stayed \subseteq ListedIn(m) /\ z.stayed \cap Behind(m, r.page) \subseteq Behind(listed, r.page)
  <3>1. r.stayed \subseteq ListedIn(listed) BY <2>2,<2>3 DEF CountFits, ReadingFits
  <3>2. k \notin r.stayed BY <1>3,<1>4,<3>1
  <3>3. Behind(m, r.page) \subseteq Behind(listed, r.page) \cup {k} BY <1>5,<2>0 DEF PassedBy
  <3> QED BY <1>5,<2>1,<3>1,<3>2,<3>3
 <2>4. \E x : ComesUp(listed, m, r.page, x) BY <1>5,<2>0
 <2>5. z.departures >= r.departures /\ z.arrivals >= r.arrivals BY <2>0,<2>1
 <2>6. CountFits(z, m) /\ AnyLeft(z) BY ONLY r \in ReadingRows, z \in ReadingRows, <2>1,<2>2,<2>3,<2>4,<2>5, ClientsChange
 <2>7. f[c] = z OBVIOUS
 <2> QED BY <2>6,<2>7
<1>9. reading' = f BY <1>1
<1> HIDE DEF f
<1> QED BY <1>1,<1>2,<1>5,<1>6,<1>7,<1>8,<1>9, ClientsStep

LEMMA LeaveCounts == ASSUME TelCounts, NEW k \in Clients, Leaves(k) PROVE TelCounts'
<1>0. /\ ListOK(listed) /\ \A c \in Collectors : reading[c] \in ReadingRows
      /\ \A c \in Collectors : CountFits(reading[c], listed) /\ AnyLeft(reading[c])
      /\ lease \in [Clients -> Addresses] /\ trafficCounter \in [Clients -> Nat] /\ transferred \in [Clients -> Nat] BY TelFacts
<1>1. /\ clientListing' = clientListing /\ UNCHANGED <<advisoryLock, recordsVars, collectorBounds>>
      /\ transferred' = transferred /\ trafficCounter' = trafficCounter /\ lease' = lease
      /\ \E i \in DOMAIN listed : listed[i].client = k /\ listed' = RemoveAt(listed, i)
      /\ reading' = [c \in Collectors |-> OneLeft(reading[c], k)] BY DEF Leaves, OneLeft
<1>2. lease' \in [Clients -> Addresses] /\ trafficCounter' \in [Clients -> Nat] /\ transferred' \in [Clients -> Nat] BY <1>0,<1>1
<1> PICK j \in DOMAIN listed : listed[j].client = k /\ listed' = RemoveAt(listed, j) BY <1>1
<1> PICK m : m = RemoveAt(listed, j) OBVIOUS
<1>5. /\ ListOK(m) /\ ListedIn(m) = ListedIn(listed) \ {k}
      /\ \A p \in Nat \ {0} : Ahead(m, p) \subseteq Ahead(listed, p) /\ \E x : PassedBy(listed, m, p, x) BY <1>0, Left
<1>6. listed' = m OBVIOUS
<1> DEFINE f == [c \in Collectors |-> OneLeft(reading[c], k)]
<1>7. f \in [Collectors -> ReadingRows] BY <1>0, ReadingWith
<1>8. ASSUME NEW c \in Collectors PROVE CountFits(f[c], m) /\ AnyLeft(f[c])
 <2> PICK r \in ReadingRows : r = reading[c] BY <1>0
 <2> PICK z \in ReadingRows : z = OneLeft(r, k) BY ReadingWith
 <2>0. r.departures \in Nat /\ r.arrivals \in Nat /\ r.page \in Nat \ {0} BY ReadingTypes
 <2>1. /\ z.at = r.at /\ z.left = r.left /\ z.got = r.got /\ z.page = r.page /\ z.departures = r.departures + 1
       /\ z.arrivals = r.arrivals /\ z.stayed = r.stayed \ {k}
  <3> QED BY ONLY r \in ReadingRows, z = OneLeft(r, k), ReadingWith DEF SameRead
 <2>2. CountFits(r, listed) /\ AnyLeft(r) BY <1>0
 <2>3. ASSUME r.at = "read" PROVE z.stayed \subseteq ListedIn(m)
  <3>1. r.stayed \subseteq ListedIn(listed) BY <2>2,<2>3 DEF CountFits, ReadingFits
  <3> QED BY <1>5,<2>1,<3>1
 <2>4. Ahead(m, r.page) \subseteq Ahead(listed, r.page) /\ \E x : PassedBy(listed, m, r.page, x) BY <1>5,<2>0
 <2>5. z.departures >= r.departures /\ z.arrivals >= r.arrivals /\ z.stayed \subseteq r.stayed BY <2>0,<2>1
 <2>6. CountFits(z, m) /\ AnyLeft(z) BY ONLY r \in ReadingRows, z \in ReadingRows, <2>1,<2>2,<2>3,<2>4,<2>5, ClientsChange
 <2>7. f[c] = z OBVIOUS
 <2> QED BY <2>6,<2>7
<1>9. reading' = f BY <1>1
<1> HIDE DEF f
<1> QED BY <1>1,<1>2,<1>5,<1>6,<1>7,<1>8,<1>9, ClientsStep

LEMMA RoamsCounts == ASSUME TelCounts, NEW j \in DOMAIN listed, Roams(j) PROVE TelCounts'
<1>0. /\ ListOK(listed) /\ \A c \in Collectors : reading[c] \in ReadingRows
      /\ \A c \in Collectors : CountFits(reading[c], listed) /\ AnyLeft(reading[c])
      /\ lease \in [Clients -> Addresses] /\ trafficCounter \in [Clients -> Nat] /\ transferred \in [Clients -> Nat] BY TelFacts
<1>1. /\ clientListing' = clientListing /\ UNCHANGED <<advisoryLock, recordsVars, collectorBounds>>
      /\ transferred' = transferred /\ trafficCounter' = trafficCounter /\ lease' = lease
      /\ \E s \in Sites : listed' = [listed EXCEPT ![j].site = s]
      /\ reading' = [c \in Collectors |-> OneRoamed(reading[c])] BY DEF Roams, OneRoamed
<1>2. lease' \in [Clients -> Addresses] /\ trafficCounter' \in [Clients -> Nat] /\ transferred' \in [Clients -> Nat] BY <1>0,<1>1
<1> PICK s \in Sites : listed' = [listed EXCEPT ![j].site = s] BY <1>1
<1> PICK m : m = [listed EXCEPT ![j].site = s] OBVIOUS
<1> PICK k : k = listed[j].client OBVIOUS
<1>5. /\ ListOK(m) /\ ListedIn(m) = ListedIn(listed)
      /\ \A p \in Nat \ {0} : PassedBy(listed, m, p, k) /\ ComesUp(listed, m, p, k)
 <2>1. k = listed[j].client OBVIOUS
 <2>2. ListOK(listed) BY <1>0
 <2>4. m = AtSite(listed, j, s) BY ONLY m = [listed EXCEPT ![j].site = s], j \in DOMAIN listed DEF AtSite
 <2>3. ListOK(m) /\ ListedIn(m) = ListedIn(listed)
       /\ \A p \in Nat \ {0} : PassedBy(listed, m, p, listed[j].client) /\ ComesUp(listed, m, p, listed[j].client)
   BY ONLY <2>2,<2>4, j \in DOMAIN listed, s \in Sites, Roamed
 <2> QED BY ONLY <2>1,<2>3
<1>6. listed' = m OBVIOUS
<1> DEFINE f == [c \in Collectors |-> OneRoamed(reading[c])]
<1>7. f \in [Collectors -> ReadingRows] BY <1>0, ReadingWith
<1>8. ASSUME NEW c \in Collectors PROVE CountFits(f[c], m) /\ AnyLeft(f[c])
 <2> PICK r \in ReadingRows : r = reading[c] BY <1>0
 <2> PICK z \in ReadingRows : z = OneRoamed(r) BY ReadingWith
 <2>0. r.departures \in Nat /\ r.arrivals \in Nat /\ r.page \in Nat \ {0} BY ReadingTypes
 <2>1. /\ z.at = r.at /\ z.left = r.left /\ z.got = r.got /\ z.page = r.page /\ z.departures = r.departures + 1
       /\ z.arrivals = r.arrivals + 1 /\ z.stayed = r.stayed
  <3> QED BY ReadingWith DEF SameRead
 <2>2. CountFits(r, listed) /\ AnyLeft(r) BY <1>0
 <2>3. ASSUME r.at = "read" PROVE z.stayed \subseteq ListedIn(m)
  <3>1. r.stayed \subseteq ListedIn(listed) BY <2>2,<2>3 DEF CountFits, ReadingFits
  <3> QED BY <1>5,<2>1,<3>1
 <2>4. PassedBy(listed, m, r.page, k) /\ ComesUp(listed, m, r.page, k) BY <1>5,<2>0
 <2>5. z.departures >= r.departures /\ z.arrivals >= r.arrivals /\ z.stayed \subseteq r.stayed BY <2>0,<2>1
 <2>6. CountFits(z, m) /\ AnyLeft(z) BY ONLY r \in ReadingRows, z \in ReadingRows, <2>1,<2>2,<2>3,<2>4,<2>5, ClientsChange
 <2>7. f[c] = z OBVIOUS
 <2> QED BY <2>6,<2>7
<1>9. reading' = f BY <1>1
<1> HIDE DEF f
<1> QED BY <1>1,<1>2,<1>5,<1>6,<1>7,<1>8,<1>9, ClientsStep

LEMMA TransferCounts == ASSUME TelCounts, NEW k \in Clients, Transfer(k) PROVE TelCounts'
<1>0. /\ ListOK(listed) /\ reading \in [Collectors -> ReadingRows]
      /\ \A c \in Collectors : CountFits(reading[c], listed) /\ AnyLeft(reading[c])
      /\ lease \in [Clients -> Addresses] /\ trafficCounter \in [Clients -> Nat] /\ transferred \in [Clients -> Nat] BY TelFacts
<1>1. /\ clientListing' = clientListing /\ UNCHANGED <<advisoryLock, recordsVars, collectorBounds>>
      /\ transferred' = [transferred EXCEPT ![k] = @ + 1] /\ trafficCounter' = [trafficCounter EXCEPT ![k] = @ + 1]
      /\ lease' = lease /\ listed' = listed /\ reading' = reading BY DEF Transfer
<1>2. lease' \in [Clients -> Addresses] /\ trafficCounter' \in [Clients -> Nat] /\ transferred' \in [Clients -> Nat]
 <2>1. trafficCounter[k] + 1 \in Nat /\ transferred[k] + 1 \in Nat BY <1>0
 <2> QED BY <1>0,<1>1,<2>1
<1> QED BY <1>0,<1>1,<1>2, ClientsStep

\* What a step of a collector has to show.
LEMMA CollectorStep ==
  ASSUME TelCounts, NEW c \in Collectors, UNCHANGED clientsVars, NEW s \in ReadingRows,
      reading' = [reading EXCEPT ![c] = s], CountFits(s, listed), AnyLeft(s), RestTypes'
  PROVE TelCounts'
<1>1. clientListing' = clientListing /\ listed' = listed /\ lease' = lease /\ trafficCounter' = trafficCounter /\ transferred' = transferred BY DEF clientsVars
<1>2. /\ ListOK(listed) /\ reading \in [Collectors -> ReadingRows]
      /\ \A d \in Collectors : CountFits(reading[d], listed) /\ AnyLeft(reading[d])
      /\ lease \in [Clients -> Addresses] /\ trafficCounter \in [Clients -> Nat] /\ transferred \in [Clients -> Nat] BY TelFacts
<1>3. reading' \in [Collectors -> ReadingRows] /\ \A d \in Collectors : reading'[d] = IF d = c THEN s ELSE reading[d]
 <2> PICK R : R = ReadingRows OBVIOUS
 <2>1. reading \in [Collectors -> R] /\ s \in R BY <1>2
 <2>2. reading' \in [Collectors -> R] /\ \A d \in Collectors : reading'[d] = IF d = c THEN s ELSE reading[d]
   BY ONLY <2>1, c \in Collectors, reading' = [reading EXCEPT ![c] = s]
 <2> QED BY <2>2
<1>4. TelTypes'
 <2>1. ListOK(listed)' BY <1>1,<1>2 DEF ListOK
 <2>2. lease' \in [Clients -> Addresses] /\ trafficCounter' \in [Clients -> Nat] /\ transferred' \in [Clients -> Nat] BY <1>1,<1>2
 <2>3. reading' \in [Collectors -> ReadingRows] /\ RestTypes' BY <1>3
 <2> HIDE DEF ReadingRows
 <2> QED BY ONLY <2>1,<2>2,<2>3 DEF TelTypes, RestTypes
<1>5. ReadingsFit'
 <2>1. SUFFICES ASSUME NEW d \in Collectors PROVE CountFits(reading[d], listed)' /\ AnyLeft(reading[d])' BY DEF ReadingsFit
 <2> PICK z : z = reading'[d] OBVIOUS
 <2> PICK l : l = listed OBVIOUS
 <2>2. CountFits(z, l) /\ AnyLeft(z)
  <3>1. CASE d = c BY <1>3,<3>1
  <3>2. CASE d # c BY <1>2,<1>3,<3>2
  <3> QED BY <3>1,<3>2
 <2>3. reading'[d] = z /\ listed' = l BY <1>1
 <2>4. CountFits(reading[d], listed)' BY ONLY <1>1,<2>2,<2>3, d \in Collectors, CountFitsNext
 <2>5. AnyLeft(reading[d])' BY ONLY <2>2,<2>3 DEF AnyLeft
 <2> QED BY <2>4,<2>5
<1> QED BY <1>4,<1>5 DEF TelCounts

\* A reading begins: nothing is behind it.
LEMMA ReadingBegins ==
  ASSUME ListOK(listed), NEW s, s = [NotReading EXCEPT !.at = "read", !.stayed = ListedClients]
  PROVE s \in ReadingRows /\ CountFits(s, listed) /\ AnyLeft(s)
<1>0. /\ s.at = "read" /\ s.page = 1 /\ s.got = << >> /\ s.left = << >> /\ s.sessions = {} /\ s.sampledAt = 0
      /\ s.stayed = ListedClients /\ s.departures = 0 /\ s.arrivals = 0 BY DEF NotReading
<1>1. ListedClients = ListedIn(listed) BY DEF ListedClients, ListedIn, ClientsAt
<1>2. ListedClients \subseteq Clients BY ListTypes DEF ListedClients
<1>3. s \in ReadingRows
 <2>1. << >> \in Seq(ReadRows) OBVIOUS
 <2> HIDE DEF ReadRows
 <2> PICK S, e : S = Seq(ReadRows) /\ e = << >> OBVIOUS
 <2> PICK z : z = ListedClients OBVIOUS
 <2>2. s = [at |-> "read", page |-> 1, got |-> e, left |-> e, sessions |-> {}, sampledAt |-> 0, stayed |-> z, departures |-> 0, arrivals |-> 0] BY DEF NotReading
 <2>3. e \in S /\ {} \in SUBSET SessionRows /\ z \in SUBSET Clients /\ 1 \in Nat \ {0} /\ 0 \in Nat BY <1>2,<2>1
 <2>4. s \in [at : {"idle", "read", "count", "stamp", "record", "healthy", "degrade"}, page : Nat \ {0}, got : S,
              left : S, sessions : SUBSET SessionRows, sampledAt : Nat, stayed : SUBSET Clients, departures : Nat, arrivals : Nat] BY ONLY <2>2,<2>3
 <2> QED BY <2>4 DEF ReadingRows, Steps
<1>4. Behind(listed, 1) = {}
 <2>1. /\ PageSize \in Nat /\ DOMAIN listed = 1..Len(listed) /\ Len(listed) \in Nat
       /\ \A i \in DOMAIN listed : listed[i].site \in 1..NumSites /\ NumSites \in Nat BY ListTypes
 <2>2. (1 - 1) * PageSize = 0 BY <2>1
 <2>3. \A i \in DOMAIN listed : ~(i <= 0) /\ ~(listed[i].site < 1) BY <2>1
 <2>4. PlacesBefore(listed, 1) = {} BY <2>2,<2>3 DEF PlacesBefore
 <2> QED BY <2>4 DEF Behind, ClientsAt
<1>5. ReadIn(s.got) = {} /\ Len(s.got) = 0 BY <1>0 DEF ReadIn
<1>6. Cardinality({}) = 0 BY FS_EmptySet
<1>7. (s.page - 1) * PageSize = 0
 <2>1. PageSize \in Nat BY TelemetryAssumption
 <2> QED BY <1>0,<2>1
<1>8. ReadingFits(s, listed)
 <2>1. (s.stayed \ ReadIn(s.got)) \cap Behind(listed, s.page) = {} BY <1>0,<1>4
 <2>2. ReadIn(s.got) \cap Ahead(listed, s.page) = {} BY <1>5
 <2>3. Len(s.got) - Cardinality(ReadIn(s.got)) + Cardinality(ReadIn(s.got) \cap Ahead(listed, s.page)) = 0
  <3>1. Cardinality(ReadIn(s.got)) = 0 /\ Cardinality(ReadIn(s.got) \cap Ahead(listed, s.page)) = 0 BY <1>5,<1>6,<2>2
  <3> QED BY ONLY <1>5,<3>1
 <2>4. Cardinality((s.stayed \ ReadIn(s.got)) \cap Behind(listed, s.page)) = 0 BY <1>6,<2>1
 <2>5. s.stayed \subseteq ListedIn(listed) /\ s.departures = 0 /\ s.arrivals = 0 BY <1>0,<1>1
 <2>6. Len(s.got) = (s.page - 1) * PageSize BY <1>5,<1>7
 <2>7. 0 <= 0 OBVIOUS
 <2> QED BY ONLY <2>3,<2>4,<2>5,<2>6,<2>7 DEF ReadingFits
<1> QED BY <1>0,<1>3,<1>8 DEF CountFits, AnyLeft, AtEnd

LEMMA CollectAllCounts == ASSUME TelCounts, NEW c \in Collectors, CollectAll(c) PROVE TelCounts'
<1>1. /\ UNCHANGED clientsVars /\ UNCHANGED recordsVars /\ lostLocks' = lostLocks /\ advisoryLock' = c
      /\ reading' = [reading EXCEPT ![c] = [NotReading EXCEPT !.at = "read", !.stayed = ListedClients]] BY DEF CollectAll
<1> PICK s : s = [NotReading EXCEPT !.at = "read", !.stayed = ListedClients] OBVIOUS
<1>2. ListOK(listed) /\ RestTypes BY TelFacts
<1>3. s \in ReadingRows /\ CountFits(s, listed) /\ AnyLeft(s) BY <1>2, ReadingBegins
<1>4. RestTypes' BY <1>1,<1>2 DEF RestTypes, recordsVars
<1>5. reading' = [reading EXCEPT ![c] = s] BY <1>1
<1> QED BY ONLY TelCounts, c \in Collectors, <1>1,<1>3,<1>4,<1>5, CollectorStep

\* A page is never longer than asked for.
LEMMA PageIsShort == ASSUME ListOK(listed), NEW p \in Nat \ {0}, CountsPages PROVE Cardinality(PlacesOf(p)) <= PageSize
<1>1. PageSize \in Nat /\ PageSize # 0 /\ DOMAIN listed \in SUBSET Nat BY ListTypes
<1> PICK b \in Nat : b = (p - 1) * PageSize BY <1>1
<1>2. p * PageSize = b + PageSize BY <1>1
<1> PICK lo \in Int, hi \in Int : lo = b + 1 /\ hi = b + PageSize BY <1>1
<1>3. IsFiniteSet(lo..hi) /\ Cardinality(lo..hi) = IF lo > hi THEN 0 ELSE hi - lo + 1 BY ONLY lo \in Int, hi \in Int, FS_Interval
<1>4. ~(lo > hi) /\ hi - lo + 1 = PageSize BY ONLY <1>1, b \in Nat, lo = b + 1 /\ hi = b + PageSize
<1>5. PlacesOf(p) \subseteq lo..hi
 <2>1. clientListing # "site by site" /\ clientListing # "whole" BY DEF CountsPages
 <2>2. SUFFICES ASSUME NEW i \in PlacesOf(p) PROVE i \in lo..hi OBVIOUS
 <2>3. i \in Nat /\ b < i /\ i <= b + PageSize BY <1>1,<1>2,<2>1 DEF PlacesOf
 <2> QED BY ONLY <1>1,<2>3, b \in Nat, lo = b + 1 /\ hi = b + PageSize
<1>6. Cardinality(PlacesOf(p)) <= Cardinality(lo..hi) BY ONLY <1>3,<1>5, SmallerPart
<1> QED BY <1>3,<1>4,<1>6

\* A request that is answered: with the last one the reading is whole, and with another it
\* has come to the next page.
LEMMA PageRead ==
  ASSUME ListOK(listed), lease \in [Clients -> Addresses], trafficCounter \in [Clients -> Nat], transferred \in [Clients -> Nat], NEW r \in ReadingRows, ReadingFits(r, listed),
      NEW rows, rows = RowsAt(r.page), NEW got, got = r.got \o rows
  PROVE  /\ got \in Seq(ReadRows)
         /\ IsLast(r.page, rows, got) =>
              Cardinality(r.stayed \ ReadIn(got)) <= r.departures /\ Len(got) - Cardinality(ReadIn(got)) <= r.arrivals
         /\ ~IsLast(r.page, rows, got) =>
              /\ Cardinality((r.stayed \ ReadIn(got)) \cap Behind(listed, r.page + 1)) <= r.departures
              /\ Len(got) - Cardinality(ReadIn(got)) + Cardinality(ReadIn(got) \cap Ahead(listed, r.page + 1)) <= r.arrivals
              /\ CountsPages => Len(got) = (r.page + 1 - 1) * PageSize
<1> PICK p \in Nat \ {0} : p = r.page BY ReadingTypes
<1> PICK S : S = PlacesOf(p) OBVIOUS
<1> PICK P : P = ClientsAt(listed, S) OBVIOUS
<1> PICK G : G = ReadIn(r.got) OBVIOUS
<1>0. S \in SUBSET DOMAIN listed BY DEF PlacesOf
<1>1. rows \in Seq(ReadRows) /\ Len(rows) = Cardinality(P) /\ Len(rows) = Cardinality(S) /\ ReadIn(rows) = P BY PortionIs
<1>2. r.got \in Seq(ReadRows) /\ Len(r.got) \in Nat /\ IsFiniteSet(G) /\ IsFiniteSet(r.stayed) /\ r.departures \in Nat /\ r.arrivals \in Nat
  BY ReadingTypes
<1>3. got \in Seq(ReadRows) /\ ReadIn(got) = G \cup P /\ Len(got) = Len(r.got) + Len(rows) /\ Len(rows) \in Nat
  BY ONLY <1>1,<1>2, got = r.got \o rows, G = ReadIn(r.got), ReadInFacts
<1>4. IsFiniteSet(P) BY <1>0, ClientsOfPlaces
<1> PICK A : A = Ahead(listed, p) OBVIOUS
<1> PICK B : B = Behind(listed, p) OBVIOUS
<1> PICK Q : Q = PlacesBefore(listed, p) OBVIOUS
<1>5. S \cap Q = {}
 <2>1. CASE clientListing = "whole"
  <3>1. Q = {} BY <2>1 DEF PlacesBefore, CountsPages
  <3> QED BY <3>1
 <2>2. CASE clientListing # "whole" BY <2>2, PlacesPass
 <2> QED BY <2>1,<2>2
<1>6. P \subseteq A BY <1>0,<1>5 DEF Ahead, ClientsAt
<1>7. /\ Cardinality((r.stayed \ G) \cap B) <= r.departures
      /\ Len(r.got) - Cardinality(G) + Cardinality(G \cap A) <= r.arrivals
      /\ r.stayed \subseteq ListedIn(listed)
      /\ CountsPages => Len(r.got) = (p - 1) * PageSize BY DEF ReadingFits
<1>8. /\ Len(r.got) + Cardinality(P) - Cardinality(G \cup P) + Cardinality((G \cup P) \cap (A \ P)) <= r.arrivals
      /\ Len(r.got) + Cardinality(P) - Cardinality(G \cup P) <= r.arrivals BY ONLY <1>2,<1>4,<1>6,<1>7, ReadingMore
<1>9. Len(got) = Len(r.got) + Cardinality(P) BY <1>1,<1>3
<1>t. /\ Len(r.got) \in Nat /\ Len(got) \in Nat /\ r.arrivals \in Nat
      /\ Cardinality(P) \in Nat /\ Cardinality(G \cup P) \in Nat /\ Cardinality((G \cup P) \cap (A \ P)) \in Nat
 <2>1. IsFiniteSet(G \cup P) BY ONLY <1>2,<1>4, FS_Union
 <2>2. (G \cup P) \cap (A \ P) \subseteq G \cup P OBVIOUS
 <2>3. Cardinality(G \cup P) \in Nat /\ Cardinality((G \cup P) \cap (A \ P)) \in Nat BY ONLY <2>1,<2>2, SmallerPart
 <2>4. Len(got) \in Nat /\ Cardinality(P) \in Nat
  <3>1. Cardinality(P) \in Nat BY ONLY <1>4, FS_CardinalityType
  <3>2. Len(got) \in Nat BY ONLY <1>3
  <3> QED BY <3>1,<3>2
 <2> QED BY <1>2,<2>3,<2>4
<1>10. ASSUME NEW T, T \subseteq (r.stayed \ G) \cap B PROVE Cardinality(T) <= r.departures
 <2>1. IsFiniteSet((r.stayed \ G) \cap B)
  <3>1. (r.stayed \ G) \cap B \subseteq r.stayed OBVIOUS
  <3> QED BY ONLY <1>2,<3>1, SmallerPart
 <2>2. Cardinality(T) <= Cardinality((r.stayed \ G) \cap B) /\ Cardinality(T) \in Nat /\ Cardinality((r.stayed \ G) \cap B) \in Nat
   BY ONLY <1>10,<2>1, SmallerPart
 <2> QED BY ONLY <1>2,<1>7,<2>2
<1>11. ASSUME IsLast(r.page, rows, got)
  PROVE Cardinality(r.stayed \ ReadIn(got)) <= r.departures /\ Len(got) - Cardinality(ReadIn(got)) <= r.arrivals
 <2>1. CountsPages => Len(got) = (p - 1) * PageSize + Len(rows) BY <1>3,<1>7
 <2>2. Q \cup S = DOMAIN listed
  <3>1. IsLast(p, rows, got) /\ Len(rows) = Cardinality(PlacesOf(p)) BY <1>1,<1>11
  <3> QED BY <2>1,<3>1, LastIsAll
 <2>3. ListedIn(listed) = B \cup P BY <2>2 DEF ListedIn, Behind, ClientsAt
 <2>4. r.stayed \ ReadIn(got) \subseteq (r.stayed \ G) \cap B BY <1>3,<1>7,<2>3
 <2>5. Cardinality(r.stayed \ ReadIn(got)) <= r.departures BY <1>10,<2>4
 <2>6. Len(got) - Cardinality(ReadIn(got)) <= r.arrivals
  <3>1. Cardinality(ReadIn(got)) = Cardinality(G \cup P) BY <1>3
  <3> QED BY ONLY <1>t,<1>8,<1>9,<3>1
 <2> QED BY <2>5,<2>6
<1>12. ASSUME ~IsLast(r.page, rows, got)
  PROVE  /\ Cardinality((r.stayed \ ReadIn(got)) \cap Behind(listed, r.page + 1)) <= r.departures
         /\ Len(got) - Cardinality(ReadIn(got)) + Cardinality(ReadIn(got) \cap Ahead(listed, r.page + 1)) <= r.arrivals
         /\ CountsPages => Len(got) = (r.page + 1 - 1) * PageSize
 <2>1. clientListing # "whole" BY <1>12 DEF IsLast
 <2>2. PlacesBefore(listed, p + 1) = Q \cup S BY <2>1, PlacesPass
 <2>3. Behind(listed, p + 1) = B \cup P BY <2>2 DEF Behind, ClientsAt
 <2>4. Ahead(listed, p + 1) = A \ P
  <3>1. \A i, j \in DOMAIN listed : listed[i].client = listed[j].client => i = j BY DEF ListOK
  <3>2. Ahead(listed, p + 1) = ClientsAt(listed, DOMAIN listed \ (Q \cup S)) BY <2>2 DEF Ahead
  <3>3. A = ClientsAt(listed, DOMAIN listed \ Q) BY DEF Ahead
  <3>4. ASSUME NEW k \in Ahead(listed, p + 1) PROVE k \in A \ P
   <4>1. PICK i \in DOMAIN listed \ (Q \cup S) : k = listed[i].client BY <3>2 DEF ClientsAt
   <4>2. k \in A BY <3>3,<4>1 DEF ClientsAt
   <4>3. k \notin P BY <1>0,<3>1,<4>1 DEF ClientsAt
   <4> QED BY <4>2,<4>3
  <3>5. ASSUME NEW k \in A \ P PROVE k \in Ahead(listed, p + 1)
   <4>1. PICK i \in DOMAIN listed \ Q : k = listed[i].client BY <3>3 DEF ClientsAt
   <4>2. i \notin S BY <4>1 DEF ClientsAt
   <4> QED BY <3>2,<4>1,<4>2 DEF ClientsAt
  <3> QED BY <3>4,<3>5
 <2>5. (r.stayed \ ReadIn(got)) \cap Behind(listed, p + 1) \subseteq (r.stayed \ G) \cap B BY <1>3,<2>3
 <2>6. Cardinality((r.stayed \ ReadIn(got)) \cap Behind(listed, p + 1)) <= r.departures BY <1>10,<2>5
 <2>7. Len(got) - Cardinality(ReadIn(got)) + Cardinality(ReadIn(got) \cap Ahead(listed, p + 1)) <= r.arrivals
  <3>1. Cardinality(ReadIn(got)) = Cardinality(G \cup P) BY <1>3
  <3>2. Cardinality(ReadIn(got) \cap Ahead(listed, p + 1)) = Cardinality((G \cup P) \cap (A \ P)) BY <1>3,<2>4
  <3> QED BY ONLY <1>t,<1>8,<1>9,<3>1,<3>2
 <2>8. ASSUME CountsPages PROVE Len(got) = (p + 1 - 1) * PageSize
  <3>0. PageSize \in Nat BY TelemetryAssumption
  <3>1. ~(Len(rows) < PageSize) BY <1>12,<2>8 DEF IsLast
  <3>2. Len(rows) <= PageSize
   <4>1. Cardinality(PlacesOf(p)) <= PageSize BY <2>8, PageIsShort
   <4> QED BY <1>1,<4>1
  <3>3. Len(rows) = PageSize BY ONLY <1>3,<3>0,<3>1,<3>2
  <3> PICK b \in Nat : b = (p - 1) * PageSize BY ONLY <3>0, p \in Nat \ {0}
  <3>4. (p + 1 - 1) * PageSize = b + PageSize BY <3>0
  <3>5. Len(got) = b + PageSize BY <1>3,<1>7,<2>8,<3>3
  <3> QED BY <3>4,<3>5
 <2> QED BY <2>6,<2>7,<2>8
<1> QED BY <1>3,<1>11,<1>12

SoFar(r, rows) == r.got \o rows
LEMMA ReadPageIs ==
  ASSUME NEW c \in Collectors, reading \in [Collectors -> ReadingRows], ReadPage(c), NEW r, r = reading[c],
      NEW rows, rows = RowsAt(r.page), NEW got, got = SoFar(r, rows)
  PROVE  /\ UNCHANGED clientsVars /\ UNCHANGED <<samples, sampleClock, collectorBounds>> /\ r.at = "read"
         /\ UNCHANGED <<routerRow, advisoryLock>>
         /\ \/ IsLast(r.page, rows, got) /\ reading' = [reading EXCEPT ![c] = GotAll(r, got)]
            \/ reading' = [reading EXCEPT ![c] = AtStep(r, "degrade")]
            \/ ~IsLast(r.page, rows, got) /\ reading' = [reading EXCEPT ![c] = GotPage(r, got)]
<1>1. /\ UNCHANGED clientsVars /\ UNCHANGED <<samples, sampleClock, collectorBounds>> /\ reading[c].at = "read"
      /\ UNCHANGED <<routerRow, advisoryLock>>
      /\ \/ IsLast(r.page, rows, got) /\ reading' = [reading EXCEPT ![c].got = got, ![c].at = "count"]
         \/ reading' = [reading EXCEPT ![c].at = "degrade"]
         \/ ~IsLast(r.page, rows, got) /\ reading' = [reading EXCEPT ![c].got = got, ![c].page = @ + 1]
 <2> HIDE DEF Portion, Counted, IsLast, CountsPages
 <2> QED BY ONLY ReadPage(c), r = reading[c], rows = RowsAt(r.page), got = SoFar(r, rows) DEF ReadPage, RowsAt, SoFar
<1>2. [reading EXCEPT ![c].got = got, ![c].at = "count"] = [reading EXCEPT ![c] = GotAll(r, got)]
  BY ONLY c \in Collectors, reading \in [Collectors -> ReadingRows], r = reading[c] DEF GotAll
<1>3. [reading EXCEPT ![c].at = "degrade"] = [reading EXCEPT ![c] = AtStep(r, "degrade")]
  BY ONLY c \in Collectors, reading \in [Collectors -> ReadingRows], r = reading[c] DEF AtStep
<1>4. [reading EXCEPT ![c].got = got, ![c].page = @ + 1] = [reading EXCEPT ![c] = GotPage(r, got)]
  BY ONLY c \in Collectors, reading \in [Collectors -> ReadingRows], r = reading[c] DEF GotPage
<1> PICK x, y, z : /\ x = [reading EXCEPT ![c] = GotAll(r, got)] /\ y = [reading EXCEPT ![c] = AtStep(r, "degrade")]
                   /\ z = [reading EXCEPT ![c] = GotPage(r, got)] OBVIOUS
<1>5. \/ IsLast(r.page, rows, got) /\ reading' = x
      \/ reading' = y
      \/ ~IsLast(r.page, rows, got) /\ reading' = z BY <1>1,<1>2,<1>3,<1>4
<1> QED BY <1>1,<1>5

LEMMA ReadPageCounts == ASSUME TelCounts, NEW c \in Collectors, ReadPage(c) PROVE TelCounts'
<1>0. /\ ListOK(listed) /\ reading[c] \in ReadingRows /\ RestTypes
      /\ CountFits(reading[c], listed) /\ AnyLeft(reading[c])
      /\ lease \in [Clients -> Addresses] /\ trafficCounter \in [Clients -> Nat] /\ transferred \in [Clients -> Nat]
      /\ reading \in [Collectors -> ReadingRows] BY TelFacts
<1> PICK r \in ReadingRows : r = reading[c] BY <1>0
<1> PICK rows : rows = RowsAt(r.page) OBVIOUS
<1> PICK got : got = r.got \o rows OBVIOUS
<1>1. /\ UNCHANGED clientsVars /\ UNCHANGED <<samples, sampleClock, collectorBounds>> /\ r.at = "read"
      /\ UNCHANGED <<routerRow, advisoryLock>>
      /\ \/ IsLast(r.page, rows, got) /\ reading' = [reading EXCEPT ![c] = GotAll(r, got)]
         \/ reading' = [reading EXCEPT ![c] = AtStep(r, "degrade")]
         \/ ~IsLast(r.page, rows, got) /\ reading' = [reading EXCEPT ![c] = GotPage(r, got)]
 <2>1. got = SoFar(r, rows) BY DEF SoFar
 <2>2. reading \in [Collectors -> ReadingRows] BY <1>0
 <2> QED BY ONLY <2>1,<2>2, c \in Collectors, ReadPage(c), r = reading[c], rows = RowsAt(r.page), ReadPageIs
<1>2. ReadingFits(r, listed) BY <1>0,<1>1 DEF CountFits
<1>3. /\ got \in Seq(ReadRows)
      /\ IsLast(r.page, rows, got) =>
              Cardinality(r.stayed \ ReadIn(got)) <= r.departures /\ Len(got) - Cardinality(ReadIn(got)) <= r.arrivals
      /\ ~IsLast(r.page, rows, got) =>
              /\ Cardinality((r.stayed \ ReadIn(got)) \cap Behind(listed, r.page + 1)) <= r.departures
              /\ Len(got) - Cardinality(ReadIn(got)) + Cardinality(ReadIn(got) \cap Ahead(listed, r.page + 1)) <= r.arrivals
              /\ CountsPages => Len(got) = (r.page + 1 - 1) * PageSize BY ONLY <1>0,<1>2, r \in ReadingRows, got = r.got \o rows,
     rows = RowsAt(r.page), PageRead
<1>4. RestTypes'
 <2>1. advisoryLock' = advisoryLock /\ routerRow' = routerRow /\ samples' = samples /\ sampleClock' = sampleClock
       /\ lostLocks' = lostLocks BY <1>1 DEF collectorBounds
 <2> QED BY ONLY <1>0,<2>1 DEF RestTypes
<1>5. CASE IsLast(r.page, rows, got) /\ reading' = [reading EXCEPT ![c] = GotAll(r, got)]
 <2> PICK s : s = GotAll(r, got) OBVIOUS
 <2>1. s \in ReadingRows BY <1>3, ReadingWith
 <2>2. s.got = got /\ s.at = "count" /\ s.stayed = r.stayed /\ s.departures = r.departures /\ s.arrivals = r.arrivals
  <3>1. got \in Seq(ReadRows) BY <1>3
  <3> QED BY ONLY <3>1, r \in ReadingRows, s = GotAll(r, got), ReadingWith
 <2>3. ReadFits(s) BY <1>3,<1>5,<2>2 DEF ReadFits
 <2>4. CountFits(s, listed) /\ AnyLeft(s) BY <2>2,<2>3 DEF CountFits, AnyLeft
 <2>5. reading' = [reading EXCEPT ![c] = s] BY <1>0,<1>5
 <2> QED BY ONLY TelCounts, c \in Collectors, <1>1,<1>4,<2>1,<2>4,<2>5, CollectorStep
<1>6. CASE reading' = [reading EXCEPT ![c] = AtStep(r, "degrade")]
 <2> PICK s : s = AtStep(r, "degrade") OBVIOUS
 <2>0. "degrade" \in Steps BY DEF Steps
 <2>1. s \in ReadingRows BY <2>0, ReadingWith
 <2>2. s.at = "degrade" BY <2>0, ReadingWith
 <2>4. CountFits(s, listed) /\ AnyLeft(s) BY <2>2 DEF CountFits, AnyLeft, AtEnd
 <2>5. reading' = [reading EXCEPT ![c] = s] BY <1>0,<1>6
 <2> QED BY ONLY TelCounts, c \in Collectors, <1>1,<1>4,<2>1,<2>4,<2>5, CollectorStep
<1>7. CASE ~IsLast(r.page, rows, got) /\ reading' = [reading EXCEPT ![c] = GotPage(r, got)]
 <2> PICK s : s = GotPage(r, got) OBVIOUS
 <2>1. s \in ReadingRows BY <1>3, ReadingWith
 <2>2. s.got = got /\ s.page = r.page + 1 /\ s.at = "read" /\ s.stayed = r.stayed /\ s.departures = r.departures /\ s.arrivals = r.arrivals
  <3>1. got \in Seq(ReadRows) BY <1>3
  <3> QED BY ONLY <1>1,<3>1, r \in ReadingRows, s = GotPage(r, got), ReadingWith
 <2>3. ReadingFits(s, listed)
  <3>1. r.stayed \subseteq ListedIn(listed) BY <1>2 DEF ReadingFits
  <3> PICK q : q = r.page + 1 OBVIOUS
  <3>2. s.page = q /\ s.got = got BY <2>2
  <3>3. Cardinality((s.stayed \ ReadIn(s.got)) \cap Behind(listed, s.page)) <= s.departures BY <1>3,<1>7,<2>2,<3>2
  <3>4. Len(s.got) - Cardinality(ReadIn(s.got)) + Cardinality(ReadIn(s.got) \cap Ahead(listed, s.page)) <= s.arrivals BY <1>3,<1>7,<2>2,<3>2
  <3>5. CountsPages => Len(s.got) = (s.page - 1) * PageSize
   <4>1. CountsPages => Len(got) = (r.page + 1 - 1) * PageSize BY <1>3,<1>7
   <4>2. r.page + 1 - 1 = q - 1
    <5>1. r.page \in Nat BY ReadingTypes
    <5> QED BY <5>1
   <4> PICK d : d = r.page + 1 - 1 OBVIOUS
   <4>3. CountsPages => Len(got) = d * PageSize BY <4>1
   <4>4. s.page - 1 = d BY <3>2,<4>2
   <4> QED BY ONLY <3>2,<4>3,<4>4
  <3>6. s.stayed \subseteq ListedIn(listed) BY <2>2,<3>1
  <3> QED BY ONLY <3>3,<3>4,<3>5,<3>6 DEF ReadingFits
 <2>4. CountFits(s, listed) /\ AnyLeft(s) BY <2>2,<2>3 DEF CountFits, AnyLeft, AtEnd
 <2>5. reading' = [reading EXCEPT ![c] = s] BY <1>0,<1>7
 <2> QED BY ONLY TelCounts, c \in Collectors, <1>1,<1>4,<2>1,<2>4,<2>5, CollectorStep
<1> QED BY <1>1,<1>5,<1>6,<1>7

\* A step of a collection that leaves what was read alone.
LEMMA StepFits ==
  ASSUME NEW r \in ReadingRows, NEW s \in ReadingRows, NEW l, CountFits(r, l), r.at \in AtEnd, s.at # "read",
      s.got = r.got, s.stayed = r.stayed, s.departures = r.departures, s.arrivals = r.arrivals
  PROVE CountFits(s, l)
<1>1. ReadFits(r) BY DEF CountFits
<1>2. ReadFits(s) BY ONLY <1>1, s.got = r.got, s.stayed = r.stayed, s.departures = r.departures, s.arrivals = r.arrivals DEF ReadFits
<1> QED BY <1>2 DEF CountFits

LEMMA UpdateActiveUsersCounts == ASSUME TelCounts, NEW c \in Collectors, UpdateActiveUsers(c) PROVE TelCounts'
<1>0. reading[c] \in ReadingRows /\ RestTypes /\ CountFits(reading[c], listed) BY TelFacts
<1> PICK r \in ReadingRows : r = reading[c] BY <1>0
<1>1. /\ UNCHANGED clientsVars /\ UNCHANGED <<advisoryLock, samples, sampleClock, collectorBounds>> /\ r.at = "count"
      /\ routerRow' = [routerRow EXCEPT !.active_users = Len(r.got)]
      /\ reading' = [reading EXCEPT ![c].at = IF r.got = << >> THEN "healthy" ELSE "stamp"] BY DEF UpdateActiveUsers
<1> PICK a \in {"healthy", "stamp"} : a = IF r.got = << >> THEN "healthy" ELSE "stamp" OBVIOUS
<1> PICK s : s = AtStep(r, a) OBVIOUS
<1>s. a \in Steps BY DEF Steps
<1>2. s \in ReadingRows BY <1>s, ReadingWith
<1>3. /\ s.at = a /\ s.got = r.got /\ s.stayed = r.stayed /\ s.departures = r.departures /\ s.arrivals = r.arrivals
  BY ONLY <1>s, r \in ReadingRows, s = AtStep(r, a), ReadingWith DEF SameGot
<1>4. CountFits(s, listed)
 <2>1. r.at \in AtEnd /\ s.at # "read" /\ CountFits(r, listed) BY <1>0,<1>1,<1>3 DEF AtEnd
 <2> QED BY ONLY r \in ReadingRows, <1>2,<1>3,<2>1, StepFits
<1>5. AnyLeft(s) BY <1>3 DEF AnyLeft
<1>6. reading' = [reading EXCEPT ![c] = s] BY <1>0,<1>1, TelFacts DEF AtStep
<1>7. RestTypes'
 <2>1. Len(r.got) \in Nat BY ReadingTypes
 <2>2. routerRow' \in [status : {"ONLINE", "DEGRADED"}, active_users : Nat] BY <1>0,<1>1,<2>1 DEF RestTypes
 <2> QED BY ONLY <1>0,<1>1,<2>2 DEF RestTypes, collectorBounds
<1> QED BY ONLY TelCounts, c \in Collectors, <1>1,<1>2,<1>4,<1>5,<1>6,<1>7, CollectorStep

LEMMA StampSamplesCounts == ASSUME TelCounts, NEW c \in Collectors, StampSamples(c) PROVE TelCounts'
<1>0. reading[c] \in ReadingRows /\ RestTypes /\ CountFits(reading[c], listed) /\ AnyLeft(reading[c]) /\ reading \in [Collectors -> ReadingRows]
  BY TelFacts
<1> PICK r \in ReadingRows : r = reading[c] BY <1>0
<1>1. /\ UNCHANGED clientsVars /\ UNCHANGED <<advisoryLock, routerRow, samples, collectorBounds>> /\ r.at = "stamp"
      /\ sampleClock' = sampleClock + 1
      /\ \E o \in SUBSET SessionRows :
           reading' = [reading EXCEPT ![c].at = "record", ![c].left = r.got, ![c].sessions = o, ![c].sampledAt = sampleClock + 1]
  BY DEF StampSamples
<1> PICK m : m = sampleClock + 1 OBVIOUS
<1> PICK o \in SUBSET SessionRows :
      reading' = [reading EXCEPT ![c].at = "record", ![c].left = r.got, ![c].sessions = o, ![c].sampledAt = m] BY <1>1
<1> PICK s : s = Stamped(r, o, m) OBVIOUS
<1>t. m \in Nat /\ sampleClock' = m BY <1>0,<1>1 DEF RestTypes
<1>2. s \in ReadingRows BY <1>t, StampedIs
<1>w. s.at = "record" /\ SameGot(s, r) /\ s.left = r.got BY <1>t, StampedIs
<1>3. s.at = "record" /\ s.got = r.got /\ s.left = r.got /\ s.stayed = r.stayed /\ s.departures = r.departures /\ s.arrivals = r.arrivals
  BY <1>w DEF SameGot
<1>4. CountFits(s, listed)
 <2>1. r.at \in AtEnd /\ s.at # "read" /\ CountFits(r, listed) BY <1>0,<1>1,<1>3 DEF AtEnd
 <2> QED BY ONLY r \in ReadingRows, <1>2,<1>3,<2>1, StepFits
<1>5. AnyLeft(s) BY <1>0,<1>1,<1>3 DEF AnyLeft
<1>6. reading' = [reading EXCEPT ![c] = s] BY <1>0,<1>1 DEF Stamped
<1>7. RestTypes' BY ONLY <1>0,<1>1,<1>t DEF RestTypes, collectorBounds
<1> QED BY ONLY TelCounts, c \in Collectors, <1>1,<1>2,<1>4,<1>5,<1>6,<1>7, CollectorStep

\* What is recorded of a row of a reading.
LEMMA SampleIs ==
  ASSUME NEW r \in ReadingRows, r.left # << >>
  PROVE  /\ Head(r.left) \in ReadRows /\ Head(r.left) \in Range(r.left)
         /\ SampleOf(Head(r.left)) \in SampleRows
         /\ Head(r.left).client \in Clients /\ Tail(r.left) \in Seq(ReadRows)
         /\ Range(Tail(r.left)) \subseteq Range(r.left)
         /\ Len(r.left) # 1 => Tail(r.left) # << >>
<1> PICK q : q = r.left OBVIOUS
<1>1. q \in Seq(ReadRows) /\ q # << >> BY ReadingTypes
<1>2. /\ Head(q) \in ReadRows /\ Tail(q) \in Seq(ReadRows) /\ Len(q) \in Nat /\ Len(q) # 0 /\ DOMAIN q = 1..Len(q)
      /\ Head(q) = q[1] /\ Len(Tail(q)) = Len(q) - 1 /\ DOMAIN Tail(q) = 1..Len(Tail(q))
      /\ \A i \in 1..(Len(q) - 1) : Tail(q)[i] = q[i + 1]
 <2> HIDE DEF ReadRows
 <2> QED BY ONLY <1>1
<1> PICK n \in Nat : n = Len(q) BY <1>2
<1>3. 1 \in 1..n /\ \A i \in 1..(n - 1) : i + 1 \in 1..n BY ONLY <1>2, n \in Nat, n = Len(q)
<1>4. Head(q) \in Range(q) BY <1>2,<1>3 DEF Range
<1>5. Range(Tail(q)) \subseteq Range(q)
 <2>1. SUFFICES ASSUME NEW x \in Range(Tail(q)) PROVE x \in Range(q) OBVIOUS
 <2>2. DOMAIN Tail(q) = 1..(n - 1) BY <1>2
 <2>3. PICK i \in 1..(n - 1) : x = Tail(q)[i] BY <2>1,<2>2 DEF Range
 <2>4. i + 1 \in DOMAIN q /\ x = q[i + 1] BY <1>2,<1>3,<2>3
 <2> QED BY <2>4 DEF Range
<1>6. Len(q) # 1 => Tail(q) # << >>
 <2>1. Tail(q) = << >> => Len(Tail(q)) = 0 OBVIOUS
 <2> QED BY ONLY <1>2,<2>1
<1>7. SampleOf(Head(q)) \in SampleRows /\ Head(q).client \in Clients BY <1>2 DEF ReadRows, SampleRows, SampleOf
<1> QED BY <1>2,<1>4,<1>5,<1>6,<1>7

LEMMA NextRowCounts ==
  ASSUME TelCounts, NEW c \in Collectors, UNCHANGED clientsVars, reading[c].at = "record", NextRow(c), RestTypes'
  PROVE TelCounts'
<1>0. reading[c] \in ReadingRows /\ CountFits(reading[c], listed) /\ AnyLeft(reading[c]) /\ reading \in [Collectors -> ReadingRows]
  BY TelFacts
<1> PICK r \in ReadingRows : r = reading[c] BY <1>0
<1> PICK a \in {"healthy", "record"} : a = IF Len(r.left) = 1 THEN "healthy" ELSE "record" OBVIOUS
<1>1. r.at = "record" /\ reading' = [reading EXCEPT ![c].left = Tail(@), ![c].at = a] BY DEF NextRow
<1>2. r.left # << >> BY <1>0,<1>1 DEF AnyLeft
<1>3. Tail(r.left) \in Seq(ReadRows) /\ (Len(r.left) # 1 => Tail(r.left) # << >>) BY <1>2, SampleIs
<1> PICK s : s = OneRecorded(r, a) OBVIOUS
<1>s. a \in Steps BY DEF Steps
<1>4. s \in ReadingRows BY <1>3,<1>s, ReadingWith
<1>5. s.at = a /\ s.got = r.got /\ s.left = Tail(r.left) /\ s.stayed = r.stayed /\ s.departures = r.departures /\ s.arrivals = r.arrivals
  BY ONLY <1>3,<1>s, r \in ReadingRows, s = OneRecorded(r, a), ReadingWith DEF SameGot
<1>6. CountFits(s, listed)
 <2>1. r.at \in AtEnd /\ s.at # "read" /\ CountFits(r, listed) BY <1>0,<1>1,<1>5 DEF AtEnd
 <2> QED BY ONLY r \in ReadingRows, <1>4,<1>5,<2>1, StepFits
<1>7. AnyLeft(s) BY <1>3,<1>5 DEF AnyLeft
<1>8. reading' = [reading EXCEPT ![c] = s] BY <1>0,<1>1 DEF OneRecorded
<1> QED BY ONLY TelCounts, c \in Collectors, UNCHANGED clientsVars, RestTypes', <1>4,<1>6,<1>7,<1>8, CollectorStep

LEMMA RecordSampleCounts == ASSUME TelCounts, NEW c \in Collectors, RecordSample(c) PROVE TelCounts'
<1>0. reading[c] \in ReadingRows /\ RestTypes /\ AnyLeft(reading[c]) BY TelFacts
<1> PICK r \in ReadingRows : r = reading[c] BY <1>0
<1> PICK sample : sample = SampleOf(Head(r.left)) OBVIOUS
<1>1. /\ UNCHANGED clientsVars /\ UNCHANGED <<advisoryLock, routerRow, sampleClock, collectorBounds>> /\ r.at = "record"
      /\ \E h \in SessionRows : samples' = [samples EXCEPT ![h] = Recorded(@, r.sampledAt, sample)]
      /\ NextRow(c)
 <2>1. r.sessions \subseteq SessionRows BY ReadingTypes
 <2>2. MatchSession(Head(r.left), r.sessions) \subseteq SessionRows BY <2>1 DEF MatchSession
 <2> HIDE DEF Recorded, NextRow, SampleOf, MatchSession
 <2> QED BY <2>2 DEF RecordSample
<1> PICK h \in SessionRows : samples' = [samples EXCEPT ![h] = Recorded(@, r.sampledAt, sample)] BY <1>1
<1>3. sample \in SampleRows
 <2>1. r.left # << >> BY <1>0,<1>1 DEF AnyLeft
 <2> QED BY <2>1, SampleIs
<1>9. RestTypes'
 <2>1. DOMAIN samples = SessionRows /\ \A k \in SessionRows : \A t \in DOMAIN samples[k] : t \in Nat /\ samples[k][t] \in SampleRows
   BY <1>0 DEF RestTypes
 <2>2. DOMAIN samples' = SessionRows BY <2>1
 <2>3. ASSUME NEW k \in SessionRows, NEW t \in DOMAIN samples'[k] PROVE t \in Nat /\ samples'[k][t] \in SampleRows
  <3>1. CASE k # h
   <4>1. samples'[k] = samples[k] BY <2>1,<3>1
   <4> QED BY <2>1,<2>3,<4>1
  <3>2. CASE k = h
   <4>1. samples'[k] = Recorded(samples[k], r.sampledAt, sample) BY <2>1,<3>2
   <4>2. r.sampledAt \in Nat BY ReadingTypes
   <4>3. t = r.sampledAt \/ t \in DOMAIN samples[k] BY <2>3,<4>1 DEF Recorded
   <4>4. samples'[k][t] = IF t = r.sampledAt THEN sample ELSE samples[k][t] BY <2>3,<4>1 DEF Recorded
   <4> QED BY <1>3,<2>1,<4>2,<4>3,<4>4
  <3> QED BY <3>1,<3>2
 <2>4. /\ advisoryLock' = advisoryLock /\ routerRow' = routerRow /\ sampleClock' = sampleClock /\ lostLocks' = lostLocks BY <1>1 DEF collectorBounds
 <2> HIDE DEF SampleRows
 <2> QED BY ONLY <1>0,<2>2,<2>3,<2>4 DEF RestTypes
<1>2. reading[c].at = "record" BY <1>1
<1> QED BY ONLY TelCounts, c \in Collectors, <1>1,<1>2,<1>9, NextRowCounts

LEMMA SkipSampleCounts == ASSUME TelCounts, NEW c \in Collectors, SkipSample(c) PROVE TelCounts'
<1>1. RestTypes BY TelFacts
<1>2. RestTypes' BY <1>1 DEF SkipSample, recordsVars, collectorBounds, RestTypes
<1>3. UNCHANGED clientsVars /\ reading[c].at = "record" /\ NextRow(c) BY DEF SkipSample
<1> QED BY ONLY TelCounts, c \in Collectors, <1>2,<1>3, NextRowCounts

\* A collection is over, or fails.
LEMMA IdleFits == \A l : CountFits(NotReading, l) /\ AnyLeft(NotReading)
<1>1. NotReading.at = "idle" BY DEF NotReading
<1> QED BY <1>1 DEF CountFits, AnyLeft, AtEnd

LEMMA OverCounts ==
  ASSUME TelCounts, NEW c \in Collectors, UNCHANGED clientsVars, samples' = samples, sampleClock' = sampleClock,
      lostLocks' = lostLocks, reading' = [reading EXCEPT ![c] = NotReading], Unlock(c),
      routerRow' \in [status : {"ONLINE", "DEGRADED"}, active_users : Nat]
  PROVE TelCounts'
<1>1. RestTypes BY TelFacts
<1>2. advisoryLock' \in Collectors \cup {Nobody} BY <1>1 DEF Unlock, RestTypes
<1>3. RestTypes' BY ONLY <1>1,<1>2, samples' = samples, sampleClock' = sampleClock, lostLocks' = lostLocks,
         routerRow' \in [status : {"ONLINE", "DEGRADED"}, active_users : Nat] DEF RestTypes
<1> PICK s : s = NotReading OBVIOUS
<1>4. s \in ReadingRows /\ CountFits(s, listed) /\ AnyLeft(s) BY NotReadingIs, IdleFits
<1>5. UNCHANGED clientsVars /\ reading' = [reading EXCEPT ![c] = s] OBVIOUS
<1> QED BY ONLY TelCounts, c \in Collectors, <1>3,<1>4,<1>5, CollectorStep

LEMMA MarkHealthyCounts == ASSUME TelCounts, NEW c \in Collectors, MarkHealthy(c) PROVE TelCounts'
<1>1. RestTypes BY TelFacts
<1>2. routerRow' \in [status : {"ONLINE", "DEGRADED"}, active_users : Nat] BY <1>1 DEF MarkHealthy, RestTypes
<1> QED BY <1>2, OverCounts DEF MarkHealthy, collectorBounds

LEMMA MarkDegradedCounts == ASSUME TelCounts, NEW c \in Collectors, MarkDegraded(c) PROVE TelCounts'
<1>1. RestTypes BY TelFacts
<1>2. routerRow' \in [status : {"ONLINE", "DEGRADED"}, active_users : Nat] BY <1>1 DEF MarkDegraded, RestTypes
<1> QED BY <1>2, OverCounts DEF MarkDegraded, collectorBounds

LEMMA CollectorDiesCounts == ASSUME TelCounts, NEW c \in Collectors, CollectorDies(c) PROVE TelCounts'
<1>1. RestTypes BY TelFacts
<1>2. routerRow' \in [status : {"ONLINE", "DEGRADED"}, active_users : Nat] BY <1>1 DEF CollectorDies, RestTypes, recordsVars
<1> QED BY <1>2, OverCounts DEF CollectorDies, recordsVars

LEMMA CollectionFailsCounts == ASSUME TelCounts, NEW c \in Collectors, CollectionFails(c) PROVE TelCounts'
<1>0. reading[c] \in ReadingRows /\ RestTypes /\ reading \in [Collectors -> ReadingRows] BY TelFacts
<1> PICK r \in ReadingRows : r = reading[c] BY <1>0
<1>1. UNCHANGED clientsVars /\ UNCHANGED <<advisoryLock, recordsVars, readings, lostLocks>> /\ reading' = [reading EXCEPT ![c].at = "degrade"]
  BY DEF CollectionFails
<1> PICK s : s = AtStep(r, "degrade") OBVIOUS
<1>s. "degrade" \in Steps BY DEF Steps
<1>2. s \in ReadingRows BY <1>s, ReadingWith
<1>3. s.at = "degrade" BY <1>s, ReadingWith
<1>4. CountFits(s, listed) /\ AnyLeft(s) BY <1>3 DEF CountFits, AnyLeft, AtEnd
<1>5. reading' = [reading EXCEPT ![c] = s] BY <1>0,<1>1 DEF AtStep
<1>6. RestTypes' BY ONLY <1>0,<1>1 DEF RestTypes, recordsVars
<1> QED BY ONLY TelCounts, c \in Collectors, <1>1,<1>2,<1>4,<1>5,<1>6, CollectorStep

LEMMA LockIsLostCounts == ASSUME TelCounts, NEW c \in Collectors, LockIsLost(c) PROVE TelCounts'
<1>0. reading[c] \in ReadingRows /\ RestTypes /\ CountFits(reading[c], listed) /\ AnyLeft(reading[c])
      /\ reading \in [Collectors -> ReadingRows] BY TelFacts
<1>1. /\ UNCHANGED clientsVars /\ UNCHANGED recordsVars /\ reading' = reading
      /\ advisoryLock' = Nobody /\ lostLocks' = lostLocks + 1 BY DEF LockIsLost
<1>2. RestTypes'
 <2>1. lostLocks' \in Nat BY <1>0,<1>1 DEF RestTypes
 <2> QED BY ONLY <1>0,<1>1,<2>1 DEF RestTypes, recordsVars
<1> PICK s \in ReadingRows : s = reading[c] BY <1>0
<1>3. reading' = [reading EXCEPT ![c] = s] BY <1>0,<1>1
<1>4. CountFits(s, listed) /\ AnyLeft(s) BY <1>0
<1> QED BY ONLY TelCounts, c \in Collectors, s \in ReadingRows, <1>1,<1>2,<1>3,<1>4, CollectorStep

LEMMA TelCountsKept == ASSUME TelCounts, TelemetryNext PROVE TelCounts'
<1>1. \/ \E k \in Clients : Come(k, TRUE) \/ Come(k, FALSE) \/ Leaves(k) \/ Transfer(k)
      \/ \E i \in DOMAIN listed : Roams(i)
      \/ \E c \in Collectors :
           \/ CollectAll(c) \/ ReadPage(c) \/ UpdateActiveUsers(c) \/ StampSamples(c) \/ RecordSample(c) \/ SkipSample(c)
           \/ MarkHealthy(c) \/ CollectionFails(c) \/ MarkDegraded(c) \/ CollectorDies(c) \/ LockIsLost(c) BY DEF TelemetryNext
<1> QED BY <1>1, ComeCounts, LeaveCounts, TransferCounts, RoamsCounts, CollectAllCounts, ReadPageCounts, UpdateActiveUsersCounts, StampSamplesCounts,
  RecordSampleCounts, SkipSampleCounts, MarkHealthyCounts, CollectionFailsCounts, MarkDegradedCounts, CollectorDiesCounts, LockIsLostCounts

\* The count a comes before the count b: no less is transferred, and the counter of b has
\* lost no less of it.
Leads(a, b) == a.transferred <= b.transferred /\ b.bytes - b.transferred <= a.bytes - a.transferred
Amounts(a) == a.bytes \in Nat /\ a.transferred \in Nat
AllCounted == [k \in Clients |-> Counted(k)]

\* In each session the samples of a client lead one another in the order of their times, and the last of
\* them leads what is counted of it now.
SamplesFit(S, n, C) == \A k \in SessionRows :
  /\ \A t \in DOMAIN S[k] : t <= n /\ S[k][t].client \in Clients /\ Leads(S[k][t], C[S[k][t].client])
  /\ \A s, t \in DOMAIN S[k] : s < t /\ S[k][s].client = S[k][t].client => Leads(S[k][s], S[k][t])
\* So do the rows of a collection that is not recorded yet, and those that are left.
GotFits(r, S, C) == \A g \in Range(r.got) :
  /\ g.client \in Clients /\ Amounts(g) /\ Leads(g, C[g.client])
  /\ \A k \in SessionRows : \A t \in DOMAIN S[k] : S[k][t].client = g.client => Leads(S[k][t], g)
LeftFits(r, S, n, C) == r.sampledAt = n /\ \A g \in Range(r.left) :
  /\ g.client \in Clients /\ Amounts(g) /\ Leads(g, C[g.client])
  /\ \A k \in SessionRows : \A t \in DOMAIN S[k] : t < n /\ S[k][t].client = g.client => Leads(S[k][t], g)
RowTraffic(r, S, n, C) ==
  /\ r.at \in {"read", "count", "stamp"} => GotFits(r, S, C)
  /\ r.at = "record" => LeftFits(r, S, n, C)
OneHolder == \A c \in Collectors : reading[c].at # "idle" => advisoryLock = c
TrafficTypes(S, n, C) ==
  /\ n \in Nat /\ \A k \in Clients : Amounts(C[k])
  /\ \A k \in SessionRows : \A t \in DOMAIN S[k] : t \in Nat /\ Amounts(S[k][t])

TelTraffic == lostLocks = 0 =>
  /\ OneHolder /\ SamplesFit(samples, sampleClock, AllCounted)
  /\ \A c \in Collectors : RowTraffic(reading[c], samples, sampleClock, AllCounted)

LEMMA LeadsTransitive == ASSUME NEW a, NEW b, NEW d, Amounts(a), Amounts(b), Amounts(d), Leads(a, b), Leads(b, d) PROVE Leads(a, d)
<1> PICK x, y, z, u, v, w : /\ x = a.bytes /\ y = b.bytes /\ z = d.bytes
                            /\ u = a.transferred /\ v = b.transferred /\ w = d.transferred OBVIOUS
<1>1. x \in Nat /\ y \in Nat /\ z \in Nat /\ u \in Nat /\ v \in Nat /\ w \in Nat BY DEF Amounts
<1>2. u <= v /\ v <= w /\ y - v <= x - u /\ z - w <= y - v BY DEF Leads
<1>3. u <= w /\ z - w <= x - u BY ONLY <1>1,<1>2
<1> QED BY <1>3 DEF Leads

LEMMA LeadsItself == ASSUME NEW a, Amounts(a) PROVE Leads(a, a)
<1>1. a.bytes \in Nat /\ a.transferred \in Nat BY DEF Amounts
<1>2. a.transferred <= a.transferred /\ a.bytes - a.transferred <= a.bytes - a.transferred BY ONLY <1>1
<1> QED BY <1>2 DEF Leads

\* What is counted goes on.
LEMMA CountedGoesOn ==
  ASSUME NEW S, NEW n, NEW C, NEW D, TrafficTypes(S, n, C), TrafficTypes(S, n, D), \A k \in Clients : Leads(C[k], D[k])
  PROVE  /\ SamplesFit(S, n, C) => SamplesFit(S, n, D)
         /\ \A r, s : RowTraffic(r, S, n, C) /\ s.at = r.at /\ s.got = r.got /\ s.left = r.left /\ s.sampledAt = r.sampledAt
                        => RowTraffic(s, S, n, D)
<1>1. /\ \A k \in Clients : Amounts(C[k]) /\ Amounts(D[k])
      /\ \A k \in SessionRows : \A t \in DOMAIN S[k] : Amounts(S[k][t]) BY DEF TrafficTypes
<1>2. \A k \in Clients : \A a : Amounts(a) /\ Leads(a, C[k]) => Leads(a, D[k]) BY <1>1, LeadsTransitive
<1>3. SamplesFit(S, n, C) => SamplesFit(S, n, D) BY <1>1,<1>2 DEF SamplesFit
<1>4. ASSUME NEW r, NEW s, RowTraffic(r, S, n, C), s.at = r.at, s.got = r.got, s.left = r.left, s.sampledAt = r.sampledAt
  PROVE RowTraffic(s, S, n, D)
 <2>1. GotFits(r, S, C) => GotFits(s, S, D) BY <1>2,<1>4 DEF GotFits
 <2>2. LeftFits(r, S, n, C) => LeftFits(s, S, n, D) BY <1>2,<1>4 DEF LeftFits
 <2> QED BY <1>4,<2>1,<2>2 DEF RowTraffic
<1> QED BY <1>3,<1>4

LEMMA TrafficTypesOf ==
  ASSUME TelCounts
  PROVE  /\ TrafficTypes(samples, sampleClock, AllCounted) /\ lostLocks \in Nat
         /\ \A k \in Clients : AllCounted[k] = Counted(k)
<1>1. RestTypes /\ lease \in [Clients -> Addresses] /\ trafficCounter \in [Clients -> Nat] /\ transferred \in [Clients -> Nat] BY TelFacts
<1>2. \A k \in Clients : AllCounted[k] = Counted(k) BY DEF AllCounted
<1>3. \A k \in Clients : Amounts(Counted(k)) BY <1>1 DEF Counted, Amounts
<1>4. \A a \in SampleRows : Amounts(a) BY DEF SampleRows, Amounts
<1>5. /\ sampleClock \in Nat /\ lostLocks \in Nat
      /\ \A k \in SessionRows : \A t \in DOMAIN samples[k] : t \in Nat /\ samples[k][t] \in SampleRows BY <1>1 DEF RestTypes
<1> QED BY <1>2,<1>3,<1>4,<1>5 DEF TrafficTypes

\* What a step of the clients has to show.
LEMMA ClientsTraffic ==
  ASSUME TelCounts, TelCounts', TelTraffic, UNCHANGED <<advisoryLock, samples, sampleClock, lostLocks>>, NEW f, reading' = f,
      \A c \in Collectors : /\ f[c].at = reading[c].at /\ f[c].got = reading[c].got
                            /\ f[c].left = reading[c].left /\ f[c].sampledAt = reading[c].sampledAt,
      NEW b, trafficCounter' = b, NEW t, transferred' = t,
      \A k \in Clients : transferred[k] <= t[k] /\ b[k] - t[k] <= trafficCounter[k] - transferred[k]
  PROVE TelTraffic'
<1>0. advisoryLock' = advisoryLock /\ samples' = samples /\ sampleClock' = sampleClock /\ lostLocks' = lostLocks OBVIOUS
<1> PICK S, n, C : S = samples /\ n = sampleClock /\ C = AllCounted OBVIOUS
<1> PICK D : D = AllCounted' OBVIOUS
<1>1. TrafficTypes(S, n, C) BY TrafficTypesOf
<1>2. TrafficTypes(S, n, D)
 <2>1. TrafficTypes(samples, sampleClock, AllCounted)' BY TrafficTypesOf, PTL
 <2>2. samples' = S /\ sampleClock' = n /\ AllCounted' = D BY <1>0
 <2> QED BY ONLY <2>1,<2>2 DEF TrafficTypes, Amounts
<1>3. ASSUME NEW k \in Clients PROVE Leads(C[k], D[k])
 <2>1. C[k] = [client |-> k, address |-> lease[k], bytes |-> trafficCounter[k], transferred |-> transferred[k]] BY DEF AllCounted, Counted
 <2>2. D[k] = [client |-> k, address |-> lease'[k], bytes |-> b[k], transferred |-> t[k]] BY DEF AllCounted, Counted
 <2> QED BY <2>1,<2>2 DEF Leads
<1>4. ASSUME lostLocks = 0
  PROVE  /\ OneHolder' /\ SamplesFit(S, n, D) /\ \A c \in Collectors : RowTraffic(f[c], S, n, D)
 <2>1. OneHolder /\ SamplesFit(S, n, C) /\ \A c \in Collectors : RowTraffic(reading[c], S, n, C) BY <1>4 DEF TelTraffic
 <2>2. OneHolder' BY <1>0,<2>1 DEF OneHolder
 <2>3. SamplesFit(S, n, D) BY <1>1,<1>2,<1>3,<2>1, CountedGoesOn
 <2>4. ASSUME NEW c \in Collectors PROVE RowTraffic(f[c], S, n, D)
  <3> PICK r, s : r = reading[c] /\ s = f[c] OBVIOUS
  <3>1. RowTraffic(r, S, n, C) /\ s.at = r.at /\ s.got = r.got /\ s.left = r.left /\ s.sampledAt = r.sampledAt BY <2>1
  <3>2. RowTraffic(s, S, n, D) BY ONLY <1>1,<1>2,<1>3,<3>1, CountedGoesOn
  <3> QED BY <3>2
 <2> QED BY <2>2,<2>3,<2>4
<1>5. samples' = S /\ sampleClock' = n /\ AllCounted' = D /\ reading' = f /\ lostLocks' = lostLocks BY <1>0
<1>6. SUFFICES ASSUME lostLocks = 0
  PROVE OneHolder' /\ SamplesFit(samples', sampleClock', AllCounted') /\ \A c \in Collectors : RowTraffic(reading'[c], samples', sampleClock', AllCounted')
  BY <1>5 DEF TelTraffic, SamplesFit, RowTraffic, GotFits, LeftFits, Leads, Amounts
<1> QED BY <1>4,<1>5,<1>6

LEMMA ComeTraffic == ASSUME TelCounts, TelCounts', TelTraffic, NEW k \in Clients, NEW first \in BOOLEAN, Come(k, first) PROVE TelTraffic'
<1>0. lease \in [Clients -> Addresses] /\ trafficCounter \in [Clients -> Nat] /\ transferred \in [Clients -> Nat] BY TelFacts
<1>1. /\ UNCHANGED <<advisoryLock, samples, sampleClock, lostLocks>> /\ transferred' = transferred
      /\ trafficCounter' = [trafficCounter EXCEPT ![k] = 0]
      /\ reading' = [c \in Collectors |-> OneCame(reading[c])] BY DEF Come, OneCame, recordsVars, collectorBounds
<1> PICK f : f = [c \in Collectors |-> OneCame(reading[c])] OBVIOUS
<1>2. \A c \in Collectors : /\ f[c].at = reading[c].at /\ f[c].got = reading[c].got
                            /\ f[c].left = reading[c].left /\ f[c].sampledAt = reading[c].sampledAt
 <2>1. TAKE c \in Collectors
 <2>2. reading[c] \in ReadingRows BY TelFacts
 <2>3. SameRead(OneCame(reading[c]), reading[c]) BY <2>2, ReadingWith
 <2>4. f[c] = OneCame(reading[c]) OBVIOUS
 <2> QED BY ONLY <2>3,<2>4 DEF SameRead
<1> PICK b, t : b = trafficCounter' /\ t = transferred' OBVIOUS
<1>3. \A h \in Clients : transferred[h] <= t[h] /\ b[h] - t[h] <= trafficCounter[h] - transferred[h]
 <2>1. TAKE h \in Clients
 <2>2. t[h] = transferred[h] /\ (b[h] = trafficCounter[h] \/ b[h] = 0) BY <1>0,<1>1
 <2>3. trafficCounter[h] \in Nat /\ transferred[h] \in Nat BY <1>0
 <2> QED BY ONLY <2>2,<2>3
<1>4. reading' = f /\ trafficCounter' = b /\ transferred' = t BY <1>1
<1> QED BY ONLY TelCounts, TelCounts', TelTraffic, <1>1,<1>2,<1>3,<1>4, ClientsTraffic

LEMMA LeaveTraffic == ASSUME TelCounts, TelCounts', TelTraffic, NEW k \in Clients, Leaves(k) PROVE TelTraffic'
<1>0. lease \in [Clients -> Addresses] /\ trafficCounter \in [Clients -> Nat] /\ transferred \in [Clients -> Nat] BY TelFacts
<1>1. /\ UNCHANGED <<advisoryLock, samples, sampleClock, lostLocks>> /\ transferred' = transferred
      /\ trafficCounter' = trafficCounter
      /\ reading' = [c \in Collectors |-> OneLeft(reading[c], k)] BY DEF Leaves, OneLeft, recordsVars, collectorBounds
<1> PICK f : f = [c \in Collectors |-> OneLeft(reading[c], k)] OBVIOUS
<1>2. \A c \in Collectors : /\ f[c].at = reading[c].at /\ f[c].got = reading[c].got
                            /\ f[c].left = reading[c].left /\ f[c].sampledAt = reading[c].sampledAt
 <2>1. TAKE c \in Collectors
 <2>2. reading[c] \in ReadingRows BY TelFacts
 <2>3. SameRead(OneLeft(reading[c], k), reading[c]) BY <2>2, ReadingWith
 <2>4. f[c] = OneLeft(reading[c], k) OBVIOUS
 <2> QED BY ONLY <2>3,<2>4 DEF SameRead
<1> PICK b, t : b = trafficCounter' /\ t = transferred' OBVIOUS
<1>3. \A h \in Clients : transferred[h] <= t[h] /\ b[h] - t[h] <= trafficCounter[h] - transferred[h]
 <2>1. TAKE h \in Clients
 <2>2. t[h] = transferred[h] /\ b[h] = trafficCounter[h] BY <1>0,<1>1
 <2>3. trafficCounter[h] \in Nat /\ transferred[h] \in Nat BY <1>0
 <2> QED BY ONLY <2>2,<2>3
<1>4. reading' = f /\ trafficCounter' = b /\ transferred' = t BY <1>1
<1> QED BY ONLY TelCounts, TelCounts', TelTraffic, <1>1,<1>2,<1>3,<1>4, ClientsTraffic

LEMMA RoamsTraffic == ASSUME TelCounts, TelCounts', TelTraffic, NEW i \in DOMAIN listed, Roams(i) PROVE TelTraffic'
<1>0. lease \in [Clients -> Addresses] /\ trafficCounter \in [Clients -> Nat] /\ transferred \in [Clients -> Nat] BY TelFacts
<1>1. /\ UNCHANGED <<advisoryLock, samples, sampleClock, lostLocks>> /\ transferred' = transferred
      /\ trafficCounter' = trafficCounter
      /\ reading' = [c \in Collectors |-> OneRoamed(reading[c])] BY DEF Roams, OneRoamed, recordsVars, collectorBounds
<1> PICK f : f = [c \in Collectors |-> OneRoamed(reading[c])] OBVIOUS
<1>2. \A c \in Collectors : /\ f[c].at = reading[c].at /\ f[c].got = reading[c].got
                            /\ f[c].left = reading[c].left /\ f[c].sampledAt = reading[c].sampledAt
 <2>1. TAKE c \in Collectors
 <2>2. reading[c] \in ReadingRows BY TelFacts
 <2>3. SameRead(OneRoamed(reading[c]), reading[c]) BY <2>2, ReadingWith
 <2>4. f[c] = OneRoamed(reading[c]) OBVIOUS
 <2> QED BY ONLY <2>3,<2>4 DEF SameRead
<1> PICK b, t : b = trafficCounter' /\ t = transferred' OBVIOUS
<1>3. \A h \in Clients : transferred[h] <= t[h] /\ b[h] - t[h] <= trafficCounter[h] - transferred[h]
 <2>1. TAKE h \in Clients
 <2>2. t[h] = transferred[h] /\ b[h] = trafficCounter[h] BY <1>0,<1>1
 <2>3. trafficCounter[h] \in Nat /\ transferred[h] \in Nat BY <1>0
 <2> QED BY ONLY <2>2,<2>3
<1>4. reading' = f /\ trafficCounter' = b /\ transferred' = t BY <1>1
<1> QED BY ONLY TelCounts, TelCounts', TelTraffic, <1>1,<1>2,<1>3,<1>4, ClientsTraffic

LEMMA TransferTraffic == ASSUME TelCounts, TelCounts', TelTraffic, NEW k \in Clients, Transfer(k) PROVE TelTraffic'
<1>0. lease \in [Clients -> Addresses] /\ trafficCounter \in [Clients -> Nat] /\ transferred \in [Clients -> Nat] BY TelFacts
<1>1. /\ UNCHANGED <<advisoryLock, samples, sampleClock, lostLocks>>
      /\ transferred' = [transferred EXCEPT ![k] = @ + 1] /\ trafficCounter' = [trafficCounter EXCEPT ![k] = @ + 1]
      /\ reading' = reading BY DEF Transfer, recordsVars, collectorBounds
<1> PICK f : f = reading OBVIOUS
<1>2. \A c \in Collectors : /\ f[c].at = reading[c].at /\ f[c].got = reading[c].got
                            /\ f[c].left = reading[c].left /\ f[c].sampledAt = reading[c].sampledAt OBVIOUS
<1> PICK b, t : b = trafficCounter' /\ t = transferred' OBVIOUS
<1>3. \A h \in Clients : transferred[h] <= t[h] /\ b[h] - t[h] <= trafficCounter[h] - transferred[h]
 <2>1. TAKE h \in Clients
 <2>2. \/ t[h] = transferred[h] /\ b[h] = trafficCounter[h]
       \/ t[h] = transferred[h] + 1 /\ b[h] = trafficCounter[h] + 1 BY <1>0,<1>1
 <2>3. trafficCounter[h] \in Nat /\ transferred[h] \in Nat BY <1>0
 <2> QED BY ONLY <2>2,<2>3
<1>4. reading' = f /\ trafficCounter' = b /\ transferred' = t BY <1>1
<1> QED BY ONLY TelCounts, TelCounts', TelTraffic, <1>1,<1>2,<1>3,<1>4, ClientsTraffic

\* What a step of a collector has to show.
LEMMA CollectorTraffic ==
  ASSUME TelCounts, NEW c \in Collectors, UNCHANGED clientsVars, NEW s, reading' = [reading EXCEPT ![c] = s],
      NEW S, samples' = S, NEW n, sampleClock' = n, lostLocks' = lostLocks,
      lostLocks = 0 =>
        /\ OneHolder' /\ SamplesFit(S, n, AllCounted) /\ RowTraffic(s, S, n, AllCounted)
        /\ \A d \in Collectors \ {c} : RowTraffic(reading[d], S, n, AllCounted)
  PROVE TelTraffic'
<1>0. reading \in [Collectors -> ReadingRows] BY TelFacts
<1> PICK f : f = reading' OBVIOUS
<1>1. \A d \in Collectors : f[d] = IF d = c THEN s ELSE reading[d] BY <1>0
<1> PICK C : C = AllCounted OBVIOUS
<1>2. AllCounted' = C BY DEF AllCounted, Counted, clientsVars
<1>3. samples' = S /\ sampleClock' = n /\ AllCounted' = C /\ reading' = f /\ lostLocks' = lostLocks BY <1>2
<1>4. SUFFICES ASSUME lostLocks = 0
  PROVE OneHolder' /\ SamplesFit(samples', sampleClock', AllCounted') /\ \A d \in Collectors : RowTraffic(reading'[d], samples', sampleClock', AllCounted')
  BY <1>3 DEF TelTraffic, SamplesFit, RowTraffic, GotFits, LeftFits, Leads, Amounts
<1>5. /\ OneHolder' /\ SamplesFit(S, n, C) /\ RowTraffic(s, S, n, C)
      /\ \A d \in Collectors \ {c} : RowTraffic(reading[d], S, n, C) BY <1>4
<1>6. \A d \in Collectors : RowTraffic(f[d], S, n, C) BY <1>1,<1>5
<1> QED BY ONLY <1>3,<1>5,<1>6

LEMMA HolderStays ==
  ASSUME NEW c \in Collectors, reading \in [Collectors -> ReadingRows], OneHolder, NEW s, reading' = [reading EXCEPT ![c] = s],
      reading[c].at # "idle", advisoryLock' = advisoryLock
  PROVE OneHolder'
<1>1. \A d \in Collectors : reading'[d] = IF d = c THEN s ELSE reading[d]
 <2> HIDE DEF ReadingRows
 <2> QED OBVIOUS
<1> QED BY <1>1 DEF OneHolder

LEMMA OthersIdle ==
  ASSUME NEW c \in Collectors, OneHolder, reading[c].at # "idle", NEW S, NEW n, NEW C
  PROVE \A d \in Collectors \ {c} : reading[d].at = "idle" /\ RowTraffic(reading[d], S, n, C)
<1>1. \A d \in Collectors \ {c} : reading[d].at = "idle" BY DEF OneHolder
<1> QED BY <1>1 DEF RowTraffic

\* A step that records nothing.
LEMMA QuietTraffic ==
  ASSUME TelCounts, TelTraffic, NEW c \in Collectors, UNCHANGED clientsVars, NEW s, reading' = [reading EXCEPT ![c] = s],
      samples' = samples, sampleClock' = sampleClock, lostLocks' = lostLocks, lostLocks = 0 => OneHolder',
      lostLocks = 0 => RowTraffic(s, samples, sampleClock, AllCounted)
  PROVE TelTraffic'
<1> PICK S, n : S = samples /\ n = sampleClock OBVIOUS
<1>1. samples' = S /\ sampleClock' = n OBVIOUS
<1>2. ASSUME lostLocks = 0
  PROVE  /\ OneHolder' /\ SamplesFit(S, n, AllCounted) /\ RowTraffic(s, S, n, AllCounted)
         /\ \A d \in Collectors \ {c} : RowTraffic(reading[d], S, n, AllCounted) BY <1>2 DEF TelTraffic
<1>3. UNCHANGED clientsVars /\ reading' = [reading EXCEPT ![c] = s] /\ lostLocks' = lostLocks OBVIOUS
<1> QED BY ONLY TelCounts, c \in Collectors, <1>1,<1>2,<1>3, CollectorTraffic

LEMMA CollectAllTraffic == ASSUME TelCounts, TelTraffic, NEW c \in Collectors, CollectAll(c) PROVE TelTraffic'
<1>0. reading \in [Collectors -> ReadingRows] BY TelFacts
<1>1. /\ UNCHANGED clientsVars /\ UNCHANGED recordsVars /\ lostLocks' = lostLocks /\ advisoryLock' = c
      /\ advisoryLock = Nobody
      /\ reading' = [reading EXCEPT ![c] = [NotReading EXCEPT !.at = "read", !.stayed = ListedClients]] BY DEF CollectAll
<1> PICK s : s = [NotReading EXCEPT !.at = "read", !.stayed = ListedClients] OBVIOUS
<1>2. s.at = "read" /\ s.got = << >> BY DEF NotReading
<1>3. RowTraffic(s, samples, sampleClock, AllCounted) BY <1>2 DEF RowTraffic, GotFits, Range
<1>4. ASSUME lostLocks = 0 PROVE OneHolder'
 <2>1. \A d \in Collectors : reading[d].at = "idle"
  <3>1. OneHolder BY <1>4 DEF TelTraffic
  <3> QED BY <1>1,<3>1, TelemetryAssumption DEF OneHolder
 <2>2. \A d \in Collectors : d # c => reading'[d] = reading[d]
  <3> HIDE DEF ReadingRows
  <3> QED BY <1>0,<1>1
 <2> QED BY <1>1,<2>1,<2>2 DEF OneHolder
<1>5. samples' = samples /\ sampleClock' = sampleClock /\ lostLocks' = lostLocks /\ reading' = [reading EXCEPT ![c] = s] BY <1>1 DEF recordsVars
<1> QED BY ONLY TelCounts, TelTraffic, c \in Collectors, <1>1,<1>3,<1>4,<1>5, QuietTraffic

LEMMA ReadPageTraffic == ASSUME TelCounts, TelTraffic, NEW c \in Collectors, ReadPage(c) PROVE TelTraffic'
<1>0. /\ ListOK(listed) /\ reading[c] \in ReadingRows
      /\ lease \in [Clients -> Addresses] /\ trafficCounter \in [Clients -> Nat] /\ transferred \in [Clients -> Nat]
      /\ reading \in [Collectors -> ReadingRows] BY TelFacts
<1> PICK r \in ReadingRows : r = reading[c] BY <1>0
<1> PICK rows : rows = RowsAt(r.page) OBVIOUS
<1> PICK got : got = r.got \o rows OBVIOUS
<1>1. /\ UNCHANGED clientsVars /\ UNCHANGED <<samples, sampleClock, collectorBounds>> /\ r.at = "read"
      /\ UNCHANGED <<routerRow, advisoryLock>>
      /\ \/ IsLast(r.page, rows, got) /\ reading' = [reading EXCEPT ![c] = GotAll(r, got)]
         \/ reading' = [reading EXCEPT ![c] = AtStep(r, "degrade")]
         \/ ~IsLast(r.page, rows, got) /\ reading' = [reading EXCEPT ![c] = GotPage(r, got)]
 <2>1. got = SoFar(r, rows) BY DEF SoFar
 <2>2. reading \in [Collectors -> ReadingRows] BY <1>0
 <2> QED BY ONLY <2>1,<2>2, c \in Collectors, ReadPage(c), r = reading[c], rows = RowsAt(r.page), ReadPageIs
<1>g. /\ rows \in Seq(ReadRows) /\ got \in Seq(ReadRows)
      /\ \A i \in DOMAIN rows : rows[i] = Counted(rows[i].client) /\ rows[i].client \in Clients
 <2>1. rows \in Seq(ReadRows) /\ \A i \in DOMAIN rows : rows[i] = Counted(rows[i].client) /\ rows[i].client \in Clients BY <1>0, PortionIs
 <2>2. r.got \in Seq(ReadRows) BY ReadingTypes
 <2>3. got \in Seq(ReadRows) BY ONLY <2>1,<2>2, got = r.got \o rows, ReadInFacts
 <2> QED BY <2>1,<2>3
<1>2. PICK s : /\ reading' = [reading EXCEPT ![c] = s]
               /\ s.at = "degrade" \/ (s.at \in {"count", "read"} /\ s.got = got)
 <2> PICK x, y, z : x = GotAll(r, got) /\ y = AtStep(r, "degrade") /\ z = GotPage(r, got) OBVIOUS
 <2>1. x.at = "count" /\ x.got = got BY ONLY <1>g, r \in ReadingRows, x = GotAll(r, got), ReadingWith
 <2>2. y.at = "degrade"
  <3>1. "degrade" \in Steps BY DEF Steps
  <3> QED BY ONLY <3>1, r \in ReadingRows, y = AtStep(r, "degrade"), ReadingWith
 <2>3. z.at = r.at /\ z.got = got BY ONLY <1>g, r \in ReadingRows, z = GotPage(r, got), ReadingWith
 <2>4. r.at = "read" BY <1>1
 <2>5. reading' = [reading EXCEPT ![c] = x] \/ reading' = [reading EXCEPT ![c] = y] \/ reading' = [reading EXCEPT ![c] = z] BY <1>1
 <2> QED BY ONLY <2>1,<2>2,<2>3,<2>4,<2>5
<1>3. /\ samples' = samples /\ sampleClock' = sampleClock /\ lostLocks' = lostLocks /\ advisoryLock' = advisoryLock BY <1>1 DEF collectorBounds
<1>4. ASSUME lostLocks = 0 PROVE OneHolder'
 <2>1. OneHolder BY <1>4 DEF TelTraffic
 <2>2. reading[c].at # "idle" BY <1>1
 <2> QED BY ONLY <1>0,<1>2,<1>3,<2>1,<2>2, c \in Collectors, HolderStays
<1>5. ASSUME lostLocks = 0 PROVE RowTraffic(s, samples, sampleClock, AllCounted)
 <2>1. SamplesFit(samples, sampleClock, AllCounted) /\ GotFits(r, samples, AllCounted) BY <1>1,<1>5 DEF TelTraffic, RowTraffic
 <2>2. rows \in Seq(ReadRows) /\ \A i \in DOMAIN rows : rows[i] = Counted(rows[i].client) /\ rows[i].client \in Clients BY <1>g
 <2>3. \A g \in Range(got) : g \in Range(r.got) \/ g \in Range(rows)
  <3>1. r.got \in Seq(ReadRows) BY ReadingTypes
  <3> QED BY ONLY <2>2,<3>1, got = r.got \o rows, ReadInFacts
 <2>4. ASSUME NEW g \in Range(rows)
   PROVE  /\ g.client \in Clients /\ Amounts(g) /\ Leads(g, AllCounted[g.client])
          /\ \A k \in SessionRows : \A t \in DOMAIN samples[k] : samples[k][t].client = g.client => Leads(samples[k][t], g)
  <3>1. g.client \in Clients /\ g = Counted(g.client) BY <2>2 DEF Range
  <3>2. g = AllCounted[g.client] BY <3>1, TrafficTypesOf
  <3>3. Amounts(g) BY <3>1,<3>2, TrafficTypesOf DEF TrafficTypes
  <3>4. Leads(g, AllCounted[g.client]) BY <3>2,<3>3, LeadsItself
  <3>5. \A k \in SessionRows : \A t \in DOMAIN samples[k] : samples[k][t].client = g.client => Leads(samples[k][t], g) BY <2>1,<3>1,<3>2 DEF SamplesFit
  <3> QED BY <3>1,<3>3,<3>4,<3>5
 <2>5. s.got = got => GotFits(s, samples, AllCounted)
  <3> HIDE DEF AllCounted
  <3> QED BY <2>1,<2>3,<2>4 DEF GotFits
 <2> QED BY <1>2,<2>5 DEF RowTraffic
<1> QED BY ONLY TelCounts, TelTraffic, c \in Collectors, <1>1,<1>2,<1>3,<1>4,<1>5, QuietTraffic

LEMMA UpdateActiveUsersTraffic == ASSUME TelCounts, TelTraffic, NEW c \in Collectors, UpdateActiveUsers(c) PROVE TelTraffic'
<1>0. reading[c] \in ReadingRows /\ reading \in [Collectors -> ReadingRows] BY TelFacts
<1> PICK r \in ReadingRows : r = reading[c] BY <1>0
<1> PICK a \in {"healthy", "stamp"} : a = IF r.got = << >> THEN "healthy" ELSE "stamp" OBVIOUS
<1> PICK s : s = AtStep(r, a) OBVIOUS
<1>1. /\ UNCHANGED clientsVars /\ samples' = samples /\ sampleClock' = sampleClock /\ lostLocks' = lostLocks
      /\ advisoryLock' = advisoryLock /\ r.at = "count"
      /\ reading' = [reading EXCEPT ![c].at = a] BY DEF UpdateActiveUsers, collectorBounds
<1>s. a \in Steps BY DEF Steps
<1>2. s.at = a /\ s.got = r.got BY ONLY <1>s, r \in ReadingRows, s = AtStep(r, a), ReadingWith DEF SameGot
<1>3. reading' = [reading EXCEPT ![c] = s] BY <1>0,<1>1 DEF AtStep
<1>4. ASSUME lostLocks = 0 PROVE OneHolder'
 <2>1. OneHolder BY <1>4 DEF TelTraffic
 <2>2. reading[c].at # "idle" BY <1>1
 <2> QED BY ONLY <1>0,<1>1,<1>3,<2>1,<2>2, c \in Collectors, HolderStays
<1>5. ASSUME lostLocks = 0 PROVE RowTraffic(s, samples, sampleClock, AllCounted)
 <2>1. GotFits(r, samples, AllCounted) BY <1>1,<1>5 DEF TelTraffic, RowTraffic
 <2>2. GotFits(s, samples, AllCounted) BY <1>2,<2>1 DEF GotFits
 <2> QED BY <1>2,<2>2 DEF RowTraffic
<1> QED BY ONLY TelCounts, TelTraffic, c \in Collectors, <1>1,<1>3,<1>4,<1>5, QuietTraffic

LEMMA StampSamplesTraffic == ASSUME TelCounts, TelTraffic, NEW c \in Collectors, StampSamples(c) PROVE TelTraffic'
<1>0. reading[c] \in ReadingRows /\ reading \in [Collectors -> ReadingRows] BY TelFacts
<1> PICK r \in ReadingRows : r = reading[c] BY <1>0
<1> PICK S, n, C : S = samples /\ n = sampleClock /\ C = AllCounted OBVIOUS
<1> PICK m : m = n + 1 OBVIOUS
<1>1. /\ UNCHANGED clientsVars /\ samples' = S /\ sampleClock' = m /\ lostLocks' = lostLocks
      /\ advisoryLock' = advisoryLock /\ r.at = "stamp"
      /\ \E o \in SUBSET SessionRows :
           reading' = [reading EXCEPT ![c].at = "record", ![c].left = r.got, ![c].sessions = o, ![c].sampledAt = m]
  BY DEF StampSamples, collectorBounds
<1> PICK o \in SUBSET SessionRows :
      reading' = [reading EXCEPT ![c].at = "record", ![c].left = r.got, ![c].sessions = o, ![c].sampledAt = m] BY <1>1
<1> PICK s : s = Stamped(r, o, m) OBVIOUS
<1>4. n \in Nat /\ \A k \in SessionRows : \A t \in DOMAIN S[k] : t \in Nat BY TrafficTypesOf DEF TrafficTypes
<1>t. m \in Nat BY <1>4
<1>2. s.at = "record" /\ s.left = r.got /\ s.sampledAt = m BY <1>t, StampedIs
<1>3. reading' = [reading EXCEPT ![c] = s] BY <1>0,<1>1 DEF Stamped
<1>5. ASSUME lostLocks = 0
  PROVE  /\ OneHolder' /\ SamplesFit(S, m, C) /\ RowTraffic(s, S, m, C)
         /\ \A d \in Collectors \ {c} : RowTraffic(reading[d], S, m, C)
 <2>1. OneHolder /\ SamplesFit(S, n, C) /\ GotFits(r, S, C) BY <1>1,<1>5 DEF TelTraffic, RowTraffic
 <2>2. reading[c].at # "idle" BY <1>1
 <2>3. OneHolder' BY ONLY <1>0,<1>1,<1>3,<2>1,<2>2, c \in Collectors, HolderStays
 <2>4. \A k \in SessionRows : \A t \in DOMAIN S[k] : t <= n => t <= m BY <1>4
 <2>5. SamplesFit(S, m, C) BY ONLY <2>1,<2>4 DEF SamplesFit
 <2>6. LeftFits(s, S, m, C) BY ONLY <1>2,<2>1 DEF LeftFits, GotFits
 <2>7. RowTraffic(s, S, m, C) BY <1>2,<2>6 DEF RowTraffic
 <2>8. \A d \in Collectors \ {c} : RowTraffic(reading[d], S, m, C) BY <2>1,<2>2, OthersIdle
 <2> QED BY <2>3,<2>5,<2>7,<2>8
<1>6. lostLocks = 0 =>
           /\ OneHolder' /\ SamplesFit(S, m, AllCounted) /\ RowTraffic(s, S, m, AllCounted)
           /\ \A d \in Collectors \ {c} : RowTraffic(reading[d], S, m, AllCounted) BY <1>5
<1> QED BY ONLY TelCounts, c \in Collectors, <1>1,<1>3,<1>6, CollectorTraffic

LEMMA NextRowTraffic ==
  ASSUME TelCounts, NEW c \in Collectors, reading[c].at = "record", NextRow(c)
  PROVE  /\ Head(reading[c].left) \in Range(reading[c].left)
         /\ \E s : /\ reading' = [reading EXCEPT ![c] = s] /\ s.at \in {"healthy", "record"} /\ s.sampledAt = reading[c].sampledAt
                   /\ Range(s.left) \subseteq Range(reading[c].left)
<1>0. reading[c] \in ReadingRows /\ AnyLeft(reading[c]) /\ reading \in [Collectors -> ReadingRows] BY TelFacts
<1> PICK r \in ReadingRows : r = reading[c] BY <1>0
<1> PICK a \in {"healthy", "record"} : a = IF Len(r.left) = 1 THEN "healthy" ELSE "record" OBVIOUS
<1> PICK s : s = OneRecorded(r, a) OBVIOUS
<1>1. reading' = [reading EXCEPT ![c].left = Tail(@), ![c].at = a] BY DEF NextRow
<1>s. a \in Steps BY DEF Steps
<1>3. reading' = [reading EXCEPT ![c] = s] BY <1>0,<1>1 DEF OneRecorded
<1>4. Head(r.left) \in Range(r.left) /\ Range(Tail(r.left)) \subseteq Range(r.left) /\ Tail(r.left) \in Seq(ReadRows)
 <2>1. r.left # << >> BY <1>0 DEF AnyLeft
 <2> QED BY <2>1, SampleIs
<1>2. s.at = a /\ s.left = Tail(r.left) /\ s.sampledAt = r.sampledAt BY ONLY <1>4,<1>s, r \in ReadingRows, s = OneRecorded(r, a), ReadingWith DEF SameGot
<1> QED BY <1>2,<1>3,<1>4

LEMMA SkipSampleTraffic == ASSUME TelCounts, TelTraffic, NEW c \in Collectors, SkipSample(c) PROVE TelTraffic'
<1>0. reading \in [Collectors -> ReadingRows] BY TelFacts
<1>1. /\ UNCHANGED clientsVars /\ samples' = samples /\ sampleClock' = sampleClock /\ lostLocks' = lostLocks
      /\ advisoryLock' = advisoryLock /\ reading[c].at = "record" /\ NextRow(c) BY DEF SkipSample, recordsVars, collectorBounds
<1> PICK s : /\ reading' = [reading EXCEPT ![c] = s] /\ s.at \in {"healthy", "record"} /\ s.sampledAt = reading[c].sampledAt
             /\ Range(s.left) \subseteq Range(reading[c].left) BY <1>1, NextRowTraffic
<1>4. ASSUME lostLocks = 0 PROVE OneHolder'
 <2>1. OneHolder BY <1>4 DEF TelTraffic
 <2>2. reading[c].at # "idle" BY <1>1
 <2> QED BY ONLY <1>0,<1>1,<2>1,<2>2, c \in Collectors, reading' = [reading EXCEPT ![c] = s], HolderStays
<1>5. ASSUME lostLocks = 0 PROVE RowTraffic(s, samples, sampleClock, AllCounted)
 <2>1. LeftFits(reading[c], samples, sampleClock, AllCounted) BY <1>1,<1>5 DEF TelTraffic, RowTraffic
 <2>2. LeftFits(s, samples, sampleClock, AllCounted)
  <3> HIDE DEF AllCounted
  <3> QED BY <2>1 DEF LeftFits
 <2> QED BY <2>2 DEF RowTraffic
<1>3. reading' = [reading EXCEPT ![c] = s] OBVIOUS
<1> QED BY ONLY TelCounts, TelTraffic, c \in Collectors, <1>1,<1>3,<1>4,<1>5, QuietTraffic

LEMMA RecordSampleTraffic == ASSUME TelCounts, TelTraffic, NEW c \in Collectors, RecordSample(c) PROVE TelTraffic'
<1>0. reading[c] \in ReadingRows /\ reading \in [Collectors -> ReadingRows] /\ DOMAIN samples = SessionRows BY TelFacts DEF RestTypes
<1> PICK r \in ReadingRows : r = reading[c] BY <1>0
<1> PICK row : row = Head(r.left) OBVIOUS
<1> PICK sample : sample = SampleOf(row) OBVIOUS
<1> PICK S, n, C : S = samples /\ n = sampleClock /\ C = AllCounted OBVIOUS
<1>1. /\ UNCHANGED clientsVars /\ sampleClock' = n /\ lostLocks' = lostLocks
      /\ advisoryLock' = advisoryLock /\ r.at = "record" /\ NextRow(c)
      /\ \E h \in SessionRows : samples' = [S EXCEPT ![h] = Recorded(S[h], r.sampledAt, sample)]
 <2>1. r.sessions \subseteq SessionRows BY ReadingTypes
 <2>2. MatchSession(row, r.sessions) \subseteq SessionRows BY <2>1 DEF MatchSession
 <2> HIDE DEF Recorded, NextRow, SampleOf, MatchSession
 <2> QED BY <2>2 DEF RecordSample, collectorBounds
<1> PICK k \in SessionRows : samples' = [S EXCEPT ![k] = Recorded(S[k], r.sampledAt, sample)] BY <1>1
<1> PICK S2 : S2 = [S EXCEPT ![k] = Recorded(S[k], r.sampledAt, sample)] OBVIOUS
<1>c. reading[c].at = "record" BY <1>1
<1> PICK s : /\ reading' = [reading EXCEPT ![c] = s] /\ s.at \in {"healthy", "record"} /\ s.sampledAt = reading[c].sampledAt
             /\ Range(s.left) \subseteq Range(reading[c].left) BY <1>1,<1>c, NextRowTraffic
<1>3. reading' = [reading EXCEPT ![c] = s] OBVIOUS
<1>4. row \in Range(r.left) BY <1>1,<1>c, NextRowTraffic
<1>5. n \in Nat /\ \A h \in SessionRows : \A t \in DOMAIN S[h] : t \in Nat BY TrafficTypesOf DEF TrafficTypes
<1>6. ASSUME lostLocks = 0
  PROVE  /\ OneHolder' /\ SamplesFit(S2, n, C) /\ RowTraffic(s, S2, n, C)
         /\ \A d \in Collectors \ {c} : RowTraffic(reading[d], S2, n, C)
 <2>1. OneHolder /\ SamplesFit(S, n, C) /\ LeftFits(r, S, n, C) BY <1>1,<1>6 DEF TelTraffic, RowTraffic
 <2>2. reading[c].at # "idle" BY <1>1
 <2>3. OneHolder' BY ONLY <1>0,<1>1,<1>3,<2>1,<2>2, c \in Collectors, HolderStays
 <2>4. r.sampledAt = n BY <2>1 DEF LeftFits
 <2>5. \A h \in SessionRows : h # k => S2[h] = S[h] BY <1>0
 <2>6. S2[k] = Recorded(S[k], n, sample) BY <1>0,<2>4
 <2>7. /\ \A t : t \in DOMAIN S2[k] <=> t = n \/ t \in DOMAIN S[k]
       /\ S2[k][n] = sample /\ \A t \in DOMAIN S[k] : t # n => S2[k][t] = S[k][t]
  <3>0. S2[k] = [t \in DOMAIN S[k] \cup {n} |-> IF t = n THEN sample ELSE S[k][t]] BY ONLY <2>6 DEF Recorded
  <3>1. DOMAIN S2[k] = DOMAIN S[k] \cup {n} BY ONLY <3>0
  <3>2. \A t \in DOMAIN S[k] \cup {n} : S2[k][t] = IF t = n THEN sample ELSE S[k][t] BY ONLY <3>0
  <3> QED BY ONLY <3>1,<3>2
 <2>8. /\ sample.client \in Clients /\ Leads(sample, C[sample.client])
       /\ \A t \in DOMAIN S[k] : t < n /\ S[k][t].client = sample.client => Leads(S[k][t], sample)
  <3>1. /\ row.client \in Clients /\ Leads(row, C[row.client])
        /\ \A t \in DOMAIN S[k] : t < n /\ S[k][t].client = row.client => Leads(S[k][t], row) BY <1>4,<2>1 DEF LeftFits
  <3>2. sample.client = row.client /\ sample.bytes = row.bytes /\ sample.transferred = row.transferred BY DEF SampleOf
  <3> QED BY ONLY <3>1,<3>2 DEF Leads
 <2>9. SamplesFit(S2, n, C)
  <3>1. SUFFICES ASSUME NEW h \in SessionRows
    PROVE  /\ \A t \in DOMAIN S2[h] : t <= n /\ S2[h][t].client \in Clients /\ Leads(S2[h][t], C[S2[h][t].client])
           /\ \A u, t \in DOMAIN S2[h] : u < t /\ S2[h][u].client = S2[h][t].client => Leads(S2[h][u], S2[h][t]) BY DEF SamplesFit
  <3>2. /\ \A t \in DOMAIN S[h] : t <= n /\ S[h][t].client \in Clients /\ Leads(S[h][t], C[S[h][t].client])
        /\ \A u, t \in DOMAIN S[h] : u < t /\ S[h][u].client = S[h][t].client => Leads(S[h][u], S[h][t]) BY <2>1 DEF SamplesFit
  <3>3. CASE h # k BY ONLY <2>5,<3>2,<3>3, h \in SessionRows
  <3>4. CASE h = k
   <4>1. ASSUME NEW t \in DOMAIN S2[k] PROVE t <= n /\ S2[k][t].client \in Clients /\ Leads(S2[k][t], C[S2[k][t].client])
    <5>1. CASE t = n
     <6>1. t <= n BY ONLY <1>5,<5>1
     <6>2. S2[k][t] = sample BY ONLY <2>7,<5>1
     <6> QED BY ONLY <2>8,<6>1,<6>2
    <5>2. CASE t # n
     <6>1. t \in DOMAIN S[k] /\ S2[k][t] = S[k][t] BY ONLY <2>7,<4>1,<5>2
     <6> QED BY ONLY <3>2,<3>4,<6>1
    <5> QED BY <5>1,<5>2
   <4>2. ASSUME NEW u \in DOMAIN S2[k], NEW t \in DOMAIN S2[k], u < t, S2[k][u].client = S2[k][t].client
     PROVE Leads(S2[k][u], S2[k][t])
    <5>0. \A x \in DOMAIN S2[k] : x \in Nat BY ONLY <1>5,<2>7, k \in SessionRows
    <5>1. u \in Nat /\ t \in Nat /\ t <= n BY ONLY <5>0,<4>1, u \in DOMAIN S2[k], t \in DOMAIN S2[k]
    <5>2. u # n BY ONLY <1>5,<4>2,<5>1
    <5>3. u \in DOMAIN S[k] /\ S2[k][u] = S[k][u] BY <2>7,<4>2,<5>2
    <5>4. CASE t = n
     <6>1. u < n /\ S2[k][t] = sample BY ONLY <2>7,<4>2,<5>4
     <6> QED BY ONLY <2>8,<4>2,<5>3,<6>1
    <5>5. CASE t # n
     <6>1. t \in DOMAIN S[k] /\ S2[k][t] = S[k][t] BY <2>7,<4>2,<5>5
     <6> QED BY ONLY <3>2,<3>4,<4>2,<5>3,<6>1
    <5> QED BY ONLY <5>4,<5>5
   <4> QED BY <3>4,<4>1,<4>2
  <3> QED BY ONLY <3>3,<3>4
 <2>10. LeftFits(s, S2, n, C)
  <3>1. s.sampledAt = n BY <2>4
  <3>2. ASSUME NEW g \in Range(s.left)
    PROVE  /\ g.client \in Clients /\ Amounts(g) /\ Leads(g, C[g.client])
           /\ \A h \in SessionRows : \A t \in DOMAIN S2[h] : t < n /\ S2[h][t].client = g.client => Leads(S2[h][t], g)
   <4>1. g \in Range(r.left) OBVIOUS
   <4>2. /\ g.client \in Clients /\ Amounts(g) /\ Leads(g, C[g.client])
         /\ \A h \in SessionRows : \A t \in DOMAIN S[h] : t < n /\ S[h][t].client = g.client => Leads(S[h][t], g) BY <2>1,<4>1 DEF LeftFits
   <4>3. ASSUME NEW h \in SessionRows, NEW t \in DOMAIN S2[h], t < n, S2[h][t].client = g.client PROVE Leads(S2[h][t], g)
    <5>1. CASE h # k BY ONLY <2>5,<4>2,<4>3,<5>1
    <5>2. CASE h = k
     <6>1. t # n BY ONLY <1>5,<4>3
     <6>2. t \in DOMAIN S[k] /\ S2[k][t] = S[k][t] BY <2>7,<4>3,<5>2,<6>1
     <6> QED BY ONLY <4>2,<4>3,<5>2,<6>2
    <5> QED BY <5>1,<5>2
   <4> QED BY <4>2,<4>3
  <3> QED BY ONLY <3>1,<3>2 DEF LeftFits
 <2>11. RowTraffic(s, S2, n, C) BY <2>10 DEF RowTraffic
 <2>12. \A d \in Collectors \ {c} : RowTraffic(reading[d], S2, n, C) BY <2>1,<2>2, OthersIdle
 <2> QED BY <2>3,<2>9,<2>11,<2>12
<1>7. lostLocks = 0 =>
           /\ OneHolder' /\ SamplesFit(S2, n, AllCounted) /\ RowTraffic(s, S2, n, AllCounted)
           /\ \A d \in Collectors \ {c} : RowTraffic(reading[d], S2, n, AllCounted) BY ONLY <1>6, C = AllCounted
<1>8. samples' = S2 OBVIOUS
<1> QED BY ONLY TelCounts, c \in Collectors, <1>1,<1>3,<1>7,<1>8, CollectorTraffic

LEMMA OverTraffic ==
  ASSUME TelCounts, TelTraffic, NEW c \in Collectors, UNCHANGED clientsVars, samples' = samples, sampleClock' = sampleClock,
      lostLocks' = lostLocks, reading' = [reading EXCEPT ![c] = NotReading], Unlock(c)
  PROVE TelTraffic'
<1>0. reading \in [Collectors -> ReadingRows] BY TelFacts
<1> PICK s : s = NotReading OBVIOUS
<1>1. s.at = "idle" BY NotReadingIs
<1>2. RowTraffic(s, samples, sampleClock, AllCounted) BY <1>1 DEF RowTraffic
<1>3. ASSUME lostLocks = 0 PROVE OneHolder'
 <2>1. OneHolder BY <1>3 DEF TelTraffic
 <2>2. \A d \in Collectors : reading'[d] = IF d = c THEN s ELSE reading[d]
  <3> HIDE DEF ReadingRows
  <3> QED BY <1>0
 <2> QED BY <1>1,<2>1,<2>2 DEF OneHolder, Unlock
<1>4. UNCHANGED clientsVars /\ samples' = samples /\ sampleClock' = sampleClock /\ lostLocks' = lostLocks /\ reading' = [reading EXCEPT ![c] = s]
  OBVIOUS
<1> QED BY ONLY TelCounts, TelTraffic, c \in Collectors, <1>2,<1>3,<1>4, QuietTraffic

LEMMA CollectionFailsTraffic == ASSUME TelCounts, TelTraffic, NEW c \in Collectors, CollectionFails(c) PROVE TelTraffic'
<1>0. reading[c] \in ReadingRows /\ reading \in [Collectors -> ReadingRows] BY TelFacts
<1> PICK r \in ReadingRows : r = reading[c] BY <1>0
<1> PICK s : s = AtStep(r, "degrade") OBVIOUS
<1>s. "degrade" \in Steps BY DEF Steps
<1>1. /\ UNCHANGED clientsVars /\ samples' = samples /\ sampleClock' = sampleClock /\ lostLocks' = lostLocks
      /\ advisoryLock' = advisoryLock /\ r.at # "idle"
      /\ reading' = [reading EXCEPT ![c].at = "degrade"] BY DEF CollectionFails, recordsVars
<1>2. s.at = "degrade" BY <1>s, ReadingWith
<1>3. reading' = [reading EXCEPT ![c] = s] BY <1>0,<1>1 DEF AtStep
<1>4. ASSUME lostLocks = 0 PROVE OneHolder'
 <2>1. OneHolder BY <1>4 DEF TelTraffic
 <2>2. reading[c].at # "idle" BY <1>1
 <2> QED BY ONLY <1>0,<1>1,<1>3,<2>1,<2>2, c \in Collectors, HolderStays
<1>5. RowTraffic(s, samples, sampleClock, AllCounted) BY <1>2 DEF RowTraffic
<1> QED BY ONLY TelCounts, TelTraffic, c \in Collectors, <1>1,<1>3,<1>4,<1>5, QuietTraffic

LEMMA LockIsLostTraffic == ASSUME TelCounts, NEW c \in Collectors, LockIsLost(c) PROVE TelTraffic'
<1>1. lostLocks \in Nat BY TrafficTypesOf
<1>2. lostLocks' = lostLocks + 1 BY DEF LockIsLost
<1>3. lostLocks' # 0 BY ONLY <1>1,<1>2
<1> QED BY <1>3 DEF TelTraffic

LEMMA TelTrafficKept == ASSUME TelCounts, TelCounts', TelTraffic, TelemetryNext PROVE TelTraffic'
<1>1. \/ \E k \in Clients : Come(k, TRUE) \/ Come(k, FALSE) \/ Leaves(k) \/ Transfer(k)
      \/ \E i \in DOMAIN listed : Roams(i)
      \/ \E c \in Collectors :
           \/ CollectAll(c) \/ ReadPage(c) \/ UpdateActiveUsers(c) \/ StampSamples(c) \/ RecordSample(c) \/ SkipSample(c)
           \/ MarkHealthy(c) \/ CollectionFails(c) \/ MarkDegraded(c) \/ CollectorDies(c) \/ LockIsLost(c) BY DEF TelemetryNext
<1>2. ASSUME NEW c \in Collectors, MarkHealthy(c) PROVE TelTraffic' BY <1>2, OverTraffic DEF MarkHealthy, collectorBounds
<1>3. ASSUME NEW c \in Collectors, MarkDegraded(c) PROVE TelTraffic' BY <1>3, OverTraffic DEF MarkDegraded, collectorBounds
<1>4. ASSUME NEW c \in Collectors, CollectorDies(c) PROVE TelTraffic' BY <1>4, OverTraffic DEF CollectorDies, recordsVars
<1> QED BY <1>1,<1>2,<1>3,<1>4, ComeTraffic, LeaveTraffic, TransferTraffic, RoamsTraffic, CollectAllTraffic, ReadPageTraffic,
  UpdateActiveUsersTraffic, StampSamplesTraffic, RecordSampleTraffic, SkipSampleTraffic, CollectionFailsTraffic, LockIsLostTraffic

LEMMA TelBegins == ASSUME TelemetryInit PROVE TelCounts /\ TelTraffic
<1>1. TelTypes BY TelTypesBegin
<1>2. \A c \in Collectors : reading[c] = NotReading BY DEF TelemetryInit
<1>3. ReadingsFit
 <2> HIDE DEF NotReading
 <2> QED BY <1>2, IdleFits DEF ReadingsFit
<1>4. TelTraffic
 <2>1. NotReading.at = "idle" BY NotReadingIs
 <2>2. OneHolder
  <3> HIDE DEF NotReading
  <3> QED BY <1>2,<2>1 DEF OneHolder
 <2>3. \A c \in Collectors : RowTraffic(reading[c], samples, sampleClock, AllCounted)
  <3> HIDE DEF NotReading
  <3> QED BY <1>2,<2>1 DEF RowTraffic
 <2>4. \A k \in SessionRows : DOMAIN samples[k] = {} BY DEF TelemetryInit
 <2>5. SamplesFit(samples, sampleClock, AllCounted) BY <2>4 DEF SamplesFit
 <2> QED BY <2>2,<2>3,<2>5 DEF TelTraffic
<1> QED BY <1>1,<1>3,<1>4 DEF TelCounts

\* The invariant says of a collection what is promised.
LEMMA TelHolds == ASSUME TelCounts, TelTraffic PROVE TelemetryHolds
<1>0. /\ \A c \in Collectors : reading[c] \in ReadingRows /\ CountFits(reading[c], listed)
      /\ RestTypes BY TelFacts
<1>1. TelemetryTypeOK
 <2>1. \A c \in Collectors : reading[c].at \in Steps BY <1>0, ReadingTypes
 <2> QED BY <1>0,<2>1 DEF TelemetryTypeOK, RestTypes, Steps
<1>2. \A c \in Collectors : ReadToEnd(c) => ReadFits(reading[c]) BY <1>0 DEF ReadToEnd, CountFits, AtEnd
<1>3. \A c : ReadClients(c) = ReadIn(reading[c].got) BY DEF ReadClients, ReadIn
<1>4. MissesOnlyByDepartures /\ CountsTwiceOnlyByArrivals BY <1>2,<1>3 DEF MissesOnlyByDepartures, CountsTwiceOnlyByArrivals, ReadFits
<1>5. OneCollectorAtATime
 <2>1. SUFFICES ASSUME lostLocks = 0 PROVE Cardinality({c \in Collectors : reading[c].at # "idle"}) <= 1 BY DEF OneCollectorAtATime
 <2>2. OneHolder BY <2>1 DEF TelTraffic
 <2> PICK T : T = {c \in Collectors : reading[c].at # "idle"} OBVIOUS
 <2>3. T \subseteq {} \cup {advisoryLock} BY <2>2 DEF OneHolder
 <2>4. IsFiniteSet({}) /\ Cardinality({}) = 0 BY FS_EmptySet
 <2>5. Cardinality(T) <= Cardinality({}) + 1 BY ONLY <2>3,<2>4, OneMore
 <2>6. Cardinality(T) <= 1 BY <2>4,<2>5
 <2> QED BY <2>6
<1>6. ThroughputIsReal
 <2>1. SUFFICES ASSUME lostLocks = 0, NEW k \in SessionRows, NEW s \in DOMAIN samples[k], NEW t \in DOMAIN samples[k],
     Follows(k, s, t), samples[k][s].client = samples[k][t].client
   PROVE Growth(samples[k][s], samples[k][t]) <= samples[k][t].transferred - samples[k][s].transferred BY DEF ThroughputIsReal
 <2>2. s < t BY <2>1 DEF Follows
 <2>3. Leads(samples[k][s], samples[k][t]) BY <2>1,<2>2 DEF TelTraffic, SamplesFit
 <2> PICK a, b : a = samples[k][s] /\ b = samples[k][t] OBVIOUS
 <2>4. Amounts(a) /\ Amounts(b) BY TrafficTypesOf DEF TrafficTypes
 <2> PICK x, y, u, v : x = a.bytes /\ y = b.bytes /\ u = a.transferred /\ v = b.transferred OBVIOUS
 <2>5. x \in Nat /\ y \in Nat /\ u \in Nat /\ v \in Nat /\ u <= v /\ y - v <= x - u BY <2>3,<2>4 DEF Amounts, Leads
 <2>6. (IF y > x THEN y - x ELSE 0) <= v - u BY ONLY <2>5
 <2>7. Growth(a, b) <= b.transferred - a.transferred BY <2>6 DEF Growth
 <2> QED BY <2>7
<1> QED BY <1>1,<1>4,<1>5,<1>6 DEF TelemetryHolds

\* A collection that ends well is whole but for the clients that came, left or roamed
\* meanwhile (collectRouter, and the pages of the vendors' adapters), collections do not
\* overlap while the advisory lock is held, and then no throughput between two samples of
\* one client is more than it transferred (matchSession, samples.record, throughput): for
\* any number of processes, clients, sessions, pages and sites, in every listing.
THEOREM TelemetryIsKept == TelemetrySpec => []TelemetryHolds
<1> DEFINE I == TelCounts /\ TelTraffic
<1>1. TelemetryInit => I BY TelBegins
<1>2. ASSUME I, [TelemetryNext]_telemetryVars PROVE I'
 <2>1. CASE TelemetryNext BY <1>2,<2>1, TelCountsKept, TelTrafficKept
 <2>2. CASE UNCHANGED telemetryVars
  <3>1. /\ clientListing' = clientListing /\ listed' = listed /\ lease' = lease /\ trafficCounter' = trafficCounter
        /\ transferred' = transferred /\ advisoryLock' = advisoryLock /\ reading' = reading /\ routerRow' = routerRow
        /\ samples' = samples /\ sampleClock' = sampleClock /\ lostLocks' = lostLocks
    BY <2>2 DEF telemetryVars, clientsVars, recordsVars, collectorBounds
  <3>2. UNCHANGED <<advisoryLock, recordsVars, collectorBounds>> BY <2>2 DEF telemetryVars
  <3>3. /\ ListOK(listed) /\ reading \in [Collectors -> ReadingRows]
        /\ \A c \in Collectors : CountFits(reading[c], listed) /\ AnyLeft(reading[c])
        /\ lease \in [Clients -> Addresses] /\ trafficCounter \in [Clients -> Nat] /\ transferred \in [Clients -> Nat] BY <1>2, TelFacts
  <3>4. TelCounts' BY <1>2,<3>1,<3>2,<3>3, ClientsStep
  <3>5. TelTraffic'
   <4> PICK f, b, t : f = reading /\ b = trafficCounter /\ t = transferred OBVIOUS
   <4>1. reading' = f /\ trafficCounter' = b /\ transferred' = t BY <3>1
   <4>2. \A c \in Collectors : /\ f[c].at = reading[c].at /\ f[c].got = reading[c].got
                               /\ f[c].left = reading[c].left /\ f[c].sampledAt = reading[c].sampledAt OBVIOUS
   <4>3. \A k \in Clients : transferred[k] <= t[k] /\ b[k] - t[k] <= trafficCounter[k] - transferred[k]
    <5>1. \A k \in Clients : transferred[k] \in Nat /\ trafficCounter[k] \in Nat BY <3>3
    <5> QED BY <5>1
   <4>4. UNCHANGED <<advisoryLock, samples, sampleClock, lostLocks>> BY <3>1
   <4>5. TelCounts /\ TelTraffic BY <1>2
   <4> QED BY ONLY <3>4,<4>1,<4>2,<4>3,<4>4,<4>5, ClientsTraffic
  <3> QED BY <3>4,<3>5
 <2> QED BY <1>2,<2>1,<2>2
<1>3. I => TelemetryHolds BY TelHolds
<1> QED BY <1>1,<1>2,<1>3, PTL DEF TelemetrySpec
====
