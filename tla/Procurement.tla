---- MODULE Procurement ----
(* Purchase orders, the stock they are received into, the supplier invoices and payments behind
   them, and the credit notes of one customer invoice. Every operation is one transaction under the
   row locks it takes, but for createCreditNote, which checks first and inserts later. One
   supplier, one currency, no tax. *)
EXTENDS Integers, FiniteSets, Functions

CONSTANTS
  Orders, Lines, Items,
  StockKeys,    \* idempotency keys of stock movements and receipts
  Bills,        \* supplier invoices
  BillKeys,     \* idempotency keys of their payments
  Notes,        \* credit notes
  CreditKeys,   \* collections of the customer's invoice
  NoOrder,
  Quantities, Costs, Amounts,  \* bounds: what a caller may ask for
  InvoiceTotal  \* of the customer's invoice

ASSUME ProcurementAssumption ==
  /\ IsFiniteSet(Lines) /\ IsFiniteSet(StockKeys) /\ IsFiniteSet(Bills) /\ IsFiniteSet(BillKeys)
  /\ IsFiniteSet(Notes) /\ IsFiniteSet(CreditKeys)
  /\ Quantities \subseteq Nat \ {0} /\ Costs \subseteq Nat /\ Amounts \subseteq Nat \ {0} /\ InvoiceTotal \in Nat
  /\ NoOrder \notin Orders \cup Lines

VARIABLES
  order,    \* purchase_orders
  line,     \* purchase_order_lines
  stock,    \* inventory_items: quantity on hand, average unit cost
  movement, \* inventory_stock_movements, by idempotency key
  bill,     \* supplier_invoices
  billPayment, \* supplier_invoice_payments, by idempotency key
  payable,  \* balance of the ledger account ACCOUNTS_PAYABLE
  note,     \* customer_credit_notes
  checked,  \* createCreditNote between its check and its INSERT
  collected \* invoices.amount_paid of the customer's invoice, by collection

orderVars == <<order, line>>
stockVars == <<stock, movement>>
billVars == <<bill, billPayment, payable>>
creditVars == <<note, checked, collected>>
procVars == <<order, line, stock, movement, bill, billPayment, payable, note, checked, collected>>

Absent == [status |-> "none"]
NoMovement == [type |-> "none"]
Types == {"RECEIPT", "ISSUE", "RETURN", "ADJUSTMENT"}
LinesOf(o) == {l \in Lines : line[l] # Absent /\ line[l].order = o}
Total(o) == SumFunction([l \in LinesOf(o) |-> line[l].ordered * line[l].cost])
Moved == {k \in StockKeys : movement[k] # NoMovement}

OrderRows == [status : {"DRAFT", "PENDING_APPROVAL", "APPROVED", "PARTIALLY_RECEIVED", "RECEIVED"}, total : Nat]
LineRows == [status : {"line"}, order : Orders, item : Items, ordered : Quantities, received : Nat, cost : Costs]
MovementRows == [type : Types, item : Items, delta : Int, cost : Nat, ref : Orders \cup {NoOrder}, line : Lines \cup {NoOrder}]
BillRows == [status : {"RECEIVED", "PARTIALLY_PAID", "PAID"}, order : Orders \cup {NoOrder}, total : Amounts, paid : Nat]
PaymentRows == [status : {"paid"}, bill : Bills, amount : Amounts]
NoteRows == [status : {"DRAFT", "ISSUED", "APPLIED"}, amount : Amounts]

ProcTypeOK ==
  /\ order \in [Orders -> {Absent} \cup OrderRows] /\ line \in [Lines -> {Absent} \cup LineRows]
  /\ stock \in [Items -> [qty : Nat, avg : Nat]] /\ movement \in [StockKeys -> {NoMovement} \cup MovementRows]
  /\ bill \in [Bills -> {Absent} \cup BillRows] /\ billPayment \in [BillKeys -> {Absent} \cup PaymentRows]
  /\ payable \in Int
  /\ note \in [Notes -> {Absent} \cup NoteRows]
  /\ checked \in [Notes -> {0} \cup Amounts] /\ collected \in [CreditKeys -> {0} \cup Amounts]

ProcInit ==
  /\ order = [o \in Orders |-> Absent] /\ line = [l \in Lines |-> Absent]
  /\ stock = [i \in Items |-> [qty |-> 0, avg |-> 0]] /\ movement = [k \in StockKeys |-> NoMovement]
  /\ bill = [b \in Bills |-> Absent] /\ billPayment = [k \in BillKeys |-> Absent] /\ payable = 0
  /\ note = [n \in Notes |-> Absent] /\ checked = [n \in Notes |-> 0] /\ collected = [k \in CreditKeys |-> 0]

------------------------
(* Orders. *)

CreatePurchaseOrder(o) ==
  /\ order[o] = Absent /\ order' = [order EXCEPT ![o] = [status |-> "DRAFT", total |-> 0]]
  /\ UNCHANGED <<line, stockVars, billVars, creditVars>>

(* The total is computed again from the lines in the same transaction. *)
AddPurchaseOrderLine(o, l, i, q, c) ==
  /\ order[o] # Absent /\ order[o].status = "DRAFT" /\ line[l] = Absent
  /\ line' = [line EXCEPT ![l] = [status |-> "line", order |-> o, item |-> i, ordered |-> q, received |-> 0, cost |-> c]]
  /\ order' = [order EXCEPT ![o].total = Total(o) + q * c]
  /\ UNCHANGED <<stockVars, billVars, creditVars>>

RequestPurchaseOrderApproval(o) ==
  /\ order[o] # Absent /\ order[o].status = "DRAFT" /\ order[o].total > 0
  /\ order' = [order EXCEPT ![o].status = "PENDING_APPROVAL"]
  /\ UNCHANGED <<line, stockVars, billVars, creditVars>>

ApprovePurchaseOrder(o) ==
  /\ order[o] # Absent /\ order[o].status = "PENDING_APPROVAL"
  /\ order' = [order EXCEPT ![o].status = "APPROVED"]
  /\ UNCHANGED <<line, stockVars, billVars, creditVars>>

------------------------
(* Stock. A key that has been used is answered with the movement it made, or refused; the
   constraint decides between two requests that look together. *)

(* The average is stored in whole units of the column: rounded to the nearest. *)
Averaged(item, delta, cost) ==
  LET after == item.qty + delta IN
    IF after = 0 THEN cost ELSE (2 * (item.qty * item.avg + delta * cost) + after) \div (2 * after)

PostStockMovement(k, i, type, delta, supplied) ==
  LET item == stock[i]
      cost == IF delta < 0 \/ type = "ADJUSTMENT" THEN item.avg ELSE supplied
      avg == IF delta > 0 /\ type # "ADJUSTMENT" THEN Averaged(item, delta, cost) ELSE item.avg IN
    /\ type \in {"RECEIPT", "RETURN"} => delta > 0
    /\ type = "ISSUE" => delta < 0
    /\ k \notin Moved /\ item.qty + delta >= 0
    /\ movement' = [movement EXCEPT ![k] = [type |-> type, item |-> i, delta |-> delta, cost |-> cost, ref |-> NoOrder, line |-> NoOrder]]
    /\ stock' = [stock EXCEPT ![i] = [qty |-> item.qty + delta, avg |-> avg]]
    /\ UNCHANGED <<orderVars, billVars, creditVars>>

\* Mutant: one full line completes the order.
CompleteByOne(o, received) == \E l \in LinesOf(o) : received[l] >= line[l].ordered
Complete(o, received) == \A l \in LinesOf(o) : received[l] >= line[l].ordered

ReceivePurchaseOrderLine(o, l, q, k) ==
  /\ k \notin Moved /\ order[o] # Absent /\ order[o].status \in {"APPROVED", "PARTIALLY_RECEIVED"}
  /\ l \in LinesOf(o) /\ q <= line[l].ordered - line[l].received
  /\ LET i == line[l].item  received == [m \in LinesOf(o) |-> line[m].received + (IF m = l THEN q ELSE 0)] IN
       /\ movement' = [movement EXCEPT ![k] =
            [type |-> "RECEIPT", item |-> i, delta |-> q, cost |-> line[l].cost, ref |-> o, line |-> l]]
       /\ stock' = [stock EXCEPT ![i] = [qty |-> @.qty + q, avg |-> Averaged(@, q, line[l].cost)]]
       /\ line' = [line EXCEPT ![l].received = received[l]]
       /\ order' = [order EXCEPT ![o].status = IF Complete(o, received) THEN "RECEIVED" ELSE "PARTIALLY_RECEIVED"]
  /\ UNCHANGED <<billVars, creditVars>>

------------------------
(* What the supplier is owed. *)

MayBill(o, total) ==
  o # NoOrder => /\ order[o] # Absent /\ order[o].status \in {"APPROVED", "PARTIALLY_RECEIVED", "RECEIVED"}
                 /\ total <= order[o].total

CreateSupplierInvoice(b, o, total) ==
  /\ bill[b] = Absent /\ MayBill(o, total)
  /\ bill' = [bill EXCEPT ![b] = [status |-> "RECEIVED", order |-> o, total |-> total, paid |-> 0]]
  /\ payable' = payable + total
  /\ UNCHANGED <<billPayment, orderVars, stockVars, creditVars>>

RecordSupplierInvoicePayment(k, b, amount) ==
  /\ billPayment[k] = Absent /\ bill[b] # Absent /\ amount <= bill[b].total - bill[b].paid
  /\ billPayment' = [billPayment EXCEPT ![k] = [status |-> "paid", bill |-> b, amount |-> amount]]
  /\ LET paid == bill[b].paid + amount IN
       bill' = [bill EXCEPT ![b] = [@ EXCEPT !.paid = paid, !.status = IF paid >= bill[b].total THEN "PAID" ELSE "PARTIALLY_PAID"]]
  /\ payable' = payable - amount
  /\ UNCHANGED <<orderVars, stockVars, creditVars>>

Unpaid == {b \in Bills : bill[b] # Absent /\ bill[b].status # "PAID"}
ApAging == SumFunction([b \in Unpaid |-> bill[b].total - bill[b].paid])

------------------------
(* Credit notes. *)

Issued(but) == {n \in Notes \ but : note[n].status \in {"ISSUED", "APPLIED"}}
Reserved(but) == SumFunction([n \in Issued(but) |-> note[n].amount])
Collected == SumFunction(collected)
Fits(amount, but) == amount <= InvoiceTotal - Collected - Reserved(but)

CheckCreditNote(n, amount) ==
  /\ note[n] = Absent /\ checked[n] = 0 /\ Fits(amount, {}) /\ checked' = [checked EXCEPT ![n] = amount]
  /\ UNCHANGED <<note, collected, orderVars, stockVars, billVars>>

CreateCreditNote(n) ==
  /\ checked[n] # 0 /\ checked' = [checked EXCEPT ![n] = 0]
  /\ note' = [note EXCEPT ![n] = [status |-> "DRAFT", amount |-> checked[n]]]
  /\ UNCHANGED <<collected, orderVars, stockVars, billVars>>

TransitionCreditNote(n) ==
  /\ \/ note[n].status = "DRAFT" /\ Fits(note[n].amount, {n}) /\ note' = [note EXCEPT ![n].status = "ISSUED"]
     \/ note[n].status = "ISSUED" /\ note' = [note EXCEPT ![n].status = "APPLIED"]
  /\ UNCHANGED <<checked, collected, orderVars, stockVars, billVars>>

(* The customer pays: the collection knows the total and what is paid, not the credit notes. *)
CollectInvoice(k, amount) ==
  /\ collected[k] = 0 /\ amount <= InvoiceTotal - Collected /\ collected' = [collected EXCEPT ![k] = amount]
  /\ UNCHANGED <<note, checked, orderVars, stockVars, billVars>>

------------------------

StockNext ==
  \/ \E o \in Orders : CreatePurchaseOrder(o) \/ RequestPurchaseOrderApproval(o) \/ ApprovePurchaseOrder(o)
  \/ \E o \in Orders, l \in Lines, i \in Items, q \in Quantities, c \in Costs : AddPurchaseOrderLine(o, l, i, q, c)
  \/ \E o \in Orders, l \in Lines, q \in Quantities, k \in StockKeys : ReceivePurchaseOrderLine(o, l, q, k)
  \/ \E k \in StockKeys, i \in Items, type \in Types, q \in Quantities, sign \in {1, -1}, c \in Costs :
       PostStockMovement(k, i, type, sign * q, c)

BillNext ==
  \/ \E b \in Bills, o \in Orders \cup {NoOrder}, total \in Amounts : CreateSupplierInvoice(b, o, total)
  \/ \E k \in BillKeys, b \in Bills, amount \in Amounts : RecordSupplierInvoicePayment(k, b, amount)

CreditNext ==
  \/ \E n \in Notes : CreateCreditNote(n) \/ TransitionCreditNote(n) \/ \E amount \in Amounts : CheckCreditNote(n, amount)
  \/ \E k \in CreditKeys, amount \in Amounts : CollectInvoice(k, amount)

ProcNext == StockNext \/ BillNext \/ CreditNext
ProcSpec == ProcInit /\ [][ProcNext]_procVars

------------------------
(* Commissions of resellers on the payments of settled purchases. Accrual reads and then inserts;
   the rest are single guarded updates. *)
CONSTANTS Resellers, Sales, Accruals

VARIABLES
  reseller,    \* resellers.status
  sale,        \* the status of the purchase behind each payment
  commission,  \* commissions by payment and reseller
  accruing,    \* accrueCommission between its SELECT and its INSERT
  payouts      \* ghost: how often each commission was settled

comVars == <<reseller, sale, commission, accruing, payouts>>
Pairs == Sales \X Resellers

CommissionInit ==
  /\ reseller = [r \in Resellers |-> "ACTIVE"] /\ sale = [s \in Sales |-> "PENDING"]
  /\ commission = [p \in Pairs |-> "none"] /\ accruing = [c \in Accruals |-> {}] /\ payouts = [p \in Pairs |-> 0]

UpdateResellerStatus(r, status) ==
  reseller' = [reseller EXCEPT ![r] = status] /\ UNCHANGED <<sale, commission, accruing, payouts>>

(* The purchase is paid or canceled, as PurchaseSettlement has it. *)
SaleMoves(s, status) ==
  sale[s] = "PENDING" /\ sale' = [sale EXCEPT ![s] = status] /\ UNCHANGED <<reseller, commission, accruing, payouts>>

AskCommission(c, p) ==
  /\ accruing[c] = {} /\ reseller[p[2]] = "ACTIVE" /\ sale[p[1]] = "PAID"
  /\ accruing' = [accruing EXCEPT ![c] = {p}] /\ UNCHANGED <<reseller, sale, commission, payouts>>

(* ON CONFLICT touches updated_at only. *)
AccrueCommission(c) ==
  /\ accruing[c] # {} /\ accruing' = [accruing EXCEPT ![c] = {}]
  /\ commission' = [p \in Pairs |-> IF p \in accruing[c] /\ commission[p] = "none" THEN "ACCRUED" ELSE commission[p]]
  /\ UNCHANGED <<reseller, sale, payouts>>

ApproveCommission(p) ==
  /\ commission[p] = "ACCRUED" /\ commission' = [commission EXCEPT ![p] = "APPROVED"]
  /\ UNCHANGED <<reseller, sale, accruing, payouts>>

MarkCommissionPaid(p) ==
  /\ commission[p] = "APPROVED" /\ commission' = [commission EXCEPT ![p] = "PAID"]
  /\ payouts' = [payouts EXCEPT ![p] = @ + 1] /\ UNCHANGED <<reseller, sale, accruing>>

CommissionNext ==
  \/ \E r \in Resellers, status \in {"ACTIVE", "SUSPENDED", "CLOSED"} : UpdateResellerStatus(r, status)
  \/ \E s \in Sales, status \in {"PAID", "CANCELED"} : SaleMoves(s, status)
  \/ \E c \in Accruals : AccrueCommission(c) \/ \E p \in Pairs : AskCommission(c, p)
  \/ \E p \in Pairs : ApproveCommission(p) \/ MarkCommissionPaid(p)

(* However often an accrual is repeated, and wherever in the life of the commission that happens, a
   payment earns a reseller one settlement, and none for a purchase that was not paid. *)
CommissionPaidOnce ==
  \A p \in Pairs : /\ payouts[p] = IF commission[p] = "PAID" THEN 1 ELSE 0
                   /\ commission[p] # "none" => sale[p[1]] = "PAID"

------------------------
(* Properties. *)

(* What is on hand is what the movements say, through every mixture of receipts, issues, returns and
   adjustments of the two services that write them; and so is what it is worth at its average cost,
   but for half a unit for each piece each time an average was rounded. *)
MovedOf(i) == {k \in Moved : movement[k].item = i}
QuantityOf(i) == SumFunction([k \in MovedOf(i) |-> movement[k].delta])
ValueOf(i) == SumFunction([k \in MovedOf(i) |-> movement[k].delta * movement[k].cost])
CameIn(i) == SumFunction([k \in MovedOf(i) |-> IF movement[k].delta > 0 THEN movement[k].delta ELSE 0])
Averagings(i) == Cardinality({k \in MovedOf(i) : movement[k].type # "ADJUSTMENT" /\ movement[k].delta > 0})

StockIsItsMovements ==
  \A i \in Items :
    /\ stock[i].qty = QuantityOf(i)
    /\ 2 * (stock[i].qty * stock[i].avg - ValueOf(i)) \in -(Averagings(i) * CameIn(i)) .. Averagings(i) * CameIn(i)

(* What each line has received came into stock by receipts of its order, and is never more than was
   ordered; the order is RECEIVED just when nothing is missing. *)
ReceivedCameIn ==
  /\ \A l \in Lines : line[l] # Absent =>
       line[l].received = SumFunction([k \in {k \in Moved : movement[k].line = l} |-> movement[k].delta])
  /\ \A o \in Orders : order[o] # Absent /\ order[o].status \in {"APPROVED", "PARTIALLY_RECEIVED", "RECEIVED"} =>
       (order[o].status = "RECEIVED") = (\A l \in LinesOf(o) : line[l].received = line[l].ordered)

(* What was submitted is what is approved, received and invoiced: no line comes in or changes once
   the order has left the draft. *)
SubmittedStays ==
  [][\A o \in Orders : order[o] # Absent /\ order[o].status # "DRAFT" =>
       /\ order'[o].total = order[o].total /\ order'[o].total = Total(o)'
       /\ LinesOf(o)' = LinesOf(o)]_procVars

(* The ledger, the invoices and their payments tell the same debt, and the aging report adds up to
   it. *)
PaymentsOf(b) == {k \in BillKeys : billPayment[k] # Absent /\ billPayment[k].bill = b}
PayablesAgree ==
  /\ payable = ApAging
  /\ \A b \in Bills : bill[b] # Absent =>
       /\ bill[b].paid = SumFunction([k \in PaymentsOf(b) |-> billPayment[k].amount])
       /\ bill[b].paid <= bill[b].total

(* Nobody is credited what was paid or credited already, whatever was true when the note was
   drafted. *)
CreditFitsBalance == [][Reserved({})' > Reserved({}) => Reserved({})' + Collected' <= InvoiceTotal]_procVars
====
