---- MODULE PurchaseDesk ----
(* The operators' page of purchases (apps/web/app/purchases/page.tsx): one operator at a ledger of
   purchases, of which one is selected and shown with its customer's access binding. Every click is
   a request and, behind it, the ledger is loaded anew; answers come in any order, late, or never. *)
EXTENDS Naturals, Sequences, FiniteSets

CONSTANTS
  Buyers,          \* customers, each with a purchase to be paid at the start
  Linked,          \* those with an access binding
  Absent,          \* nothing shown
  MaxDeskOps,      \* bound on clicks that send a request
  MaxSelections,   \* bound on clicks on a row
  MaxDeskFaults    \* bound on answers that are lost and reads that fail

ASSUME LinkedAssumption == Linked \subseteq Buyers /\ Absent \notin Buyers

VARIABLES
  bought,       \* wifi_plan_purchases, in the order of created_at
  deskVoucher,  \* the one voucher at hand
  access,     \* customer_access_bindings: the state of each linked customer
  ops,          \* the requests of the page, in the order of the clicks
  rows,         \* the ledger shown: what some load read
  selectedId,
  accessBinding, accessEvents,   \* of which customer, and in which state
  details,      \* runs of the effect that resolves the selected purchase
  busy,         \* loading, saving, accessSaving, flowSaving
  lastMade,     \* the purchase made last, until the operator selects another (history)
  crossed,      \* two loads were under way at once (history)
  strayed,      \* the selection changed while an access change was under way (history)
  selections, deskFaults

server == <<bought, deskVoucher, access>>
history == <<lastMade, crossed, strayed>>
deskVars == <<server, ops, rows, selectedId, accessBinding, accessEvents, details, busy, history,
              selections, deskFaults>>

NoBinding == [of |-> Absent, state |-> "NONE"]
BindingOf(c) == IF c \in Linked THEN [of |-> c, state |-> access[c]] ELSE NoBinding
Selected == IF selectedId \in DOMAIN rows THEN rows[selectedId].customer ELSE Absent

\* The page once its first load is in.
DeskInit ==
  /\ \E order \in [1..Cardinality(Buyers) -> Buyers] :
       /\ \A i, j \in DOMAIN order : order[i] = order[j] => i = j
       /\ bought = [i \in DOMAIN order |-> [customer |-> order[i], status |-> "PENDING_PAYMENT"]]
  /\ deskVoucher = "UNUSED" /\ access = [c \in Linked |-> "ACTIVE"]
  /\ ops = << >> /\ busy = {}
  /\ rows = bought /\ selectedId = Len(rows)
  /\ accessBinding = BindingOf(Selected) /\ accessEvents = accessBinding.of /\ details = {}
  /\ lastMade = 0 /\ crossed = FALSE /\ strayed = FALSE
  /\ selections = 0 /\ deskFaults = 0

Fault == deskFaults < MaxDeskFaults /\ deskFaults' = deskFaults + 1

------------------------
(* What is selected, and the effect that follows it. *)

\* Mutant: a run of the effect goes on when its purchase is no longer selected.
CancelNone(ds) == ds
Cancel(ds) == {}

\* A run that is cancelled does nothing when its answers arrive, and is left out.
\* The effect runs when the selected row is another object: after a click, and after
\* every load.  Nothing selected shows nothing; otherwise what was shown stays until
\* the answer is in.
Reselect(id, list) ==
  /\ selectedId' = id /\ rows' = list
  /\ IF id \in DOMAIN list
     THEN /\ details' = Cancel(details) \union
                          {[of |-> list[id].customer, at |-> "asked", got |-> NoBinding]}
          /\ UNCHANGED <<accessBinding, accessEvents>>
     ELSE /\ details' = Cancel(details)
          /\ accessBinding' = NoBinding /\ accessEvents' = Absent

Pending(kinds) == \E i \in DOMAIN ops : ops[i].kind \in kinds /\ ops[i].at \notin {"end", "orphan"}
Strays(id, list) ==
  /\ Pending({"access"})
  /\ Selected # (IF id \in DOMAIN list THEN list[id].customer ELSE Absent)

\* While the ledger loads there is no row to click on.
ListIsShown == "loading" \notin busy
ClickRow(id) ==
  /\ selections < MaxSelections /\ selections' = selections + 1
  /\ ListIsShown /\ id \in DOMAIN rows \ {selectedId}
  /\ Reselect(id, rows)
  /\ strayed' = (strayed \/ Strays(id, rows)) /\ lastMade' = 0
  /\ UNCHANGED <<server, ops, busy, crossed, deskFaults>>

ResolveAccess(d) ==
  /\ d \in details /\ d.at = "asked"
  /\ details' = (details \ {d}) \union {[d EXCEPT !.at = "read", !.got = BindingOf(d.of)]}
  /\ UNCHANGED <<server, ops, rows, selectedId, accessBinding, accessEvents, busy, history, selections, deskFaults>>

\* The events of a binding are a request of their own.
ShowAccess(d) ==
  /\ d \in details /\ d.at = "read"
  /\ accessBinding' = d.got
  /\ IF d.got = NoBinding
     THEN accessEvents' = Absent /\ details' = details \ {d}
     ELSE details' = (details \ {d}) \union {[d EXCEPT !.at = "events"]} /\ UNCHANGED accessEvents
  /\ UNCHANGED <<server, ops, rows, selectedId, busy, history, selections, deskFaults>>

ShowEvents(d) ==
  /\ d \in details /\ d.at = "events"
  /\ details' = details \ {d}
  /\ accessEvents' = d.of
  /\ UNCHANGED <<server, ops, rows, selectedId, accessBinding, busy, history, selections, deskFaults>>

ResolveFails(d) ==
  /\ d \in details /\ Fault
  /\ details' = details \ {d}
  /\ accessBinding' = NoBinding /\ accessEvents' = Absent
  /\ UNCHANGED <<server, ops, rows, selectedId, busy, history, selections>>

------------------------
(* Clicks. *)

Send(kind, who, which, want, at) ==
  /\ Len(ops) < MaxDeskOps
  /\ ops' = Append(ops, [kind |-> kind, who |-> who, which |-> which, want |-> want,
                         view |-> Selected, at |-> at, read |-> << >>])
  /\ UNCHANGED <<server, rows, selectedId, accessBinding, accessEvents, details, lastMade, strayed,
                 selections, deskFaults>>

StartsLoad == crossed' = (crossed \/ \E i \in DOMAIN ops : ops[i].at \in {"load", "loaded"})

\* What the buttons allow.
MayRefresh == busy \intersect {"loading", "saving", "accessSaving"} = {}
MaySell == "flowSaving" \notin busy
MaySettle == Selected # Absent /\ "saving" \notin busy
MayChangeTo(state) ==
  /\ Selected # Absent /\ accessBinding # NoBinding
  /\ accessBinding.state # state /\ "accessSaving" \notin busy

Refresh ==
  /\ MayRefresh
  /\ busy' = busy \union {"loading"} /\ StartsLoad
  /\ Send("refresh", Absent, 0, "", "load")

SellPurchase(c) ==
  /\ MaySell
  /\ busy' = busy \union {"flowSaving"} /\ UNCHANGED crossed
  /\ Send("create", c, 0, "", "sent")

\* The button waits for the answer, the Enter key in the field does not.
RedeemVoucher(c) ==
  /\ busy' = busy \union {"flowSaving"} /\ UNCHANGED crossed
  /\ Send("redeem", c, 0, "", "sent")

Settle(status) ==
  /\ MaySettle
  /\ busy' = busy \union {"saving"} /\ UNCHANGED crossed
  /\ Send("settle", Selected, selectedId, status, "sent")

ChangeAccess(state) ==
  /\ MayChangeTo(state)
  /\ busy' = busy \union {"accessSaving"} /\ UNCHANGED crossed
  /\ Send("access", accessBinding.of, 0, state, "sent")

------------------------
(* Requests. *)

Flag(kind) == CASE kind = "settle" -> "saving"
                [] kind = "access" -> "accessSaving"
                [] kind \in {"create", "redeem"} -> "flowSaving"
                [] OTHER -> "loading"

Insert(c, status) == bought' = Append(bought, [customer |-> c, status |-> status])

\* The API does what it is asked, or refuses; of a request the page gave up, too.
Execute(i) ==
  LET op == ops[i]  after == IF op.at = "sent" THEN "done" ELSE "end" IN
  /\ op.at \in {"sent", "orphan"}
  /\ \/ /\ op.kind = "create" /\ Insert(op.who, "PENDING_PAYMENT")
        /\ ops' = [ops EXCEPT ![i].at = after, ![i].which = Len(bought) + 1]
        /\ UNCHANGED <<deskVoucher, access>>
     \/ /\ op.kind = "redeem" /\ deskVoucher = "UNUSED" /\ deskVoucher' = "USED" /\ Insert(op.who, "ACTIVE")
        /\ ops' = [ops EXCEPT ![i].at = after, ![i].which = Len(bought) + 1]
        /\ UNCHANGED access
     \/ /\ op.kind = "settle" /\ bought[op.which].status = "PENDING_PAYMENT"
        /\ bought' = [bought EXCEPT ![op.which].status = IF op.want = "SUCCESS" THEN "PAID" ELSE "CANCELED"]
        /\ ops' = [ops EXCEPT ![i].at = after] /\ UNCHANGED <<deskVoucher, access>>
     \/ /\ op.kind = "settle" /\ bought[op.which].status \in {"PAID", "ACTIVE"}
        /\ ops' = [ops EXCEPT ![i].at = after] /\ UNCHANGED server
     \/ /\ op.kind = "access" /\ access' = [access EXCEPT ![op.who] = op.want]
        /\ ops' = [ops EXCEPT ![i].at = after] /\ UNCHANGED <<bought, deskVoucher>>
     \/ /\ \/ op.kind = "redeem" /\ deskVoucher = "USED"
           \/ op.kind = "settle" /\ bought[op.which].status = "CANCELED"
        /\ ops' = [ops EXCEPT ![i].at = IF op.at = "sent" THEN "refused" ELSE "end"] /\ UNCHANGED server
  /\ UNCHANGED <<rows, selectedId, accessBinding, accessEvents, details, busy, history, selections, deskFaults>>

\* The answer is in, and the page loads the ledger again.  A new purchase is selected
\* at once, though no list has it yet.
AnswerArrives(i) ==
  LET op == ops[i] IN
  /\ op.at = "done" /\ StartsLoad
  /\ ops' = [ops EXCEPT ![i].at = "load"] /\ busy' = busy \union {"loading"}
  /\ IF op.kind \in {"create", "redeem"}
     THEN /\ Reselect(op.which, rows) /\ lastMade' = op.which
          /\ strayed' = (strayed \/ Strays(op.which, rows))
     ELSE UNCHANGED <<rows, selectedId, accessBinding, accessEvents, details, lastMade, strayed>>
  /\ UNCHANGED <<server, selections, deskFaults>>

\* Refused, or no answer within fifteen seconds: the error is shown, and nothing is loaded.
\* What was given up may still be carried out.
AnswerFails(i) ==
  LET op == ops[i] IN
  /\ \/ op.at = "refused" /\ UNCHANGED deskFaults
     \/ op.at \in {"sent", "done"} /\ Fault
  /\ ops' = [ops EXCEPT ![i].at = IF op.at = "sent" THEN "orphan" ELSE "end"]
  /\ busy' = busy \ {Flag(op.kind)}
  /\ UNCHANGED <<server, rows, selectedId, accessBinding, accessEvents, details, history, selections>>

ReadLedger(i) ==
  /\ ops[i].at = "load"
  /\ \/ ops' = [ops EXCEPT ![i].at = "loaded", ![i].read = bought] /\ UNCHANGED deskFaults
     \/ ops' = [ops EXCEPT ![i].at = "loaded"] /\ Fault
  /\ UNCHANGED <<server, rows, selectedId, accessBinding, accessEvents, details, busy, history, selections>>

\* All five requests of a load are in.  The selected row stays selected if the new list
\* has it, and the newest one takes its place if not.
Kept(list) == IF selectedId \in DOMAIN list THEN selectedId ELSE Len(list)
ApplyLoad(i) ==
  LET op == ops[i] IN
  /\ op.at = "loaded"
  /\ IF op.read = << >>
     THEN UNCHANGED <<rows, selectedId, accessBinding, accessEvents, details, strayed>>
     ELSE Reselect(Kept(op.read), op.read) /\ strayed' = (strayed \/ Strays(Kept(op.read), op.read))
  /\ ops' = [ops EXCEPT ![i].at = IF op.kind = "access" THEN "refresh" ELSE "end", ![i].read = << >>]
  /\ busy' = busy \ ({"loading"} \union IF op.kind = "access" THEN {} ELSE {Flag(op.kind)})
  /\ UNCHANGED <<server, lastMade, crossed, selections, deskFaults>>

\* The binding of the customer who was selected when the change was asked for.
RefreshBinding(i) ==
  /\ ops[i].at = "refresh"
  /\ \/ accessBinding' = BindingOf(ops[i].view) /\ UNCHANGED deskFaults
     \/ Fault /\ UNCHANGED accessBinding
  /\ ops' = [ops EXCEPT ![i].at = "end"] /\ busy' = busy \ {"accessSaving"}
  /\ UNCHANGED <<server, rows, selectedId, accessEvents, details, history, selections>>

DeskAnswer ==
  \/ \E d \in details : ResolveAccess(d) \/ ShowAccess(d) \/ ShowEvents(d) \/ ResolveFails(d)
  \/ \E i \in DOMAIN ops : \/ Execute(i) \/ AnswerArrives(i) \/ AnswerFails(i)
                           \/ ReadLedger(i) \/ ApplyLoad(i) \/ RefreshBinding(i)
DeskBrowse == Refresh \/ \E id \in DOMAIN rows : ClickRow(id)
DeskSell ==
  \/ \E c \in Buyers : SellPurchase(c) \/ RedeemVoucher(c)
  \/ \E status \in {"SUCCESS", "FAILED"} : Settle(status)
DeskAccess == \E state \in {"ACTIVE", "SUSPENDED"} : ChangeAccess(state)

DeskNext == DeskAnswer \/ DeskBrowse \/ DeskSell \/ DeskAccess

DeskSpec == DeskInit /\ [][DeskNext]_deskVars

------------------------
(* Properties. *)

\* Every row the page shows is one that the server had, in its place.
DeskTypeOK ==
  /\ busy \subseteq {"loading", "saving", "accessSaving", "flowSaving"}
  /\ Len(rows) <= Len(bought) /\ \A i \in DOMAIN rows : rows[i].customer = bought[i].customer
  /\ accessBinding.of \in Linked \union {Absent}

AtRest == details = {} /\ \A i \in DOMAIN ops : ops[i].at = "end"

\* When nothing is under way, the binding under the operator's hand is of the customer
\* whose purchase is selected, so that Suspend and Resume reach that customer: unless the
\* selection changed while an access change was under way.
BindingIsOfSelected ==
  AtRest /\ ~strayed => accessBinding.of \in {Selected, Absent} /\ accessEvents \in {Selected, Absent}

\* When nothing is under way the ledger shows what the server has, whatever was made,
\* redeemed, settled and refused: only loads that crossed, a lost answer or a failed
\* read leave it behind.
LedgerIsCurrent == AtRest /\ ~crossed /\ deskFaults = 0 => rows = bought

\* The purchase just made is the one selected, until the operator selects another.
MadeIsSelected == AtRest /\ ~crossed /\ deskFaults = 0 /\ lastMade # 0 => selectedId = lastMade

\* A busy flag is up only while a request of its kind is under way.
FlagsFall == \A f \in busy : \E i \in DOMAIN ops :
  /\ ops[i].at \notin {"end", "orphan"}
  /\ f = Flag(ops[i].kind) \/ f = "loading"

PurchaseDeskHolds == DeskTypeOK /\ BindingIsOfSelected /\ LedgerIsCurrent /\ MadeIsSelected /\ FlagsFall
====
