---- MODULE PurchaseLifecycle ----
(* What purchases promise, in the words of docs/PRODUCT-STRATEGY-AND-ROADMAP.md: no access from a
   pending or failed payment, and no duplicate settlement or access grant from duplicate calls and
   retries. An order is placed, then settled once, by one payment that brings the access with it,
   or canceled; a voucher settles an order of its own without a payment. *)
CONSTANTS Orders, Payments
VARIABLES state,     \* of each order
          receipts,  \* the successful payments of each order
          access     \* the orders that gave access to the network

vars == <<state, receipts, access>>

Init ==
  /\ state = [o \in Orders |-> "none"]
  /\ receipts = [o \in Orders |-> {}]
  /\ access = {}

Move(o, from, to) == state[o] = from /\ state' = [state EXCEPT ![o] = to]

Place(o) == Move(o, "none", "placed") /\ UNCHANGED <<receipts, access>>

Settle(o, y) ==
  /\ Move(o, "placed", "settled")
  /\ receipts[o] = {}
  /\ \A p \in Orders : y \notin receipts[p]
  /\ receipts' = [receipts EXCEPT ![o] = {y}]
  /\ access' = access \cup {o}

Cancel(o) == Move(o, "placed", "canceled") /\ UNCHANGED <<receipts, access>>

Redeem(o) ==
  /\ Move(o, "none", "settled")
  /\ access' = access \cup {o}
  /\ UNCHANGED receipts

Next == \E o \in Orders : \/ Place(o)
                          \/ \E y \in Payments : Settle(o, y)
                          \/ Cancel(o)
                          \/ Redeem(o)

Spec == Init /\ [][Next]_vars
====
