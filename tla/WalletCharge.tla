---- MODULE WalletCharge ----
(* What the renewal design promises of the customer's money: an execution takes the price out of the
   wallet at most once, and what it took ends in exactly one of two ways, a settled purchase or a
   refund. *)
CONSTANT Executions

VARIABLE charge

Init == charge = [e \in Executions |-> "none"]

Move(e, from, to) ==
  /\ charge[e] = from
  /\ charge' = [charge EXCEPT ![e] = to]

Debit(e)  == Move(e, "none", "debited")
Settle(e) == Move(e, "debited", "settled")
Refund(e) == Move(e, "debited", "refunded")

Next == \E e \in Executions : Debit(e) \/ Settle(e) \/ Refund(e)

Spec == Init /\ [][Next]_charge
             /\ \A e \in Executions : WF_charge(Settle(e) \/ Refund(e))
====
