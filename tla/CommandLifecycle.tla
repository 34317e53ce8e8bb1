---- MODULE CommandLifecycle ----
(* What the command fabric promises of every command, as docs/PRODUCT-STRATEGY-AND-ROADMAP.md puts
   it: submitted, acknowledged by the device and verified are separate states. A command is
   acknowledged only after the device carried it out, a verified command stays verified, a failed
   one is reopened by an explicit retry alone, and every submitted command is settled in the end. *)
CONSTANT Commands
VARIABLES phase, carried

Init ==
  /\ phase = [c \in Commands |-> "none"]
  /\ carried = {}

\* Several commands may be submitted, acknowledged or failed in one transaction.
Shift(C, from, to) ==
  /\ \A c \in C : phase[c] = from
  /\ phase' = [c \in Commands |-> IF c \in C THEN to ELSE phase[c]]
  /\ UNCHANGED carried

Submit      == \E C \in SUBSET Commands : Shift(C, "none", "submitted")
CarryOut    == \E c \in Commands : /\ phase[c] # "none"
                                   /\ carried' = carried \cup {c}
                                   /\ UNCHANGED phase
Acknowledge == \E C \in SUBSET carried : Shift(C, "submitted", "acknowledged")
Verify      == \E C \in SUBSET Commands : Shift(C, "acknowledged", "verified")
Fail        == \E C \in SUBSET Commands : \/ Shift(C, "submitted", "failed")
                                          \/ Shift(C, "acknowledged", "failed")
Reopen      == \E C \in SUBSET Commands : Shift(C, "failed", "submitted")

Next == Submit \/ CarryOut \/ Acknowledge \/ Verify \/ Fail \/ Reopen

vars == <<phase, carried>>
Safety == Init /\ [][Next]_vars

Settles == \A c \in Commands :
  phase[c] \in {"submitted", "acknowledged"} ~> phase[c] \in {"verified", "failed"}

Spec == Safety /\ Settles
====
