---- MODULE Delivery ----
(* What every outbox of the system promises of a row: it is queued once, a worker holds it while it
   tries, gives it back, or ends it; a row that is done has had its effect at least once, and an
   ended row stays ended. *)
EXTENDS Naturals

CONSTANT Rows

VARIABLES
  place,    \* where each row is: none, queued, held, done or dead
  effects   \* how often each row has had its effect

Moves == {<<"none", "queued">>, <<"queued", "held">>, <<"held", "queued">>,
          <<"held", "done">>, <<"held", "dead">>}

DeliveryInit ==
  /\ place = [r \in Rows |-> "none"]
  /\ effects = [r \in Rows |-> 0]

Step(r) ==
  /\ place'[r] = place[r] \/ <<place[r], place'[r]>> \in Moves
  /\ place[r] # "done" /\ place'[r] = "done" => effects[r] > 0
  /\ effects'[r] \in {effects[r], effects[r] + 1}
  /\ effects'[r] # effects[r] => place[r] # "none"

DeliveryNext == \A r \in Rows : Step(r)

DeliverySpec == DeliveryInit /\ [][DeliveryNext]_<<place, effects>>
====
