---- MODULE MCOutboxes ----
(* The three outboxes and the scheduler share no state: one of them is awake in each behaviour, and
   the others stay as they began. The intake of payment webhooks fills the outbox of events; it is
   run without the drain, which does not care who enqueued a row. *)
EXTENDS SmsOutbox, WebhookDelivery, DomainEvents, ScheduledMessages

VARIABLE turn

vars == <<turn, smsVars, hookVars, eventVars, payVars, schedVars>>

Roles == [u \in Users |-> CASE u = "olga" -> "OWNER" [] u = "neema" -> "ADMIN" [] OTHER -> "AGENT"]

Init ==
  /\ turn \in {"sms", "hooks", "events", "intake", "scheduler"}
  /\ SmsInit /\ WebhookInit /\ EventInit /\ PaymentInit /\ SchedInit
  /\ turn # "sms" => consent = {} /\ provider = TRUE
  /\ turn # "hooks" => \A e \in Endpoints : endpoint[e].enabled

Next ==
  \/ turn = "sms" /\ SmsNext /\ UNCHANGED <<turn, hookVars, eventVars, payVars, schedVars>>
  \/ turn = "hooks" /\ WebhookNext /\ UNCHANGED <<turn, smsVars, eventVars, payVars, schedVars>>
  \/ turn = "events" /\ EventNext /\ UNCHANGED <<turn, smsVars, hookVars, payVars, schedVars>>
  \/ turn = "intake" /\ PaymentNext /\ UNCHANGED <<turn, smsVars, hookVars, schedVars>>
  \/ turn = "scheduler" /\ SchedNext /\ UNCHANGED <<turn, smsVars, hookVars, eventVars, payVars>>

(* The fairness of each module, for the one that is awake. *)
Fairness ==
  /\ \A w \in Senders : /\ WF_smsVars(turn = "sms" /\ ClaimSms(w))
                        /\ WF_smsVars(turn = "sms" /\ SenderStep(w))
  /\ \A w \in Couriers : /\ WF_hookVars(turn = "hooks" /\ ClaimHooks(w))
                         /\ WF_hookVars(turn = "hooks" /\ CourierStep(w))
  /\ \A p \in Processes : /\ WF_eventVars(turn = "events" /\ ClaimEvents(p))
                          /\ WF_eventVars(turn = "events" /\ DrainStep(p))
  /\ WF_eventVars(turn = "events" /\ RecoverStale)
  /\ \A p \in Runners : WF_schedVars(turn = "scheduler" /\ RunnerStep(p))

Spec == Init /\ [][Next]_vars /\ Fairness

\* Whatever a worker, a recovery or an operator does, the rows of the four tables and
\* the locals of their workers keep their types.
OutboxesTypeOK == SmsTypeOK /\ WebhookTypeOK /\ EventTypeOK /\ PaymentTypeOK /\ SchedTypeOK

\* Each of the three outboxes implements Delivery: a row has its effect before it is
\* recorded as delivered, is recorded once, and gives up only after its attempts.
OutboxesDeliver == SmsDelivers /\ HooksDeliver /\ EventsDeliver

\* With the timers running and finitely many faults, every row of the outboxes and of
\* the scheduler ends as delivered, given up or canceled, or is a row that the code
\* is known to leave behind.  The drain sleeps while the intake is awake.
OutboxesSettle ==
  SmsSettles /\ HooksSettle /\ (EventsSettle \/ turn = "intake") /\ ScheduledSettles /\ EventsEnd

\* Nothing is stranded or lost by the interleaving of workers alone: a row that no
\* claim selects, or a notice that never came, has a crash or a failed statement
\* behind it, and a payment event that was recorded has its row even then.
OnlyAFaultStrands ==
  ReceivedIsQueued /\ OnlyAFaultStrandsSms /\ OnlyAFaultStrandsHook /\ OnlyAFaultLosesNotices /\ OnlyAFaultStrandsScheduled

\* The attempts of a row are counted at the claim and limited in several places, which
\* agree: no effect beyond the attempts, no giving up before them, and no row of a
\* webhook in the hands of two workers, whose marks name the row alone.
AttemptsAreCounted ==
  OutboxesTypeOK /\ AcceptedWithinAttempts /\ DeadAfterAllAttempts /\ FailedAfterAllAttempts /\ DeliveringHasOneHolder

\* An outcome that was shown stays: a campaign's status once final, the cancellation
\* of a scheduled message, and a message recorded as sent that is in its conversation.
OutcomesAreFinal == ListedOutcomeIsFinal /\ CanceledIsNotSent /\ []SentIsDelivered
====
