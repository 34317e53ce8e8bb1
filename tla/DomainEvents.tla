---- MODULE DomainEvents ----
(* communication_domain_events: the outbox every component enqueues into, the drain that hands
   claimed events to its listeners, and the bridge, the one listener, which writes a notification
   for each user of the audience. The listener is asynchronous: the drain marks an event PROCESSED
   while its handler may still be at work. A rejected promise of drain or handle is caught nowhere
   and ends the process. *)
EXTENDS Naturals, FiniteSets

CONSTANTS
  EventKeys,       \* event keys
  Users, RoleOf,   \* active users and their roles
  TargetRoles,     \* payload.targetRoles of the events
  Processes,       \* processes that drain the outbox
  EventBatch,      \* rows of one claim (25 in the code)
  EventAttempts,   \* attempts of an event (8 in the code)
  MaxEventFaults,  \* bound: crashes and database errors
  NoEvent

EventStatus == {"PENDING", "PROCESSING", "PROCESSED", "FAILED"}

ASSUME EventAssumption ==
  /\ EventAttempts \in Nat \ {0}
  /\ NoEvent \notin [status : EventStatus, attempts : Nat]
  /\ MaxEventFaults \in Nat

VARIABLES
  evt,        \* the rows by event key
  claimed,    \* rows each process claimed and has not come to yet
  emitted,    \* rows each process handed out and has not marked yet
  handlers,   \* handlers under way: the process and the event
  started,    \* how often a handler was started for each event
  notified,   \* communication_notifications: event and user
  eventFaults

eventVars == <<evt, claimed, emitted, handlers, started, notified, eventFaults>>

EventTypeOK ==
  /\ evt \in [EventKeys -> {NoEvent} \cup [status : EventStatus, attempts : 0 .. EventAttempts]]
  /\ claimed \in [Processes -> SUBSET EventKeys] /\ emitted \in [Processes -> SUBSET EventKeys]
  /\ handlers \subseteq Processes \X EventKeys
  /\ started \in [EventKeys -> Nat]
  /\ notified \subseteq EventKeys \X Users
  /\ eventFaults \in 0 .. MaxEventFaults

EventInit ==
  /\ evt = [k \in EventKeys |-> NoEvent]
  /\ claimed = [p \in Processes |-> {}] /\ emitted = [p \in Processes |-> {}]
  /\ handlers = {} /\ started = [k \in EventKeys |-> 0] /\ notified = {}
  /\ eventFaults = 0

(* ON CONFLICT (tenant_id, event_key): an event that is there stays. *)
Enqueue(k) ==
  evt' = IF evt[k] = NoEvent THEN [evt EXCEPT ![k] = [status |-> "PENDING", attempts |-> 0]] ELSE evt

OperatorRoles == {"OWNER", "ADMIN", "SUPER_ADMIN", "BILLING_ADMIN", "NOC_ENGINEER", "NETWORK_ADMIN"}
Audience == {u \in Users : RoleOf[u] \in TargetRoles \cap OperatorRoles}

Stale(k) ==
  /\ evt[k] # NoEvent /\ evt[k].status = "PROCESSING"
  /\ \A p \in Processes : k \notin claimed[p] \cup emitted[p]

(* drain: recover the rows whose lock is a quarter of an hour old, longer than any cycle, then
   claim; the claim names FAILED rows as well, but those have no attempts left. *)
Recovered(k) ==
  [evt[k] EXCEPT !.status = IF evt[k].attempts >= EventAttempts THEN "FAILED" ELSE "PENDING"]

RecoverStale ==
  /\ \E ks \in SUBSET {k \in EventKeys : Stale(k)} :
       /\ ks # {}
       /\ evt' = [k \in EventKeys |-> IF k \in ks THEN Recovered(k) ELSE evt[k]]
  /\ UNCHANGED <<claimed, emitted, handlers, started, notified, eventFaults>>

ClaimEvents(p) ==
  /\ claimed[p] = {} /\ emitted[p] = {}
  /\ \E ks \in SUBSET {k \in EventKeys : evt[k] # NoEvent} :
       /\ ks # {} /\ Cardinality(ks) <= EventBatch
       /\ \A k \in ks : evt[k].status \in {"PENDING", "FAILED"} /\ evt[k].attempts < EventAttempts
       /\ claimed' = [claimed EXCEPT ![p] = ks]
       /\ evt' = [k \in EventKeys |-> IF k \in ks
                    THEN [status |-> "PROCESSING", attempts |-> evt[k].attempts + 1] ELSE evt[k]]
  /\ UNCHANGED <<emitted, handlers, started, notified, eventFaults>>

(* emit calls the listener, which starts the handler and returns. *)
EmitClaimed(p) ==
  /\ emitted[p] = {}
  /\ \E k \in claimed[p] :
       /\ claimed' = [claimed EXCEPT ![p] = @ \ {k}] /\ emitted' = [emitted EXCEPT ![p] = {k}]
       /\ handlers' = handlers \cup {<<p, k>>} /\ started' = [started EXCEPT ![k] = @ + 1]
  /\ UNCHANGED <<evt, notified, eventFaults>>

MarkEvent(p, outcome) ==
  /\ \E k \in emitted[p] :
       evt' = IF evt[k].status = "PROCESSING" THEN [evt EXCEPT ![k] = outcome[k]] ELSE evt
  /\ emitted' = [emitted EXCEPT ![p] = {}]
  /\ UNCHANGED <<claimed, handlers, started, notified>>

MarkProcessed(p) ==
  MarkEvent(p, [k \in EventKeys |-> [evt[k] EXCEPT !.status = "PROCESSED"]]) /\ UNCHANGED eventFaults

(* PROCESSED cannot be written. *)
MarkEventFailed(p) ==
  /\ eventFaults < MaxEventFaults /\ eventFaults' = eventFaults + 1
  /\ MarkEvent(p, [k \in EventKeys |-> Recovered(k)])

\* Mutant: the handler stops at the first user.
HandleOne(p, k) ==
  /\ <<p, k>> \in handlers /\ handlers' = handlers \ {<<p, k>>}
  /\ \E u \in Audience : notified' = notified \cup {<<k, u>>}
  /\ UNCHANGED <<evt, claimed, emitted, started, eventFaults>>
Handle(p, k) ==
  /\ <<p, k>> \in handlers
  /\ LET missing == {u \in Audience : <<k, u>> \notin notified}
     IN \/ /\ \E u \in missing : notified' = notified \cup {<<k, u>>}
           /\ UNCHANGED handlers
        \/ missing = {} /\ handlers' = handlers \ {<<p, k>>} /\ UNCHANGED notified
  /\ UNCHANGED <<evt, claimed, emitted, started, eventFaults>>

ProcessCrashes(p) ==
  /\ eventFaults < MaxEventFaults /\ eventFaults' = eventFaults + 1
  /\ claimed' = [claimed EXCEPT ![p] = {}] /\ emitted' = [emitted EXCEPT ![p] = {}]
  /\ handlers' = {h \in handlers : h[1] # p}
  /\ UNCHANGED <<evt, started, notified>>

DrainStep(p) == EmitClaimed(p) \/ MarkProcessed(p) \/ \E k \in EventKeys : Handle(p, k)

DrainNext ==
  \/ RecoverStale
  \/ \E p \in Processes : ClaimEvents(p) \/ DrainStep(p) \/ MarkEventFailed(p) \/ ProcessCrashes(p)

EventNext == (\E k \in EventKeys : evt[k] = NoEvent /\ Enqueue(k)
                /\ UNCHANGED <<claimed, emitted, handlers, started, notified, eventFaults>>)
             \/ DrainNext

EventSpec == EventInit /\ [][EventNext]_eventVars
EventFairness ==
  /\ WF_eventVars(RecoverStale)
  /\ \A p \in Processes : WF_eventVars(ClaimEvents(p)) /\ WF_eventVars(DrainStep(p))

------------------------
(* The intake of payment webhooks, an enqueuer that shares the outbox: one transaction records the
   provider's event and its domain event. A provider calls as often as it likes, also with the id
   of one event and the type of another. *)
CONSTANTS
  ProviderEvents,  \* event keys that come from a payment provider
  HookCalls,       \* bound: calls of the webhook
  PaymentTypes,    \* event types
  NoCall

VARIABLES
  paymentEvent,    \* payment_events: the type under which each event was recorded
  call             \* the calls: what they say and how far their transaction is

payVars == <<paymentEvent, call>>

Answers == {"accepted", "duplicate", "refused", "failed"}
Calls == [key : ProviderEvents, type : PaymentTypes, payment : {"none", "own", "foreign"},
          step : {"called", "opened", "inserted", "queued"} \cup Answers]

ASSUME PaymentAssumption ==
  ProviderEvents \subseteq EventKeys /\ "none" \notin PaymentTypes /\ NoCall \notin Calls

PaymentTypeOK ==
  /\ paymentEvent \in [ProviderEvents -> PaymentTypes \cup {"none"}]
  /\ call \in [HookCalls -> {NoCall} \cup Calls]

PaymentInit ==
  /\ paymentEvent = [k \in ProviderEvents |-> "none"] /\ call = [c \in HookCalls |-> NoCall]

InStep(c, steps) == call[c] # NoCall /\ call[c].step \in steps
Proceed(c, step) == call' = [call EXCEPT ![c].step = step]

(* A body whose signature is wrong gets no further than this. *)
CallWebhook(c) ==
  /\ call[c] = NoCall
  /\ \E k \in ProviderEvents, ty \in PaymentTypes, pay \in {"none", "own", "foreign"}, step \in {"called", "refused"} :
       call' = [call EXCEPT ![c] = [key |-> k, type |-> ty, payment |-> pay, step |-> step]]
  /\ UNCHANGED <<paymentEvent, eventVars>>

(* The payment the caller names is locked; it must be this tenant's and this provider's. *)
LockPayment(c) ==
  /\ InStep(c, {"called"})
  /\ IF call[c].payment = "foreign" THEN Proceed(c, "refused")
     ELSE /\ call[c].payment = "own" =>
               \A d \in HookCalls : InStep(d, {"opened", "inserted", "queued"}) => call[d].payment # "own"
          /\ Proceed(c, "opened")
  /\ UNCHANGED <<paymentEvent, eventVars>>

(* ON CONFLICT DO NOTHING waits for the transaction that holds the id. What is found there under
   another type is a 409. *)
RecordEvent(c) ==
  LET k == call[c].key IN
  /\ InStep(c, {"opened"})
  /\ \A d \in HookCalls : InStep(d, {"inserted", "queued"}) => call[d].key # k
  /\ Proceed(c, IF paymentEvent[k] = "none" THEN "inserted"
                ELSE IF paymentEvent[k] = call[c].type THEN "duplicate" ELSE "refused")
  /\ UNCHANGED <<paymentEvent, eventVars>>

(* enqueue on the transaction's client: nobody sees the row before COMMIT. *)
EnqueueReceived(c) ==
  InStep(c, {"inserted"}) /\ Proceed(c, "queued") /\ UNCHANGED <<paymentEvent, eventVars>>

CommitReceived(c) ==
  /\ InStep(c, {"queued"}) /\ Proceed(c, "accepted")
  /\ paymentEvent' = [paymentEvent EXCEPT ![call[c].key] = call[c].type]
  /\ Enqueue(call[c].key)
  /\ UNCHANGED <<claimed, emitted, handlers, started, notified, eventFaults>>

(* A statement fails or the process dies: everything rolls back. *)
RollBack(c) ==
  /\ eventFaults < MaxEventFaults /\ eventFaults' = eventFaults + 1
  /\ InStep(c, {"opened", "inserted", "queued"}) /\ Proceed(c, "failed")
  /\ UNCHANGED <<paymentEvent, evt, claimed, emitted, handlers, started, notified>>

PaymentNext == \E c \in HookCalls : \/ CallWebhook(c) \/ LockPayment(c) \/ RecordEvent(c)
                                    \/ EnqueueReceived(c) \/ CommitReceived(c) \/ RollBack(c)

(* "Otherwise a queue write failure after COMMIT would strand a RECEIVED event": what is recorded is
   queued, so that a retry answered as duplicate loses nothing; an event accepted twice was the same
   event both times. *)
ReceivedIsQueued ==
  /\ \A k \in ProviderEvents : paymentEvent[k] # "none" => evt[k] # NoEvent
  /\ \A c \in HookCalls : InStep(c, {"accepted", "duplicate"}) => paymentEvent[call[c].key] = call[c].type
  /\ \A c, d \in HookCalls : InStep(c, {"accepted"}) /\ InStep(d, {"accepted"}) /\ c # d => call[c].key # call[d].key

------------------------
(* Properties. *)

(* PROCESSED says that the handler was started. Only a crash or a failed statement can keep the
   audience from its notifications. *)
OnlyAFaultLosesNotices ==
  \A k \in EventKeys :
    evt[k] # NoEvent /\ evt[k].status = "PROCESSED" /\ eventFaults = 0
      => \/ \E p \in Processes : <<p, k>> \in handlers
         \/ \A u \in Audience : <<k, u>> \in notified

(* An event that fails for good was tried eight times; nothing else ends it. *)
FailedAfterAllAttempts ==
  \A k \in EventKeys : evt[k] # NoEvent =>
    /\ evt[k].status = "FAILED" => evt[k].attempts = EventAttempts
    /\ started[k] <= evt[k].attempts

EventPlace == [k \in EventKeys |->
  IF evt[k] = NoEvent THEN "none"
  ELSE CASE evt[k].status = "PENDING" -> "queued" [] evt[k].status = "PROCESSING" -> "held"
         [] evt[k].status = "PROCESSED" -> "done" [] evt[k].status = "FAILED" -> "dead"]
EventDelivery == INSTANCE Delivery WITH Rows <- EventKeys, place <- EventPlace, effects <- started
(* PROCESSED only after a handler was started, and for ever. *)
EventsDeliver == EventDelivery!DeliverySpec

(* Crashes or not, every event is PROCESSED or has used up its attempts. *)
EventsSettle == \A k \in EventKeys : EventPlace[k] \in {"queued", "held"} ~> EventPlace[k] \in {"done", "dead"}
====
