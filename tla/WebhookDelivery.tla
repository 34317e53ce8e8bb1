---- MODULE WebhookDelivery ----
(* webhook_delivery_outbox: events for the tenant's endpoints, the worker that posts them, and the
   administration of endpoints and signing secrets. *)
EXTENDS Naturals, FiniteSets

CONSTANTS
  Endpoints, Events,
  Couriers,        \* processes that run the worker
  HookBatch,       \* rows of one claim (20 in the code)
  HookAttempts,    \* attempts before DEAD (8 in the code)
  MaxHookFaults,   \* bound: crashes and database errors
  MaxHookChanges,  \* bound: changes of endpoints and secrets
  NoHook

Hooks == Endpoints \X Events
HookStatus == {"PENDING", "RETRY", "DELIVERING", "DELIVERED", "DEAD"}

ASSUME HookAssumption ==
  /\ HookAttempts \in Nat \ {0} /\ NoHook \notin Hooks
  /\ NoHook \notin [status : HookStatus, attempts : Nat]
  /\ MaxHookFaults \in Nat /\ MaxHookChanges \in Nat

VARIABLES
  hook,       \* the rows: status and attempt count
  ahead,      \* the order of next_attempt_at among the PENDING and RETRY rows
  endpoint,   \* whether each endpoint is enabled and its signing secret exists
  load,       \* rows claimed by each courier that it has not come to yet
  trip,       \* the row each courier is at, and the step
  received,   \* how often the endpoint was sent each event
  acked,      \* how often it answered 2xx
  hookFaults, hookChanges

hookVars == <<hook, ahead, endpoint, load, trip, received, acked, hookFaults, hookChanges>>

AtRest == [row |-> NoHook, at |-> "idle"]

Queued == {h \in Hooks : hook[h] # NoHook /\ hook[h].status \in {"PENDING", "RETRY"}}
InOrder(r, S) ==
  /\ r \subseteq S \X S
  /\ \A g, h \in S : IF g = h THEN <<g, h>> \notin r ELSE <<g, h>> \in r <=> <<h, g>> \notin r
  /\ \A g, h, i \in S : <<g, h>> \in r /\ <<h, i>> \in r => <<g, i>> \in r

WebhookTypeOK ==
  /\ hook \in [Hooks -> {NoHook} \cup [status : HookStatus, attempts : 0 .. HookAttempts]]
  /\ InOrder(ahead, Queued)
  /\ endpoint \in [Endpoints -> [enabled : BOOLEAN, secret : BOOLEAN]]
  /\ load \in [Couriers -> SUBSET Hooks]
  /\ trip \in [Couriers -> {AtRest} \cup [row : Hooks, at : {"post", "delivered", "failed"}]]
  /\ received \in [Hooks -> Nat] /\ acked \in [Hooks -> Nat]
  /\ hookFaults \in 0 .. MaxHookFaults /\ hookChanges \in 0 .. MaxHookChanges

WebhookInit ==
  /\ hook = [h \in Hooks |-> NoHook] /\ ahead = {}
  /\ endpoint \in [Endpoints -> [enabled : BOOLEAN, secret : {TRUE}]]
  /\ load = [w \in Couriers |-> {}] /\ trip = [w \in Couriers |-> AtRest]
  /\ received = [h \in Hooks |-> 0] /\ acked = [h \in Hooks |-> 0]
  /\ hookFaults = 0 /\ hookChanges = 0

(* Rows get a place in the order, behind those of "before", which are due. *)
EnterQueue(new, before) ==
  \E first \in SUBSET Queued, r \in SUBSET (new \X new) :
    /\ before \subseteq first /\ \A f \in first, g \in Queued : <<g, f>> \in ahead => g \in first
    /\ InOrder(r, new)
    /\ ahead' = ahead \cup (first \X new) \cup (new \X (Queued \ first)) \cup r

(* A producer inserts one row for each endpoint that is enabled at that time; a row that is there is
   left alone. *)
Emit(v) ==
  LET new == {h \in Hooks : h[2] = v /\ endpoint[h[1]].enabled /\ hook[h] = NoHook}
  IN /\ new # {}
     /\ hook' = [h \in Hooks |-> IF h \in new THEN [status |-> "PENDING", attempts |-> 0] ELSE hook[h]]
     /\ EnterQueue(new, {h \in Queued : hook[h].status = "PENDING"})
     /\ UNCHANGED <<endpoint, load, trip, received, acked, hookFaults, hookChanges>>

SetWebhookEnabled(e, enabled) ==
  /\ enabled => endpoint[e].secret
  /\ endpoint[e].enabled # enabled /\ endpoint' = [endpoint EXCEPT ![e].enabled = enabled]
  /\ hookChanges < MaxHookChanges /\ hookChanges' = hookChanges + 1
  /\ UNCHANGED <<hook, ahead, load, trip, received, acked, hookFaults>>

DeleteSecret(e) ==
  /\ endpoint[e].secret /\ endpoint' = [endpoint EXCEPT ![e].secret = FALSE]
  /\ hookChanges < MaxHookChanges /\ hookChanges' = hookChanges + 1
  /\ UNCHANGED <<hook, ahead, load, trip, received, acked, hookFaults>>

------------------------
(* deliverDue. The first rows of enabled endpoints are due; those of them whose secret exists are
   claimed, and the others keep their place. *)
\* Mutant: a row in DELIVERING is due as well.
DueRowsStale == {h \in Hooks : hook[h] # NoHook /\ hook[h].status \in {"PENDING", "RETRY", "DELIVERING"}}
Due == {h \in Queued : endpoint[h[1]].enabled}
Before(h) == {g \in Due : <<g, h>> \in ahead}
DueRows == {h \in Due : Cardinality(Before(h)) < HookBatch}

ClaimHooks(w) ==
  /\ trip[w] = AtRest /\ load[w] = {}
  /\ LET taken == {h \in DueRows : endpoint[h[1]].secret}
     IN /\ taken # {}
        /\ load' = [load EXCEPT ![w] = taken]
        /\ hook' = [h \in Hooks |-> IF h \in taken
                      THEN [status |-> "DELIVERING", attempts |-> hook[h].attempts + 1] ELSE hook[h]]
        /\ ahead' = ahead \cap ((Queued \ taken) \X (Queued \ taken))
  /\ UNCHANGED <<endpoint, trip, received, acked, hookFaults, hookChanges>>

NextHook(w) ==
  /\ trip[w] = AtRest
  /\ \E h \in load[w] : /\ trip' = [trip EXCEPT ![w] = [row |-> h, at |-> "post"]]
                        /\ load' = [load EXCEPT ![w] = @ \ {h}]
  /\ UNCHANGED <<hook, ahead, endpoint, received, acked, hookFaults, hookChanges>>

On(w, step) == trip[w].at = step
Turn(w, step) == trip' = [trip EXCEPT ![w].at = step]

(* The target or the secret is refused, or nothing is sent; the request is sent and its answer lost
   or not 2xx; the answer is 2xx. *)
Post(w) ==
  /\ On(w, "post")
  /\ LET h == trip[w].row
     IN \/ Turn(w, "failed") /\ UNCHANGED <<received, acked>>
        \/ /\ endpoint[h[1]].secret /\ received' = [received EXCEPT ![h] = @ + 1]
           /\ \/ Turn(w, "failed") /\ UNCHANGED acked
              \/ Turn(w, "delivered") /\ acked' = [acked EXCEPT ![h] = @ + 1]
  /\ UNCHANGED <<hook, ahead, endpoint, load, hookFaults, hookChanges>>

Rest(w) == trip' = [trip EXCEPT ![w] = AtRest]

\* Mutant: DELIVERED is not written.
MarkDeliveredForgets(w) ==
  /\ On(w, "delivered") /\ Rest(w)
  /\ UNCHANGED <<hook, ahead, endpoint, load, received, acked, hookFaults, hookChanges>>
MarkDelivered(w) ==
  /\ On(w, "delivered") /\ Rest(w)
  /\ hook' = [hook EXCEPT ![trip[w].row].status = "DELIVERED"]
  /\ UNCHANGED <<ahead, endpoint, load, received, acked, hookFaults, hookChanges>>

(* The delay grows with the attempts, so a row may overtake one that waits. *)
MarkRetry(w) ==
  /\ On(w, "failed") /\ Rest(w)
  /\ LET h == trip[w].row
     IN IF hook[h].attempts >= HookAttempts
        THEN hook' = [hook EXCEPT ![h].status = "DEAD"] /\ UNCHANGED ahead
        ELSE /\ hook' = [hook EXCEPT ![h].status = "RETRY"]
             /\ EnterQueue({h}, {})
  /\ UNCHANGED <<endpoint, load, received, acked, hookFaults, hookChanges>>

CourierStep(w) == NextHook(w) \/ Post(w) \/ MarkDelivered(w) \/ MarkRetry(w)

(* DELIVERED cannot be written: the catch makes a retry of it. The update of the catch fails: the
   cycle ends and the rest of the batch is left. *)
UpdateFails(w) ==
  /\ hookFaults < MaxHookFaults /\ hookFaults' = hookFaults + 1
  /\ \/ On(w, "delivered") /\ Turn(w, "failed") /\ UNCHANGED load
     \/ On(w, "failed") /\ Rest(w) /\ load' = [load EXCEPT ![w] = {}]
  /\ UNCHANGED <<hook, ahead, endpoint, received, acked, hookChanges>>

CourierCrashes(w) ==
  /\ trip[w] # AtRest \/ load[w] # {}
  /\ hookFaults < MaxHookFaults /\ hookFaults' = hookFaults + 1
  /\ Rest(w) /\ load' = [load EXCEPT ![w] = {}]
  /\ UNCHANGED <<hook, ahead, endpoint, received, acked, hookChanges>>

WebhookNext ==
  \/ \E v \in Events : Emit(v)
  \/ \E e \in Endpoints : DeleteSecret(e) \/ \E b \in BOOLEAN : SetWebhookEnabled(e, b)
  \/ \E w \in Couriers : ClaimHooks(w) \/ CourierStep(w) \/ UpdateFails(w) \/ CourierCrashes(w)

WebhookSpec == WebhookInit /\ [][WebhookNext]_hookVars
WebhookFairness == \A w \in Couriers : WF_hookVars(ClaimHooks(w)) /\ WF_hookVars(CourierStep(w))

------------------------
(* Properties. *)

Holds(w, h) == h \in load[w] \/ trip[w].row = h

(* The last two updates name neither the status nor the claim, so they are right only because a row
   has one holder while it is DELIVERING. *)
DeliveringHasOneHolder ==
  \A w \in Couriers, h \in Hooks : Holds(w, h) =>
    /\ hook[h].status = "DELIVERING"
    /\ h \in load[w] => trip[w].row # h
    /\ \A u \in Couriers \ {w} : ~Holds(u, h)

(* docs/PUBLIC-API-WEBHOOKS.md:40: DEAD after eight attempts, not before, and an endpoint never sees
   an event more often than that. *)
DeadAfterAllAttempts ==
  \A h \in Hooks : hook[h] # NoHook =>
    /\ hook[h].status = "DEAD" => hook[h].attempts = HookAttempts
    /\ acked[h] <= received[h] /\ received[h] <= hook[h].attempts

(* The row of an attempt that ended well is lost, or left in DELIVERING, only when a process died or
   a statement failed. *)
OnlyAFaultStrandsHook ==
  \A h \in Hooks : hook[h] # NoHook /\ hookFaults = 0 =>
    /\ hook[h].status = "DELIVERING" => \E w \in Couriers : Holds(w, h)
    /\ acked[h] > 0 => hook[h].status \in {"DELIVERING", "DELIVERED"} /\ acked[h] = 1

HookPlace == [h \in Hooks |->
  IF hook[h] = NoHook THEN "none"
  ELSE CASE hook[h].status \in {"PENDING", "RETRY"} -> "queued" [] hook[h].status = "DELIVERING" -> "held"
         [] hook[h].status = "DELIVERED" -> "done" [] hook[h].status = "DEAD" -> "dead"]
(* DELIVERED only after the endpoint's 2xx, and DELIVERED and DEAD for ever. *)
HookDelivery == INSTANCE Delivery WITH Rows <- Hooks, place <- HookPlace, effects <- acked
HooksDeliver == HookDelivery!DeliverySpec

Ended(h) == HookPlace[h] \in {"done", "dead"}

(* Every delivery comes to an end while its endpoint is enabled, every secret is there and nothing
   fails. *)
HooksSettle ==
  \A h \in Hooks : HookPlace[h] \in {"queued", "held"}
    ~> \/ Ended(h) \/ hookFaults > 0 \/ ~endpoint[h[1]].enabled
       \/ \E e \in Endpoints : ~endpoint[e].secret
====
