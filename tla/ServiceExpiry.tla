---- MODULE ServiceExpiry ----
(* Access bindings and the service state of their customers: operators change both, and every minute
   one transaction of three statements expires bindings, takes over the expiry of those left and
   suspends customers who have none. What it wrote is seen by others when it commits; the rows it
   wrote are locked until then. The notices and the reconciliation of the access grants follow the
   commit. *)
EXTENDS Naturals, FiniteSets, FiniteSetsExt

CONSTANTS
  Customers, Bindings,
  CustomerOf,        \* the customer of each binding
  MaxTime,           \* bound: the clock
  MaxServiceChanges, \* bound: requests of operators
  MaxServiceFaults,  \* bound: crashes and failed statements
  Never,             \* no expires_at
  NoService          \* no row in customer_service_state

VARIABLES
  now,
  binding,      \* state and expires_at
  service,      \* customer_service_state
  lastEvent,    \* new_state of the latest event of each customer
  first,        \* states being set where no row was found
  run,          \* the expiry transaction: its stage, time and uncommitted rows
  tell,         \* suspended customers the run has still to notify
  notices,      \* messages enqueued, by idempotency key
  suspensions,  \* how often each customer was suspended by expiry
  phone,        \* "kept" as long as the customer is active with a number, "gone", or "back"
  serviceChanges, serviceFaults

serviceVars == <<now, binding, service, lastEvent, first, run, tell, notices, suspensions,
               phone, serviceChanges, serviceFaults>>

Times == 0 .. MaxTime
AccessState == {"PENDING", "ACTIVE", "SUSPENDED", "EXPIRED"}
ServiceState == {"ACTIVE", "SUSPENDED"}
ServiceRow == [state : ServiceState, expires : Times \cup {Never}]
Due(e, t) == e # Never /\ e <= t

ASSUME ServiceAssumption ==
  /\ MaxTime \in Nat \ {0} /\ Never \notin Nat /\ NoService \notin ServiceRow
  /\ MaxServiceChanges \in Nat /\ MaxServiceFaults \in Nat

NotRunning == [stage |-> "idle", at |-> 0, expired |-> {}, extended |-> <<>>, suspended |-> {}]

ServiceTypeOK ==
  /\ now \in Times
  /\ binding \in [Bindings -> [state : AccessState, expires : Times \cup {Never}]]
  /\ service \in [Customers -> ServiceRow \cup {NoService}]
  /\ lastEvent \in [Customers -> ServiceState \cup {NoService}]
  /\ first \subseteq Customers \X ServiceRow
  /\ run.stage \in {"idle", "bindings", "expiries", "suspended"} /\ run.at \in Times
  /\ run.expired \subseteq Bindings /\ run.suspended \subseteq Customers
  /\ tell \subseteq Customers
  /\ notices \subseteq {"reminder", "final"} \X Customers \X Times
  /\ suspensions \in [Customers -> Nat] /\ phone \in [Customers -> {"kept", "gone", "back"}]
  /\ serviceChanges \in 0 .. MaxServiceChanges /\ serviceFaults \in 0 .. MaxServiceFaults

(* Bindings are created PENDING. *)
ServiceInit ==
  /\ now = 0
  /\ binding \in [Bindings -> [state : {"PENDING"}, expires : {1, Never}]]
  /\ service = [c \in Customers |-> NoService] /\ lastEvent = [c \in Customers |-> NoService]
  /\ first = {} /\ run = NotRunning /\ tell = {} /\ notices = {}
  /\ phone \in [Customers -> {"kept", "gone"}]
  /\ suspensions = [c \in Customers |-> 0] /\ serviceChanges = 0 /\ serviceFaults = 0

Tick ==
  /\ now < MaxTime /\ now' = now + 1
  /\ UNCHANGED <<binding, service, lastEvent, first, run, tell, notices, suspensions, phone,
                 serviceChanges, serviceFaults>>

------------------------
(* Operators. *)

ServiceChange == serviceChanges < MaxServiceChanges /\ serviceChanges' = serviceChanges + 1

(* changeAccessState waits for the row. *)
ChangeAccessState(b, s) ==
  /\ ServiceChange /\ b \notin run.expired /\ binding[b].state # s
  /\ binding' = [binding EXCEPT ![b].state = s]
  /\ UNCHANGED <<now, service, lastEvent, first, run, tell, notices, suspensions, phone, serviceFaults>>

\* Mutant: a suspended row is not locked.
LockedIfExtended(c) == c \in DOMAIN run.extended
LockedByRun(c) == c \in run.suspended \/ c \in DOMAIN run.extended

(* set: the row is locked before its state is read. expires_at is later than effective_at, or
   absent. *)
SetService(c, s, e) ==
  /\ ServiceChange /\ service[c] # NoService /\ ~LockedByRun(c) /\ ~Due(e, now)
  /\ service' = [service EXCEPT ![c] = [state |-> s, expires |-> e]]
  /\ lastEvent' = IF service[c].state # s THEN [lastEvent EXCEPT ![c] = s] ELSE lastEvent
  /\ UNCHANGED <<now, binding, first, run, tell, notices, suspensions, phone, serviceFaults>>

(* Without a row there is nothing to lock: two requests may both find none. *)
ReadNoService(c, s, e) ==
  /\ ServiceChange /\ service[c] = NoService /\ ~Due(e, now)
  /\ first' = first \cup {<<c, [state |-> s, expires |-> e]>>}
  /\ UNCHANGED <<now, binding, service, lastEvent, run, tell, notices, suspensions, phone, serviceFaults>>

(* The upsert; its previous state is none, so there is an event. *)
UpsertService(c, row) ==
  /\ <<c, row>> \in first /\ ~LockedByRun(c) /\ first' = first \ {<<c, row>>}
  /\ service' = [service EXCEPT ![c] = row] /\ lastEvent' = [lastEvent EXCEPT ![c] = row.state]
  /\ UNCHANGED <<now, binding, run, tell, notices, suspensions, phone, serviceChanges, serviceFaults>>

(* A customer is deactivated or loses the telephone number, and gets it back. *)
EditCustomer(c) ==
  /\ ServiceChange /\ phone' = [phone EXCEPT ![c] = IF @ = "gone" THEN "back" ELSE "gone"]
  /\ UNCHANGED <<now, binding, service, lastEvent, first, run, tell, notices, suspensions, serviceFaults>>

------------------------
(* IspExpiryService.reconcile. now() is the time the transaction began. *)

ActiveBindings(c) == {b \in Bindings : /\ CustomerOf[b] = c /\ binding[b].state = "ACTIVE"
                                       /\ b \notin run.expired}
ActiveService == {c \in Customers : service[c] # NoService /\ service[c].state = "ACTIVE"}
Quiet == UNCHANGED <<now, binding, service, lastEvent, first, tell, notices, suspensions, phone,
                     serviceChanges, serviceFaults>>

ExpireBindings ==
  /\ run.stage = "idle" /\ tell = {}
  /\ run' = [NotRunning EXCEPT !.stage = "bindings", !.at = now,
               !.expired = {b \in Bindings : binding[b].state = "ACTIVE" /\ Due(binding[b].expires, now)}]
  /\ Quiet

(* MAX over the expiries of the active bindings that have one. *)
RefreshExpiries ==
  /\ run.stage = "bindings"
  /\ run' = [run EXCEPT !.stage = "expiries",
               !.extended = [c \in {k \in ActiveService : ActiveBindings(k) # {}} |->
                  LET es == {binding[b].expires : b \in ActiveBindings(c)} \ {Never}
                  IN IF es = {} THEN Never ELSE Max(es)]]
  /\ Quiet

ExpiryOf(c) == IF c \in DOMAIN run.extended THEN run.extended[c] ELSE service[c].expires

SuspendCustomers ==
  /\ run.stage = "expiries"
  /\ run' = [run EXCEPT !.stage = "suspended",
               !.suspended = {c \in ActiveService : Due(ExpiryOf(c), run.at) /\ ActiveBindings(c) = {}}]
  /\ Quiet

CommitRun ==
  /\ run.stage = "suspended"
  /\ binding' = [b \in Bindings |-> IF b \in run.expired THEN [binding[b] EXCEPT !.state = "EXPIRED"]
                                    ELSE binding[b]]
  /\ service' = [c \in Customers |->
       IF c \in run.suspended THEN [state |-> "SUSPENDED", expires |-> ExpiryOf(c)]
       ELSE IF c \in DOMAIN run.extended THEN [service[c] EXCEPT !.expires = run.extended[c]]
       ELSE service[c]]
  /\ lastEvent' = [c \in Customers |-> IF c \in run.suspended THEN "SUSPENDED" ELSE lastEvent[c]]
  /\ suspensions' = [c \in Customers |-> suspensions[c] + IF c \in run.suspended THEN 1 ELSE 0]
  /\ tell' = run.suspended /\ run' = NotRunning
  /\ UNCHANGED <<now, first, notices, phone, serviceChanges, serviceFaults>>

Reachable(c) == phone[c] # "gone"

(* A day's warning, one for each expiry; queried anew every minute. *)
RemindCustomers ==
  /\ notices' = notices \cup {<<"reminder", c, service[c].expires>> :
       c \in {k \in ActiveService : /\ service[k].expires # Never /\ service[k].expires = now + 1
                                   /\ Reachable(k)}}
  /\ notices' # notices
  /\ UNCHANGED <<now, binding, service, lastEvent, first, run, tell, suspensions, phone,
                 serviceChanges, serviceFaults>>

(* The key of the final notice is the customer: a later one is taken for its duplicate. Who is
   inactive or has no number is passed over. *)
NotifyCustomer(c) ==
  /\ c \in tell /\ tell' = tell \ {c}
  /\ notices' = IF Reachable(c) THEN notices \cup {<<"final", c, 0>>} ELSE notices
  /\ UNCHANGED <<now, binding, service, lastEvent, first, run, suspensions, phone,
                 serviceChanges, serviceFaults>>

ServiceFault == serviceFaults < MaxServiceFaults /\ serviceFaults' = serviceFaults + 1

(* A statement fails: the transaction rolls back, or the notice is given up. *)
RunFails ==
  /\ ServiceFault /\ run.stage # "idle" /\ run' = NotRunning
  /\ UNCHANGED <<now, binding, service, lastEvent, first, tell, notices, suspensions, phone, serviceChanges>>

NoticeFails(c) ==
  /\ ServiceFault /\ c \in tell /\ tell' = tell \ {c}
  /\ UNCHANGED <<now, binding, service, lastEvent, first, run, notices, suspensions, phone, serviceChanges>>

ServiceCrash ==
  /\ ServiceFault /\ run' = NotRunning /\ tell' = {} /\ first' = {}
  /\ UNCHANGED <<now, binding, service, lastEvent, notices, suspensions, phone, serviceChanges>>

RunStep == ExpireBindings \/ RefreshExpiries \/ SuspendCustomers \/ CommitRun
           \/ \E c \in Customers : NotifyCustomer(c)

ServiceNext ==
  \/ Tick \/ RunStep \/ RemindCustomers \/ RunFails \/ ServiceCrash
  \/ \E b \in Bindings, s \in {"ACTIVE", "SUSPENDED"} : ChangeAccessState(b, s)
  \/ \E c \in Customers : EditCustomer(c)
  \/ \E c \in Customers : NoticeFails(c) \/ \E row \in ServiceRow : UpsertService(c, row)
  \/ \E c \in Customers, s \in ServiceState, e \in Times \cup {Never} :
       SetService(c, s, e) \/ ReadNoService(c, s, e)

ServiceSpec == ServiceInit /\ [][ServiceNext]_serviceVars

------------------------
(* Properties. *)

(* The history of a customer ends in the state the customer is in, whoever set it, operators at once
   or the expiry run. *)
HistoryEndsInState ==
  \A c \in Customers : service[c] # NoService => lastEvent[c] = service[c].state

(* The first suspension of a customer who could be told all along is told, unless a statement failed
   or the process died. A later one never is: its notice has the key of the first. *)
FirstExpiryIsTold ==
  \A c \in Customers : suspensions[c] > 0 /\ phone[c] = "kept" /\ serviceFaults = 0
    => c \in tell \/ <<"final", c, 0>> \in notices

(* No customer is suspended for an expiry that an operator has moved: at the commit the customer is
   still ACTIVE and the expiry still past. *)
SuspendedWasDue ==
  [][\A c \in Customers : suspensions'[c] > suspensions[c] =>
       c \in ActiveService /\ Due(service'[c].expires, now)]_serviceVars

(* An expired customer without an active binding is not served for ever, and neither is an expired
   binding. *)
ExpiryEnds ==
  /\ \A c \in Customers :
       (c \in ActiveService /\ Due(service[c].expires, now) /\ ActiveBindings(c) = {})
         ~> ~(c \in ActiveService /\ Due(service[c].expires, now) /\ ActiveBindings(c) = {})
  /\ \A b \in Bindings : (binding[b].state = "ACTIVE" /\ Due(binding[b].expires, now))
         ~> binding[b].state # "ACTIVE"
====
