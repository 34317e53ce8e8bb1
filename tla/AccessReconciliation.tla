---- MODULE AccessReconciliation ----
(* Sessions, the grants that entitle to them, and reconcileAccessState
   (apps/api/src/sessions/sessions.service.ts), which closes the sessions whose grant has
   ended. Its callers run at the same time: a maintenance worker, the expiry job, two operator
   endpoints and a service-state change. The commands it queues are rows of the network command
   fabric, whose workers may claim them at once; the traffic collector brings sessions back.

   A session belongs to one customer, or to a guest. A customer's latest grant counts: earlier ones
   entitle to nothing. *)
EXTENDS Naturals, FiniteSets

CONSTANTS
  Sessions,        \* rows of sessions
  Reconcilers,     \* concurrent calls of reconcileAccessState
  Workers, MaxCommands, BatchSize, CrashAt, FailAt,   \* of the command fabric
  Env,             \* the disturbances of this instance
  MaxDisturbances, \* bound on the number of disturbances in a behaviour
  None             \* no command

ASSUME NoneAssumption == None \notin Nat

VARIABLES
  grant,    \* the latest access grant of each session's customer
  session,  \* sessions.status
  binding,  \* the command of correlation access-reconcile:<session>
  run,      \* local state of every call of reconcileAccessState
  seen,     \* the clients the collector read and has not matched yet
  moved,    \* sessions whose router changed its protocol after their command
  row, actor, policy, online, carried, budget   \* the command fabric

Fabric == INSTANCE NetworkCommand WITH Enforcers <- {}

access == <<grant, session, binding, run, seen, moved>>
router == <<policy, online, carried>>
fabric == <<row, actor, router, budget>>
vars == <<access, fabric>>

Commands == Fabric!Commands
\* "grace": ends_at has passed, the site's grace period has not; "guest": the
\* session has no customer, hence no grant.
Grants == {"guest", "valid", "grace", "lapsed", "EXPIRED"}
SessionStatuses == {"ABSENT", "ACTIVE", "STALE", "ENDED"}
Reasons == {"ACCESS_GRANT_EXPIRED_OR_MISSING", "ACCESS_RECONCILIATION"}
Runs == [pc : {"idle", "select", "queue", "disconnect", "failed", "stale"},
         todo : SUBSET Sessions, session : Sessions \cup {None}]
Bindings == [id : Commands \cup {None}, request : Reasons]

TypeOK ==
  /\ grant \in [Sessions -> Grants]
  /\ session \in [Sessions -> SessionStatuses]
  /\ binding \in [Sessions -> Bindings]
  /\ run \in [Reconcilers -> Runs]
  /\ seen \in SUBSET Sessions
  /\ moved \in SUBSET Sessions

Idle == [pc |-> "idle", todo |-> {}, session |-> None]
Unbound == [id |-> None, request |-> "ACCESS_RECONCILIATION"]

Granted(s) == grant[s] \in {"valid", "grace"}

\* Customers have their first grant; a session may have started already.
Init ==
  /\ Fabric!Init
  /\ grant \in [Sessions -> {"guest", "valid"}]
  /\ session \in [Sessions -> {"ABSENT", "ACTIVE"}]
  /\ binding = [s \in Sessions |-> Unbound]
  /\ run = [r \in Reconcilers |-> Idle]
  /\ seen = {}
  /\ moved = {}

------------------------
(* Grants. *)

\* Time passes: the grant ends, then its grace period.
Age(s) ==
  /\ \/ grant[s] = "valid" /\ grant' = [grant EXCEPT ![s] = "grace"]
     \/ grant[s] = "grace" /\ grant' = [grant EXCEPT ![s] = "lapsed"]
  /\ UNCHANGED <<session, binding, run, seen, moved, fabric>>

\* A purchase is confirmed: a new grant.
Renew(s) ==
  /\ grant[s] \in {"grace", "lapsed", "EXPIRED"}
  /\ Fabric!Disturb("renew")
  /\ grant' = [grant EXCEPT ![s] = "valid"]
  /\ UNCHANGED <<session, binding, run, seen, moved, row, actor, router>>

------------------------
(* Sessions: start, end, reconcileStale. *)

\* start: customers need a grant, guests do not.
Start(s) ==
  /\ session[s] = "ABSENT"
  /\ grant[s] = "guest" \/ Granted(s)
  /\ session' = [session EXCEPT ![s] = "ACTIVE"]
  /\ UNCHANGED <<grant, binding, run, seen, moved, fabric>>

\* end, called by an operator (reconcileAccessState never reaches its own call).
End(s) ==
  /\ session[s] \in {"ACTIVE", "STALE"}
  /\ session' = [session EXCEPT ![s] = "ENDED"]
  /\ UNCHANGED <<grant, binding, run, seen, moved, fabric>>

\* reconcileStale: no traffic was sampled for half an hour, because the client
\* is gone or because the router cannot be reached.
ReconcileStale ==
  \E S \in SUBSET {s \in Sessions : session[s] = "ACTIVE"} \ {{}} :
    /\ \/ (\A s \in S : ~online[s]) /\ UNCHANGED budget
       \/ Fabric!Disturb("outage")
    /\ session' = [s \in Sessions |-> IF s \in S THEN "STALE" ELSE session[s]]
    /\ UNCHANGED <<grant, binding, run, seen, moved, row, actor, router>>

------------------------
(* reconcileAccessState. *)

At(r, label) == run[r].pc = label
Become(r, k) == run' = [run EXCEPT ![r] = k]

\* The loop over the sessions goes on, or is over.
NextSession(k) ==
  LET left == k.todo \ {k.session} IN
  IF left = {} THEN Idle ELSE [pc |-> "queue", todo |-> left, session |-> None]

\* First transaction: grants beyond their grace become EXPIRED.
ExpireGrants(r) ==
  /\ At(r, "idle")
  /\ grant' = [s \in Sessions |-> IF grant[s] = "lapsed" THEN "EXPIRED" ELSE grant[s]]
  /\ Become(r, [Idle EXCEPT !.pc = "select"])
  /\ UNCHANGED <<session, binding, seen, moved, fabric>>

Closable == {s \in Sessions : session[s] = "ACTIVE" /\ ~Granted(s)}

Select(r) ==
  /\ At(r, "select")
  /\ Become(r, IF Closable = {} THEN Idle ELSE [Idle EXCEPT !.pc = "queue", !.todo = Closable])
  /\ UNCHANGED <<grant, session, binding, seen, moved, fabric>>

\* What NetworkCommandService.queue does with a request under the correlation of
\* this session.
QueueOutcome(s, request) ==
  IF binding[s].id = None THEN "inserted"
  ELSE IF binding[s].request = request /\ s \notin moved THEN "reused"
  ELSE "conflict"

\* Mutant: the row keeps no request.
BoundToNothing(c, request) == [id |-> c, request |-> "ACCESS_RECONCILIATION"]
Bound(c, request) == [id |-> c, request |-> request]

\* The disconnection is queued; the row of an earlier run is used again.
Queue(r) ==
  /\ At(r, "queue")
  /\ \E s \in run[r].todo :
       /\ \/ /\ QueueOutcome(s, "ACCESS_GRANT_EXPIRED_OR_MISSING") = "inserted"
             /\ \E c \in Commands \ Fabric!Used :
                  /\ Fabric!Insert({c}, "DISCONNECT_SESSION", [d \in {c} |-> s])
                  /\ binding' = [binding EXCEPT
                                   ![s] = Bound(c, "ACCESS_GRANT_EXPIRED_OR_MISSING")]
          \/ /\ QueueOutcome(s, "ACCESS_GRANT_EXPIRED_OR_MISSING") = "reused"
             /\ UNCHANGED <<row, binding>>
       /\ Become(r, [run[r] EXCEPT !.pc = "disconnect", !.session = s])
  /\ UNCHANGED <<grant, session, seen, moved, actor, router, budget>>

\* The call is outside the try: a conflict ends the run, whatever is left.
QueueConflicts(r) ==
  /\ At(r, "queue")
  /\ \E s \in run[r].todo :
       QueueOutcome(s, "ACCESS_GRANT_EXPIRED_OR_MISSING") = "conflict"
  /\ Become(r, Idle)
  /\ UNCHANGED <<grant, session, binding, seen, moved, fabric>>

\* disconnectClient queues its own request under the same correlation and is
\* refused (theorem DisconnectIsRefused).  A router that is not managed, and
\* credentials that cannot be read, lead to the same two statements.
Disconnect(r) ==
  /\ At(r, "disconnect")
  /\ QueueOutcome(run[r].session, "ACCESS_RECONCILIATION") = "conflict"
  /\ Become(r, [run[r] EXCEPT !.pc = "failed"])
  /\ UNCHANGED <<grant, session, binding, seen, moved, fabric>>

\* The handler: the command is FAILED unless a worker was faster.
Abandon(c) == Fabric!Update({c}, Fabric!Failed)

FailCommand(r) ==
  /\ At(r, "failed")
  /\ Abandon(binding[run[r].session].id)
  /\ Become(r, [run[r] EXCEPT !.pc = "stale"])
  /\ UNCHANGED <<grant, session, binding, seen, moved, actor, router, budget>>

\* Mutant: a session is STALE whatever its status was.
StaledAlways(status) == "STALE"
Staled(status) == IF status = "ACTIVE" THEN "STALE" ELSE status

\* markSessionStale.
MarkStale(r) ==
  /\ At(r, "stale")
  /\ session' = [session EXCEPT ![run[r].session] = Staled(@)]
  /\ Become(r, NextSession(run[r]))
  /\ UNCHANGED <<grant, binding, seen, moved, fabric>>

\* A statement outside the try fails, or the process dies.
RunAborts(r) ==
  /\ run[r].pc \notin {"idle"}
  /\ Fabric!Disturb("abort")
  /\ Become(r, Idle)
  /\ UNCHANGED <<grant, session, binding, seen, moved, row, actor, router>>

------------------------
(* The traffic collector: one process reads the router's clients, then works them off one by one. *)

Poll ==
  /\ seen = {}
  /\ seen' = {s \in Sessions : grant[s] # "guest" /\ online[s] /\ session[s] \in {"ACTIVE", "STALE"}}
  /\ UNCHANGED <<grant, session, binding, run, moved, fabric>>

\* restoreSessionIfEntitled: a purchase that has not ended (no grace here) and a
\* session that is still STALE.
\* Mutant: only a session in grace counts.
RestorableInGrace(s) == session[s] = "STALE" /\ grant[s] = "grace"
Restorable(s) == session[s] = "STALE" /\ grant[s] = "valid"

Collect(s) ==
  /\ s \in seen
  /\ seen' = seen \ {s}
  /\ session' = [session EXCEPT ![s] = IF Restorable(s) THEN "ACTIVE" ELSE @]
  /\ UNCHANGED <<grant, binding, run, moved, fabric>>

------------------------
(* The command fabric at work. *)

\* The router's management protocol is changed: rows name the old one.  A run
\* reads the protocol with its sessions and compares it later; a change in
\* between is left out.
Reprovision ==
  /\ \A r \in Reconcilers : At(r, "idle") \/ At(r, "select")
  /\ Fabric!Disturb("reprovision")
  /\ moved' = {s \in Sessions : binding[s].id # None}
  /\ UNCHANGED <<grant, session, binding, run, seen, row, actor, router>>

\* A worker refuses a row whose provider is not the router's protocol.
Refused(c) == row[c].session \in moved

Work(w) ==
  /\ Fabric!WorkerStep(w)
  /\ Fabric!At(w, "load") => \A c \in actor'[w].batch : ~Refused(c)
  /\ UNCHANGED access

Refuse(w) ==
  /\ Fabric!At(w, "load")
  /\ \E c \in actor[w].jobs :
       /\ Refused(c)
       /\ Fabric!Goto(w, Fabric!Enter([actor[w] EXCEPT !.jobs = @ \ {c}, !.batch = {c}], "caught"))
  /\ UNCHANGED <<access, row, router, budget>>

Disturbance ==
  /\ \/ \E w \in Workers : Fabric!LoadFails(w) \/ Fabric!Failure(w)
     \/ \E c \in Commands : Fabric!Retry(c)
     \/ \E s \in Sessions : Fabric!Roam(s)
  /\ UNCHANGED access

Lease(c) == Fabric!LeaseExpires(c) /\ UNCHANGED access

------------------------
Reconcile(r) ==
  \/ ExpireGrants(r) \/ Select(r) \/ Queue(r) \/ QueueConflicts(r)
  \/ Disconnect(r) \/ FailCommand(r) \/ MarkStale(r)

Next ==
  \/ \E s \in Sessions : Age(s) \/ Renew(s) \/ Start(s) \/ End(s) \/ Collect(s)
  \/ \E r \in Reconcilers : Reconcile(r) \/ RunAborts(r)
  \/ ReconcileStale \/ Poll \/ Reprovision
  \/ \E w \in Workers : Work(w) \/ Refuse(w)
  \/ \E c \in Commands : Lease(c)
  \/ Disturbance

Spec == Init /\ [][Next]_vars

\* The timers of the maintenance worker, the collector and the command worker
\* fire, and their statements and requests return; leases run out.
Fairness ==
  /\ \A r \in Reconcilers : WF_vars(Reconcile(r))
  /\ WF_vars(Poll)
  /\ \A s \in Sessions : WF_vars(Collect(s))
  /\ \A w \in Workers : WF_vars(Work(w) \/ Refuse(w))
  /\ \A c \in Commands : WF_vars(Lease(c))

FairSpec == Spec /\ Fairness

------------------------
(* Properties. *)

\* When a run calls disconnectClient, the command of the session is bound to
\* another request, whatever the other runs and workers did in between: the call
\* is refused, so the branches of reconcileAccessState after it (the session
\* ENDED, or RETAINED for a customer who renewed) are never reached.
DisconnectAlwaysRefused ==
  \A r \in Reconcilers :
    At(r, "disconnect") => QueueOutcome(run[r].session, "ACCESS_RECONCILIATION") = "conflict"

\* A session that was ENDED stays ENDED: a run that selected it while it was
\* ACTIVE and the collector that saw its client both come late.
EndedIsFinal ==
  [][\A s \in Sessions : session[s] = "ENDED" => session'[s] = "ENDED"]_vars

\* A session is made STALE by a run only after its disconnection was carried out,
\* failed or was retried by an operator: no command waits in the queue to put the
\* customer off when the plan has been renewed.
StaleIsSettled ==
  [][\A r \in Reconcilers :
       MarkStale(r) => row[binding[run[r].session].id].status # "QUEUED"]_vars

\* A customer who paid and is seen on the network gets a STALE session back.
PaidIsRestored ==
  \A s \in Sessions :
    (session[s] = "STALE" /\ grant[s] = "valid" /\ online[s]) ~>
      (session[s] # "STALE" \/ grant[s] # "valid" \/ ~online[s])

\* A session without a grant does not stay ACTIVE: some run notices it, unless a
\* router that changed its protocol stops every run.
LapseIsNoticed ==
  \A s \in Sessions :
    (session[s] = "ACTIVE" /\ ~Granted(s)) ~>
      (session[s] # "ACTIVE" \/ Granted(s) \/ moved # {})

\* A session comes to what its grant says: lapsed ones are noticed, paid ones are
\* restored, and none is made STALE while its disconnection still waits to be carried out.
SessionsSettle == StaleIsSettled /\ PaidIsRestored /\ LapseIsNoticed
====
