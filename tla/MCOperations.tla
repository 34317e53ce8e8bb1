---- MODULE MCOperations ----
(* Incidents, the public status page, field jobs, service expiry and workflows share no state: one
   of them is awake in each behaviour, and the others stay as they began. *)
EXTENDS Incidents, FieldJobs, ServiceExpiry, Workflows

VARIABLE turn

vars == <<turn, incidentVars, statusVars, fieldVars, serviceVars, wfVars>>

OneCustomer == [b \in Bindings |-> CHOOSE c \in Customers : TRUE]
ThePrograms == {<<"LOG", "APPROVAL", "EFFECT">>, <<"BRANCH", "WAIT", "CONDITION", "HTTP">>}

Init ==
  /\ turn \in {"incidents", "status", "jobs", "expiry", "workflows"}
  /\ IncidentInit /\ StatusInit /\ FieldInit /\ ServiceInit /\ WorkflowInit
  /\ turn # "expiry" => /\ \A b \in Bindings : binding[b].expires = Never
                        /\ \A c \in Customers : phone[c] = "kept"
  /\ turn # "workflows" => integration.idempotent /\ Len(versions[1]) = 3

Next ==
  \/ turn = "incidents" /\ IncidentNext /\ UNCHANGED <<turn, statusVars, fieldVars, serviceVars, wfVars>>
  \/ turn = "status" /\ StatusNext /\ UNCHANGED <<turn, incidentVars, fieldVars, serviceVars, wfVars>>
  \/ turn = "jobs" /\ FieldNext /\ UNCHANGED <<turn, incidentVars, statusVars, serviceVars, wfVars>>
  \/ turn = "expiry" /\ ServiceNext /\ UNCHANGED <<turn, incidentVars, statusVars, fieldVars, wfVars>>
  \/ turn = "workflows" /\ RunsNext /\ UNCHANGED <<turn, incidentVars, statusVars, fieldVars, serviceVars>>

(* Of incidents: the handlers finish, the timers fire, a router that is there keeps beating and an
   enabled monitor is checked. Of field jobs: the page's effects and requests, and a technician who
   does press the button when something stays queued. Of expiry: the minute's run. Of workflows:
   the worker ticks, delays pass and locks grow old. Their authors are in MCRecords. *)
Fairness ==
  /\ \A r \in Routers : /\ WF_incidentVars(turn = "incidents" /\ SyncMarked(r))
                        /\ WF_incidentVars(turn = "incidents" /\ ResolveRouter(r))
                        /\ WF_incidentVars(turn = "incidents" /\ r \notin silent /\ Heartbeat(r, "ONLINE"))
  /\ \A m \in Monitors : /\ WF_incidentVars(turn = "incidents" /\ Correlate(m))
                         /\ WF_incidentVars(turn = "incidents" /\ \E s \in {"PASS", "FAIL"} : Check(m, s))
  /\ WF_incidentVars(turn = "incidents" /\ \E k \in telling : Tell(k))
  /\ WF_incidentVars(turn = "incidents" /\ MarkOffline)
  /\ \A d \in Devices : /\ WF_fieldVars(turn = "jobs" /\ PageStep(d))
                        /\ WF_fieldVars(turn = "jobs" /\ Connect(d))
                        /\ WF_fieldVars(turn = "jobs" /\ PressSync(d))
  /\ WF_serviceVars(turn = "expiry" /\ RunStep)
  /\ WF_serviceVars(turn = "expiry" /\ RemindCustomers)
  /\ \A p \in WfWorkers : WF_wfVars(turn = "workflows" /\ WorkerStep(p))
  /\ \A r \in WfRuns : /\ WF_wfVars(turn = "workflows" /\ ComesDueRun(r))
                       /\ WF_wfVars(turn = "workflows" /\ LockAges(r) /\ r \notin Held)

Spec == Init /\ [][Next]_vars /\ Fairness

\* No handler, worker or device leaves a row, a queue or a position outside its type.
OperationsTypeOK == IncidentTypeOK /\ StatusTypeOK /\ FieldTypeOK /\ ServiceTypeOK

\* What the operators are told of the network is so: an offline router has its
\* incident unless a fault came between, every level and every resolution that was
\* committed is announced unless a fault came between, nothing is announced that did
\* not happen, and the public page neither hides a lasting trouble nor makes one up.
IncidentsAreKnown == StatusPageIsTrue /\ OnlyAFaultLosesAnnouncement /\ OfflineIsKnown /\ EventsAreTrue

\* What a technician did while offline reaches the job once and in the order it was
\* done, however often a batch is sent again and whatever the office changes.
SyncIsExact == OperationsTypeOK /\ ExactlyOnce /\ OrderIsKept

\* A suspension is of somebody who was due when the run locked the row, ends the
\* history of the service state, and the first one of a customer who could be told all
\* along is announced unless a fault came between (later ones are silent: one key).
ExpiryIsRecorded == [](HistoryEndsInState /\ FirstExpiryIsTold) /\ SuspendedWasDue

\* With the timers running and finitely many faults, monitors' incidents are announced,
\* outages end, the device's queue drains, expiries are carried out and runs settle.
OperationsSettle ==
  SyntheticIsAnnounced /\ OutageEnds /\ QueueDrains /\ ExpiryEnds /\ RunsSettle
====
