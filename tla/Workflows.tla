---- MODULE Workflows ----
(* User-defined workflows: one workflow with its versions, the runs triggers and operators start,
   and the workers that execute them step by step. A run keeps the steps of the version it was
   started with; where it stands is written at a WAIT, at an APPROVAL and at the end, its payload
   after every step, so that a retry repeats the steps since the last of those points with the
   payload they left. *)
EXTENDS Integers, Sequences, FiniteSets

CONSTANTS
  WfRuns,        \* runs, one for each idempotency key that is ever used
  WfWorkers,     \* API processes, each with a worker
  Programs,      \* step sequences an author may save
  ClaimLimit,    \* rows of one claim (25 in the code)
  MaxAttempts,   \* attempts of a run (8 in the code)
  MaxSteps,      \* steps of a definition (30 in the code)
  MaxVersions,   \* bound: versions of the workflow
  MaxWfFaults,   \* bound: failed steps and crashes
  MaxSlow,       \* bound: times a living worker takes more than ten minutes
  NoRun

(* BRANCH is a CONDITION whose onFalse is SKIP, with skipSteps 1; EFFECT is NOTIFY or CREATE_ALERT,
   EMIT is EMIT_WEBHOOK, HTTP an HTTP_REQUEST that writes. *)
Effects == {"EFFECT", "EMIT", "HTTP"}
StepTypes == {"CONDITION", "BRANCH", "TRANSFORM", "APPROVAL", "WAIT", "LOG"} \cup Effects
ValidSteps(program) == program \in Seq(StepTypes) /\ Len(program) \in 1 .. MaxSteps

ASSUME WorkflowsAssumption ==
  /\ \A program \in Programs : ValidSteps(program)
  /\ ClaimLimit \in Nat \ {0} /\ MaxAttempts \in Nat \ {0} /\ NoRun \notin WfRuns
  /\ MaxSteps \in Nat /\ MaxVersions \in Nat \ {0} /\ MaxWfFaults \in Nat /\ MaxSlow \in Nat

VARIABLES
  wfEnabled,    \* automation_workflows.enabled
  versions,   \* automation_workflow_versions; the last is the current definition
  row,        \* automation_workflow_runs
  approval,   \* automation_workflow_approvals of each run and step
  performed,  \* how often each step of each run has had its effect
  integration, \* automation_integrations: enabled, and whether it supports idempotency
  worker,     \* what each worker holds
  replays,    \* which run a run repeats
  overtaken,  \* runs claimed while a living worker was at them
  hasty,      \* runs whose approval was decided before they waited for it
  rewound,    \* runs claimed with a payload that steps behind the one they resume at have written
  unheard,    \* runs a write to which was committed and its answer lost
  wfFaults, slow

wfVars == <<wfEnabled, versions, row, approval, performed, integration, worker, replays, overtaken, hasty, rewound, unheard,
           wfFaults, slow>>
wfOutside == <<wfEnabled, versions, replays, integration>>
wfGhosts == <<overtaken, hasty, rewound, unheard, wfFaults, slow>>

StepNumbers == 1 .. MaxSteps
Payloads == {"met", "unmet"}  \* what a CONDITION of the workflow would say
Final == {"SUCCEEDED", "FAILED", "CANCELLED"}
NoRow == [status |-> "none"]
RunRows == [status : {"QUEUED", "RUNNING", "WAITING_APPROVAL"} \cup Final, steps : Programs, version : 1 .. MaxVersions,
         step : Nat, payload : Payloads, trigger : Payloads, fresh : BOOLEAN, attempts : Nat,
         later : BOOLEAN, old : BOOLEAN]
Copies == [run : WfRuns, step : Nat, payload : Payloads, attempts : Nat]
NoJob == [run |-> NoRun]
WorkerStates == [at : {"idle", "next", "begin", "step", "saved", "park", "threw"}, job : {NoJob} \cup Copies, rest : SUBSET Copies]
IdleWorker == [at |-> "idle", job |-> NoJob, rest |-> {}]

Started == {r \in WfRuns : row[r] # NoRow}
Held == UNION {{worker[p].job.run} \cup {c.run : c \in worker[p].rest} : p \in WfWorkers}

WorkflowTypeOK ==
  /\ wfEnabled \in BOOLEAN /\ versions \in Seq(Programs) /\ Len(versions) \in 1 .. MaxVersions
  /\ row \in [WfRuns -> {NoRow} \cup RunRows]
  /\ \A r \in Started : row[r].step \in 1 .. Len(row[r].steps) + 2
  /\ approval \in [WfRuns -> [StepNumbers -> {"none", "PENDING", "APPROVED", "REJECTED"}]]
  /\ performed \in [WfRuns -> [StepNumbers -> Nat]] /\ integration \in [on : BOOLEAN, idempotent : BOOLEAN]
  /\ worker \in [WfWorkers -> WorkerStates]
  /\ replays \in [WfRuns -> WfRuns \cup {NoRun}]
  /\ overtaken \subseteq WfRuns /\ hasty \subseteq WfRuns /\ rewound \subseteq WfRuns /\ unheard \subseteq WfRuns
  /\ wfFaults \in 0 .. MaxWfFaults /\ slow \in 0 .. MaxSlow

WorkflowInit ==
  /\ wfEnabled = TRUE /\ versions \in {<<program>> : program \in Programs}
  /\ row = [r \in WfRuns |-> NoRow] /\ approval = [r \in WfRuns |-> [i \in StepNumbers |-> "none"]]
  /\ performed = [r \in WfRuns |-> [i \in StepNumbers |-> 0]] /\ integration \in [on : {TRUE}, idempotent : BOOLEAN]
  /\ worker = [p \in WfWorkers |-> IdleWorker] /\ replays = [r \in WfRuns |-> NoRun]
  /\ overtaken = {} /\ hasty = {} /\ rewound = {} /\ unheard = {} /\ wfFaults = 0 /\ slow = 0

------------------------
(* Authors and operators. *)

SetIntegrationEnabled ==
  /\ integration' = [integration EXCEPT !.on = ~@]
  /\ UNCHANGED <<wfEnabled, versions, row, approval, performed, worker, replays, wfGhosts>>

SetWfEnabled ==
  /\ wfEnabled' = ~wfEnabled
  /\ UNCHANGED <<versions, row, approval, performed, integration, worker, replays, wfGhosts>>

\* Mutant: the definition is changed in place.
UpdateInPlace ==
  /\ \E program \in Programs : versions' = [versions EXCEPT ![Len(versions)] = program]
  /\ UNCHANGED <<wfEnabled, row, approval, performed, integration, worker, replays, wfGhosts>>
UpdateDefinition ==
  /\ Len(versions) < MaxVersions /\ \E program \in Programs : versions' = Append(versions, program)
  /\ UNCHANGED <<wfEnabled, row, approval, performed, integration, worker, replays, wfGhosts>>

(* enqueue: one statement takes version and steps as they are now; a key that has a run already gets
   that run. *)
Enqueue(r, payload) ==
  /\ r \notin Started
  /\ row' = [row EXCEPT ![r] =
       [status |-> "QUEUED", steps |-> versions[Len(versions)], version |-> Len(versions), step |-> 1,
        payload |-> payload, trigger |-> payload, fresh |-> TRUE, attempts |-> 0, later |-> FALSE, old |-> FALSE]]

Trigger(r, payload) ==
  /\ wfEnabled /\ Enqueue(r, payload)
  /\ UNCHANGED <<wfEnabled, versions, approval, performed, integration, worker, replays, wfGhosts>>

ReplayRun(r, new) ==
  /\ r \in Started /\ wfEnabled /\ row[r].status = "FAILED" /\ row[r].step = 1
  /\ row[r].steps[1] \in {"CONDITION", "BRANCH", "TRANSFORM", "LOG"}
  /\ Enqueue(new, row[r].trigger) /\ replays' = [replays EXCEPT ![new] = r]
  /\ UNCHANGED <<wfEnabled, versions, approval, performed, integration, worker, wfGhosts>>

CancelRun(r) ==
  /\ r \in Started /\ row[r].status \in {"QUEUED", "WAITING_APPROVAL"}
  /\ row' = [row EXCEPT ![r].status = "CANCELLED"]
  /\ UNCHANGED <<wfEnabled, versions, approval, performed, integration, worker, replays, wfGhosts>>

(* The decision and the run it releases, if it waits, in one transaction. *)
DecideApproval(r, i, decision) ==
  /\ approval[r][i] = "PENDING" /\ approval' = [approval EXCEPT ![r][i] = decision]
  /\ row' = IF row[r].status # "WAITING_APPROVAL" THEN row
            ELSE IF decision = "APPROVED"
              THEN [row EXCEPT ![r] = [@ EXCEPT !.status = "QUEUED", !.step = row[r].step + 1, !.later = FALSE]]
              ELSE [row EXCEPT ![r].status = "CANCELLED"]
  /\ hasty' = IF row[r].status = "RUNNING" THEN hasty \cup {r} ELSE hasty
  /\ UNCHANGED <<wfEnabled, versions, performed, integration, worker, replays, overtaken, rewound, unheard, wfFaults, slow>>

------------------------
(* Time: a delay passes; a lock becomes ten minutes old, because its holder died or because the rows
   before it in the batch took that long. *)

ComesDueRun(r) ==
  /\ r \in Started /\ row[r].later /\ row' = [row EXCEPT ![r].later = FALSE]
  /\ UNCHANGED <<wfEnabled, versions, approval, performed, integration, worker, replays, wfGhosts>>

LockAges(r) ==
  /\ r \in Started /\ row[r].status = "RUNNING" /\ ~row[r].old
  /\ slow' = IF r \in Held THEN slow + 1 ELSE slow
  /\ slow' <= MaxSlow
  /\ row' = [row EXCEPT ![r].old = TRUE]
  /\ UNCHANGED <<wfEnabled, versions, approval, performed, integration, worker, replays, overtaken, hasty, rewound, unheard, wfFaults>>

------------------------
(* The worker. *)

Claimable(r) ==
  \/ row[r].status = "QUEUED" /\ ~row[r].later
  \/ row[r].status = "RUNNING" /\ row[r].old /\ row[r].attempts < MaxAttempts

Claim(p) ==
  /\ worker[p].at = "idle"
  /\ LET due == {r \in Started : Claimable(r)} IN
     \E rs \in SUBSET due :
       /\ rs # {} /\ (rs = due \/ Cardinality(rs) = ClaimLimit) /\ Cardinality(rs) <= ClaimLimit
       /\ row' = [r \in WfRuns |-> IF r \notin rs THEN row[r]
                    ELSE [row[r] EXCEPT !.status = "RUNNING", !.attempts = @ + 1, !.old = FALSE]]
       /\ worker' = [worker EXCEPT ![p] = [at |-> "next", job |-> NoJob, rest |->
            {[run |-> r, step |-> row[r].step, payload |-> row[r].payload, attempts |-> row[r].attempts + 1] : r \in rs}]]
       /\ overtaken' = overtaken \cup (rs \cap Held)
       /\ rewound' = rewound \cup {r \in rs : ~row[r].fresh}
  /\ UNCHANGED <<wfEnabled, versions, approval, performed, integration, replays, hasty, unheard, wfFaults, slow>>

NextOfBatch(p) ==
  /\ worker[p].at = "next"
  /\ worker' = IF worker[p].rest = {} THEN [worker EXCEPT ![p] = IdleWorker]
               ELSE [worker EXCEPT ![p] = LET c == CHOOSE c \in @.rest : TRUE IN
                                            [at |-> "begin", job |-> c, rest |-> @.rest \ {c}]]
  /\ UNCHANGED <<wfOutside, row, approval, performed, wfGhosts>>

Job(p) == worker[p].job
Steps(p) == row[Job(p).run].steps
Hold(p, at, job) == worker' = [worker EXCEPT ![p] = [at |-> at, job |-> job, rest |-> @.rest]]
Goes(p, at) == Hold(p, at, Job(p))
Leave(p) == worker' = [worker EXCEPT ![p] = [at |-> "next", job |-> NoJob, rest |-> @.rest]]

(* Every write to the run that ends or parks it names the run alone: neither its status nor its
   holder. A position is written with the payload of that place. *)
Put(p, new) == row' = [row EXCEPT ![Job(p).run] = new]
RowOf(p) == row[Job(p).run]
EndRow(p, status) == Put(p, [RowOf(p) EXCEPT !.status = status, !.step = Job(p).step])
\* Mutant: the run is parked behind its approval.
ParkBehind(p) ==
  Put(p, [RowOf(p) EXCEPT !.status = "WAITING_APPROVAL", !.step = Job(p).step + 1,
                          !.payload = Job(p).payload, !.fresh = TRUE])
ParkRow(p) == Put(p, [RowOf(p) EXCEPT !.status = "WAITING_APPROVAL", !.step = Job(p).step,
                                      !.payload = Job(p).payload, !.fresh = TRUE])
WaitRow(p) == Put(p, [RowOf(p) EXCEPT !.status = "QUEUED", !.later = TRUE, !.step = Job(p).step + 1,
                                      !.payload = Job(p).payload, !.fresh = TRUE])

(* The payload after a step, as long as the run is RUNNING. *)
Changing == {"TRANSFORM", "HTTP"}
SaveRow(p) ==
  IF RowOf(p).status # "RUNNING" THEN UNCHANGED row
  ELSE Put(p, [RowOf(p) EXCEPT !.payload = Job(p).payload, !.fresh = @ /\ Steps(p)[Job(p).step] \notin Changing])

EndRun(p, status) == Leave(p) /\ EndRow(p, status)

Begin(p) ==
  /\ worker[p].at = "begin"
  /\ IF wfEnabled THEN Goes(p, "step") /\ UNCHANGED row ELSE EndRun(p, "CANCELLED")
  /\ UNCHANGED <<wfOutside, approval, performed, wfGhosts>>

AtStep(p, type) ==
  /\ worker[p].at = "step" /\ Job(p).step <= Len(Steps(p)) /\ Steps(p)[Job(p).step] = type

Log(p) ==
  /\ AtStep(p, "LOG") /\ Goes(p, "saved")
  /\ UNCHANGED <<wfOutside, row, approval, performed, wfGhosts>>

(* Fields are copied; doing it again need not give what it gave. *)
Transform(p) ==
  /\ AtStep(p, "TRANSFORM") /\ \E v \in Payloads : Hold(p, "saved", [Job(p) EXCEPT !.payload = v])
  /\ UNCHANGED <<wfOutside, row, approval, performed, wfGhosts>>

(* onFalse STOP: the run has succeeded. *)
Condition(p) ==
  /\ AtStep(p, "CONDITION") \/ AtStep(p, "BRANCH")
  /\ \/ Job(p).payload = "met" /\ Goes(p, "saved")
     \/ Job(p).payload # "met" /\ AtStep(p, "BRANCH") /\ Hold(p, "saved", [Job(p) EXCEPT !.step = @ + 1])
     \/ Job(p).payload # "met" /\ AtStep(p, "CONDITION") /\ Hold(p, "step", [Job(p) EXCEPT !.step = Len(Steps(p)) + 1])
  /\ UNCHANGED <<wfOutside, row, approval, performed, wfGhosts>>

Did(p) == performed[Job(p).run][Job(p).step]
Do(p, times) == performed' = [performed EXCEPT ![Job(p).run][Job(p).step] = times]

(* NOTIFY and CREATE_ALERT: the row is keyed by run and step. *)
Notifies(p) == AtStep(p, "EFFECT") /\ Do(p, 1)

(* emitWebhook: one delivery for each endpoint, in the transaction that leaves the receipt of the
   step. *)
Emits(p) == AtStep(p, "EMIT") /\ Do(p, IF Did(p) = 0 THEN 1 ELSE Did(p))

(* executeIntegrationRequest: a write goes to an enabled integration that recognizes the key of run
   and step when it sees it again, or not at all. *)
MayRequest == integration.on /\ integration.idempotent
SendsHttp(p) == AtStep(p, "HTTP") /\ MayRequest /\ Do(p, IF integration.idempotent THEN 1 ELSE Did(p) + 1)

Effect(p) ==
  /\ Notifies(p) /\ Goes(p, "saved")
  /\ UNCHANGED <<wfOutside, row, approval, wfGhosts>>
EmitWebhook(p) ==
  /\ Emits(p) /\ Goes(p, "saved")
  /\ UNCHANGED <<wfOutside, row, approval, wfGhosts>>

(* The response is written into the payload. *)
HttpRequest(p) ==
  /\ SendsHttp(p) /\ \E v \in Payloads : Hold(p, "saved", [Job(p) EXCEPT !.payload = v])
  /\ UNCHANGED <<wfOutside, row, approval, wfGhosts>>

Asked(r, i) == IF approval[r][i] = "none" THEN "PENDING" ELSE approval[r][i]
Asks(p) ==
  /\ AtStep(p, "APPROVAL")
  /\ approval' = [approval EXCEPT ![Job(p).run][Job(p).step] = Asked(Job(p).run, Job(p).step)]

Approval(p) ==
  /\ Asks(p)
  /\ LET a == Asked(Job(p).run, Job(p).step) IN
       \/ a = "REJECTED" /\ EndRun(p, "CANCELLED")
       \/ a = "PENDING"  /\ Goes(p, "park") /\ UNCHANGED row
       \/ a = "APPROVED" /\ Goes(p, "saved") /\ UNCHANGED row
  /\ UNCHANGED <<wfOutside, performed, wfGhosts>>

Park(p) ==
  /\ worker[p].at = "park" /\ Leave(p) /\ ParkRow(p)
  /\ UNCHANGED <<wfOutside, approval, performed, wfGhosts>>

Wait(p) ==
  /\ AtStep(p, "WAIT") /\ Leave(p) /\ WaitRow(p)
  /\ UNCHANGED <<wfOutside, approval, performed, wfGhosts>>

SavePayload(p) ==
  /\ worker[p].at = "saved" /\ Hold(p, "step", [Job(p) EXCEPT !.step = @ + 1]) /\ SaveRow(p)
  /\ UNCHANGED <<wfOutside, approval, performed, wfGhosts>>

Through(p) == worker[p].at = "step" /\ Job(p).step > Len(Steps(p))
Finish(p) ==
  /\ Through(p) /\ EndRun(p, "SUCCEEDED")
  /\ UNCHANGED <<wfOutside, approval, performed, wfGhosts>>

(* What a step may have committed when it throws, because the answer was lost. *)
Lost(p) ==
  \/ (Notifies(p) \/ Emits(p) \/ SendsHttp(p)) /\ UNCHANGED <<row, approval, unheard>>
  \/ Asks(p) /\ UNCHANGED <<row, performed, unheard>>
  \/ /\ \/ worker[p].at = "begin" /\ ~wfEnabled /\ EndRow(p, "CANCELLED")
        \/ AtStep(p, "APPROVAL") /\ approval[Job(p).run][Job(p).step] = "REJECTED" /\ EndRow(p, "CANCELLED")
        \/ worker[p].at = "park" /\ ParkRow(p)
        \/ AtStep(p, "WAIT") /\ WaitRow(p)
        \/ worker[p].at = "saved" /\ SaveRow(p)
        \/ Through(p) /\ EndRow(p, "SUCCEEDED")
     /\ unheard' = unheard \cup {Job(p).run} /\ UNCHANGED <<approval, performed>>

StepFails(p) ==
  /\ worker[p].at \in {"begin", "step", "saved", "park"} /\ wfFaults < MaxWfFaults /\ wfFaults' = wfFaults + 1
  /\ Goes(p, "threw")
  /\ Lost(p) \/ UNCHANGED <<row, approval, performed, unheard>>
  /\ UNCHANGED <<wfOutside, overtaken, hasty, rewound, slow>>

(* A write the integration is not fit for throws, whenever it is tried. *)
RefuseRequest(p) ==
  /\ AtStep(p, "HTTP") /\ ~MayRequest /\ Goes(p, "threw")
  /\ UNCHANGED <<wfOutside, row, approval, performed, wfGhosts>>

(* The run is queued again at the position written last, or FAILED. *)
Catch(p) ==
  /\ worker[p].at = "threw" /\ Leave(p)
  /\ Put(p, IF Job(p).attempts >= MaxAttempts THEN [RowOf(p) EXCEPT !.status = "FAILED"]
            ELSE [RowOf(p) EXCEPT !.status = "QUEUED", !.later = TRUE])
  /\ UNCHANGED <<wfOutside, approval, performed, wfGhosts>>

(* The process ends, or a statement outside the inner try fails: the rest of the batch stays
   RUNNING. *)
CrashWorker(p) ==
  /\ worker[p].at # "idle" /\ wfFaults < MaxWfFaults /\ wfFaults' = wfFaults + 1
  /\ worker' = [worker EXCEPT ![p] = IdleWorker]
  /\ UNCHANGED <<wfOutside, row, approval, performed, overtaken, hasty, rewound, unheard, slow>>

WorkerStep(p) ==
  \/ Claim(p) \/ NextOfBatch(p) \/ Begin(p) \/ Log(p) \/ Transform(p) \/ Condition(p) \/ Effect(p)
  \/ EmitWebhook(p) \/ HttpRequest(p) \/ RefuseRequest(p) \/ Approval(p) \/ Park(p) \/ Wait(p) \/ SavePayload(p)
  \/ Finish(p) \/ Catch(p)

RunNext(r) ==
  \/ CancelRun(r) \/ ComesDueRun(r) \/ LockAges(r)
  \/ \E payload \in Payloads : Trigger(r, payload)
  \/ \E i \in StepNumbers, decision \in {"APPROVED", "REJECTED"} : DecideApproval(r, i, decision)

WorkerNext(p) == WorkerStep(p) \/ StepFails(p) \/ CrashWorker(p)

AuthorNext == SetIntegrationEnabled \/ UpdateDefinition \/ \E r, new \in WfRuns : ReplayRun(r, new)

RunsNext == (\E r \in WfRuns : RunNext(r)) \/ \E p \in WfWorkers : WorkerNext(p)

WorkflowNext == SetWfEnabled \/ AuthorNext \/ RunsNext

WorkflowSpec == WorkflowInit /\ [][WorkflowNext]_wfVars

(* The worker ticks every five seconds; delays and locks run out by themselves. *)
WorkflowFairness ==
  /\ \A p \in WfWorkers : WF_wfVars(WorkerStep(p))
  /\ \A r \in WfRuns : WF_wfVars(ComesDueRun(r)) /\ WF_wfVars(LockAges(r) /\ r \notin Held)

------------------------
(* Properties. *)

(* What a run is meant to do: the effects among the steps of one way through its definition, from
   the payload it was triggered with, every approval granted, whatever a TRANSFORM or a response made
   of the payload. *)
Ahead(steps, i, v, from) ==
  IF i > Len(steps) THEN {{}}
  ELSE {{i} \cup way : way \in
    CASE steps[i] \in Changing -> UNION {from[i + 1][u] : u \in Payloads}
      [] steps[i] = "CONDITION" -> IF v = "met" THEN from[i + 1][v] ELSE {{}}
      [] steps[i] = "BRANCH" -> from[IF v = "met" THEN i + 1 ELSE i + 2][v]
      [] OTHER -> from[i + 1][v]}
Walks(steps) ==
  LET from[i \in 1 .. Len(steps) + 2] == [v \in Payloads |-> Ahead(steps, i, v, from)] IN from
Meant(steps, payload) == {{i \in way : steps[i] \in Effects} : way \in Walks(steps)[1][payload]}

EffectsOf(r) == {i \in StepNumbers : performed[r][i] > 0}

(* No retry took up a payload that steps it repeats had changed, and no living worker was overtaken;
   or no step changes the payload. *)
OnOneWay(r) == r \notin rewound \cup overtaken \/ \A i \in DOMAIN row[r].steps : row[r].steps[i] \notin Changing

(* A run that succeeded has done what its version says, no more and no less, after any crash, retry
   or takeover, as long as it stays on one way through it: a retry that repeats a TRANSFORM on its
   own result, or reads another response, may decide a condition the other way. *)
SucceededAsWritten ==
  \A r \in Started : row[r].status = "SUCCEEDED" /\ OnOneWay(r) => EffectsOf(r) \in Meant(row[r].steps, row[r].trigger)

(* Whatever is repeated, no effect of a step happens twice. *)
EffectsOnce == \A r \in WfRuns, i \in StepNumbers : performed[r][i] <= 1

(* Nothing behind an approval happens before it is granted, whoever executes the run, and however
   often, unless a branch goes around the approval: as long as the run stays on one way. On two of
   them, the decision of an approval the other way has asked for releases the run from the one it
   waits at. *)
GateHolds ==
  \A r \in Started : \A i \in DOMAIN row[r].steps :
    OnOneWay(r) /\ row[r].steps[i] = "APPROVAL" /\ (\E k \in EffectsOf(r) : k > i) =>
      approval[r][i] = "APPROVED" \/ (i > 1 /\ row[r].steps[i - 1] = "BRANCH")

(* A run executes the definition its version number stands for, while authors save new ones. *)
RunsItsVersion == \A r \in Started : row[r].steps = versions[row[r].version]

(* A run that waits can be released: there is a question to decide. Not so if it was decided
   between its insertion and the parking of the run. *)
WaitingCanBeDecided ==
  \A r \in Started \ (hasty \cup overtaken) :
    row[r].status = "WAITING_APPROVAL" => approval[r][row[r].step] = "PENDING"

(* A run that has ended stays as it ended, and does nothing more: cancelling is safe. The unguarded
   writes break it when a living worker was overtaken, or when the answer to a write of the run was
   lost, for then the run is queued or failed over whatever it is by then. *)
EndedStaysEnded ==
  [][\A r \in Started \ (overtaken \cup unheard) : row[r].status \in Final =>
       row'[r].status = row[r].status /\ performed'[r] = performed[r]]_wfVars

(* Lost for good: the last attempt of the run ended with its worker. *)
Abandoned(r) == row[r].status = "RUNNING" /\ row[r].attempts >= MaxAttempts /\ r \notin Held

(* A run that is queued ends or comes to a person. *)
RunsSettle ==
  \A r \in WfRuns : row[r].status \in {"QUEUED", "RUNNING"} ~>
    (row[r].status \in Final \cup {"WAITING_APPROVAL"} \/ Abandoned(r))

(* To replay a run repeats nothing it has done: "Replay is restricted to failed runs at step zero to
   avoid knowingly repeating completed side effects." *)
ReplayRepeatsNothing == \A r \in WfRuns : replays[r] # NoRun => EffectsOf(replays[r]) = {}
====
