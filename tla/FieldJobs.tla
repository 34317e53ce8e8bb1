---- MODULE FieldJobs ----
(* Field work: network jobs on the server, changed by the office and by technicians whose page keeps
   every change in the device's own queue until the server has answered for it. A synchronisation
   uploads the photos one by one and then the operations in batches, each batch one transaction with
   a receipt for each operation. *)
EXTENDS Naturals, Sequences, SequencesExt

CONSTANTS
  Devices, Jobs,
  JobTargets,      \* statuses technicians and the office choose from
  NoteKinds,       \* operations beside STATUS_CHANGED: notes, checklist items
  SyncBatch,       \* operations of one request (100 in the code)
  MaxOps,          \* bound: operations and photos made on one device
  MaxOffice,       \* bound: changes by the office
  MaxFieldFaults   \* bound: lost requests, lost answers, reloads, disconnections

VARIABLES
  job,         \* network_jobs.status
  receipts,    \* network_job_sync_receipts and the stored photos, by identifier
  effects,     \* how often each operation or photo took effect
  queue,       \* operations kept on each device
  photos,      \* photos kept on each device
  made,        \* operations and photos each device has made
  jobView,     \* the statuses each device shows
  online,      \* devices that are connected
  sync,        \* the synchronisation under way: its stage, photos and operations
  attempted,   \* autoSyncAttempted
  office, fieldFaults

fieldVars == <<job, receipts, effects, queue, photos, made, jobView, online, sync, attempted,
               office, fieldFaults>>
serverVars == <<job, receipts, effects>>

JobStatus == {"OPEN", "ASSIGNED", "IN_PROGRESS", "BLOCKED", "COMPLETED", "CANCELED"}

ASSUME FieldAssumption ==
  /\ JobTargets \subseteq JobStatus
  /\ SyncBatch \in Nat \ {0} /\ MaxOps \in Nat
  /\ MaxOffice \in Nat /\ MaxFieldFaults \in Nat

Ids == Devices \X (1 .. MaxOps)
OpKinds == {"STATUS_CHANGED"} \cup NoteKinds
Operations == [id : Ids, kind : OpKinds, job : Jobs, from : JobStatus, to : JobStatus]
Idle == [stage |-> "idle", photos |-> {}, left |-> <<>>]

FieldTypeOK ==
  /\ job \in [Jobs -> JobStatus]
  /\ receipts \subseteq Ids /\ effects \in [Ids -> Nat]
  /\ queue \in [Devices -> Seq(Operations)] /\ photos \in [Devices -> SUBSET Ids]
  /\ made \in [Devices -> 0 .. MaxOps] /\ jobView \in [Devices -> [Jobs -> JobStatus]]
  /\ online \subseteq Devices /\ attempted \subseteq Devices
  /\ sync \in [Devices -> [stage : {"idle", "photos", "operations", "answered"},
                           photos : SUBSET Ids, left : Seq(Operations)]]
  /\ office \in 0 .. MaxOffice /\ fieldFaults \in 0 .. MaxFieldFaults

FieldInit ==
  /\ job = [j \in Jobs |-> "OPEN"] /\ receipts = {} /\ effects = [i \in Ids |-> 0]
  /\ queue = [d \in Devices |-> <<>>] /\ photos = [d \in Devices |-> {}]
  /\ made = [d \in Devices |-> 0] /\ jobView = [d \in Devices |-> job]
  /\ online = Devices /\ sync = [d \in Devices |-> Idle] /\ attempted = {}
  /\ office = 0 /\ fieldFaults = 0

------------------------
(* The server. *)

AllowedTransitions ==
  [OPEN |-> {"ASSIGNED", "IN_PROGRESS", "CANCELED"},
   ASSIGNED |-> {"OPEN", "IN_PROGRESS", "BLOCKED", "CANCELED"},
   IN_PROGRESS |-> {"ASSIGNED", "BLOCKED", "COMPLETED", "CANCELED"},
   BLOCKED |-> {"ASSIGNED", "IN_PROGRESS", "CANCELED"},
   COMPLETED |-> {}, CANCELED |-> {}]

(* updateJob asks for no transition. *)
UpdateJob(j, s) ==
  /\ office < MaxOffice /\ office' = office + 1 /\ s # job[j]
  /\ job' = [job EXCEPT ![j] = s]
  /\ UNCHANGED <<receipts, effects, queue, photos, made, jobView, online, sync, attempted, fieldFaults>>

Ops(s) == {s[n].id : n \in DOMAIN s}

(* syncOfflineOperations, one transaction: an operation whose receipt is there is answered again;
   every other meets its job as those before it leave it, and one refusal fails them all. *)
Changes(batch, n) == batch[n].kind = "STATUS_CHANGED" /\ batch[n].id \notin receipts

StatusBefore(batch, n, j) ==
  LET changes == {m \in 1 .. n - 1 : Changes(batch, m) /\ batch[m].job = j}
  IN IF changes = {} THEN job[j] ELSE batch[Max(changes)].to

Accepts(batch) ==
  \A n \in DOMAIN batch : Changes(batch, n) =>
    /\ batch[n].from = StatusBefore(batch, n, batch[n].job)
    /\ batch[n].to \in {batch[n].from} \cup AllowedTransitions[batch[n].from]

SyncOfflineOperations(batch) ==
  IF Accepts(batch)
  THEN /\ job' = [j \in Jobs |-> StatusBefore(batch, Len(batch) + 1, j)]
       /\ receipts' = receipts \cup Ops(batch)
       /\ effects' = [i \in Ids |-> effects[i] + IF i \in Ops(batch) \ receipts THEN 1 ELSE 0]
  ELSE UNCHANGED serverVars

------------------------
(* The page. *)

(* effectiveStatus: the queued changes on top of what was loaded. *)
EffectiveStatus(d, j) ==
  LET changes == {n \in DOMAIN queue[d] : queue[d][n].job = j /\ queue[d][n].kind = "STATUS_CHANGED"}
  IN IF changes = {} THEN jobView[d][j] ELSE queue[d][Max(changes)].to

Make(d) == made[d] < MaxOps /\ made' = [made EXCEPT ![d] = @ + 1]

(* The buttons of a job's card. *)
Offered(current) ==
  (IF current \notin {"IN_PROGRESS", "COMPLETED", "CANCELED"} THEN {"IN_PROGRESS"} ELSE {})
  \cup (IF current \in {"IN_PROGRESS", "ASSIGNED"} THEN {"BLOCKED"} ELSE {})
  \cup (IF current = "IN_PROGRESS" THEN {"COMPLETED"} ELSE {})

SetJobStatus(d, j, s) ==
  /\ Make(d) /\ s \in Offered(EffectiveStatus(d, j))
  /\ queue' = [queue EXCEPT ![d] = Append(@, [id |-> <<d, made'[d]>>, kind |-> "STATUS_CHANGED",
                                             job |-> j, from |-> EffectiveStatus(d, j), to |-> s])]
  /\ jobView' = [jobView EXCEPT ![d][j] = s]
  /\ UNCHANGED <<serverVars, photos, online, sync, attempted, office, fieldFaults>>

(* addNote, toggleChecklist, linkAssetToJob. *)
AddNote(d, j, kind) ==
  /\ Make(d)
  /\ queue' = [queue EXCEPT ![d] = Append(@, [id |-> <<d, made'[d]>>, kind |-> kind, job |-> j,
                                             from |-> "OPEN", to |-> "OPEN"])]
  /\ UNCHANGED <<serverVars, photos, jobView, online, sync, attempted, office, fieldFaults>>

AddPhoto(d) ==
  /\ Make(d) /\ photos' = [photos EXCEPT ![d] = @ \cup {<<d, made'[d]>>}]
  /\ UNCHANGED <<serverVars, queue, jobView, online, sync, attempted, office, fieldFaults>>

Pending(d) == queue[d] # <<>> \/ photos[d] # {}

Start(d) == sync' = [sync EXCEPT ![d] = [stage |-> "photos", photos |-> photos[d], left |-> <<>>]]

(* The effect runs one synchronisation, and another only after the queue was seen empty or the
   connection lost. *)
AutoSync(d) ==
  /\ d \in online /\ Pending(d) /\ sync[d].stage = "idle" /\ d \notin attempted
  /\ attempted' = attempted \cup {d} /\ Start(d)
  /\ UNCHANGED <<serverVars, queue, photos, made, jobView, online, office, fieldFaults>>

ResetAttempt(d) ==
  /\ d \in attempted /\ (d \notin online \/ ~Pending(d)) /\ attempted' = attempted \ {d}
  /\ UNCHANGED <<serverVars, queue, photos, made, jobView, online, sync, office, fieldFaults>>

(* The button. *)
PressSync(d) ==
  /\ d \in online /\ Pending(d) /\ sync[d].stage = "idle" /\ Start(d)
  /\ UNCHANGED <<serverVars, queue, photos, made, jobView, online, attempted, office, fieldFaults>>

(* uploadJobAttachment stores a photo once; its answer deletes it here. *)
UploadPhoto(d) ==
  /\ sync[d].stage = "photos"
  /\ \E i \in sync[d].photos :
       /\ receipts' = receipts \cup {i}
       /\ effects' = IF i \in receipts THEN effects ELSE [effects EXCEPT ![i] = @ + 1]
       /\ photos' = [photos EXCEPT ![d] = @ \ {i}]
       /\ sync' = [sync EXCEPT ![d].photos = @ \ {i}]
  /\ UNCHANGED <<job, queue, made, jobView, online, attempted, office, fieldFaults>>

ReadOperations(d) ==
  /\ sync[d].stage = "photos" /\ sync[d].photos = {}
  /\ sync' = [sync EXCEPT ![d].stage = "operations", ![d].left = queue[d]]
  /\ UNCHANGED <<serverVars, queue, photos, made, jobView, online, attempted, office, fieldFaults>>

\* Mutant: the latest operations first.
BatchLatest(d) ==
  LET s == sync[d].left IN SubSeq(s, IF Len(s) > SyncBatch THEN Len(s) - SyncBatch + 1 ELSE 1, Len(s))
Batch(d) == SubSeq(sync[d].left, 1, IF Len(sync[d].left) < SyncBatch THEN Len(sync[d].left) ELSE SyncBatch)

(* A refused batch ends the synchronisation; the queue is kept. *)
SendBatch(d) ==
  /\ sync[d].stage = "operations" /\ sync[d].left # <<>>
  /\ SyncOfflineOperations(Batch(d))
  /\ sync' = [sync EXCEPT ![d] = IF Accepts(Batch(d)) THEN [@ EXCEPT !.stage = "answered"] ELSE Idle]
  /\ UNCHANGED <<queue, photos, made, jobView, online, attempted, office, fieldFaults>>

(* Accepted and replayed operations are deleted one by one. *)
DeleteAnswered(d) ==
  /\ sync[d].stage = "answered"
  /\ LET answered == {n \in DOMAIN queue[d] : queue[d][n].id \in Ops(Batch(d))}
     IN \/ /\ \E n \in answered : queue' = [queue EXCEPT ![d] = RemoveAt(@, n)]
           /\ UNCHANGED sync
        \/ /\ answered = {} /\ UNCHANGED queue
           /\ sync' = [sync EXCEPT ![d].stage = "operations",
                                   ![d].left = SubSeq(@, Len(Batch(d)) + 1, Len(@))]
  /\ UNCHANGED <<serverVars, photos, made, jobView, online, attempted, office, fieldFaults>>

(* loadJobs shows what the server has. *)
FinishSync(d) ==
  /\ sync[d].stage = "operations" /\ sync[d].left = <<>>
  /\ sync' = [sync EXCEPT ![d] = Idle] /\ jobView' = [jobView EXCEPT ![d] = job]
  /\ UNCHANGED <<serverVars, queue, photos, made, online, attempted, office, fieldFaults>>

LoadJobs(d) ==
  /\ d \in online /\ jobView[d] # job /\ jobView' = [jobView EXCEPT ![d] = job]
  /\ UNCHANGED <<serverVars, queue, photos, made, online, sync, attempted, office, fieldFaults>>

FieldFault == fieldFaults < MaxFieldFaults /\ fieldFaults' = fieldFaults + 1

(* The request, or the answer to what the server has done, is lost. *)
LoseAnswer(d) ==
  /\ FieldFault /\ sync[d].stage \in {"photos", "operations"} /\ sync' = [sync EXCEPT ![d] = Idle]
  /\ \/ UNCHANGED serverVars
     \/ sync[d].stage = "operations" /\ SyncOfflineOperations(Batch(d))
     \/ /\ sync[d].stage = "photos" /\ UNCHANGED job
        /\ \E i \in sync[d].photos :
             /\ receipts' = receipts \cup {i}
             /\ effects' = IF i \in receipts THEN effects ELSE [effects EXCEPT ![i] = @ + 1]
  /\ UNCHANGED <<queue, photos, made, jobView, online, attempted, office>>

(* Closing the page loses its memory, never the device's storage. *)
ReloadPage(d) ==
  /\ FieldFault /\ sync' = [sync EXCEPT ![d] = Idle] /\ attempted' = attempted \ {d}
  /\ UNCHANGED <<serverVars, queue, photos, made, jobView, online, office>>

Disconnect(d) ==
  /\ FieldFault /\ d \in online /\ sync[d].stage = "idle" /\ online' = online \ {d}
  /\ UNCHANGED <<serverVars, queue, photos, made, jobView, sync, attempted, office>>

Connect(d) ==
  /\ d \notin online /\ online' = online \cup {d} /\ jobView' = [jobView EXCEPT ![d] = job]
  /\ UNCHANGED <<serverVars, queue, photos, made, sync, attempted, office, fieldFaults>>

PageStep(d) == AutoSync(d) \/ ResetAttempt(d) \/ UploadPhoto(d) \/ ReadOperations(d) \/ SendBatch(d)
               \/ DeleteAnswered(d) \/ FinishSync(d)

FieldNext ==
  \/ \E j \in Jobs, s \in JobTargets : UpdateJob(j, s) \/ \E d \in Devices : SetJobStatus(d, j, s)
  \/ \E d \in Devices :
       \/ \E j \in Jobs, kind \in NoteKinds : AddNote(d, j, kind)
       \/ AddPhoto(d) \/ PageStep(d) \/ PressSync(d) \/ LoadJobs(d)
       \/ LoseAnswer(d) \/ ReloadPage(d) \/ Disconnect(d) \/ Connect(d)

FieldSpec == FieldInit /\ [][FieldNext]_fieldVars

------------------------
(* Properties. *)

Queued(d) == Ops(queue[d]) \cup photos[d]

(* Lost answers, repeated batches and reloads: nothing a technician did takes effect twice, and it
   leaves the device only when the server has it. *)
ExactlyOnce ==
  \A d \in Devices, n \in 1 .. MaxOps :
    /\ effects[<<d, n>>] <= 1
    /\ n <= made[d] /\ <<d, n>> \notin Queued(d) => effects[<<d, n>>] = 1

(* What one device did to one job reaches the server in the order it was done: no queued operation
   is older than one that has taken effect. *)
OrderIsKept ==
  \A d \in Devices : \A m, n \in DOMAIN queue[d] :
    m < n /\ effects[queue[d][n].id] = 1 => effects[queue[d][m].id] = 1

FirstBatch(d) == SubSeq(queue[d], 1, IF Len(queue[d]) < SyncBatch THEN Len(queue[d]) ELSE SyncBatch)

(* With the button pressed, the one thing that keeps a device's queue from being emptied is a first
   batch the server refuses. *)
QueueDrains ==
  \A d \in Devices : made[d] = MaxOps ~> ~Pending(d) \/ ~Accepts(FirstBatch(d))
====
