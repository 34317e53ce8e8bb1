---- MODULE NetworkCommand ----
(* The network command fabric (apps/api/src/modules/traffic). Commands that change a router are
   rows of a queue. Two kinds of process carry them out: a worker in every API instance claims rows
   every few seconds (network-command-worker.service.ts), and an enforcer, one run of
   TrafficOrchestratorService.evaluateRouter, queues a batch of bandwidth policies and carries it
   out on the spot without claiming it (enforcement.service.ts). Both then read the router back.

   One tenant with one router; a bandwidth command stands for the limit it sets. The batch of a
   claim is larger than the queue (BatchSize). *)
EXTENDS Naturals, FiniteSets

CONSTANTS
  MaxCommands,     \* bound on the commands ever queued; ids in order of created_at
  Sessions,        \* client sessions behind the router
  Workers,         \* instances of NetworkCommandWorkerService
  Enforcers,       \* concurrent runs of evaluateRouter
  BatchSize,       \* LIMIT of a claim
  Env,             \* the disturbances of this instance
  CrashAt,         \* the labels at which a process may die
  FailAt,          \* the labels whose request or statement may fail
  MaxDisturbances, \* bound on the number of disturbances in a behaviour
  None             \* no managed queue

Commands == 1..MaxCommands
Actors == Workers \cup Enforcers
Labels == {"idle", "load", "apply", "executed", "verify", "mark", "unverify",
           "failed", "caught", "prune"}

ASSUME BoundAssumption == MaxCommands \in Nat /\ BatchSize \in Nat /\ MaxDisturbances \in Nat
ASSUME NoneAssumption == None \notin Nat
ASSUME RoleAssumption == Workers \cap Enforcers = {}

(* The row of a command (table network_commands) and the guarded updates of
   network-command.service.ts. Every update is one SQL statement: where its WHERE clause does not
   match, the row stays as it is and the caller is not told. *)
\* ACCEPTED and ABANDONED are declared in the code and never assigned.
Statuses == {"ABSENT", "QUEUED", "SENT", "ACCEPTED", "EXECUTED", "VERIFIED",
             "FAILED", "RETRYING", "ABANDONED"}
Executable == {"QUEUED", "SENT", "ACCEPTED", "RETRYING"}
Kinds == {"BANDWIDTH_ENFORCEMENT", "DISCONNECT_SESSION"}

\* A row is a record with a status and the age of sent_at against the lease.
Queued(r) == [r EXCEPT !.status = "QUEUED", !.stale = FALSE]

\* Mutant: SENT rows are never taken over.
ClaimableUnsent(r) == r.status \in {"QUEUED", "RETRYING"}
Claimable(r) ==
  \/ r.status \in {"QUEUED", "RETRYING"}
  \/ r.status = "SENT" /\ r.stale
Claimed(r) == [r EXCEPT !.status = "SENT", !.stale = FALSE]

Executed(r) == IF r.status \in Executable THEN [r EXCEPT !.status = "EXECUTED"] ELSE r

\* Mutant: a failure is recorded whatever the status.
FailedAlways(r) == [r EXCEPT !.status = "FAILED"]
Failed(r) == IF r.status \in Executable THEN [r EXCEPT !.status = "FAILED"] ELSE r

Verified(r) == IF r.status = "EXECUTED" THEN [r EXCEPT !.status = "VERIFIED"] ELSE r
Unverified(r) == IF r.status = "EXECUTED" THEN [r EXCEPT !.status = "FAILED"] ELSE r

Retried(r) == [r EXCEPT !.status = "RETRYING", !.stale = FALSE]

VARIABLES
  row,      \* network_commands
  actor,    \* local state of every worker and enforcer
  policy,   \* the managed queue of each session on the router
  online,   \* the session is in the router's list of active clients
  carried,  \* the commands the router carried out so far (history)
  budget    \* disturbances still allowed

vars == <<row, actor, policy, online, carried, budget>>
router == <<policy, online, carried>>

Rows == [status : Statuses, stale : BOOLEAN, kind : Kinds, session : Sessions \cup {None}]
ActorStates == [pc    : Labels,
                jobs  : SUBSET Commands,   \* claimed, not yet started
                batch : SUBSET Commands,   \* being executed: one for a worker
                todo  : SUBSET Commands,   \* not reached yet by the current loop
                ok    : SUBSET Commands]   \* read back as in force

TypeOK ==
  /\ row \in [Commands -> Rows]
  /\ actor \in [Actors -> ActorStates]
  /\ policy \in [Sessions -> Commands \cup {None}]
  /\ online \in [Sessions -> BOOLEAN]
  /\ carried \in SUBSET Commands
  /\ budget \in Nat

Idle == [pc |-> "idle", jobs |-> {}, batch |-> {}, todo |-> {}, ok |-> {}]

Blank == [status |-> "ABSENT", stale |-> FALSE, kind |-> "BANDWIDTH_ENFORCEMENT",
          session |-> None]

Init ==
  /\ row = [c \in Commands |-> Blank]
  /\ actor = [a \in Actors |-> Idle]
  /\ policy = [s \in Sessions |-> None]
  /\ online = [s \in Sessions |-> TRUE]
  /\ carried = {}
  /\ budget = MaxDisturbances

------------------------
(* Control of a process. *)

At(a, label) == actor[a].pc = label

\* A loop over the whole batch begins.
Enter(k, label) == [k EXCEPT !.pc = label, !.todo = k.batch]

\* The current call has returned: the worker takes its next row, the enforcer's
\* run is over.
NextJob(k) == [k EXCEPT !.pc = IF k.jobs = {} THEN "idle" ELSE "load",
                         !.batch = {}, !.todo = {}, !.ok = {}]

\* An exception leaves executeVerifiedBandwidthCommands or
\* executePersistedDisconnectCommand: process() catches it in a worker.
Throw(a, k) == IF a \in Workers THEN Enter(k, "caught") ELSE NextJob(k)

\* Mutant: an apply that throws is taken for one that succeeded.
LandingSwallowsApply(a, k) == IF k.pc = "apply" THEN Enter(k, "executed") ELSE Throw(a, k)
\* Where an exception thrown at the current label is caught.
Landing(a, k) ==
  LET disconnect == \E c \in k.batch : row[c].kind = "DISCONNECT_SESSION" IN
  CASE k.pc = "apply" -> Enter(k, "failed")
    [] k.pc \in {"executed", "verify", "mark"} /\ disconnect -> Enter(k, "failed")
    [] k.pc \in {"verify", "mark"} /\ ~disconnect -> Enter(k, "unverify")
    [] k.pc \in {"prune", "caught"} -> NextJob(k)
    [] OTHER -> Throw(a, k)

Goto(a, k) == actor' = [actor EXCEPT ![a] = k]

Disturb(kind) ==
  /\ kind \in Env
  /\ budget > 0
  /\ budget' = budget - 1

Update(C, F(_)) == row' = [c \in Commands |-> IF c \in C THEN F(row[c]) ELSE row[c]]

------------------------
(* The queue. *)

Used == {c \in Commands : row[c].status # "ABSENT"}

\* One transaction inserts a command of a kind for each of the sessions.  The
\* correlation of every request is its own (a random UUID, a request id), so no
\* insert meets an earlier row.
Insert(ids, kind, target) ==
  /\ ids = (Cardinality(Used) + 1)..(Cardinality(Used) + Cardinality(ids))
  /\ row' = [c \in Commands |->
               IF c \in ids
               THEN Queued([row[c] EXCEPT !.kind = kind, !.session = target[c]])
               ELSE row[c]]

\* queueSessionTermination: an operator asks for a client to be disconnected.
Terminate(s) ==
  \E c \in Commands \ Used :
    /\ Insert({c}, "DISCONNECT_SESSION", [d \in {c} |-> s])
    /\ UNCHANGED <<actor, router, budget>>

\* NetworkCommandService.retry: the explicit retry of a failed command.
Retry(c) ==
  /\ row[c].status = "FAILED"
  /\ Disturb("retry")
  /\ Update({c}, Retried)
  /\ UNCHANGED <<actor, router>>

------------------------
(* The worker: process() and execute(). *)

Oldest == {c \in Commands :
             /\ Claimable(row[c])
             /\ Cardinality({d \in Commands : d < c /\ Claimable(row[d])}) < BatchSize}

\* claimPending, when it finds something to do.
Claim(w) ==
  /\ At(w, "idle")
  /\ Oldest # {}
  /\ Update(Oldest, Claimed)
  /\ Goto(w, [Idle EXCEPT !.pc = "load", !.jobs = Oldest])
  /\ UNCHANGED <<router, budget>>

\* The next row of the batch, in the order the UPDATE returned them; its router
\* is enabled and its credentials are readable.
Load(w) ==
  /\ At(w, "load")
  /\ \E c \in actor[w].jobs :
       Goto(w, [actor[w] EXCEPT !.pc = "apply", !.jobs = @ \ {c}, !.batch = {c}, !.todo = {c}])
  /\ UNCHANGED <<row, router, budget>>

\* ... or it is not, or the row is malformed: execute() throws.
LoadFails(w) ==
  /\ At(w, "load")
  /\ Disturb("router")
  /\ \E c \in actor[w].jobs :
       Goto(w, [actor[w] EXCEPT !.pc = "caught", !.jobs = @ \ {c}, !.batch = {c}, !.todo = {c}])
  /\ UNCHANGED <<row, router>>

\* The handler of process(): markFailed once more, its own error ignored.
Caught(w) ==
  /\ At(w, "caught")
  /\ Update(actor[w].batch, Failed)
  /\ Goto(w, NextJob(actor[w]))
  /\ UNCHANGED <<router, budget>>

------------------------
(* The enforcer: evaluateRouter and applyCommands. *)

\* The router is congested: a policy for each of the sessions S that are active,
\* queued in one transaction; all of them are executable.
Evaluate(e) ==
  /\ At(e, "idle")
  /\ \E S \in SUBSET Sessions \ {{}}, ids \in SUBSET (Commands \ Used) :
       /\ Cardinality(ids) = Cardinality(S)
       /\ \E target \in [ids -> S] :
            /\ \A s \in S : \E c \in ids : target[c] = s
            /\ Insert(ids, "BANDWIDTH_ENFORCEMENT", target)
       /\ Goto(e, [Idle EXCEPT !.pc = "apply", !.batch = ids, !.todo = ids])
  /\ UNCHANGED <<router, budget>>

\* The router is no longer congested: clearManaged.
ClearManaged(e) ==
  /\ At(e, "idle")
  /\ \E s \in Sessions : policy[s] # None
  /\ policy' = [s \in Sessions |-> None]
  /\ UNCHANGED <<row, actor, online, carried, budget>>

\* reconcileManaged: the queues of sessions outside the batch are removed.
Prune(e) ==
  /\ At(e, "prune")
  /\ LET keep == {row[c].session : c \in actor[e].batch} IN
     policy' = [s \in Sessions |-> IF s \in keep THEN policy[s] ELSE None]
  /\ Goto(e, NextJob(actor[e]))
  /\ UNCHANGED <<row, online, carried, budget>>

------------------------
(* Execution, the same for both: executeVerifiedBandwidthCommands and
   executePersistedDisconnectCommand. *)

\* The router carries a command out (adapter.apply, adapter.disconnect).
CarryOut(c) ==
  /\ carried' = carried \cup {c}
  /\ IF row[c].kind = "BANDWIDTH_ENFORCEMENT"
     THEN /\ policy' = [policy EXCEPT ![row[c].session] = c]
          /\ UNCHANGED online
     ELSE /\ online' = [online EXCEPT ![row[c].session] = FALSE]
          /\ UNCHANGED policy

ApplyOne(a, c) ==
  /\ At(a, "apply")
  /\ c \in actor[a].todo
  /\ CarryOut(c)
  /\ Goto(a, IF actor[a].todo = {c} THEN Enter(actor[a], "executed")
             ELSE [actor[a] EXCEPT !.todo = @ \ {c}])
  /\ UNCHANGED <<row, budget>>

Apply(a) == \E c \in Commands : ApplyOne(a, c)

\* The request times out after the router carried it out.
ApplyTimesOut(a) ==
  /\ At(a, "apply")
  /\ Disturb("timeout")
  /\ \E c \in actor[a].todo : CarryOut(c)
  /\ Goto(a, Landing(a, actor[a]))
  /\ UNCHANGED row

MarkExecuted(a) ==
  /\ At(a, "executed")
  /\ Update(actor[a].batch, Executed)
  /\ Goto(a, Enter(actor[a], "verify"))
  /\ UNCHANGED <<router, budget>>

\* What adapter.verify and adapter.verifyDisconnected compare.
InForce(c) == IF row[c].kind = "BANDWIDTH_ENFORCEMENT"
              THEN policy[row[c].session] = c
              ELSE ~online[row[c].session]

Verify(a) ==
  /\ At(a, "verify")
  /\ Goto(a, [Enter(actor[a], "mark") EXCEPT !.ok = {c \in actor[a].batch : InForce(c)}])
  /\ UNCHANGED <<row, router, budget>>

\* The adapter reports a read that failed as not verified.
VerifyUnreadable(a) ==
  /\ At(a, "verify")
  /\ Disturb("timeout")
  /\ Goto(a, Enter(actor[a], "mark"))
  /\ UNCHANGED <<row, router>>

\* The outcome of one command; after the last one the enforcer goes on to
\* reconcileManaged.
Mark(a) ==
  /\ At(a, "mark")
  /\ \E c \in actor[a].todo :
       /\ IF c \in actor[a].ok THEN Update({c}, Verified) ELSE Update({c}, Unverified)
       /\ Goto(a, IF actor[a].todo # {c} THEN [actor[a] EXCEPT !.todo = @ \ {c}]
                  ELSE IF a \in Workers THEN NextJob(actor[a])
                  ELSE Enter(actor[a], "prune"))
  /\ UNCHANGED <<router, budget>>

\* The handler of a failed read-back: markVerificationFailed for each, and throw.
Unverify(a) ==
  /\ At(a, "unverify")
  /\ \E c \in actor[a].todo :
       /\ Update({c}, Unverified)
       /\ Goto(a, IF actor[a].todo = {c} THEN Throw(a, actor[a])
                  ELSE [actor[a] EXCEPT !.todo = @ \ {c}])
  /\ UNCHANGED <<router, budget>>

\* The handler of a failed execution: markFailed, and throw.
MarkFailed(a) ==
  /\ At(a, "failed")
  /\ Update(actor[a].batch, Failed)
  /\ Goto(a, Throw(a, actor[a]))
  /\ UNCHANGED <<router, budget>>

\* A request or a statement fails before it has an effect.
StepFails(a) ==
  /\ actor[a].pc \in FailAt \ {"idle", "load"}
  /\ Disturb("error")
  /\ Goto(a, Landing(a, actor[a]))
  /\ UNCHANGED <<row, router>>

------------------------
(* The environment. *)

Crash(a) ==
  /\ actor[a].pc \in CrashAt \ {"idle"}
  /\ Disturb("crash")
  /\ Goto(a, Idle)
  /\ UNCHANGED <<row, router>>

Held(c) == \E w \in Workers : c \in actor[w].jobs \cup actor[w].batch

\* The lease of a row runs out: of a dead worker's row, or of a slow worker's.
LeaseExpires(c) ==
  /\ row[c].status = "SENT" /\ ~row[c].stale
  /\ IF Held(c) THEN Disturb("slow") ELSE UNCHANGED budget
  /\ row' = [row EXCEPT ![c].stale = TRUE]
  /\ UNCHANGED <<actor, router>>

\* A client leaves the network or joins it again.
Roam(s) ==
  /\ Disturb("roam")
  /\ online' = [online EXCEPT ![s] = ~@]
  /\ UNCHANGED <<row, actor, policy, carried>>

------------------------
Step(a) ==
  \/ Apply(a) \/ MarkExecuted(a) \/ Verify(a) \/ Mark(a)
  \/ Unverify(a) \/ MarkFailed(a)
WorkerStep(w) == Claim(w) \/ Load(w) \/ Caught(w) \/ Step(w)
Failure(a) == ApplyTimesOut(a) \/ VerifyUnreadable(a) \/ StepFails(a) \/ Crash(a)

Next ==
  \/ \E s \in Sessions : Terminate(s) \/ Roam(s)
  \/ \E c \in Commands : Retry(c) \/ LeaseExpires(c)
  \/ \E w \in Workers : WorkerStep(w) \/ LoadFails(w)
  \/ \E e \in Enforcers : Evaluate(e) \/ ClearManaged(e) \/ Prune(e) \/ Step(e)
  \/ \E a \in Actors : Failure(a)

Spec == Init /\ [][Next]_vars

\* The worker's timer fires every few seconds and its calls return (each request
\* to a router has a timeout); an evaluation that began runs to its end; time
\* passes.
Fairness ==
  /\ \A w \in Workers : WF_vars(WorkerStep(w))
  /\ \A e \in Enforcers : WF_vars(Step(e) \/ Prune(e))
  /\ \A c \in Commands : WF_vars(LeaseExpires(c))

FairSpec == Spec /\ Fairness

------------------------
(* Properties. *)

\* VERIFIED means that the router did it: whatever fails, times out or dies, and
\* whoever else works on the same row, no row is VERIFIED unless the router
\* carried the command out.
VerifiedWasCarriedOut ==
  \A c \in Commands : row[c].status \in {"EXECUTED", "VERIFIED"} => c \in carried

\* The outcome of a command survives everything but an explicit retry: a process
\* that comes late with its own failure cannot turn VERIFIED into FAILED.
OutcomeIsFinal ==
  [][\A c \in Commands :
       /\ row[c].status = "VERIFIED" => row'[c].status = "VERIFIED"
       /\ row[c].status = "FAILED" => row'[c].status \in {"FAILED", "RETRYING"}]_vars

\* The abstract view: submitted, acknowledged and verified are told apart.
PhaseOf(status) == CASE status = "ABSENT" -> "none"
                     [] status \in Executable -> "submitted"
                     [] status = "EXECUTED" -> "acknowledged"
                     [] status = "VERIFIED" -> "verified"
                     [] OTHER -> "failed"
phase == [c \in Commands |-> PhaseOf(row[c].status)]

Lifecycle == INSTANCE CommandLifecycle
LifecycleSafety == Lifecycle!Safety
LifecycleSpec == Lifecycle!Spec
====
