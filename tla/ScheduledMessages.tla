---- MODULE ScheduledMessages ----
(* The scheduler of the communication service: every process tries to be the one that sends the
   scheduled messages that are due, under an advisory lock, after it has ended what has
   expired. The creator of the messages may cancel them, leave the conversation and come back. *)
EXTENDS Naturals, FiniteSets

CONSTANTS
  Scheduled,    \* scheduled messages
  Happenings,   \* events of the conversation
  HasEnd,       \* those of them with an end of their own
  Runners,      \* processes that run the scheduler
  DueBatch,     \* rows of one run (50 in the code)
  MaxRunFaults, \* bound: crashes and failed statements
  MaxMoves,     \* bound: the creator leaving and coming back
  NoRunner, NoSched

ASSUME ScheduleAssumption ==
  /\ HasEnd \subseteq Happenings /\ DueBatch \in Nat \ {0} /\ MaxRunFaults \in Nat /\ MaxMoves \in Nat
  /\ NoRunner \notin Runners /\ NoSched \notin Scheduled

VARIABLES
  sched,     \* scheduled_messages
  due,       \* those whose scheduled_at has come
  present,   \* whether the creator is an active member of the conversation
  delivered, \* messages with the key scheduled:<id>
  event,     \* conversation_events: status
  clock,     \* of the events: they start at 1, end at 2, and without an end at 3
  lock,      \* who holds the advisory lock
  runner,    \* where each process is, and the row it is at
  queue,     \* the due rows it read and has not come to
  runFaults, moves

schedVars == <<sched, due, present, delivered, event, clock, lock, runner, queue, runFaults, moves>>

Sleeping == [at |-> "sleep", row |-> NoSched]
RunSteps == {"sleep", "lock", "select", "next", "send", "sent", "failed"}

SchedTypeOK ==
  /\ sched \in [Scheduled -> {"none", "SCHEDULED", "PROCESSING", "SENT", "FAILED", "CANCELED"}]
  /\ due \subseteq Scheduled /\ delivered \subseteq Scheduled /\ present \in BOOLEAN
  /\ event \in [Happenings -> {"none", "SCHEDULED", "LIVE", "ENDED"}] /\ clock \in 0 .. 3
  /\ lock \in Runners \cup {NoRunner}
  /\ runner \in [Runners -> [at : RunSteps, row : Scheduled \cup {NoSched}]]
  /\ queue \in [Runners -> SUBSET Scheduled]
  /\ runFaults \in 0 .. MaxRunFaults /\ moves \in 0 .. MaxMoves

SchedInit ==
  /\ sched = [i \in Scheduled |-> "none"] /\ due = {} /\ present = TRUE /\ delivered = {}
  /\ event = [e \in Happenings |-> "none"] /\ clock = 0 /\ lock = NoRunner
  /\ runner = [p \in Runners |-> Sleeping] /\ queue = [p \in Runners |-> {}]
  /\ runFaults = 0 /\ moves = 0

------------------------
(* Requests and time. *)

ScheduleMessage(i) ==
  /\ present /\ sched[i] = "none"
  /\ sched' = [sched EXCEPT ![i] = "SCHEDULED"]
  /\ UNCHANGED <<due, present, delivered, event, clock, lock, runner, queue, runFaults, moves>>

CancelScheduledMessage(i) ==
  /\ sched[i] = "SCHEDULED"
  /\ sched' = [sched EXCEPT ![i] = "CANCELED"]
  /\ UNCHANGED <<due, present, delivered, event, clock, lock, runner, queue, runFaults, moves>>

CreateEvent(e) ==
  /\ present /\ event[e] = "none"
  /\ event' = [event EXCEPT ![e] = "SCHEDULED"]
  /\ UNCHANGED <<sched, due, present, delivered, clock, lock, runner, queue, runFaults, moves>>

ComesDue(i) ==
  /\ sched[i] # "none" /\ i \notin due /\ due' = due \cup {i}
  /\ UNCHANGED <<sched, present, delivered, event, clock, lock, runner, queue, runFaults, moves>>

Tick ==
  /\ clock < 3 /\ clock' = clock + 1
  /\ UNCHANGED <<sched, due, present, delivered, event, lock, runner, queue, runFaults, moves>>

Move ==
  /\ moves < MaxMoves /\ moves' = moves + 1 /\ present' = ~present
  /\ UNCHANGED <<sched, due, delivered, event, clock, lock, runner, queue, runFaults>>

------------------------
(* A run of the scheduler. *)

Goes(p, step, i) == runner' = [runner EXCEPT ![p] = [at |-> step, row |-> i]]
RunnerAt(p, step) == runner[p].at = step

EndOf(e) == IF e \in HasEnd THEN 2 ELSE 3

(* processExpired ends what has expired before the messages are looked at. *)
EventNow(e) ==
  IF event[e] \in {"SCHEDULED", "LIVE"} /\ clock >= EndOf(e) THEN "ENDED"
  ELSE IF event[e] = "SCHEDULED" /\ clock >= 1 THEN "LIVE" ELSE event[e]

ProcessExpired(p) ==
  /\ RunnerAt(p, "sleep") /\ Goes(p, "lock", NoSched)
  /\ event' = [e \in Happenings |-> EventNow(e)]
  /\ UNCHANGED <<sched, due, present, delivered, clock, lock, queue, runFaults, moves>>

TryLock(p) ==
  /\ RunnerAt(p, "lock")
  /\ IF lock = NoRunner THEN lock' = p /\ Goes(p, "select", NoSched)
     ELSE Goes(p, "sleep", NoSched) /\ UNCHANGED lock
  /\ UNCHANGED <<sched, due, present, delivered, event, clock, queue, runFaults, moves>>

(* The row locks of the SELECT end with it: it runs outside a transaction. *)
SelectDue(p) ==
  /\ RunnerAt(p, "select") /\ Goes(p, "next", NoSched)
  /\ LET rows == {i \in due : sched[i] = "SCHEDULED"} IN
       \E is \in SUBSET rows :
         /\ Cardinality(is) = IF Cardinality(rows) > DueBatch THEN DueBatch ELSE Cardinality(rows)
         /\ queue' = [queue EXCEPT ![p] = is]
  /\ UNCHANGED <<sched, due, present, delivered, event, clock, lock, runFaults, moves>>

Claim(p) ==
  /\ RunnerAt(p, "next")
  /\ \E i \in queue[p] :
       /\ queue' = [queue EXCEPT ![p] = @ \ {i}]
       /\ IF sched[i] = "SCHEDULED" THEN sched' = [sched EXCEPT ![i] = "PROCESSING"] /\ Goes(p, "send", i)
          ELSE UNCHANGED <<sched, runner>>
  /\ UNCHANGED <<due, present, delivered, event, clock, lock, runFaults, moves>>

(* sendMessage asks for membership before and, to answer, after its transaction: a creator who
   leaves in between has sent the message and gets an error. *)
SendScheduled(p) ==
  /\ RunnerAt(p, "send")
  /\ \/ /\ present /\ delivered' = delivered \cup {runner[p].row} /\ Goes(p, "sent", runner[p].row)
        /\ UNCHANGED <<present, moves>>
     \/ /\ present /\ moves < MaxMoves /\ moves' = moves + 1 /\ present' = FALSE
        /\ delivered' = delivered \cup {runner[p].row} /\ Goes(p, "failed", runner[p].row)
     \/ ~present /\ Goes(p, "failed", runner[p].row) /\ UNCHANGED <<delivered, present, moves>>
  /\ UNCHANGED <<sched, due, event, clock, lock, queue, runFaults>>

MarkRow(p, step, status) ==
  /\ RunnerAt(p, step) /\ Goes(p, "next", NoSched)
  /\ sched' = [sched EXCEPT ![runner[p].row] = status]
  /\ UNCHANGED <<due, present, delivered, event, clock, lock, queue, runFaults, moves>>
MarkSentRow(p) == MarkRow(p, "sent", "SENT")
MarkFailedRow(p) == MarkRow(p, "failed", "FAILED")

Release(p) ==
  /\ RunnerAt(p, "next") /\ queue[p] = {} /\ Goes(p, "sleep", NoSched) /\ lock' = NoRunner
  /\ UNCHANGED <<sched, due, present, delivered, event, clock, queue, runFaults, moves>>

RunnerStep(p) ==
  \/ ProcessExpired(p) \/ TryLock(p) \/ SelectDue(p) \/ Claim(p) \/ SendScheduled(p)
  \/ MarkSentRow(p) \/ MarkFailedRow(p) \/ Release(p)

(* A failed statement: processExpired's is swallowed; one in the inner try is answered with FAILED;
   any other ends the run and lets go of the lock. A crash closes the connection and with it the
   lock; a connection that cannot be had, outside any try, is a rejection nobody handles, which ends
   the process too. *)
RunFault(p) ==
  /\ runFaults < MaxRunFaults /\ runFaults' = runFaults + 1
  /\ \/ /\ RunnerAt(p, "sleep") /\ Goes(p, "lock", NoSched) /\ UNCHANGED <<delivered, lock, queue>>
     \/ /\ runner[p].at \in {"send", "sent"} /\ Goes(p, "failed", runner[p].row)
        /\ delivered' \in {delivered, delivered \cup {runner[p].row}} /\ (delivered' # delivered => present)
        /\ UNCHANGED <<lock, queue>>
     \/ /\ runner[p].at # "sleep" /\ Goes(p, "sleep", NoSched)
        /\ lock' = IF lock = p THEN NoRunner ELSE lock
        /\ queue' = [queue EXCEPT ![p] = {}] /\ UNCHANGED delivered
  /\ UNCHANGED <<sched, due, present, event, clock, moves>>

SchedNext ==
  \/ \E i \in Scheduled : ScheduleMessage(i) \/ CancelScheduledMessage(i) \/ ComesDue(i)
  \/ \E e \in Happenings : CreateEvent(e)
  \/ Tick \/ Move
  \/ \E p \in Runners : RunnerStep(p) \/ RunFault(p)

SchedSpec == SchedInit /\ [][SchedNext]_schedVars
SchedFairness == \A p \in Runners : WF_schedVars(RunnerStep(p))

------------------------
(* Properties. *)

(* A message its creator cancelled, with an answer that said so, is never sent: not even when the
   scheduler had already read it as due. *)
CanceledIsNotSent ==
  [][\A i \in Scheduled : sched[i] = "CANCELED" => sched'[i] = "CANCELED" /\ i \notin delivered']_schedVars

(* SENT means that the message is in the conversation. *)
SentIsDelivered == \A i \in Scheduled : sched[i] = "SENT" => i \in delivered

(* A row is left in PROCESSING, from where nothing takes it, only by a crash or a failed statement. *)
OnlyAFaultStrandsScheduled ==
  \A i \in Scheduled : sched[i] = "PROCESSING" /\ runFaults = 0 => \E p \in Runners : runner[p].row = i

(* Whoever gets the lock: a message that is due is sent, failed or cancelled, as long as nothing
   fails. *)
ScheduledSettles ==
  \A i \in Scheduled : i \in due /\ sched[i] \in {"SCHEDULED", "PROCESSING"}
                         ~> sched[i] \in {"SENT", "FAILED", "CANCELED"} \/ runFaults > 0

(* Every event that is over is ENDED, its end given or not, even when runs fail: the next run takes
   it up. *)
EventsEnd == \A e \in Happenings : clock = 3 /\ event[e] # "none" ~> event[e] = "ENDED"
====
