---- MODULE TrafficPolicy ----
(* The fair-share evaluation of a router: GET /traffic/routers/:id/evaluate measures every session,
   decides a mode, and writes or removes the managed queues of the router. Nothing serialises two
   evaluations, and a queue is found first and written or deleted by its id afterwards. *)
EXTENDS Integers, FiniteSets, FiniteSetsExt, Functions

CONSTANTS Users,        \* the active sessions of the router
          Offered,      \* what a session may try to use
          Capacity,     \* capacity_mbps of the bandwidth profile
          ServiceMax,   \* the speed of the package of every session
          MaxEvals,     \* bound: evaluations
          MaxShifts     \* bound: changes of demand, quota or freshness

ASSUME PolicyAssumption ==
  /\ IsFiniteSet(Users) /\ Users # {}
  /\ Offered \subseteq Nat
  /\ Capacity \in Nat \ {0} /\ ServiceMax \in Nat
  /\ MaxEvals \in Nat /\ MaxShifts \in Nat

ActivateAt == 80
AggressiveAt == 90
RecoveryAt == 60
NoQueue == [id |-> 0, cap |-> 0]
Evals == 1 .. MaxEvals

VARIABLES offered,      \* what each session would use without a queue
          quota,        \* sessions whose data limit is used up
          fresh,        \* sessions with two recent samples
          queue,        \* the managed queue of each session on the router
          ev,           \* the evaluations, in the order they were asked for
          evaluated,        \* how many have been asked for
          shifts,       \* bound counter
          disturbed       \* since an evaluation last began alone, another began or one failed
tvars == <<offered, quota, fresh, queue, ev, evaluated, shifts, disturbed>>

------------------------
(* The pure part. *)

\* What the samples show of a session: the queue holds it down, and the
\* request is capped at the speed of the service.
Requested(u) ==
  LET used == IF queue[u] # NoQueue THEN Min({offered[u], queue[u].cap}) ELSE offered[u]
  IN  Min({used, ServiceMax})

\* resolveServicePolicy: a session at its data limit has no service.  One
\* without a purchase row has no limit of any kind, and is ACTIVE.
Active(u) == u \notin quota

\* Sessions that take part: measured, in service, using something.
Measured == {u \in fresh : Active(u) /\ Requested(u) > 0}

Total(f, S) == SumFunctionOnSet(f, S)

\* The mode of a utilisation: percentages compared without dividing.
ModeOf(requested) ==
  IF requested * 100 >= AggressiveAt * Capacity THEN "AGGRESSIVE"
  ELSE IF requested * 100 >= ActivateAt * Capacity THEN "FAIRNESS_ACTIVE"
  ELSE IF requested * 100 <= RecoveryAt * Capacity THEN "NORMAL"
  ELSE "RECOVERING"

\* The sessions that are given all they ask for: taken in the order of their
\* demands, each demand so far fits the equal share of what is then left.
Fits(d, S, u) ==
  LET below == {w \in S : d[w] < d[u]}
  IN  d[u] * Cardinality(S \ below) <= Capacity - Total(d, below)
Satisfied(d, S) == {u \in S : \A v \in S : d[v] <= d[u] => Fits(d, S, v)}

\* allocate: the share of the first session that does not fit is scaled by the
\* weight of each session once more when it is handed out.
Allocate(d, S) ==
  LET sat  == Satisfied(d, S)
      rest == S \ sat
      left == Capacity - Total(d, sat)
      k    == Cardinality(rest)
  IN  [u \in S |-> IF u \in sat THEN d[u] ELSE Min({d[u], (left \div k) \div k})]

\* decide: below the recovery threshold everybody keeps what he asks for.
Decide(d, S) ==
  LET mode == ModeOf(Total(d, S))
  IN  [mode |-> mode, caps |-> IF mode = "NORMAL" THEN d ELSE Allocate(d, S)]

\* FairnessService.evaluate: a disabled profile is always NORMAL.
FairnessEvaluate(on, d, S) == IF on THEN Decide(d, S) ELSE [mode |-> "NORMAL", caps |-> d]

\* toEnforcementCommands: the sessions a positive cap is written for.
ToEnforcementCommands(caps) == {u \in DOMAIN caps : caps[u] > 0}

------------------------
NoEval == [pc |-> "none", todo |-> {}, ids |-> {}, caps |-> [u \in {} |-> 0], user |-> 0,
           mode |-> "NORMAL", sum |-> 0]

PolicyInit ==
  /\ offered \in [Users -> Offered]
  /\ quota = {} /\ fresh = Users
  /\ queue = [u \in Users |-> NoQueue]
  /\ ev = [k \in Evals |-> NoEval]
  /\ evaluated = 0 /\ shifts = 0 /\ disturbed = FALSE

Busy == {k \in Evals : ev[k].pc \notin {"none", "done"}}
Now(k, e) == ev' = [ev EXCEPT ![k] = e]
Managed == {u \in Users : queue[u] # NoQueue}
IdsOf(S) == {<<u, queue[u].id>> : u \in S}

\* An evaluation with its decision: what is among its commands is looked for
\* first, and with no command at all only what is on the router is listed.
Began(r, sum) ==
  LET todo == IF r.mode = "NORMAL" THEN {} ELSE ToEnforcementCommands(r.caps)
  IN  [NoEval EXCEPT !.mode = r.mode, !.caps = r.caps, !.sum = sum, !.todo = todo,
                     !.pc = IF todo = {} THEN "list" ELSE "look"]

\* evaluateRouter up to the decision: sessions without samples only stop it
\* when none has any.
Evaluate ==
  /\ evaluated < MaxEvals
  /\ fresh # {}
  /\ \E enabled \in BOOLEAN :
       LET d == [u \in Measured |-> Requested(u)]
           r == FairnessEvaluate(enabled, d, Measured)
       IN  Now(evaluated + 1, Began(r, Total(d, Measured)))
  /\ evaluated' = evaluated + 1
  /\ disturbed' = (Busy # {})
  /\ UNCHANGED <<offered, quota, fresh, queue, shifts>>

\* The end of the commands: what is not among them is removed next.
NextCommand(k, left) ==
  [ev[k] EXCEPT !.todo = left, !.user = 0, !.pc = IF left = {} THEN "list" ELSE "look"]

\* applyOne, first request: the queue of the session, by its name.
FindQueue(k) ==
  /\ ev[k].pc = "look"
  /\ \E u \in ev[k].todo :
       Now(k, [ev[k] EXCEPT !.pc = "write", !.user = u,
                 !.ids = IdsOf({u} \cap Managed)])
  /\ UNCHANGED <<offered, quota, fresh, queue, evaluated, shifts, disturbed>>

\* applyOne, second request: the queue found is changed, or one is added.
Write(k) ==
  /\ ev[k].pc = "write"
  /\ LET u == ev[k].user
     IN  /\ IdsOf({u} \cap Managed) = ev[k].ids
         /\ queue' = [queue EXCEPT ![u] = [id  |-> IF ev[k].ids = {} THEN k ELSE @.id,
                                           cap |-> ev[k].caps[u]]]
         /\ Now(k, NextCommand(k, ev[k].todo \ {u}))
  /\ UNCHANGED <<offered, quota, fresh, evaluated, shifts, disturbed>>

\* Mutant: outside NORMAL the queues of earlier decisions are left alone.
ListOnlyNormal(k) ==
  /\ ev[k].pc = "list"
  /\ LET ids == IF ev[k].mode = "NORMAL" THEN IdsOf(Managed) ELSE {}
     IN  Now(k, [ev[k] EXCEPT !.ids = ids, !.pc = IF ids = {} THEN "done" ELSE "delete"])
  /\ UNCHANGED <<offered, quota, fresh, queue, evaluated, shifts, disturbed>>

\* clearManaged and reconcileManaged: the managed queues are listed, the ones
\* whose names the commands use are kept, and the others go one by one.
List(k) ==
  /\ ev[k].pc = "list"
  /\ LET keep == IF ev[k].mode = "NORMAL" THEN {} ELSE ToEnforcementCommands(ev[k].caps)
         ids  == IdsOf(Managed \ keep)
     IN  Now(k, [ev[k] EXCEPT !.ids = ids, !.pc = IF ids = {} THEN "done" ELSE "delete"])
  /\ UNCHANGED <<offered, quota, fresh, queue, evaluated, shifts, disturbed>>

Delete(k) ==
  /\ ev[k].pc = "delete"
  /\ \E u \in Managed :
       /\ IdsOf({u}) \subseteq ev[k].ids
       /\ queue' = [queue EXCEPT ![u] = NoQueue]
       /\ LET rest == ev[k].ids \ IdsOf({u})
          IN  Now(k, [ev[k] EXCEPT !.ids = rest, !.pc = IF rest = {} THEN "done" ELSE "delete"])
  /\ UNCHANGED <<offered, quota, fresh, evaluated, shifts, disturbed>>

\* The router answers no: an id that is gone, a name that is taken, a timeout.
\* What was written before stays.
RouterRefuses(k) ==
  /\ ev[k].pc \in {"look", "write", "list", "delete"}
  /\ Now(k, [ev[k] EXCEPT !.pc = "done", !.todo = {}, !.ids = {}, !.user = 0])
  /\ disturbed' = TRUE
  /\ UNCHANGED <<offered, quota, fresh, queue, evaluated, shifts>>

\* Traffic changes: a session uses more or less, its quota runs out, its
\* counters are not collected.
Shift(u) ==
  /\ shifts < MaxShifts /\ shifts' = shifts + 1
  /\ \/ \E d \in Offered \ {offered[u]} : offered' = [offered EXCEPT ![u] = d] /\ UNCHANGED <<quota, fresh>>
     \/ u \notin quota /\ quota' = quota \cup {u} /\ UNCHANGED <<offered, fresh>>
     \/ u \in fresh /\ fresh' = fresh \ {u} /\ UNCHANGED <<offered, quota>>
  /\ UNCHANGED <<queue, ev, evaluated, disturbed>>

PolicyStep(k) == FindQueue(k) \/ Write(k) \/ List(k) \/ Delete(k) \/ RouterRefuses(k)
PolicyNext ==
  \/ Evaluate
  \/ \E k \in Evals : PolicyStep(k)
  \/ \E u \in Users : Shift(u)

PolicySpec == PolicyInit /\ [][PolicyNext]_tvars

------------------------
(* Properties. *)

\* What an evaluation wants the router to hold.
Wanted(e, u) == IF e.mode # "NORMAL" /\ u \in DOMAIN e.caps THEN e.caps[u] ELSE 0

\* An evaluation that ran alone and was not refused leaves the router holding
\* its decision and nothing else, whatever earlier evaluations that crossed or
\* failed left there: no queue of a session that is over its quota, was not
\* measured or is no longer to be held.
RouterHoldsTheDecision ==
  evaluated > 0 /\ Busy = {} /\ ~disturbed => \A u \in Users : queue[u].cap = Wanted(ev[evaluated], u)

\* The caps of a decision never exceed the demand of their session, nor
\* together the capacity of the router.
CapsFit ==
  \A k \in 1 .. evaluated : ev[k].mode # "NORMAL" =>
    Total(ev[k].caps, DOMAIN ev[k].caps) <= Min({Capacity, ev[k].sum})

TrafficTypeOK ==
  /\ queue \in [Users -> [id : 0 .. MaxEvals, cap : Nat]]
  /\ evaluated \in 0 .. MaxEvals /\ disturbed \in BOOLEAN
  /\ \A k \in Evals : ev[k].pc = "none" <=> k > evaluated

PolicyHolds == TrafficTypeOK /\ RouterHoldsTheDecision /\ CapsFit

\* fairness.engine.spec.ts: "redistributes unused demand instead of wasting
\* capacity", "achieves equal-share fairness": what a managed router gives out
\* is the smaller of its capacity and the demand, up to the rounding of each
\* share.
WorkConserving ==
  \A k \in 1 .. evaluated : ev[k].mode \in {"AGGRESSIVE", "FAIRNESS_ACTIVE"} =>
    Total(ev[k].caps, DOMAIN ev[k].caps) + Cardinality(Users) >= Min({Capacity, ev[k].sum})
====
