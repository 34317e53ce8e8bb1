---- MODULE AccessReconciliationProofs ----
(* Theorems about AccessReconciliation, for any number of sessions, of concurrent runs and of
   command workers, with every disturbance enabled. After them: the fair-share evaluation of a
   router (TrafficPolicy), for any number of sessions and evaluations and any demands, capacity and
   speeds; then the hotspot of a site (Hotspot), for any devices, packets, packages, callers, clock
   and limits; and at the end the workspace (Addresses, Account, Vault), as it runs in MCAccess. *)
EXTENDS MCAccess, Sums, FiniteSetTheorems, TLAPS

OwnTypes == session \in [Sessions -> SessionStatuses] /\ binding \in [Sessions -> Bindings] /\ run \in [Reconcilers -> Runs]

\* A run with a session at hand queued a command for it under its own request.
BoundToRun(k, b) ==
  k.pc \in {"disconnect", "failed", "stale"} =>
    k.session \in Sessions /\ b[k.session].id # None /\ b[k.session].request = "ACCESS_GRANT_EXPIRED_OR_MISSING"

RunsBound == \A r \in Reconcilers : BoundToRun(run[r], binding)

\* The inductive invariant.
IInv == OwnTypes /\ RunsBound

\* A row keeps its correlation and its request.
BindingsKept == \A s \in Sessions : binding[s].id # None => binding'[s] = binding[s]

------------------------
(* Helpers. *)

\* The next session of a loop, or its end, is a well-typed local state that
\* holds no session.
LEMMA NextSessionType == ASSUME NEW k \in Runs PROVE NextSession(k) \in Runs /\ NextSession(k).pc \in {"idle", "queue"} BY DEF NextSession, Runs, Idle

LEMMA IdleType == Idle \in Runs /\ Idle.pc = "idle" BY DEF Idle, Runs

\* What a run knows survives steps that keep the bindings.
LEMMA RunStep ==
  ASSUME IInv, BindingsKept, NEW r \in Reconcilers, NEW k \in Runs, Become(r, k), BoundToRun(k, binding')
  PROVE run' \in [Reconcilers -> Runs] /\ RunsBound'
<1>1. run' \in [Reconcilers -> Runs] BY DEF IInv, OwnTypes, Become
<1>2. \A q \in Reconcilers : BoundToRun(run'[q], binding')
 <2>1. TAKE q \in Reconcilers
 <2>2. CASE q = r BY <2>2 DEF IInv, OwnTypes, Become
 <2>3. CASE q # r
  <3>1. run'[q] = run[q] /\ BoundToRun(run[q], binding) BY <2>3 DEF IInv, OwnTypes, Become, RunsBound
  <3> QED BY <3>1 DEF BoundToRun, BindingsKept
 <2> QED BY <2>2,<2>3
<1> QED BY <1>1,<1>2 DEF RunsBound

\* Statements of a run that keep the bindings and end, or go on, without a
\* session: nothing is to be known of them.
LEMMA FreeRunStep ==
  ASSUME IInv, UNCHANGED binding, NEW r \in Reconcilers, NEW k \in Runs, Become(r, k), k.pc \in {"idle", "select", "queue"}
  PROVE binding' \in [Sessions -> Bindings] /\ run' \in [Reconcilers -> Runs] /\ RunsBound'
<1>1. BindingsKept /\ BoundToRun(k, binding') BY DEF BindingsKept, BoundToRun
<1> QED BY <1>1, RunStep DEF IInv, OwnTypes

\* Statements of a run that go on with the session at hand.
LEMMA BoundRunStep ==
  ASSUME IInv, UNCHANGED binding, NEW r \in Reconcilers, NEW label, label \in {"failed", "stale"}, run[r].pc \in {"disconnect", "failed"},
      Become(r, [run[r] EXCEPT !.pc = label])
  PROVE binding' \in [Sessions -> Bindings] /\ run' \in [Reconcilers -> Runs] /\ RunsBound'
<1> DEFINE k == [run[r] EXCEPT !.pc = label]
<1>1. run[r] \in Runs /\ BoundToRun(run[r], binding) BY DEF IInv, OwnTypes, RunsBound
<1>2. k \in Runs /\ k.session = run[r].session BY <1>1 DEF Runs
<1>3. BindingsKept /\ BoundToRun(k, binding') BY <1>1,<1>2 DEF BindingsKept, BoundToRun
<1> QED BY <1>2,<1>3, RunStep DEF IInv, OwnTypes

------------------------
(* The steps. *)

\* A request is queued: a fresh row, or the row of an earlier run with the same
\* request.
LEMMA QueueStep == ASSUME IInv, NEW r \in Reconcilers, Queue(r) PROVE IInv'
<1> DEFINE reason == "ACCESS_GRANT_EXPIRED_OR_MISSING"
<1>1. PICK s \in run[r].todo :
        /\ \/ /\ QueueOutcome(s, reason) = "inserted"
              /\ \E c \in Commands : binding' = [binding EXCEPT ![s] = Bound(c, reason)]
           \/ QueueOutcome(s, reason) = "reused" /\ UNCHANGED binding
        /\ Become(r, [run[r] EXCEPT !.pc = "disconnect", !.session = s]) BY DEF Queue
<1> DEFINE k == [run[r] EXCEPT !.pc = "disconnect", !.session = s]
<1>2. run[r] \in Runs BY DEF IInv, OwnTypes
<1>3. s \in Sessions /\ k \in Runs /\ k.session = s BY <1>1,<1>2 DEF Runs
<1>4. binding' \in [Sessions -> Bindings] /\ BindingsKept /\ binding'[s].id # None /\ binding'[s].request = reason
 <2>1. CASE QueueOutcome(s, reason) = "inserted"
  <3>1. binding[s].id = None BY <2>1 DEF QueueOutcome
  <3>2. PICK c \in Commands : binding' = [binding EXCEPT ![s] = Bound(c, reason)] BY <1>1,<2>1
  <3>3. c # None BY NoneAssumption DEF Commands, Fabric!Commands
  <3>4. Bound(c, reason) \in Bindings BY DEF Bound, Bindings, Reasons
  <3> QED BY <1>3,<3>1,<3>2,<3>3,<3>4 DEF IInv, OwnTypes, Bound, BindingsKept
 <2>2. CASE QueueOutcome(s, reason) = "reused" /\ UNCHANGED binding BY <2>2 DEF QueueOutcome, IInv, OwnTypes, BindingsKept
 <2> QED BY <1>1,<2>1,<2>2
<1>5. BoundToRun(k, binding') BY <1>3,<1>4 DEF BoundToRun
<1>6. run' \in [Reconcilers -> Runs] /\ RunsBound' BY <1>1,<1>3,<1>4,<1>5, RunStep
<1>7. session' \in [Sessions -> SessionStatuses] BY DEF Queue, IInv, OwnTypes
<1> QED BY <1>4,<1>6,<1>7 DEF IInv, OwnTypes

\* The other statements of a run.
LEMMA ReconcileStep == ASSUME IInv, NEW r \in Reconcilers, Reconcile(r) \/ RunAborts(r) PROVE IInv'
<1>0. run[r] \in Runs /\ session \in [Sessions -> SessionStatuses] BY DEF IInv, OwnTypes
<1>1. CASE ExpireGrants(r)
 <2>1. [Idle EXCEPT !.pc = "select"] \in Runs BY DEF Idle, Runs
 <2> QED BY <1>0,<1>1,<2>1, FreeRunStep DEF ExpireGrants, IInv, OwnTypes, Idle
<1>2. CASE Select(r)
 <2> DEFINE k == IF Closable = {} THEN Idle ELSE [Idle EXCEPT !.pc = "queue", !.todo = Closable]
 <2>1. k \in Runs /\ k.pc \in {"idle", "queue"} BY DEF Idle, Runs, Closable
 <2>2. Become(r, k) /\ UNCHANGED <<binding, session>> BY <1>2 DEF Select
 <2> QED BY <1>0,<2>1,<2>2, FreeRunStep DEF IInv, OwnTypes
<1>3. CASE Queue(r) BY <1>3, QueueStep
<1>4. CASE QueueConflicts(r) \/ RunAborts(r) BY <1>0,<1>4, IdleType, FreeRunStep DEF QueueConflicts, RunAborts, IInv, OwnTypes
<1>5. CASE Disconnect(r) BY <1>0,<1>5, BoundRunStep DEF Disconnect, At, IInv, OwnTypes
<1>6. CASE FailCommand(r) BY <1>0,<1>6, BoundRunStep DEF FailCommand, At, IInv, OwnTypes
<1>7. CASE MarkStale(r)
 <2>1. session' \in [Sessions -> SessionStatuses] BY <1>0,<1>7 DEF MarkStale, Staled, SessionStatuses
 <2> QED BY <1>0,<1>7,<2>1, NextSessionType, FreeRunStep DEF MarkStale, IInv, OwnTypes
<1> QED BY <1>1,<1>2,<1>3,<1>4,<1>5,<1>6,<1>7 DEF Reconcile

\* Steps of everybody else keep the runs and the bindings.
LEMMA OtherStep ==
  ASSUME IInv, UNCHANGED <<binding, run>>, session' \in [Sessions -> SessionStatuses] PROVE IInv' BY DEF IInv, OwnTypes, RunsBound, BoundToRun

LEMMA InitInv == Init => IInv
<1>1. SUFFICES ASSUME Init PROVE IInv OBVIOUS
<1>2. OwnTypes BY <1>1 DEF Init, OwnTypes, SessionStatuses, Bindings, Reasons, Unbound, Runs, Idle
<1>3. RunsBound BY <1>1 DEF Init, RunsBound, BoundToRun, Idle
<1> QED BY <1>2,<1>3 DEF IInv

LEMMA NextInv == IInv /\ [Next]_vars => IInv'
<1>1. SUFFICES ASSUME IInv, [Next]_vars PROVE IInv' OBVIOUS
<1>2. session \in [Sessions -> SessionStatuses] BY <1>1 DEF IInv, OwnTypes
<1>3. CASE \E s \in Sessions : Age(s) \/ Renew(s) BY <1>1,<1>2,<1>3, OtherStep DEF Age, Renew
<1>4. CASE \E s \in Sessions : Start(s) \/ End(s) BY <1>1,<1>2,<1>4, OtherStep DEF Start, End, SessionStatuses
<1>5. CASE \E s \in Sessions : Collect(s) BY <1>1,<1>2,<1>5, OtherStep DEF Collect, SessionStatuses
<1>6. CASE ReconcileStale
 <2>1. PICK S \in SUBSET Sessions :
         session' = [s \in Sessions |-> IF s \in S THEN "STALE" ELSE session[s]] BY <1>6 DEF ReconcileStale
 <2>2. session' \in [Sessions -> SessionStatuses] BY <1>2,<2>1 DEF SessionStatuses
 <2> QED BY <1>1,<1>6,<2>2, OtherStep DEF ReconcileStale
<1>7. CASE \E r \in Reconcilers : Reconcile(r) \/ RunAborts(r) BY <1>1,<1>7, ReconcileStep
<1>8. CASE Poll \/ Reprovision BY <1>1,<1>2,<1>8, OtherStep DEF Poll, Reprovision
<1>9. CASE UNCHANGED access BY <1>1,<1>2,<1>9, OtherStep DEF access
<1>10. CASE UNCHANGED vars BY <1>1,<1>2,<1>10, OtherStep DEF vars, access
<1>11. (\E w \in Workers : Work(w) \/ Refuse(w)) \/ (\E c \in Commands : Lease(c)) \/ Disturbance
         => UNCHANGED access BY DEF Work, Refuse, Lease, Disturbance
<1> QED BY <1>1,<1>3,<1>4,<1>5,<1>6,<1>7,<1>8,<1>9,<1>10,<1>11 DEF Next

------------------------
(* Theorems. *)

RestTypes == grant \in [Sessions -> Grants] /\ seen \in SUBSET Sessions /\ moved \in SUBSET Sessions

LEMMA RestInit == Init => RestTypes BY DEF Init, RestTypes, Grants

LEMMA RestStep == RestTypes /\ [Next]_vars => RestTypes'
<1>1. SUFFICES ASSUME RestTypes, [Next]_vars PROVE RestTypes' OBVIOUS
<1>2. CASE \E s \in Sessions : Age(s) \/ Renew(s) BY <1>1,<1>2 DEF Age, Renew, RestTypes, Grants
<1>3. CASE \E s \in Sessions : Start(s) \/ End(s) \/ Collect(s) BY <1>1,<1>3 DEF Start, End, Collect, RestTypes
<1>4. CASE ReconcileStale \/ Poll \/ Reprovision BY <1>1,<1>4 DEF ReconcileStale, Poll, Reprovision, RestTypes
<1>5. CASE \E r \in Reconcilers : ExpireGrants(r) BY <1>1,<1>5 DEF ExpireGrants, RestTypes, Grants
<1>6. CASE UNCHANGED <<grant, seen, moved>> BY <1>1,<1>6 DEF RestTypes
<1>7. \A r \in Reconcilers :
        Reconcile(r) \/ RunAborts(r) => ExpireGrants(r) \/ UNCHANGED <<grant, seen, moved>>
  BY DEF Reconcile, Select, Queue, QueueConflicts, Disconnect, FailCommand, MarkStale, RunAborts
<1>8. UNCHANGED vars \/ (\E w \in Workers : Work(w) \/ Refuse(w))
        \/ (\E c \in Commands : Lease(c)) \/ Disturbance
        => UNCHANGED <<grant, seen, moved>> BY DEF Work, Refuse, Lease, Disturbance, access, vars
<1> QED BY <1>1,<1>2,<1>3,<1>4,<1>5,<1>6,<1>7,<1>8 DEF Next

\* The state of sessions, grants, commands' correlations and runs keeps its type.
THEOREM TypeCorrect == Spec => []TypeOK
<1>1. IInv /\ RestTypes => TypeOK BY DEF IInv, OwnTypes, RestTypes, TypeOK
<1> QED BY InitInv, NextInv, RestInit, RestStep, <1>1, PTL DEF Spec

\* Whenever reconcileAccessState calls disconnectClient, the call is refused: for
\* any number of runs, workers and sessions, the session is never ENDED by it.
THEOREM DisconnectIsRefused == Spec => []DisconnectAlwaysRefused
<1>1. IInv => DisconnectAlwaysRefused BY DEF IInv, RunsBound, BoundToRun, DisconnectAlwaysRefused, At, QueueOutcome
<1> QED BY InitInv, NextInv, <1>1, PTL DEF Spec

\* No run, collector or operator brings an ENDED session back.
THEOREM EndedStaysEnded == Spec => EndedIsFinal
<1> DEFINE Kept == \A s \in Sessions : session[s] = "ENDED" => session'[s] = "ENDED"
<1>1. IInv /\ [Next]_vars => [Kept]_vars
 <2>1. SUFFICES ASSUME IInv, Next PROVE Kept BY DEF Kept
 <2>2. session \in [Sessions -> SessionStatuses] BY <2>1 DEF IInv, OwnTypes
 <2>3. CASE \E s \in Sessions : Start(s) \/ End(s) BY <2>2,<2>3 DEF Start, End
 <2>4. CASE \E s \in Sessions : Collect(s) BY <2>2,<2>4 DEF Collect, Restorable
 <2>5. CASE ReconcileStale BY <2>2,<2>5 DEF ReconcileStale
 <2>6. CASE \E r \in Reconcilers : MarkStale(r) BY <2>2,<2>6 DEF MarkStale, Staled
 <2>7. CASE UNCHANGED session BY <2>7
 <2>8. (\E w \in Workers : Work(w) \/ Refuse(w)) \/ (\E c \in Commands : Lease(c)) \/ Disturbance
         => UNCHANGED session BY DEF Work, Refuse, Lease, Disturbance, access
 <2>9. (\E s \in Sessions : Age(s) \/ Renew(s)) \/ Poll \/ Reprovision => UNCHANGED session BY DEF Age, Renew, Poll, Reprovision
 <2>10. \A r \in Reconcilers :
          Reconcile(r) \/ RunAborts(r) => MarkStale(r) \/ UNCHANGED session
   BY DEF Reconcile, ExpireGrants, Select, Queue, QueueConflicts, Disconnect, FailCommand, RunAborts
 <2> QED BY <2>1,<2>3,<2>4,<2>5,<2>6,<2>7,<2>8,<2>9,<2>10 DEF Next
<1> QED BY InitInv, NextInv, <1>1, PTL DEF Spec, EndedIsFinal

------------------------
(* The fair-share evaluation of a router. *)

\* The demands and the caps of the sessions that take part.
Demands == UNION {[S -> Nat] : S \in SUBSET Users}

Modes == {"AGGRESSIVE", "FAIRNESS_ACTIVE", "NORMAL", "RECOVERING"}

Evaluations == [pc : {"none", "look", "write", "list", "delete", "done"}, todo : SUBSET Users,
                ids : SUBSET (Users \X (0..MaxEvals)), caps : Demands, user : Users \cup {0}, mode : Modes, sum : Nat]

PolicyTypes ==
  /\ offered \in [Users -> Nat] /\ quota \subseteq Users /\ fresh \subseteq Users
  /\ queue \in [Users -> [id : 0..MaxEvals, cap : Nat]]
  /\ evaluated \in 0..MaxEvals /\ disturbed \in BOOLEAN
  /\ ev \in [Evals -> Evaluations]
  /\ \A k \in Evals : ev[k].pc = "none" <=> k > evaluated

\* The sessions whose queues an evaluation leaves on the router.
Kept(e) == IF e.mode = "NORMAL" THEN {} ELSE ToEnforcementCommands(e.caps)

CapsAreFit(e) == e.mode # "NORMAL" => Total(e.caps, DOMAIN e.caps) <= Capacity
                                      /\ Total(e.caps, DOMAIN e.caps) <= e.sum

\* What an evaluation keeps to, alone or not.
EvaluationOK(e) ==
  /\ e.todo \subseteq Kept(e)
  /\ e.pc = "write" => e.user \in e.todo
  /\ e.pc \in {"list", "delete", "done"} => e.todo = {}
  /\ CapsAreFit(e)

EvaluationsOK == \A k \in Evals : EvaluationOK(ev[k])

ManagedIn(q) == {u \in Users : q[u] # NoQueue}
IdsIn(q, S) == {<<u, q[u].id>> : u \in S}

\* What the router q holds while an evaluation runs alone: every command that is
\* through, then nothing but the commands and what is listed for deletion.
HoldsSoFar(e, q) ==
  /\ \A u \in Kept(e) \ e.todo : q[u].cap = e.caps[u]
  /\ e.pc = "delete" => e.ids = IdsIn(q, ManagedIn(q) \ Kept(e))
  /\ e.pc = "done" => ManagedIn(q) \subseteq Kept(e)

Alone == evaluated > 0 /\ ~disturbed => Busy \subseteq {evaluated} /\ HoldsSoFar(ev[evaluated], queue)

\* The inductive invariant.
PolicyInv == PolicyTypes /\ EvaluationsOK /\ Alone

(* The smaller of two. *)
LEMMA SmallerOfTwo == ASSUME NEW a \in Int, NEW b \in Int PROVE Min({a, b}) \in {a, b} /\ Min({a, b}) <= a /\ Min({a, b}) <= b
<1>1. \E x \in {a, b} : \A y \in {a, b} : x <= y
 <2>1. CASE a <= b BY <2>1
 <2>2. CASE ~(a <= b) BY <2>2
 <2> QED BY <2>1,<2>2
<1>2. Min({a, b}) \in {a, b} /\ \A y \in {a, b} : Min({a, b}) <= y BY <1>1 DEF Min
<1> QED BY <1>2

(* An equal share of an equal share: k of them fit. *)
LEMMA SharesFit == ASSUME NEW n \in Nat, NEW k \in Nat, k > 0 PROVE (n \div k) \div k \in Nat /\ ((n \div k) \div k) * k <= n
<1>1. PICK a \in Nat : a = n \div k /\ a * k <= n OBVIOUS
<1>2. PICK b \in Nat : b = a \div k /\ b * k <= a OBVIOUS
<1>3. b <= b * k BY <1>2
<1>4. a <= a * k BY <1>1
<1> QED BY <1>1,<1>2,<1>3,<1>4

(* What the sessions that fit are given together fits: the one that asks for the most fitted after
   all those that ask for less. *)
LEMMA SatisfiedFit ==
  ASSUME NEW S, IsFiniteSet(S), NEW d \in [S -> Nat] PROVE Total(d, Satisfied(d, S)) <= Capacity /\ Total(d, Satisfied(d, S)) \in Nat
<1> DEFINE sat == Satisfied(d, S)
<1>1. sat \in SUBSET S /\ IsFiniteSet(sat)
 <2>1. sat \in SUBSET S BY DEF Satisfied
 <2> QED BY <2>1, FS_Subset
<1>2. \A T \in SUBSET S : IsFiniteSet(T) /\ Total(d, T) \in Nat /\ \A x \in T : d[x] \in Nat
 <2>1. TAKE T \in SUBSET S
 <2>2. IsFiniteSet(T) /\ \A x \in T : d[x] \in Nat BY FS_Subset
 <2> QED BY <2>2, SumIsNat DEF Total
<1>3. CASE sat = {}
 <2>1. IsFiniteSet({}) BY FS_EmptySet
 <2>2. Total(d, {}) = 0 BY <2>1, SumRule DEF Total
 <2>3. Total(d, sat) = 0 BY <1>3,<2>2
 <2> QED BY <2>3, PolicyAssumption
<1>4. CASE sat # {}
 <2>1. PICK u \in sat : \A w \in sat : d[w] <= d[u]
  <3>1. \A x \in sat : d[x] \in Int BY <1>1
  <3> HIDE DEF sat
  <3> QED BY <1>1,<1>4,<3>1, GreatestValue
 <2> DEFINE below == {w \in S : d[w] < d[u]}
 <2>2. u \in S /\ Fits(d, S, u) /\ d[u] \in Nat BY <2>1 DEF Satisfied
 <2>3. d[u] * Cardinality(S \ below) <= Capacity - Total(d, below) BY <2>2 DEF Fits
 <2>4. below \subseteq sat
  <3>1. SUFFICES ASSUME NEW w \in below, NEW v \in S, d[v] <= d[w] PROVE Fits(d, S, v) BY DEF Satisfied
  <3>2. d[v] <= d[u]
   <4>1. d[v] \in Nat /\ d[w] \in Nat /\ d[w] < d[u] BY <3>1
   <4> QED BY <3>1,<4>1,<2>2
  <3> QED BY <2>1,<3>2 DEF Satisfied
 <2>5. Total(d, sat) = Total(d, below) + Total(d, sat \ below)
  <3>1. \A x \in sat : d[x] \in Int BY <1>1
  <3> HIDE DEF sat, below
  <3> QED BY <1>1,<2>4,<3>1, SumOfUnion DEF Total
 <2>6. Total(d, sat \ below) <= d[u] * Cardinality(sat \ below)
  <3>1. \A x \in sat \ below : d[x] \in Int /\ d[x] <= d[u] BY <1>1,<2>1
  <3>2. IsFiniteSet(sat \ below) BY <1>1,<1>2
  <3> HIDE DEF sat, below
  <3> QED BY <2>2,<3>1,<3>2, SumIsBounded DEF Total
 <2>7. Cardinality(sat \ below) \in Nat /\ Cardinality(S \ below) \in Nat /\ Cardinality(sat \ below) <= Cardinality(S \ below)
  <3>1. sat \ below \subseteq S \ below /\ IsFiniteSet(S \ below) BY <1>1,<1>2
  <3> HIDE DEF sat, below
  <3> QED BY <3>1, FS_Subset, FS_CardinalityType
 <2>8. Total(d, below) \in Nat /\ Total(d, sat \ below) \in Nat /\ Total(d, sat) \in Nat BY <1>1,<1>2
 <2>9. PICK m \in Nat, n \in Nat, a \in Nat : /\ m = Cardinality(sat \ below)
                                             /\ n = Cardinality(S \ below) /\ a = d[u] BY <2>2,<2>7
 <2>10. a * m <= a * n
  <3>1. m <= n BY <2>7,<2>9
  <3> QED BY <3>1
 <2>11. PICK x \in Nat, y \in Nat : x = a * m /\ y = a * n OBVIOUS
 <2> HIDE DEF sat, below
 <2>12. y <= Capacity - Total(d, below) /\ Total(d, sat \ below) <= x /\ x <= y BY <2>3,<2>6,<2>9,<2>10,<2>11
 <2>13. Capacity \in Nat BY PolicyAssumption
 <2>14. Total(d, sat) <= Capacity BY <2>5,<2>8,<2>12,<2>13
 <2> QED BY <2>8,<2>14 DEF sat
<1> QED BY <1>3,<1>4

(* What is handed out: never more than a session asks for, nor than there is. *)
LEMMA AllocationFits ==
  ASSUME NEW S, IsFiniteSet(S), NEW d \in [S -> Nat]
  PROVE Allocate(d, S) \in [S -> Nat] /\ Total(Allocate(d, S), S) <= Capacity /\ Total(Allocate(d, S), S) <= Total(d, S)
<1> DEFINE sat == Satisfied(d, S)
           rest == S \ sat
           left == Capacity - Total(d, sat)
           k == Cardinality(rest)
           q == (left \div k) \div k
           caps == Allocate(d, S)
<1>1. sat \in SUBSET S /\ IsFiniteSet(sat) /\ IsFiniteSet(rest) /\ rest \in SUBSET S
 <2>1. sat \in SUBSET S BY DEF Satisfied
 <2> QED BY <2>1, FS_Subset
<1>2. left \in Nat
 <2>1. Capacity \in Nat BY PolicyAssumption
 <2>2. Total(d, sat) <= Capacity /\ Total(d, sat) \in Nat BY SatisfiedFit
 <2> QED BY <2>1,<2>2
<1>3. k \in Nat /\ (rest # {} => k > 0)
 <2>1. k \in Nat BY <1>1, FS_CardinalityType
 <2>2. rest # {} => k # 0 BY <1>1, FS_EmptySet
 <2> QED BY <2>1,<2>2
<1>4. rest # {} => q \in Nat /\ q * k <= left BY <1>2,<1>3, SharesFit
<1>5. caps = [u \in S |-> IF u \in sat THEN d[u] ELSE Min({d[u], q})] BY DEF Allocate
<1>6. \A u \in sat : caps[u] = d[u] /\ d[u] \in Nat BY <1>1,<1>5
<1>7. \A u \in rest : caps[u] \in Nat /\ caps[u] <= d[u] /\ caps[u] <= q
 <2>1. TAKE u \in rest
 <2>2. d[u] \in Nat /\ q \in Nat /\ caps[u] = Min({d[u], q}) BY <1>1,<1>4,<1>5
 <2> HIDE DEF q, caps
 <2>3. caps[u] \in {d[u], q} /\ caps[u] <= d[u] /\ caps[u] <= q BY <2>2, SmallerOfTwo
 <2> QED BY <2>2,<2>3
<1>8. caps \in [S -> Nat] /\ \A u \in S : caps[u] <= d[u]
 <2>1. \A u \in S : caps[u] \in Nat /\ caps[u] <= d[u] BY <1>6,<1>7
 <2>2. DOMAIN caps = S /\ caps = [u \in DOMAIN caps |-> caps[u]] BY <1>5
 <2> HIDE DEF caps
 <2> QED BY <2>1,<2>2
<1>9. Total(caps, S) <= Total(d, S)
 <2>1. \A u \in S : caps[u] \in Int /\ d[u] \in Int /\ caps[u] <= d[u] BY <1>8
 <2> HIDE DEF caps
 <2> QED BY <2>1, SumIsMonotone DEF Total
<1>10. Total(caps, S) = Total(caps, sat) + Total(caps, rest)
 <2>1. \A u \in S : caps[u] \in Int BY <1>8
 <2> HIDE DEF caps, sat
 <2> QED BY <2>1,<1>1, SumOfUnion DEF Total
<1>11. Total(caps, sat) = Total(d, sat)
 <2> HIDE DEF caps, sat
 <2> QED BY <1>1,<1>6, SumSame DEF Total
<1>12. Total(caps, rest) <= left
 <2>1. CASE rest = {}
  <3>1. IsFiniteSet({}) BY FS_EmptySet
  <3>2. Total(caps, {}) = 0 BY <3>1, SumRule DEF Total
  <3> HIDE DEF caps, rest, left
  <3>3. Total(caps, rest) = 0 BY <2>1,<3>2
  <3> QED BY <3>3,<1>2
 <2>2. CASE rest # {}
  <3>1. q \in Nat /\ q * k <= left BY <2>2,<1>4
  <3>7. q \in Int BY <3>1
  <3>0. IsFiniteSet(rest) BY <1>1
  <3> HIDE DEF caps, rest, q
  <3>2. \A u \in rest : caps[u] \in Int /\ caps[u] <= q BY <1>7
  <3>3. Total(caps, rest) <= q * Cardinality(rest) BY ONLY <3>0,<3>7,<3>2, SumIsBounded DEF Total
  <3>4. \A u \in rest : caps[u] \in Nat BY <1>7
  <3>5. Total(caps, rest) \in Nat BY <1>1,<3>4, SumIsNat DEF Total
  <3>6. PICK x \in Nat : x = q * k BY <1>3,<3>1
  <3> HIDE DEF left
  <3> QED BY <3>1,<3>3,<3>5,<3>6,<1>2
 <2> QED BY <2>1,<2>2
<1>13. Total(d, sat) \in Nat /\ Capacity \in Nat BY SatisfiedFit, PolicyAssumption
<1>14. Total(caps, rest) \in Nat
 <2>1. \A u \in rest : caps[u] \in Nat BY <1>7
 <2> HIDE DEF caps, rest
 <2> QED BY <1>1,<2>1, SumIsNat DEF Total
<1>15. Total(caps, S) <= Capacity
 <2> HIDE DEF caps, rest, sat
 <2> QED BY <1>10,<1>11,<1>12,<1>13,<1>14 DEF left
<1> QED BY <1>8,<1>9,<1>15

(* A decision: a mode, caps for the same sessions, and outside NORMAL caps that fit the router and
   the demand. *)
LEMMA DecisionFits ==
  ASSUME NEW S, IsFiniteSet(S), NEW d \in [S -> Nat], NEW on \in BOOLEAN
  PROVE LET r == FairnessEvaluate(on, d, S)
         IN  /\ r.mode \in Modes /\ r.caps \in [S -> Nat]
             /\ r.mode # "NORMAL" => Total(r.caps, S) <= Capacity /\ Total(r.caps, S) <= Total(d, S)
<1> DEFINE m == ModeOf(Total(d, S))
           caps == IF m = "NORMAL" THEN d ELSE Allocate(d, S)
<1>1. m \in Modes BY DEF ModeOf, Modes
<1>2. Decide(d, S) = [mode |-> m, caps |-> caps] BY DEF Decide
<1>3. CASE ~on BY <1>3 DEF FairnessEvaluate, Modes
<1>4. CASE on
 <2>1. FairnessEvaluate(on, d, S).mode = m /\ FairnessEvaluate(on, d, S).caps = caps BY <1>2,<1>4 DEF FairnessEvaluate
 <2>2. caps \in [S -> Nat] BY AllocationFits
 <2>3. m # "NORMAL" => Total(caps, S) <= Capacity /\ Total(caps, S) <= Total(d, S) BY AllocationFits
 <2> HIDE DEF m, caps
 <2> QED BY <1>1,<2>1,<2>2,<2>3
<1> QED BY <1>3,<1>4

LEMMA NoEvalType == NoEval \in Evaluations /\ EvaluationOK(NoEval) /\ NoEval.pc = "none" /\ NoEval.mode = "NORMAL"
<1>1. [u \in {} |-> 0] \in Demands
 <2>1. [u \in {} |-> 0] \in [{} -> Nat] /\ {} \in SUBSET Users OBVIOUS
 <2> QED BY <2>1 DEF Demands
<1>2. NoEval \in Evaluations BY <1>1 DEF NoEval, Evaluations, Modes
<1> QED BY <1>2 DEF NoEval, EvaluationOK, Kept, CapsAreFit

LEMMA PolicyInitHolds == PolicyInit => PolicyInv
<1> SUFFICES ASSUME PolicyInit PROVE PolicyInv OBVIOUS
<1> USE DEF PolicyInit
<1>1. MaxEvals \in Nat /\ Offered \subseteq Nat BY PolicyAssumption
<1>2. \A k \in Evals : ev[k] = NoEval /\ k > 0 BY <1>1 DEF Evals
<1>3. offered \in [Users -> Nat] BY <1>1
<1>4. queue \in [Users -> [id : 0..MaxEvals, cap : Nat]] BY <1>1 DEF NoQueue
<1>5. ev \in [Evals -> Evaluations] BY NoEvalType
<1>6. PolicyTypes
 <2>1. \A k \in Evals : ev[k].pc = "none" <=> k > evaluated BY <1>2, NoEvalType
 <2>2. evaluated \in 0..MaxEvals BY <1>1
 <2>4. disturbed \in BOOLEAN BY Zenon
 <2>3. quota \subseteq Users /\ fresh \subseteq Users OBVIOUS
 <2> QED BY <1>3,<1>4,<1>5,<2>1,<2>2,<2>3,<2>4 DEF PolicyTypes
<1>7. EvaluationsOK BY <1>2, NoEvalType DEF EvaluationsOK
<1> QED BY <1>6,<1>7 DEF PolicyInv, Alone

(* A step of one evaluation leaves the others as they are. *)
LEMMA EvaluationMoves ==
  ASSUME PolicyInv, NEW k \in Evals, NEW e \in Evaluations, Now(k, e), EvaluationOK(e), ev[k].pc # "none", e.pc # "none",
      UNCHANGED <<offered, quota, fresh, evaluated>>, queue' \in [Users -> [id : 0..MaxEvals, cap : Nat]], disturbed' \in BOOLEAN
  PROVE  /\ PolicyTypes' /\ EvaluationsOK'
         /\ ev'[k] = e /\ \A j \in Evals \ {k} : ev'[j] = ev[j]
<1> USE DEF PolicyInv, PolicyTypes
<1>1. ev' \in [Evals -> Evaluations] /\ ev'[k] = e /\ \A j \in Evals \ {k} : ev'[j] = ev[j] BY DEF Now
<1>2. \A j \in Evals : ev'[j].pc = "none" <=> j > evaluated'
 <2>1. TAKE j \in Evals
 <2>2. CASE j = k BY <1>1,<2>2
 <2>3. CASE j # k BY <1>1,<2>3
 <2> QED BY <2>2,<2>3
<1>3. PolicyTypes' BY <1>1,<1>2
<1>4. EvaluationsOK'
 <2>1. \A j \in Evals : EvaluationOK(ev'[j]) BY <1>1 DEF EvaluationsOK
 <2> QED BY <2>1 DEF EvaluationsOK
<1> QED BY <1>1,<1>3,<1>4

(* And it keeps the promise of the one that runs alone. *)
LEMMA StepKeeps ==
  ASSUME PolicyInv, NEW k \in Evals, NEW e \in Evaluations, Now(k, e), EvaluationOK(e), ev[k].pc \notin {"none", "done"}, e.pc # "none",
      UNCHANGED <<offered, quota, fresh, evaluated, disturbed>>, queue' \in [Users -> [id : 0..MaxEvals, cap : Nat]],
      HoldsSoFar(ev[k], queue) => HoldsSoFar(e, queue')
  PROVE PolicyInv'
<1>1. /\ PolicyTypes' /\ EvaluationsOK'
      /\ ev'[k] = e /\ \A j \in Evals \ {k} : ev'[j] = ev[j]
 <2>1. disturbed' \in BOOLEAN BY DEF PolicyInv, PolicyTypes
 <2> QED BY <2>1, EvaluationMoves
<1>2. Alone'
 <2>1. SUFFICES ASSUME evaluated > 0, ~disturbed PROVE Busy' \subseteq {evaluated} /\ HoldsSoFar(ev'[evaluated], queue') BY DEF Alone
 <2>2. Busy \subseteq {evaluated} /\ HoldsSoFar(ev[evaluated], queue) BY <2>1 DEF PolicyInv, Alone
 <2>3. k = evaluated BY <2>2 DEF Busy
 <2>4. Busy' \subseteq {evaluated} BY <1>1,<2>2,<2>3 DEF Busy
 <2> QED BY <1>1,<2>2,<2>3,<2>4
<1> QED BY <1>1,<1>2 DEF PolicyInv

LEMMA FindQueueKeeps == ASSUME PolicyInv, NEW k \in Evals, FindQueue(k) PROVE PolicyInv'
<1>1. ev[k] \in Evaluations /\ EvaluationOK(ev[k]) /\ ev[k].pc = "look" BY DEF PolicyInv, PolicyTypes, EvaluationsOK, FindQueue
<1>2. PICK u \in ev[k].todo : Now(k, [ev[k] EXCEPT !.pc = "write", !.user = u, !.ids = IdsOf({u} \cap Managed)]) BY DEF FindQueue
<1>3. IdsOf({u} \cap Managed) \in SUBSET (Users \X (0..MaxEvals)) BY DEF PolicyInv, PolicyTypes, IdsOf, Managed
<1>4. PICK e : e = [ev[k] EXCEPT !.pc = "write", !.user = u, !.ids = IdsOf({u} \cap Managed)] OBVIOUS
<1>5. u \in Users BY <1>1 DEF Evaluations
<1>6. e \in Evaluations BY <1>1,<1>3,<1>4,<1>5 DEF Evaluations
<1>7. e.pc = "write" /\ e.user = u /\ e.todo = ev[k].todo /\ e.caps = ev[k].caps /\ e.mode = ev[k].mode /\ e.sum = ev[k].sum
  BY <1>1,<1>4 DEF Evaluations
<1>8. EvaluationOK(e) BY <1>1,<1>2,<1>7 DEF EvaluationOK, Kept, CapsAreFit
<1>9. HoldsSoFar(ev[k], queue) => HoldsSoFar(e, queue) BY <1>7 DEF HoldsSoFar, Kept
<1>10. /\ UNCHANGED <<offered, quota, fresh, evaluated, disturbed>> /\ queue' = queue
       /\ queue \in [Users -> [id : 0..MaxEvals, cap : Nat]] BY DEF FindQueue, PolicyInv, PolicyTypes
<1>11. Now(k, e) BY <1>2,<1>4
<1>12. HoldsSoFar(ev[k], queue) => HoldsSoFar(e, queue') BY <1>9,<1>10
<1> QED BY <1>1,<1>6,<1>7,<1>8,<1>10,<1>11,<1>12, StepKeeps

LEMMA WriteKeeps == ASSUME PolicyInv, NEW k \in Evals, Write(k) PROVE PolicyInv'
<1>1. ev[k] \in Evaluations /\ EvaluationOK(ev[k]) /\ ev[k].pc = "write" BY DEF PolicyInv, PolicyTypes, EvaluationsOK, Write
<1>2. PICK u : u = ev[k].user OBVIOUS
<1>3. u \in ev[k].todo /\ u \in Kept(ev[k]) BY <1>1,<1>2 DEF EvaluationOK
<1>4. u \in DOMAIN ev[k].caps /\ ev[k].caps[u] > 0 BY <1>3 DEF Kept, ToEnforcementCommands
<1>5. u \in Users /\ ev[k].caps[u] \in Nat BY <1>1,<1>4 DEF Evaluations, Demands
<1>6. PICK e : e = NextCommand(k, ev[k].todo \ {u}) OBVIOUS
<1>7. Now(k, e) BY <1>2,<1>6 DEF Write
<1>8. PICK q : q = [id |-> IF ev[k].ids = {} THEN k ELSE queue[u].id, cap |-> ev[k].caps[u]] OBVIOUS
<1>9. queue' = [queue EXCEPT ![u] = q] BY <1>2,<1>8 DEF Write
<1>10. q \in [id : 0..MaxEvals, cap : Nat]
 <2>1. k \in 0..MaxEvals BY PolicyAssumption DEF Evals
 <2>2. queue[u].id \in 0..MaxEvals BY <1>5 DEF PolicyInv, PolicyTypes
 <2> QED BY <1>5,<1>8,<2>1,<2>2
<1>11. /\ queue' \in [Users -> [id : 0 .. MaxEvals, cap : Nat]]
       /\ queue'[u] = q /\ \A w \in Users \ {u} : queue'[w] = queue[w] BY <1>5,<1>9,<1>10 DEF PolicyInv, PolicyTypes
<1>12. /\ e.pc = (IF ev[k].todo \ {u} = {} THEN "list" ELSE "look") /\ e.todo = ev[k].todo \ {u}
       /\ e.caps = ev[k].caps /\ e.mode = ev[k].mode /\ e.sum = ev[k].sum BY <1>1,<1>6 DEF NextCommand, Evaluations
<1>13. e \in Evaluations BY <1>1,<1>6 DEF NextCommand, Evaluations
<1>14. EvaluationOK(e) BY <1>1,<1>12 DEF EvaluationOK, Kept, CapsAreFit
<1>15. HoldsSoFar(ev[k], queue) => HoldsSoFar(e, queue')
 <2>1. SUFFICES ASSUME HoldsSoFar(ev[k], queue), NEW w \in Kept(e) \ e.todo PROVE queue'[w].cap = e.caps[w] BY <1>12 DEF HoldsSoFar
 <2>2. w \in Kept(ev[k]) /\ w \in Users /\ (w = u \/ w \in Kept(ev[k]) \ ev[k].todo)
   BY <1>1,<1>12 DEF Kept, ToEnforcementCommands, Evaluations, Demands
 <2>3. CASE w = u BY <1>8,<1>11,<1>12,<2>3
 <2>4. CASE w # u BY <1>11,<1>12,<2>1,<2>2,<2>4 DEF HoldsSoFar
 <2> QED BY <2>3,<2>4
<1>16. UNCHANGED <<offered, quota, fresh, evaluated, disturbed>> BY DEF Write
<1>17. e.pc # "none" BY <1>12
<1> QED BY <1>1,<1>7,<1>11,<1>13,<1>14,<1>15,<1>16,<1>17, StepKeeps

LEMMA ListKeeps == ASSUME PolicyInv, NEW k \in Evals, List(k) PROVE PolicyInv'
<1>1. ev[k] \in Evaluations /\ EvaluationOK(ev[k]) /\ ev[k].pc = "list" /\ ev[k].todo = {}
  BY DEF PolicyInv, PolicyTypes, EvaluationsOK, List, EvaluationOK
<1>2. PICK ids : ids = IdsOf(Managed \ Kept(ev[k])) OBVIOUS
<1>3. ids \in SUBSET (Users \X (0..MaxEvals)) BY <1>2 DEF PolicyInv, PolicyTypes, IdsOf, Managed
<1>4. PICK e : e = [ev[k] EXCEPT !.ids = ids, !.pc = IF ids = {} THEN "done" ELSE "delete"] OBVIOUS
<1>5. Now(k, e)
 <2>1. Kept(ev[k]) = IF ev[k].mode = "NORMAL" THEN {} ELSE ToEnforcementCommands(ev[k].caps) BY DEF Kept
 <2> QED BY <2>1,<1>2,<1>4 DEF List
<1>6. e \in Evaluations BY <1>1,<1>3,<1>4 DEF Evaluations
<1>7. /\ e.pc = (IF ids = {} THEN "done" ELSE "delete") /\ e.todo = {} /\ e.ids = ids
      /\ e.caps = ev[k].caps /\ e.mode = ev[k].mode /\ e.sum = ev[k].sum BY <1>1,<1>4 DEF Evaluations
<1>8. EvaluationOK(e) BY <1>1,<1>7 DEF EvaluationOK, Kept, CapsAreFit
<1>9. Kept(e) = Kept(ev[k]) BY <1>7 DEF Kept
<1>10. HoldsSoFar(ev[k], queue) => HoldsSoFar(e, queue)
 <2>1. ids = IdsIn(queue, ManagedIn(queue) \ Kept(e)) BY <1>2,<1>9 DEF IdsOf, IdsIn, Managed, ManagedIn
 <2>2. ids = {} => ManagedIn(queue) \subseteq Kept(e) BY <2>1 DEF IdsIn
 <2> QED BY <1>1,<1>7,<1>9,<2>1,<2>2 DEF HoldsSoFar
<1>11. /\ UNCHANGED <<offered, quota, fresh, evaluated, disturbed>> /\ queue' = queue
       /\ queue \in [Users -> [id : 0..MaxEvals, cap : Nat]] BY DEF List, PolicyInv, PolicyTypes
<1>12. HoldsSoFar(ev[k], queue) => HoldsSoFar(e, queue') BY <1>10,<1>11
<1>13. e.pc # "none" BY <1>7
<1> QED BY <1>1,<1>5,<1>6,<1>8,<1>11,<1>12,<1>13, StepKeeps

LEMMA DeleteKeeps == ASSUME PolicyInv, NEW k \in Evals, Delete(k) PROVE PolicyInv'
<1>1. ev[k] \in Evaluations /\ EvaluationOK(ev[k]) /\ ev[k].pc = "delete" /\ ev[k].todo = {}
  BY DEF PolicyInv, PolicyTypes, EvaluationsOK, Delete, EvaluationOK
<1>2. PICK u \in Managed :
        /\ IdsOf({u}) \subseteq ev[k].ids
        /\ queue' = [queue EXCEPT ![u] = NoQueue]
        /\ LET rest == ev[k].ids \ IdsOf({u})
           IN  Now(k, [ev[k] EXCEPT !.ids = rest, !.pc = IF rest = {} THEN "done" ELSE "delete"]) BY DEF Delete
<1>3. PICK rest : rest = ev[k].ids \ IdsOf({u}) OBVIOUS
<1>4. PICK e : e = [ev[k] EXCEPT !.ids = rest, !.pc = IF rest = {} THEN "done" ELSE "delete"] OBVIOUS
<1>5. Now(k, e) BY <1>2,<1>3,<1>4
<1>6. e \in Evaluations BY <1>1,<1>3,<1>4 DEF Evaluations
<1>7. /\ e.pc = (IF rest = {} THEN "done" ELSE "delete") /\ e.todo = {} /\ e.ids = rest
      /\ e.caps = ev[k].caps /\ e.mode = ev[k].mode /\ e.sum = ev[k].sum BY <1>1,<1>4 DEF Evaluations
<1>8. EvaluationOK(e) BY <1>1,<1>7 DEF EvaluationOK, Kept, CapsAreFit
<1>9. Kept(e) = Kept(ev[k]) BY <1>7 DEF Kept
<1>10. u \in Users /\ IdsOf({u}) = {<<u, queue[u].id>>} BY <1>2 DEF Managed, IdsOf
<1>11. NoQueue \in [id : 0..MaxEvals, cap : Nat] BY PolicyAssumption DEF NoQueue
<1>12. /\ queue' \in [Users -> [id : 0 .. MaxEvals, cap : Nat]]
       /\ queue'[u] = NoQueue /\ \A w \in Users \ {u} : queue'[w] = queue[w] BY <1>2,<1>10,<1>11 DEF PolicyInv, PolicyTypes
<1>13. HoldsSoFar(ev[k], queue) => HoldsSoFar(e, queue')
 <2>1. SUFFICES ASSUME HoldsSoFar(ev[k], queue) PROVE HoldsSoFar(e, queue') OBVIOUS
 <2>2. ev[k].ids = IdsIn(queue, ManagedIn(queue) \ Kept(e)) BY <1>1,<1>9,<2>1 DEF HoldsSoFar
 <2>3. u \notin Kept(e) BY <1>2,<1>10,<2>2 DEF IdsIn
 <2>4. \A w \in Kept(e) \ e.todo : queue'[w].cap = e.caps[w]
  <3>1. TAKE w \in Kept(e) \ e.todo
  <3>2. w # u /\ w \in Users /\ w \in Kept(ev[k]) \ ev[k].todo BY <1>1,<1>9,<2>3 DEF Kept, ToEnforcementCommands, Evaluations, Demands
  <3>3. queue[w].cap = ev[k].caps[w] BY <2>1,<3>2 DEF HoldsSoFar
  <3> QED BY <1>7,<1>12,<3>2,<3>3
 <2>5. ManagedIn(queue') = ManagedIn(queue) \ {u} BY <1>12 DEF ManagedIn
 <2>6. rest = IdsIn(queue', ManagedIn(queue') \ Kept(e))
  <3>1. \A w \in ManagedIn(queue') \ Kept(e) : queue'[w] = queue[w] BY <1>12,<2>5 DEF ManagedIn
  <3>2. IdsIn(queue', ManagedIn(queue') \ Kept(e)) = IdsIn(queue, ManagedIn(queue') \ Kept(e)) BY <3>1 DEF IdsIn
  <3>3. IdsIn(queue, (ManagedIn(queue) \ {u}) \ Kept(e)) = IdsIn(queue, ManagedIn(queue) \ Kept(e)) \ {<<u, queue[u].id>>} BY <1>2 DEF IdsIn
  <3> QED BY <1>3,<1>10,<2>2,<2>5,<3>2,<3>3
 <2>7. rest = {} => ManagedIn(queue') \subseteq Kept(e) BY <2>6 DEF IdsIn
 <2> QED BY <1>7,<2>4,<2>6,<2>7 DEF HoldsSoFar
<1>14. UNCHANGED <<offered, quota, fresh, evaluated, disturbed>> BY DEF Delete
<1>15. e.pc # "none" BY <1>7
<1> QED BY <1>1,<1>5,<1>6,<1>8,<1>12,<1>13,<1>14,<1>15, StepKeeps

LEMMA RouterRefusesKeeps == ASSUME PolicyInv, NEW k \in Evals, RouterRefuses(k) PROVE PolicyInv'
<1>1. ev[k] \in Evaluations /\ EvaluationOK(ev[k]) /\ ev[k].pc \notin {"none", "done"} BY DEF PolicyInv, PolicyTypes, EvaluationsOK, RouterRefuses
<1>2. PICK e : e = [ev[k] EXCEPT !.pc = "done", !.todo = {}, !.ids = {}, !.user = 0] OBVIOUS
<1>3. e \in Evaluations /\ e.pc = "done" /\ e.todo = {} /\ e.caps = ev[k].caps /\ e.mode = ev[k].mode /\ e.sum = ev[k].sum
  BY <1>1,<1>2 DEF Evaluations
<1>4. EvaluationOK(e) BY <1>1,<1>3 DEF EvaluationOK, CapsAreFit
<1>5. /\ Now(k, e) /\ UNCHANGED <<offered, quota, fresh, evaluated>> /\ disturbed' = TRUE
      /\ queue' \in [Users -> [id : 0..MaxEvals, cap : Nat]] BY <1>2 DEF RouterRefuses, PolicyInv, PolicyTypes
<1>6. PolicyTypes' /\ EvaluationsOK' BY <1>1,<1>3,<1>4,<1>5, EvaluationMoves
<1> QED BY <1>5,<1>6 DEF PolicyInv, Alone

LEMMA ShiftKeeps == ASSUME PolicyInv, NEW u \in Users, Shift(u) PROVE PolicyInv'
<1>1. offered' \in [Users -> Nat] /\ quota' \subseteq Users /\ fresh' \subseteq Users
 <2>1. Offered \subseteq Nat BY PolicyAssumption
 <2> QED BY <2>1 DEF Shift, PolicyInv, PolicyTypes
<1>2. UNCHANGED <<queue, ev, evaluated, disturbed>> BY DEF Shift
<1>3. PolicyTypes' BY <1>1,<1>2 DEF PolicyInv, PolicyTypes
<1>4. EvaluationsOK' BY <1>2 DEF PolicyInv, EvaluationsOK
<1>5. Alone' BY <1>2 DEF PolicyInv, Alone, Busy
<1> QED BY <1>3,<1>4,<1>5 DEF PolicyInv

LEMMA RequestedType == ASSUME PolicyTypes, NEW u \in Users PROVE Requested(u) \in Nat
<1>1. offered[u] \in Nat /\ queue[u].cap \in Nat /\ ServiceMax \in Nat BY PolicyAssumption DEF PolicyTypes
<1>2. PICK used : used = IF queue[u] # NoQueue THEN Min({offered[u], queue[u].cap}) ELSE offered[u] OBVIOUS
<1>3. \A a, b \in Nat : Min({a, b}) \in Nat
 <2>1. TAKE a \in Nat, b \in Nat
 <2>2. Min({a, b}) \in {a, b} BY SmallerOfTwo
 <2> QED BY <2>2
<1>4. used \in Nat
 <2>1. CASE queue[u] # NoQueue BY <1>1,<1>2,<1>3,<2>1
 <2>2. CASE queue[u] = NoQueue BY <1>1,<1>2,<2>2
 <2> QED BY <2>1,<2>2
<1>5. Min({used, ServiceMax}) \in Nat BY <1>1,<1>3,<1>4
<1> QED BY <1>2,<1>5 DEF Requested

LEMMA EvaluateKeeps == ASSUME PolicyInv, Evaluate PROVE PolicyInv'
<1>1. IsFiniteSet(Users) /\ MaxEvals \in Nat BY PolicyAssumption
<1>2. PICK d : d = [u \in Measured |-> Requested(u)] OBVIOUS
<1>3. Measured \in SUBSET Users /\ IsFiniteSet(Measured)
 <2>1. Measured \in SUBSET Users BY DEF Measured, PolicyInv, PolicyTypes
 <2> QED BY <1>1,<2>1, FS_Subset
<1>4. d \in [Measured -> Nat] BY <1>2,<1>3, RequestedType DEF PolicyInv
<1>5. PICK on \in BOOLEAN : Now(evaluated + 1, Began(FairnessEvaluate(on, d, Measured), Total(d, Measured))) BY <1>2 DEF Evaluate
<1>6. PICK r : r = FairnessEvaluate(on, d, Measured) OBVIOUS
<1>7. /\ r.mode \in Modes /\ r.caps \in [Measured -> Nat]
      /\ r.mode # "NORMAL" => Total(r.caps, Measured) <= Capacity /\ Total(r.caps, Measured) <= Total(d, Measured) BY <1>3,<1>4,<1>6, DecisionFits
<1>8. Total(d, Measured) \in Nat
 <2>1. \A u \in Measured : d[u] \in Nat BY <1>4
 <2> QED BY <1>3,<2>1, SumIsNat DEF Total
<1>9. PICK k : k = evaluated + 1 OBVIOUS
<1>10. k \in Evals /\ evaluated \in Nat /\ evaluated' = k /\ evaluated < MaxEvals BY <1>1,<1>9 DEF Evaluate, Evals, PolicyInv, PolicyTypes
<1>11. PICK e : e = Began(r, Total(d, Measured)) OBVIOUS
<1>12. PICK todo : todo = IF r.mode = "NORMAL" THEN {} ELSE ToEnforcementCommands(r.caps) OBVIOUS
<1>13. e = [NoEval EXCEPT !.mode = r.mode, !.caps = r.caps, !.sum = Total(d, Measured), !.todo = todo,
                          !.pc = IF todo = {} THEN "list" ELSE "look"] BY <1>11,<1>12 DEF Began
<1>14. NoEval \in Evaluations BY NoEvalType
<1>15. todo \in SUBSET Users BY <1>3,<1>7,<1>12 DEF ToEnforcementCommands
<1>16. r.caps \in Demands BY <1>3,<1>7 DEF Demands
<1>17. e \in Evaluations BY <1>7,<1>8,<1>13,<1>14,<1>15,<1>16 DEF Evaluations
<1>18. /\ e.pc = (IF todo = {} THEN "list" ELSE "look") /\ e.todo = todo /\ e.caps = r.caps
       /\ e.mode = r.mode /\ e.sum = Total(d, Measured) BY <1>13,<1>14 DEF Evaluations
<1>19. Kept(e) = todo BY <1>12,<1>18 DEF Kept
<1>20. EvaluationOK(e)
 <2>1. CapsAreFit(e)
  <3>1. DOMAIN r.caps = Measured BY <1>7
  <3> QED BY <3>1,<1>7,<1>18 DEF CapsAreFit
 <2> QED BY <2>1,<1>18,<1>19 DEF EvaluationOK
<1>21. ev' \in [Evals -> Evaluations] /\ ev'[k] = e /\ \A j \in Evals \ {k} : ev'[j] = ev[j]
 <2>1. ev' = [ev EXCEPT ![k] = e] BY <1>5,<1>6,<1>9,<1>11 DEF Now
 <2> QED BY <2>1,<1>10,<1>17 DEF PolicyInv, PolicyTypes
<1>22. UNCHANGED <<offered, quota, fresh, queue>> /\ disturbed' = (Busy # {}) BY DEF Evaluate
<1>23. PolicyTypes'
 <2>1. \A j \in Evals : ev'[j].pc = "none" <=> j > evaluated'
  <3>1. TAKE j \in Evals
  <3>2. j \in Nat BY <1>1 DEF Evals
  <3>3. CASE j = k
   <4>1. ev'[j].pc \in {"list", "look"} BY <1>18,<1>21,<3>3
   <4>2. ~(j > evaluated') BY <1>10,<3>2,<3>3
   <4> QED BY <4>1,<4>2
  <3>4. CASE j # k
   <4>1. ev[j].pc = "none" <=> j > evaluated BY DEF PolicyInv, PolicyTypes
   <4>2. j > evaluated <=> j > k BY <1>9,<1>10,<3>2,<3>4
   <4> QED BY <1>10,<1>21,<3>4,<4>1,<4>2
  <3> QED BY <3>3,<3>4
 <2>2. evaluated' \in 0..MaxEvals BY <1>1,<1>9,<1>10
 <2>3. disturbed' \in BOOLEAN BY <1>22
 <2>4. /\ offered' \in [Users -> Nat] /\ quota' \subseteq Users /\ fresh' \subseteq Users
       /\ queue' \in [Users -> [id : 0..MaxEvals, cap : Nat]] BY <1>22 DEF PolicyInv, PolicyTypes
 <2> QED BY <1>21,<2>1,<2>2,<2>3,<2>4 DEF PolicyTypes
<1>24. EvaluationsOK'
 <2>1. \A j \in Evals : EvaluationOK(ev'[j]) BY <1>20,<1>21 DEF PolicyInv, EvaluationsOK
 <2> QED BY <2>1 DEF EvaluationsOK
<1>25. Alone'
 <2>1. SUFFICES ASSUME ~disturbed' PROVE Busy' \subseteq {k} /\ HoldsSoFar(ev'[k], queue') BY <1>10 DEF Alone
 <2>2. Busy = {} BY <1>22,<2>1
 <2>3. Busy' \subseteq {k} BY <1>21,<2>2 DEF Busy
 <2>4. HoldsSoFar(e, queue') BY <1>18,<1>19 DEF HoldsSoFar
 <2> QED BY <1>21,<2>3,<2>4
<1> QED BY <1>23,<1>24,<1>25 DEF PolicyInv

LEMMA PolicyStepKeeps == PolicyInv /\ [PolicyNext]_tvars => PolicyInv'
<1>1. SUFFICES ASSUME PolicyInv, [PolicyNext]_tvars PROVE PolicyInv' OBVIOUS
<1>2. CASE Evaluate BY <1>1,<1>2, EvaluateKeeps
<1>3. ASSUME NEW k \in Evals, PolicyStep(k) PROVE PolicyInv'
  BY <1>1,<1>3, FindQueueKeeps, WriteKeeps, ListKeeps, DeleteKeeps, RouterRefusesKeeps DEF PolicyStep
<1>4. ASSUME NEW u \in Users, Shift(u) PROVE PolicyInv' BY <1>1,<1>4, ShiftKeeps
<1>5. CASE UNCHANGED tvars BY <1>1,<1>5 DEF tvars, PolicyInv, PolicyTypes, EvaluationsOK, Alone, Busy
<1> QED BY <1>1,<1>2,<1>3,<1>4,<1>5 DEF PolicyNext

LEMMA PolicyInvSuffices == PolicyInv => PolicyHolds
<1> SUFFICES ASSUME PolicyInv PROVE PolicyHolds OBVIOUS
<1>1. TrafficTypeOK BY DEF PolicyInv, PolicyTypes, TrafficTypeOK
<1>2. RouterHoldsTheDecision
 <2>1. SUFFICES ASSUME evaluated > 0, Busy = {}, ~disturbed, NEW u \in Users
   PROVE queue[u].cap = Wanted(ev[evaluated], u) BY DEF RouterHoldsTheDecision
 <2>2. evaluated \in Evals BY <2>1, PolicyAssumption DEF PolicyInv, PolicyTypes, Evals
 <2>3. PICK e \in Evaluations : e = ev[evaluated] BY <2>2 DEF PolicyInv, PolicyTypes
 <2>4. EvaluationOK(e) /\ HoldsSoFar(e, queue) BY <2>1,<2>2,<2>3 DEF PolicyInv, EvaluationsOK, Alone
 <2>5. e.pc # "none"
  <3>1. ~(evaluated > evaluated) BY <2>2 DEF PolicyInv, PolicyTypes
  <3> QED BY <2>2,<2>3,<3>1 DEF PolicyInv, PolicyTypes
 <2>6. e.pc = "done" BY <2>1,<2>2,<2>3,<2>5 DEF Busy
 <2>7. e.todo = {} BY <2>4,<2>6 DEF EvaluationOK
 <2>8. CASE u \in Kept(e)
  <3>1. queue[u].cap = e.caps[u] BY <2>4,<2>7,<2>8 DEF HoldsSoFar
  <3>2. e.mode # "NORMAL" /\ u \in DOMAIN e.caps BY <2>8 DEF Kept, ToEnforcementCommands
  <3> QED BY <2>3,<3>1,<3>2 DEF Wanted
 <2>9. CASE u \notin Kept(e)
  <3>1. queue[u] = NoQueue BY <2>4,<2>6,<2>9 DEF HoldsSoFar, ManagedIn
  <3>2. queue[u].cap = 0 BY <3>1 DEF NoQueue
  <3>3. e.mode # "NORMAL" /\ u \in DOMAIN e.caps => e.caps[u] = 0
   <4>1. u \in DOMAIN e.caps => e.caps[u] \in Nat BY DEF Evaluations, Demands
   <4> QED BY <2>9,<4>1 DEF Kept, ToEnforcementCommands
  <3> QED BY <2>3,<3>2,<3>3 DEF Wanted
 <2> QED BY <2>8,<2>9
<1>3. CapsFit
 <2>1. SUFFICES ASSUME NEW k \in 1..evaluated, ev[k].mode # "NORMAL"
   PROVE Total(ev[k].caps, DOMAIN ev[k].caps) <= Min({Capacity, ev[k].sum}) BY DEF CapsFit
 <2>2. k \in Evals BY PolicyAssumption DEF PolicyInv, PolicyTypes, Evals
 <2>3. ev[k].sum \in Int /\ Capacity \in Int BY <2>2, PolicyAssumption DEF PolicyInv, PolicyTypes, Evaluations
 <2>4. Total(ev[k].caps, DOMAIN ev[k].caps) <= Capacity /\ Total(ev[k].caps, DOMAIN ev[k].caps) <= ev[k].sum
   BY <2>1,<2>2 DEF PolicyInv, EvaluationsOK, EvaluationOK, CapsAreFit
 <2>5. Min({Capacity, ev[k].sum}) \in {Capacity, ev[k].sum} BY <2>3, SmallerOfTwo
 <2> QED BY <2>4,<2>5
<1> QED BY <1>1,<1>2,<1>3 DEF PolicyHolds

(* TrafficOrchestratorService.evaluateRouter, FairnessEngine.allocate: for any number of sessions,
   demands and capacity, caps never exceed the demands nor together the capacity, and an evaluation
   that ran alone leaves the router holding exactly its decision, whatever crossed or failed before
   it. *)
THEOREM PolicyIsKept == PolicySpec => []PolicyHolds
<1>1. PolicyInit => PolicyInv BY PolicyInitHolds
<1>2. PolicyInv /\ [PolicyNext]_tvars => PolicyInv' BY PolicyStepKeeps
<1>3. PolicyInv => PolicyHolds BY PolicyInvSuffices
<1> QED BY <1>1,<1>2,<1>3, PTL DEF PolicySpec

------------------------
(* Sign-on, accounting and the portal. *)

Calls == [pc : {"idle", "binding", "credential", "answer", "insert", "enqueue", "respond"},
          isp : Isps \cup {"none"}, packet : Packets \cup {"access", "none"}, until : Int, entitled : BOOLEAN, overtaken : BOOLEAN]

RadiusTypes ==
  /\ hour \in Nat /\ nas \in SUBSET Isps
  /\ bound.until \in Int /\ credential.enabled \in BOOLEAN
  /\ handler \in [Handlers -> Calls] /\ handled \in 0..MaxHandled
  /\ accounted \in [Packets -> [isps : SUBSET Isps, times : Nat]]
  /\ published \in SUBSET Packets /\ answered \in SUBSET Packets
  /\ signedOn \in [end : Int, cover : Int, late : BOOLEAN]

\* What a call under way knows: its packet, the one tenant of its address, that
\* what it counted is there, and what it read of the customer while nothing
\* overtook it.
CallOK(k) ==
  /\ k.pc \in {"binding", "credential", "answer"} => k.packet = "access"
  /\ k.pc \in {"insert", "enqueue", "respond"} => k.packet \in Packets
  /\ k.pc \in {"enqueue", "respond"} => accounted[k.packet].times > 0
  /\ k.pc = "respond" => k.packet \in published
  /\ k.pc # "idle" => k.isp \in nas
  /\ k.entitled => k.pc = "answer"
  /\ (k.pc = "credential" \/ k.entitled) /\ ~k.overtaken => Entitled /\ k.until = bound.until
  /\ k.entitled /\ ~k.overtaken => credential.enabled

CallsOK == \A h \in Handlers : CallOK(handler[h])

\* All that was ever taken up is of one tenant, who is entered still.
OneTenant ==
  /\ \A p \in Packets : accounted[p].isps \subseteq nas
  /\ \E t \in Isps \cup {"none"} : /\ \A p \in Packets : accounted[p].isps \subseteq {t}
                                  /\ \A h \in Handlers : handler[h].pc # "idle" => handler[h].isp = t

Inserting(p) == {h \in Handlers : handler[h].pc = "insert" /\ handler[h].packet = p}
CountsOK == \A p \in Packets : accounted[p].times + Cardinality(Inserting(p)) <= handled

RadiusInv == RadiusTypes /\ CallsOK /\ OneTenant /\ CountsOK /\ AnsweredIsRecorded /\ OverrunIsBounded

PortalTypes ==
  /\ attempt \in [started : Nat, count : Nat, blocked : Nat] /\ previous \in Nat
  /\ visit \in [Visitors -> [pc : {"idle", "lookup", "insert", "redeem"}, profile : Profiles \cup {"none"}]]
  /\ profile \in [Profiles -> {"none", "active", "inactive"}]
  /\ twofold \in BOOLEAN
  /\ edit # NoEdit => /\ edit.target \in Profiles /\ edit.asked \in {"none", "active", "inactive"}
                      /\ edit.read \in {"active", "inactive"} /\ profile[edit.target] # "none"

AttemptsOK ==
  /\ hour > 0 /\ attempt.started <= previous /\ previous <= hour
  /\ attempt.blocked > 0 => attempt.count >= AttemptLimit

Late(v) == visit[v].pc \in {"lookup", "insert"}
Known(c) == profile[c] = "active"

\* While nothing was twofold, one redemption at most is on its way to a row of its
\* own, and it found none.
OneAtATime ==
  ~twofold => /\ \A v, w \in Visitors : Late(v) /\ Late(w) => v = w
              /\ \A c, d \in Profiles : Known(c) /\ Known(d) => c = d
              /\ \A v \in Visitors, c \in Profiles : visit[v].pc = "insert" => ~Known(c)

PortalInv == PortalTypes /\ AttemptsOK /\ OneAtATime

HotspotInv == RadiusInv /\ PortalInv

------------------------
(* The plan's attributes. *)
LEMMA MaxWithOne == ASSUME NEW d \in Nat, d >= 1 PROVE Max({1, d}) = d
<1>1. \E x \in {1, d} : \A y \in {1, d} : x >= y OBVIOUS
<1>2. Max({1, d}) \in {1, d} /\ \A y \in {1, d} : Max({1, d}) >= y BY <1>1 DEF Max
<1> QED BY <1>2

LEMMA AttributesAgree == LimitsAgree
<1>1. SUFFICES ASSUME NEW p \in SomePlans PROVE Reply(p) = RadiusPolicyAttributes(p) BY DEF LimitsAgree
<1>2. p.duration \in Nat /\ p.duration >= 1 BY DEF SomePlans
<1>3. Max({1, p.duration}) = p.duration BY <1>2, MaxWithOne
<1>4. p.down \in Speeds /\ p.up \in Speeds BY DEF SomePlans
<1>5. (Missing(p.down) <=> p.down = NoSpeed) /\ (Missing(p.up) <=> p.up = NoSpeed) BY <1>4 DEF Missing, Speeds, NoSpeed
<1> QED BY <1>3,<1>5, Zenon DEF Reply, RadiusPolicyAttributes

------------------------
LEMMA HotspotInitHolds == HotspotInit => HotspotInv
<1> SUFFICES ASSUME HotspotInit PROVE HotspotInv OBVIOUS
<1> USE DEF HotspotInit
<1>1. MaxHandled \in Nat /\ AttemptLimit \in Nat BY HotspotAssumption
<1>2. handler \in [Handlers -> Calls] /\ \A h \in Handlers : handler[h] = NoHandler BY DEF Calls, NoHandler
<1>3. \A h \in Handlers : handler[h].pc = "idle" /\ handler[h].entitled = FALSE BY <1>2 DEF NoHandler
<1>4. RadiusTypes
 <2>1. bound.until \in Int /\ credential.enabled \in BOOLEAN OBVIOUS
 <2>2. handled \in 0..MaxHandled /\ hour \in Nat BY <1>1
 <2>3. accounted \in [Packets -> [isps : SUBSET Isps, times : Nat]] OBVIOUS
 <2>4. published \in SUBSET Packets /\ answered \in SUBSET Packets /\ nas \in SUBSET Isps OBVIOUS
 <2>5. signedOn \in [end : Int, cover : Int, late : BOOLEAN] BY DEF NoSession
 <2> QED BY <1>2,<2>1,<2>2,<2>3,<2>4,<2>5 DEF RadiusTypes
<1>5. CallsOK BY <1>3 DEF CallsOK, CallOK
<1>6. OneTenant BY <1>3 DEF OneTenant
<1>7. CountsOK
 <2>1. SUFFICES ASSUME NEW p \in Packets PROVE accounted[p].times + Cardinality(Inserting(p)) <= handled BY DEF CountsOK
 <2>2. Inserting(p) = {} BY <1>3 DEF Inserting
 <2>3. accounted[p].times = 0 /\ handled = 0 OBVIOUS
 <2> QED BY <2>2,<2>3, FS_EmptySet
<1>8. AnsweredIsRecorded /\ OverrunIsBounded BY DEF AnsweredIsRecorded, OverrunIsBounded, NoSession
<1>9. PortalTypes
 <2>1. \A v \in Visitors : visit[v] = NoVisit OBVIOUS
 <2>2. visit \in [Visitors -> [pc : {"idle", "lookup", "insert", "redeem"}, profile : Profiles \cup {"none"}]] BY DEF NoVisit
 <2>3. profile \in [Profiles -> {"none", "active", "inactive"}] OBVIOUS
 <2>4. attempt \in [started : Nat, count : Nat, blocked : Nat] /\ previous \in Nat OBVIOUS
 <2>5. twofold \in BOOLEAN BY Zenon
 <2> QED BY <2>2,<2>3,<2>4,<2>5 DEF PortalTypes
<1>10. AttemptsOK BY DEF AttemptsOK
<1>11. OneAtATime BY DEF OneAtATime, Late, Known, NoVisit
<1> QED BY <1>4,<1>5,<1>6,<1>7,<1>8,<1>9,<1>10,<1>11 DEF HotspotInv, RadiusInv, PortalInv

------------------------
(* RADIUS: the steps of one call. *)
LEMMA CallStep ==
  ASSUME RadiusInv, NEW h \in Handlers, NEW k \in Calls, handler[h].pc # "idle", handler' = [handler EXCEPT ![h] = k],
      UNCHANGED <<hour, nas, bound, credential, handled>>,
      published \subseteq published', published' \in SUBSET Packets, answered' \in SUBSET Packets,
      accounted' \in [Packets -> [isps : SUBSET Isps, times : Nat]],
      \A p \in Packets : /\ accounted'[p].times >= accounted[p].times
                         /\ accounted'[p].isps \subseteq accounted[p].isps \cup {handler[h].isp},
      signedOn' \in [end : Int, cover : Int, late : BOOLEAN], CallOK(k)', k.pc # "idle" => k.isp = handler[h].isp
  PROVE  /\ RadiusTypes' /\ CallsOK' /\ OneTenant'
         /\ handler'[h] = k /\ \A g \in Handlers \ {h} : handler'[g] = handler[g]
<1>1. /\ handler' \in [Handlers -> Calls] /\ handler'[h] = k
      /\ \A g \in Handlers \ {h} : handler'[g] = handler[g] BY DEF RadiusInv, RadiusTypes
<1>2. RadiusTypes' BY <1>1 DEF RadiusInv, RadiusTypes
<1>3. CallsOK'
 <2>1. SUFFICES ASSUME NEW g \in Handlers PROVE CallOK(handler[g])' BY DEF CallsOK
 <2>2. PICK c \in Calls : c = handler'[g] BY <1>1
 <2>3. CallOK(c)'
  <3>1. CASE g = h BY <1>1,<2>2,<3>1
  <3>2. CASE g # h
   <4>1. c = handler[g] BY <1>1,<2>2,<3>2
   <4>2. CallOK(c) BY <4>1 DEF RadiusInv, CallsOK
   <4>3. c.packet \in Packets /\ accounted[c.packet].times > 0 => accounted'[c.packet].times > 0 BY DEF RadiusInv, RadiusTypes
   <4>4. Entitled' = Entitled /\ bound' = bound /\ credential' = credential /\ nas' = nas BY DEF Entitled
   <4> QED BY <4>2,<4>3,<4>4 DEF CallOK
  <3> QED BY <3>1,<3>2
 <2> QED BY <2>2,<2>3 DEF CallOK
<1>4. OneTenant'
 <2>1. PICK t \in Isps \cup {"none"} :
         /\ \A p \in Packets : accounted[p].isps \subseteq {t}
         /\ \A g \in Handlers : handler[g].pc # "idle" => handler[g].isp = t BY DEF RadiusInv, OneTenant
 <2>2. handler[h].isp = t /\ t \in nas BY <2>1 DEF RadiusInv, CallsOK, CallOK
 <2>3. \A p \in Packets : accounted'[p].isps \subseteq {t} /\ accounted'[p].isps \subseteq nas BY <2>1,<2>2 DEF RadiusInv, OneTenant
 <2>4. \A g \in Handlers : handler'[g].pc # "idle" => handler'[g].isp = t BY <1>1,<2>1,<2>2
 <2> QED BY <2>3,<2>4 DEF OneTenant
<1> QED BY <1>1,<1>2,<1>3,<1>4

(* The deliveries counted and about to be counted stay those taken up. *)
LEMMA CountsKept ==
  ASSUME RadiusInv, handled' = handled, \A p \in Packets : accounted'[p].times = accounted[p].times,
      \A p \in Packets : Inserting(p)' \subseteq Inserting(p)
  PROVE CountsOK'
<1>1. SUFFICES ASSUME NEW p \in Packets PROVE accounted'[p].times + Cardinality(Inserting(p)') <= handled' BY DEF CountsOK
<1>2. IsFiniteSet(Inserting(p))
 <2>1. IsFiniteSet(Handlers) /\ Inserting(p) \subseteq Handlers BY HotspotAssumption DEF Inserting
 <2> QED BY <2>1, FS_Subset
<1>3. PICK A, B : A = Inserting(p) /\ B = Inserting(p)' OBVIOUS
<1>4. /\ Cardinality(B) <= Cardinality(A) /\ Cardinality(A) \in Nat /\ Cardinality(B) \in Nat
 <2>1. IsFiniteSet(A) /\ B \subseteq A BY <1>2,<1>3
 <2> QED BY <2>1, FS_Subset, FS_CardinalityType
<1>5. accounted[p].times \in Nat /\ handled \in Nat /\ accounted[p].times + Cardinality(A) <= handled
  BY <1>3, HotspotAssumption DEF RadiusInv, RadiusTypes, CountsOK
<1>6. accounted'[p].times + Cardinality(B) <= handled' BY <1>4,<1>5
<1> QED BY <1>3,<1>6

(* A call that counts nothing and records nothing. *)
LEMMA QuietCallStep ==
  ASSUME RadiusInv, NEW h \in Handlers, NEW k \in Calls, handler[h].pc # "idle", k.pc # "insert", handler' = [handler EXCEPT ![h] = k],
      UNCHANGED <<hour, nas, bound, credential, handled, accounted>>,
      published \subseteq published', published' \in SUBSET Packets, answered' \in SUBSET Packets,
      signedOn' \in [end : Int, cover : Int, late : BOOLEAN], CallOK(k)', k.pc # "idle" => k.isp = handler[h].isp,
      OverrunIsBounded', AnsweredIsRecorded'
  PROVE RadiusInv'
<1>1. /\ RadiusTypes' /\ CallsOK' /\ OneTenant'
      /\ handler'[h] = k /\ \A g \in Handlers \ {h} : handler'[g] = handler[g]
 <2>1. /\ accounted' \in [Packets -> [isps : SUBSET Isps, times : Nat]]
       /\ \A p \in Packets : /\ accounted'[p].times >= accounted[p].times
                             /\ accounted'[p].isps \subseteq accounted[p].isps \cup {handler[h].isp} BY DEF RadiusInv, RadiusTypes
 <2> QED BY <2>1, CallStep
<1>2. \A p \in Packets : Inserting(p)' \subseteq Inserting(p) BY <1>1 DEF Inserting
<1>3. CountsOK' BY <1>2, CountsKept
<1> QED BY <1>1,<1>3 DEF RadiusInv

LEMMA ReadBindingKeeps == ASSUME RadiusInv, UNCHANGED hour, NEW h \in Handlers, ReadBinding(h) PROVE RadiusInv'
<1>1. handler[h] \in Calls /\ CallOK(handler[h]) /\ handler[h].pc = "binding" BY DEF RadiusInv, RadiusTypes, CallsOK, ReadBinding
<1>2. PICK k : k = [handler[h] EXCEPT !.pc = IF Entitled THEN "credential" ELSE "answer", !.until = bound.until] OBVIOUS
<1>3. handler' = [handler EXCEPT ![h] = k] BY <1>1,<1>2 DEF ReadBinding, RadiusInv, RadiusTypes
<1>4. k \in Calls BY <1>1,<1>2 DEF Calls, RadiusInv, RadiusTypes
<1>5. /\ k.pc = (IF Entitled THEN "credential" ELSE "answer") /\ k.until = bound.until
      /\ k.packet = "access" /\ k.isp = handler[h].isp /\ ~k.entitled BY <1>1,<1>2 DEF Calls, CallOK
<1>6. UNCHANGED <<nas, bound, credential, handled, accounted, published, answered, signedOn>> BY DEF ReadBinding
<1>7. CallOK(k)' BY <1>1,<1>5,<1>6 DEF CallOK, Entitled
<1>8. OverrunIsBounded' /\ AnsweredIsRecorded' BY <1>6 DEF RadiusInv, OverrunIsBounded, AnsweredIsRecorded
<1>9. published' \in SUBSET Packets /\ answered' \in SUBSET Packets /\ signedOn' \in [end : Int, cover : Int, late : BOOLEAN]
  BY <1>6 DEF RadiusInv, RadiusTypes
<1> QED BY <1>1,<1>3,<1>4,<1>5,<1>6,<1>7,<1>8,<1>9, QuietCallStep

LEMMA ReadCredentialKeeps == ASSUME RadiusInv, UNCHANGED hour, NEW h \in Handlers, ReadCredential(h) PROVE RadiusInv'
<1>1. handler[h] \in Calls /\ CallOK(handler[h]) /\ handler[h].pc = "credential" BY DEF RadiusInv, RadiusTypes, CallsOK, ReadCredential
<1>2. PICK k : k = [handler[h] EXCEPT !.pc = "answer", !.entitled = credential.enabled /\ credential.password = "first"] OBVIOUS
<1>3. handler' = [handler EXCEPT ![h] = k] BY <1>1,<1>2 DEF ReadCredential, RadiusInv, RadiusTypes
<1>4. k \in Calls
 <2>1. (credential.enabled /\ credential.password = "first") \in BOOLEAN OBVIOUS
 <2> QED BY <1>1,<1>2,<2>1 DEF Calls
<1>5. k.pc = "answer" /\ k.until = handler[h].until /\ k.overtaken = handler[h].overtaken /\ k.packet = "access" /\ k.isp = handler[h].isp
  BY <1>1,<1>2 DEF Calls, CallOK
<1>10. k.entitled => credential.enabled BY <1>1,<1>2 DEF Calls
<1>6. UNCHANGED <<nas, bound, credential, handled, accounted, published, answered, signedOn>> BY DEF ReadCredential
<1>7. CallOK(k)'
 <2>1. ~k.overtaken => Entitled /\ k.until = bound.until BY <1>1,<1>5 DEF CallOK
 <2>2. k.isp \in nas BY <1>1,<1>5 DEF CallOK
 <2> QED BY <1>5,<1>6,<1>10,<2>1,<2>2 DEF CallOK, Entitled
<1>8. OverrunIsBounded' /\ AnsweredIsRecorded' BY <1>6 DEF RadiusInv, OverrunIsBounded, AnsweredIsRecorded
<1>9. published' \in SUBSET Packets /\ answered' \in SUBSET Packets /\ signedOn' \in [end : Int, cover : Int, late : BOOLEAN]
  BY <1>6 DEF RadiusInv, RadiusTypes
<1> QED BY <1>1,<1>3,<1>4,<1>5,<1>6,<1>7,<1>8,<1>9, QuietCallStep

LEMMA NoHandlerType == NoHandler \in Calls /\ NoHandler.pc = "idle" /\ ~NoHandler.entitled BY DEF NoHandler, Calls

LEMMA NoHandlerOK == CallOK(NoHandler)' BY NoHandlerType DEF CallOK, NoHandler

LEMMA AnswerKeeps == ASSUME RadiusInv, UNCHANGED hour, NEW h \in Handlers, Answer(h) PROVE RadiusInv'
<1>1. handler[h] \in Calls /\ CallOK(handler[h]) /\ handler[h].pc = "answer" BY DEF RadiusInv, RadiusTypes, CallsOK, Answer
<1>2. PICK k : k = NoHandler OBVIOUS
<1>3. handler' = [handler EXCEPT ![h] = k] BY <1>2 DEF Answer, Returns
<1>4. k \in Calls /\ k.pc = "idle" /\ CallOK(k)' BY <1>2, NoHandlerType, NoHandlerOK
<1>5. UNCHANGED <<nas, bound, credential, handled, accounted, published, answered>> BY DEF Answer
<1>6. hour \in Nat /\ Duration \in Nat BY HotspotAssumption DEF RadiusInv, RadiusTypes
<1>7. signedOn' \in [end : Int, cover : Int, late : BOOLEAN] /\ OverrunIsBounded'
 <2>1. CASE UNCHANGED signedOn BY <2>1 DEF RadiusInv, RadiusTypes, OverrunIsBounded
 <2>2. CASE handler[h].entitled /\ signedOn' = [end |-> hour + Duration, cover |-> handler[h].until, late |-> handler[h].overtaken]
  <3>1. handler[h].until \in Int /\ handler[h].overtaken \in BOOLEAN /\ hour + Duration \in Int BY <1>1,<1>6 DEF Calls
  <3>2. signedOn' \in [end : Int, cover : Int, late : BOOLEAN] BY <2>2,<3>1
  <3>3. ~handler[h].overtaken => handler[h].until > hour BY <1>1,<2>2 DEF CallOK, Entitled
  <3>4. ~handler[h].overtaken => hour + Duration < handler[h].until + Duration BY <1>6,<3>1,<3>3
  <3> QED BY <2>2,<3>2,<3>4 DEF OverrunIsBounded
 <2> QED BY <2>1,<2>2 DEF Answer
<1>8. AnsweredIsRecorded' BY <1>5 DEF RadiusInv, AnsweredIsRecorded
<1>9. published' \in SUBSET Packets /\ answered' \in SUBSET Packets BY <1>5 DEF RadiusInv, RadiusTypes
<1> QED BY <1>1,<1>3,<1>4,<1>5,<1>7,<1>8,<1>9, QuietCallStep

LEMMA HandlerDiesKeeps == ASSUME RadiusInv, UNCHANGED hour, NEW h \in Handlers, HandlerDies(h) PROVE RadiusInv'
<1>2. PICK k : k = NoHandler OBVIOUS
<1>3. handler' = [handler EXCEPT ![h] = k] /\ handler[h].pc # "idle" BY <1>2 DEF HandlerDies, Returns
<1>4. k \in Calls /\ k.pc = "idle" /\ CallOK(k)' BY <1>2, NoHandlerType, NoHandlerOK
<1>5. UNCHANGED <<nas, bound, credential, handled, accounted, published, answered, signedOn>> BY DEF HandlerDies
<1>8. OverrunIsBounded' /\ AnsweredIsRecorded' BY <1>5 DEF RadiusInv, OverrunIsBounded, AnsweredIsRecorded
<1>9. published' \in SUBSET Packets /\ answered' \in SUBSET Packets /\ signedOn' \in [end : Int, cover : Int, late : BOOLEAN]
  BY <1>5 DEF RadiusInv, RadiusTypes
<1> QED BY <1>3,<1>4,<1>5,<1>8,<1>9, QuietCallStep

LEMMA EnqueueAccountingKeeps == ASSUME RadiusInv, UNCHANGED hour, NEW h \in Handlers, EnqueueAccounting(h) PROVE RadiusInv'
<1>1. handler[h] \in Calls /\ CallOK(handler[h]) /\ handler[h].pc = "enqueue" BY DEF RadiusInv, RadiusTypes, CallsOK, EnqueueAccounting
<1>2. PICK k : k = [handler[h] EXCEPT !.pc = "respond"] OBVIOUS
<1>3. handler' = [handler EXCEPT ![h] = k] BY <1>1,<1>2 DEF EnqueueAccounting, Goes, RadiusInv, RadiusTypes
<1>4. k \in Calls BY <1>1,<1>2 DEF Calls
<1>5. k.pc = "respond" /\ k.packet = handler[h].packet /\ k.isp = handler[h].isp /\ k.entitled = handler[h].entitled BY <1>1,<1>2 DEF Calls
<1>6. UNCHANGED <<nas, bound, credential, handled, accounted, answered, signedOn>> BY DEF EnqueueAccounting
<1>7. k.packet \in Packets /\ accounted[k.packet].times > 0 /\ k.isp \in nas /\ ~k.entitled BY <1>1,<1>5 DEF CallOK
<1>8. published' = published \cup {k.packet} BY <1>5 DEF EnqueueAccounting
<1>9. CallOK(k)' BY <1>5,<1>6,<1>7,<1>8 DEF CallOK
<1>10. OverrunIsBounded' /\ AnsweredIsRecorded' BY <1>6,<1>8 DEF RadiusInv, OverrunIsBounded, AnsweredIsRecorded
<1>11. /\ published \subseteq published' /\ published' \in SUBSET Packets /\ answered' \in SUBSET Packets
       /\ signedOn' \in [end : Int, cover : Int, late : BOOLEAN] BY <1>6,<1>7,<1>8 DEF RadiusInv, RadiusTypes
<1> QED BY <1>1,<1>3,<1>4,<1>5,<1>6,<1>9,<1>10,<1>11, QuietCallStep

LEMMA RespondKeeps == ASSUME RadiusInv, UNCHANGED hour, NEW h \in Handlers, Respond(h) PROVE RadiusInv'
<1>1. handler[h] \in Calls /\ CallOK(handler[h]) /\ handler[h].pc = "respond" BY DEF RadiusInv, RadiusTypes, CallsOK, Respond
<1>2. PICK k : k = NoHandler OBVIOUS
<1>3. handler' = [handler EXCEPT ![h] = k] BY <1>2 DEF Respond, Returns
<1>4. k \in Calls /\ k.pc = "idle" /\ CallOK(k)' BY <1>2, NoHandlerType, NoHandlerOK
<1>5. UNCHANGED <<nas, bound, credential, handled, accounted, published, signedOn>> BY DEF Respond
<1>6. handler[h].packet \in Packets /\ accounted[handler[h].packet].times > 0 /\ handler[h].packet \in published BY <1>1 DEF CallOK
<1>7. answered' \subseteq answered \cup {handler[h].packet} BY DEF Respond
<1>8. AnsweredIsRecorded' /\ OverrunIsBounded' BY <1>5,<1>6,<1>7 DEF RadiusInv, AnsweredIsRecorded, OverrunIsBounded
<1>9. published' \in SUBSET Packets /\ answered' \in SUBSET Packets /\ signedOn' \in [end : Int, cover : Int, late : BOOLEAN]
  BY <1>5,<1>6,<1>7 DEF RadiusInv, RadiusTypes
<1> QED BY <1>1,<1>3,<1>4,<1>5,<1>8,<1>9, QuietCallStep

LEMMA InsertAccountingKeeps == ASSUME RadiusInv, UNCHANGED hour, NEW h \in Handlers, InsertAccounting(h) PROVE RadiusInv'
<1>1. handler[h] \in Calls /\ CallOK(handler[h]) /\ handler[h].pc = "insert" BY DEF RadiusInv, RadiusTypes, CallsOK, InsertAccounting
<1>2. PICK k : k = [handler[h] EXCEPT !.pc = "enqueue"] OBVIOUS
<1>3. handler' = [handler EXCEPT ![h] = k] BY <1>1,<1>2 DEF InsertAccounting, Goes, RadiusInv, RadiusTypes
<1>4. k \in Calls BY <1>1,<1>2 DEF Calls
<1>5. k.pc = "enqueue" /\ k.packet = handler[h].packet /\ k.isp = handler[h].isp /\ k.entitled = handler[h].entitled BY <1>1,<1>2 DEF Calls
<1>6. UNCHANGED <<nas, bound, credential, handled, published, answered, signedOn>> BY DEF InsertAccounting
<1>7. k.packet \in Packets /\ k.isp \in nas /\ ~k.entitled BY <1>1,<1>5 DEF CallOK
<1>8. PICK old \in [isps : SUBSET Isps, times : Nat] : old = accounted[k.packet] BY <1>7 DEF RadiusInv, RadiusTypes
<1>9. PICK new : new = [isps |-> old.isps \cup {k.isp}, times |-> old.times + 1] OBVIOUS
<1>10. accounted' = [accounted EXCEPT ![k.packet] = new] BY <1>5,<1>7,<1>8,<1>9 DEF InsertAccounting, RadiusInv, RadiusTypes
<1>11. new \in [isps : SUBSET Isps, times : Nat]
 <2>1. k.isp \in Isps BY <1>7 DEF RadiusInv, RadiusTypes
 <2> QED BY <2>1,<1>8,<1>9
<1>12. /\ accounted' \in [Packets -> [isps : SUBSET Isps, times : Nat]]
       /\ accounted'[k.packet] = new /\ \A p \in Packets \ {k.packet} : accounted'[p] = accounted[p] BY <1>7,<1>10,<1>11 DEF RadiusInv, RadiusTypes
<1>13. \A p \in Packets : /\ accounted'[p].times >= accounted[p].times
                          /\ accounted'[p].isps \subseteq accounted[p].isps \cup {handler[h].isp}
 <2>1. TAKE p \in Packets
 <2>2. accounted[p].times \in Nat BY DEF RadiusInv, RadiusTypes
 <2>3. CASE p = k.packet BY <1>5,<1>8,<1>9,<1>12,<2>3
 <2>4. CASE p # k.packet BY <1>12,<2>2,<2>4
 <2> QED BY <2>3,<2>4
<1>14. CallOK(k)'
 <2>1. accounted'[k.packet].times > 0 BY <1>8,<1>9,<1>12
 <2> QED BY <2>1,<1>5,<1>6,<1>7 DEF CallOK
<1>15. /\ RadiusTypes' /\ CallsOK' /\ OneTenant'
       /\ handler'[h] = k /\ \A g \in Handlers \ {h} : handler'[g] = handler[g]
 <2>1. /\ published \subseteq published' /\ published' \in SUBSET Packets /\ answered' \in SUBSET Packets
       /\ signedOn' \in [end : Int, cover : Int, late : BOOLEAN] BY <1>6 DEF RadiusInv, RadiusTypes
 <2> QED BY <1>1,<1>3,<1>4,<1>5,<1>6,<1>12,<1>13,<1>14,<2>1, CallStep
<1>16. OverrunIsBounded' BY <1>6 DEF RadiusInv, OverrunIsBounded
<1>17. AnsweredIsRecorded'
 <2>1. \A p \in answered : p \in Packets /\ accounted[p].times > 0 /\ p \in published BY DEF RadiusInv, AnsweredIsRecorded, RadiusTypes
 <2>2. \A p \in answered : accounted'[p].times > 0
  <3>1. TAKE p \in answered
  <3>2. accounted[p].times \in Nat /\ accounted'[p].times \in Nat BY <2>1,<1>12 DEF RadiusInv, RadiusTypes
  <3> QED BY <2>1,<1>13,<3>2
 <2> QED BY <1>6,<2>1,<2>2 DEF AnsweredIsRecorded
<1>18. CountsOK'
 <2>1. SUFFICES ASSUME NEW p \in Packets PROVE accounted'[p].times + Cardinality(Inserting(p)') <= handled' BY DEF CountsOK
 <2>2. PICK A, B : A = Inserting(p) /\ B = Inserting(p)' OBVIOUS
 <2>3. IsFiniteSet(A)
  <3>1. IsFiniteSet(Handlers) /\ A \subseteq Handlers BY <2>2, HotspotAssumption DEF Inserting
  <3> QED BY <3>1, FS_Subset
 <2>4. accounted[p].times + Cardinality(A) <= handled BY <2>2 DEF RadiusInv, CountsOK
 <2>5. accounted[p].times \in Nat /\ handled \in Nat BY HotspotAssumption DEF RadiusInv, RadiusTypes
 <2>6. CASE p = k.packet
  <3>1. h \in A BY <1>1,<1>5,<2>2,<2>6 DEF Inserting
  <3>2. B = A \ {h} BY <1>5,<1>15,<2>2 DEF Inserting
  <3>3. Cardinality(B) = Cardinality(A) - 1 /\ Cardinality(A) \in Nat BY <2>3,<3>1,<3>2, FS_RemoveElement, FS_CardinalityType
  <3>4. accounted'[p].times = accounted[p].times + 1 BY <1>8,<1>9,<1>12,<2>6
  <3>5. accounted'[p].times + Cardinality(B) <= handled BY <2>4,<2>5,<3>3,<3>4
  <3> QED BY <1>6,<2>2,<3>5
 <2>7. CASE p # k.packet
  <3>1. B \subseteq A BY <1>5,<1>15,<2>2 DEF Inserting
  <3>2. Cardinality(B) <= Cardinality(A) /\ Cardinality(A) \in Nat /\ Cardinality(B) \in Nat BY <2>3,<3>1, FS_Subset, FS_CardinalityType
  <3>3. accounted'[p] = accounted[p] BY <1>12,<2>7
  <3>4. accounted'[p].times + Cardinality(B) <= handled BY <2>4,<2>5,<3>2,<3>3
  <3> QED BY <1>6,<2>2,<3>4
 <2> QED BY <2>6,<2>7
<1> QED BY <1>15,<1>16,<1>17,<1>18 DEF RadiusInv

(* A packet is taken up for the one tenant there is. *)
LEMMA TakesUpKeeps ==
  ASSUME RadiusInv, UNCHANGED hour, NEW h \in Handlers, NEW packet, NEW pc, TakesUp(h, packet, pc),
      \/ packet = "access" /\ pc = "binding"
      \/ packet \in Packets /\ pc = "insert"
  PROVE RadiusInv'
<1>1. handler[h].pc = "idle" /\ handled < MaxHandled /\ handled' = handled + 1 BY DEF TakesUp
<1>2. PICK t \in Isps : nas = {t} /\ handler' = [handler EXCEPT ![h] = [NoHandler EXCEPT !.isp = t, !.packet = packet, !.pc = pc]] BY DEF TakesUp
<1>3. PICK k : k = [NoHandler EXCEPT !.isp = t, !.packet = packet, !.pc = pc] OBVIOUS
<1>4. k \in Calls /\ k.isp = t /\ k.packet = packet /\ k.pc = pc /\ ~k.entitled
 <2>1. k = [pc |-> pc, isp |-> t, packet |-> packet, until |-> 0, entitled |-> FALSE, overtaken |-> FALSE] BY <1>3 DEF NoHandler
 <2>2. packet \in Packets \cup {"access", "none"} /\ pc \in {"binding", "insert"} OBVIOUS
 <2> QED BY <2>1,<2>2 DEF Calls
<1>5. UNCHANGED <<nas, bound, credential, accounted, published, answered, signedOn>> BY DEF TakesUp
<1>6. /\ handler' \in [Handlers -> Calls] /\ handler'[h] = k
      /\ \A g \in Handlers \ {h} : handler'[g] = handler[g] BY <1>2,<1>3,<1>4 DEF RadiusInv, RadiusTypes
<1>7. handled' \in 0..MaxHandled /\ handled \in Nat BY <1>1, HotspotAssumption DEF RadiusInv, RadiusTypes
<1>8. RadiusTypes' BY <1>5,<1>6,<1>7 DEF RadiusInv, RadiusTypes
<1>9. CallsOK'
 <2>1. SUFFICES ASSUME NEW g \in Handlers PROVE CallOK(handler[g])' BY DEF CallsOK
 <2>2. PICK c \in Calls : c = handler'[g] BY <1>6
 <2>3. CallOK(c)'
  <3>1. CASE g = h
   <4>1. c = k BY <1>6,<2>2,<3>1
   <4>2. k.isp \in nas BY <1>2,<1>4
   <4> QED BY <1>4,<1>5,<4>1,<4>2 DEF CallOK
  <3>2. CASE g # h
   <4>1. c = handler[g] BY <1>6,<2>2,<3>2
   <4>2. CallOK(c) BY <4>1 DEF RadiusInv, CallsOK
   <4> QED BY <1>5,<4>2 DEF CallOK, Entitled
  <3> QED BY <3>1,<3>2
 <2> QED BY <2>2,<2>3 DEF CallOK
<1>10. OneTenant'
 <2>1. \A p \in Packets : accounted[p].isps \subseteq {t} BY <1>2 DEF RadiusInv, OneTenant
 <2>2. \A g \in Handlers : handler'[g].pc # "idle" => handler'[g].isp = t
  <3>1. TAKE g \in Handlers
  <3>2. CASE g = h BY <1>4,<1>6,<3>2
  <3>3. CASE g # h BY <1>2,<1>6,<3>3 DEF RadiusInv, CallsOK, CallOK
  <3> QED BY <3>2,<3>3
 <2> QED BY <1>2,<1>5,<2>1,<2>2 DEF OneTenant
<1>11. CountsOK'
 <2>1. SUFFICES ASSUME NEW p \in Packets PROVE accounted'[p].times + Cardinality(Inserting(p)') <= handled' BY DEF CountsOK
 <2>2. PICK A, B : A = Inserting(p) /\ B = Inserting(p)' OBVIOUS
 <2>3. IsFiniteSet(A)
  <3>1. IsFiniteSet(Handlers) /\ A \subseteq Handlers BY <2>2, HotspotAssumption DEF Inserting
  <3> QED BY <3>1, FS_Subset
 <2>4. accounted[p].times + Cardinality(A) <= handled BY <2>2 DEF RadiusInv, CountsOK
 <2>5. accounted[p].times \in Nat BY DEF RadiusInv, RadiusTypes
 <2>6. B \subseteq A \cup {h} BY <1>6,<2>2 DEF Inserting
 <2>7. h \notin A BY <1>1,<2>2 DEF Inserting
 <2>8. IsFiniteSet(A \cup {h}) /\ Cardinality(A \cup {h}) = Cardinality(A) + 1 /\ Cardinality(A) \in Nat
   BY <2>3,<2>7, FS_AddElement, FS_CardinalityType
 <2>9. Cardinality(B) <= Cardinality(A \cup {h}) /\ Cardinality(B) \in Nat BY <2>6,<2>8, FS_Subset, FS_CardinalityType
 <2>10. accounted[p].times + Cardinality(B) <= handled + 1 BY <1>7,<2>4,<2>5,<2>8,<2>9
 <2> QED BY <1>1,<1>5,<2>2,<2>10
<1>12. AnsweredIsRecorded' /\ OverrunIsBounded' BY <1>5 DEF RadiusInv, AnsweredIsRecorded, OverrunIsBounded
<1> QED BY <1>8,<1>9,<1>10,<1>11,<1>12 DEF RadiusInv

LEMMA CreateNasKeeps == ASSUME RadiusInv, UNCHANGED hour, NEW t \in Isps, CreateNas(t) PROVE RadiusInv'
<1>1. nas' = nas \cup {t} /\ UNCHANGED <<bound, credential, handler, handled, accounted, published, answered, signedOn>> BY DEF CreateNas
<1>2. RadiusTypes' BY <1>1 DEF RadiusInv, RadiusTypes
<1>3. CallsOK' BY <1>1 DEF RadiusInv, CallsOK, CallOK, Entitled
<1>4. OneTenant' BY <1>1 DEF RadiusInv, OneTenant
<1>5. CountsOK' BY <1>1 DEF RadiusInv, CountsOK, Inserting
<1>6. AnsweredIsRecorded' /\ OverrunIsBounded' BY <1>1 DEF RadiusInv, AnsweredIsRecorded, OverrunIsBounded
<1> QED BY <1>2,<1>3,<1>4,<1>5,<1>6 DEF RadiusInv

(* What overtakes the calls under way leaves them nothing to be wrong about. *)
LEMMA OvertakeStep ==
  ASSUME RadiusInv, Overtake, UNCHANGED <<nas, handled, accounted, published, answered>>,
      hour' \in Nat, bound'.until \in Int, credential'.enabled \in BOOLEAN,
      signedOn' \in [end : Int, cover : Int, late : BOOLEAN], OverrunIsBounded'
  PROVE RadiusInv'
<1>1. \A h \in Handlers : \E k \in Calls :
        handler'[h] = k /\ CallOK(k)' /\ k.pc = handler[h].pc /\ k.packet = handler[h].packet /\ k.isp = handler[h].isp
 <2>1. TAKE h \in Handlers
 <2>2. PICK c \in Calls : c = handler[h] BY DEF RadiusInv, RadiusTypes
 <2>3. CallOK(c) BY <2>2 DEF RadiusInv, CallsOK
 <2>4. PICK k : k = [c EXCEPT !.overtaken = c.overtaken \/ c.packet = "access"] OBVIOUS
 <2>5. handler'[h] = k BY <2>2,<2>4 DEF Overtake, Calls
 <2>6. k \in Calls
  <3>1. (c.overtaken \/ c.packet = "access") \in BOOLEAN OBVIOUS
  <3> QED BY <2>4,<3>1 DEF Calls
 <2>7. k.pc = c.pc /\ k.packet = c.packet /\ k.isp = c.isp /\ k.entitled = c.entitled BY <2>4 DEF Calls
 <2>8. c.packet = "access" => k.overtaken BY <2>4 DEF Calls
 <2>9. CallOK(k)' BY <2>3,<2>7,<2>8 DEF CallOK
 <2> QED BY <2>2,<2>5,<2>6,<2>7,<2>9
<1>2. handler' \in [Handlers -> Calls]
 <2>1. DOMAIN handler' = Handlers /\ handler' = [h \in DOMAIN handler' |-> handler'[h]] BY DEF Overtake
 <2> QED BY <2>1,<1>1
<1>3. RadiusTypes' BY <1>2 DEF RadiusInv, RadiusTypes
<1>4. CallsOK' BY <1>1 DEF CallsOK, CallOK
<1>5. OneTenant'
 <2>1. \A h \in Handlers : handler'[h].pc = handler[h].pc /\ handler'[h].isp = handler[h].isp BY <1>1
 <2> QED BY <2>1 DEF RadiusInv, OneTenant
<1>6. CountsOK'
 <2>1. \A p \in Packets : Inserting(p)' \subseteq Inserting(p) BY <1>1 DEF Inserting
 <2> QED BY <2>1, CountsKept
<1>7. AnsweredIsRecorded' BY DEF RadiusInv, AnsweredIsRecorded
<1> QED BY <1>3,<1>4,<1>5,<1>6,<1>7 DEF RadiusInv

LEMMA ChangeBindingKeeps == ASSUME RadiusInv, UNCHANGED hour, ChangeBinding PROVE RadiusInv'
<1>1. UNCHANGED <<nas, credential, handled, accounted, published, answered, signedOn>> /\ Overtake BY DEF ChangeBinding
<1>2. hour' \in Nat /\ credential'.enabled \in BOOLEAN /\ signedOn' \in [end : Int, cover : Int, late : BOOLEAN] BY <1>1 DEF RadiusInv, RadiusTypes
<1>3. bound'.until \in Int
 <2>1. hour + Duration \in Int BY HotspotAssumption DEF RadiusInv, RadiusTypes
 <2>2. CASE bound' = [bound EXCEPT !.state = "SUSPENDED"]
  <3>1. bound'.until = bound.until BY <2>2
  <3> QED BY <3>1 DEF RadiusInv, RadiusTypes
 <2>3. CASE bound' = [state |-> "ACTIVE", until |-> hour + Duration] BY <2>1,<2>3
 <2> QED BY <2>2,<2>3 DEF ChangeBinding
<1>4. OverrunIsBounded' BY <1>1 DEF RadiusInv, OverrunIsBounded
<1> QED BY <1>1,<1>2,<1>3,<1>4, OvertakeStep

LEMMA SetCredentialKeeps == ASSUME RadiusInv, UNCHANGED hour, SetCredential PROVE RadiusInv'
<1>1. UNCHANGED <<nas, bound, handled, accounted, published, answered, signedOn>> /\ Overtake BY DEF SetCredential
<1>2. hour' \in Nat /\ bound'.until \in Int /\ signedOn' \in [end : Int, cover : Int, late : BOOLEAN] BY <1>1 DEF RadiusInv, RadiusTypes
<1>3. credential'.enabled \in BOOLEAN BY DEF SetCredential
<1>4. OverrunIsBounded' BY <1>1 DEF RadiusInv, OverrunIsBounded
<1> QED BY <1>1,<1>2,<1>3,<1>4, OvertakeStep

LEMMA SessionTimesOutKeeps == ASSUME RadiusInv, SessionTimesOut PROVE RadiusInv'
<1>1. UNCHANGED <<nas, bound, credential, handled, accounted, published, answered>> /\ Overtake BY DEF SessionTimesOut
<1>2. hour' \in Nat /\ bound'.until \in Int /\ credential'.enabled \in BOOLEAN BY <1>1 DEF SessionTimesOut, HourPasses, RadiusInv, RadiusTypes
<1>3. signedOn' \in [end : Int, cover : Int, late : BOOLEAN] /\ OverrunIsBounded'
 <2>1. CASE signedOn' = NoSession BY <2>1 DEF NoSession, OverrunIsBounded
 <2>2. CASE signedOn' = signedOn BY <2>2 DEF RadiusInv, RadiusTypes, OverrunIsBounded
 <2> QED BY <2>1,<2>2 DEF SessionTimesOut
<1> QED BY <1>1,<1>2,<1>3, OvertakeStep

LEMMA DisconnectSessionKeeps == ASSUME RadiusInv, UNCHANGED hour, DisconnectSession PROVE RadiusInv'
<1>1. UNCHANGED <<nas, bound, credential, handler, handled, accounted, published, answered>> /\ signedOn' = NoSession BY DEF DisconnectSession
<1>2. RadiusTypes' BY <1>1 DEF RadiusInv, RadiusTypes, NoSession
<1>3. CallsOK' BY <1>1 DEF RadiusInv, CallsOK, CallOK, Entitled
<1>4. OneTenant' BY <1>1 DEF RadiusInv, OneTenant
<1>5. CountsOK' BY <1>1 DEF RadiusInv, CountsOK, Inserting
<1>6. AnsweredIsRecorded' /\ OverrunIsBounded' BY <1>1 DEF RadiusInv, AnsweredIsRecorded, OverrunIsBounded, NoSession
<1> QED BY <1>2,<1>3,<1>4,<1>5,<1>6 DEF RadiusInv

------------------------
(* The portal. *)

(* Time only lets windows end. *)
LEMMA PortalWaits == ASSUME PortalInv, UNCHANGED portalVars, hour \in Nat, hour' \in {hour, hour + 1} PROVE PortalInv'
<1>1. PortalTypes' BY DEF PortalInv, PortalTypes, portalVars
<1>2. AttemptsOK'
 <2>1. attempt' = attempt /\ previous' = previous /\ previous \in Nat BY DEF PortalInv, PortalTypes, portalVars
 <2>2. hour' > 0 /\ previous <= hour' BY <2>1 DEF PortalInv, AttemptsOK
 <2> QED BY <2>1,<2>2 DEF PortalInv, AttemptsOK
<1>3. OneAtATime' BY DEF PortalInv, OneAtATime, Late, Known, portalVars
<1> QED BY <1>1,<1>2,<1>3 DEF PortalInv

(* An attempt is counted against its window. *)
LEMMA CountedType ==
  ASSUME PortalInv, hour \in Nat, NEW a, a = IF attempt.count = 0 THEN [started |-> hour, count |-> 1, blocked |-> 0]
                                              ELSE Counted(attempt)
  PROVE  /\ a \in [started : Nat, count : Nat, blocked : Nat] /\ a.started <= hour
         /\ a.blocked > 0 => a.count >= AttemptLimit
<1> USE HotspotAssumption DEF PortalInv, PortalTypes, AttemptsOK
<1>1. attempt.started \in Nat /\ attempt.count \in Nat /\ attempt.blocked \in Nat /\ attempt.started <= hour OBVIOUS
<1>2. CASE a = [started |-> hour, count |-> 1, blocked |-> 0] BY <1>2
<1>3. CASE a = [started |-> attempt.started, count |-> attempt.count + 1,
                blocked |-> IF attempt.count + 1 >= AttemptLimit THEN hour + Window ELSE attempt.blocked]
 <2>1. a.started = attempt.started /\ a.count = attempt.count + 1 BY <1>3
 <2>2. a.blocked \in Nat /\ a = [started |-> a.started, count |-> a.count, blocked |-> a.blocked] BY <1>1,<1>3
 <2>3. a.blocked > 0 => a.count >= AttemptLimit
  <3>1. CASE attempt.count + 1 >= AttemptLimit BY <2>1,<3>1
  <3>2. CASE ~(attempt.count + 1 >= AttemptLimit)
   <4>1. a.blocked = attempt.blocked BY <1>3,<3>2
   <4>2. attempt.blocked > 0 => attempt.count >= AttemptLimit OBVIOUS
   <4> QED BY <1>1,<3>2,<4>1,<4>2
  <3> QED BY <3>1,<3>2
 <2> QED BY <1>1,<2>1,<2>2,<2>3
<1> QED BY <1>2,<1>3 DEF Counted

LEMMA RedeemKeeps == ASSUME PortalInv, hour \in Nat, UNCHANGED hour, NEW v \in Visitors, RedeemPublicVoucher(v) PROVE PortalInv'
<1>1. /\ visit[v].pc = "idle" /\ previous' = hour /\ UNCHANGED <<profile, edit>>
      /\ twofold' = (twofold \/ \E w \in Visitors : visit[w].pc \in {"lookup", "insert"}) BY DEF RedeemPublicVoucher
<1>2. PICK a : a = IF attempt.count = 0 THEN [started |-> hour, count |-> 1, blocked |-> 0] ELSE Counted(attempt) OBVIOUS
<1>3. attempt' = a BY <1>2 DEF RedeemPublicVoucher
<1>4. /\ a \in [started : Nat, count : Nat, blocked : Nat] /\ a.started <= hour
      /\ a.blocked > 0 => a.count >= AttemptLimit BY <1>2, CountedType
<1>5. PICK pc \in {"idle", "lookup"} : visit' = [visit EXCEPT ![v].pc = pc] BY <1>3 DEF RedeemPublicVoucher
<1>6. /\ visit' \in [Visitors -> [pc : {"idle", "lookup", "insert", "redeem"}, profile : Profiles \cup {"none"}]]
      /\ visit'[v].pc = pc /\ \A w \in Visitors \ {v} : visit'[w] = visit[w] BY <1>5 DEF PortalInv, PortalTypes
<1>7. twofold' \in BOOLEAN BY <1>1
<1>8. PortalTypes' BY <1>1,<1>3,<1>4,<1>6,<1>7 DEF PortalInv, PortalTypes
<1>9. AttemptsOK' BY <1>1,<1>3,<1>4 DEF PortalInv, AttemptsOK
<1>10. OneAtATime'
 <2>1. SUFFICES ASSUME ~twofold' PROVE /\ \A x, w \in Visitors : Late(x)' /\ Late(w)' => x = w
                                       /\ \A c, d \in Profiles : Known(c)' /\ Known(d)' => c = d
                                       /\ \A x \in Visitors, c \in Profiles : visit'[x].pc = "insert" => ~Known(c)' BY DEF OneAtATime
 <2>2. ~twofold /\ \A w \in Visitors : ~Late(w) BY <1>1,<2>1 DEF Late
 <2>3. \A w \in Visitors \ {v} : ~Late(w)' BY <1>6,<2>2 DEF Late
 <2>4. \A x \in Visitors : visit'[x].pc # "insert" BY <1>5,<1>6,<2>3 DEF Late
 <2>5. \A c, d \in Profiles : Known(c)' /\ Known(d)' => c = d BY <1>1,<2>2 DEF PortalInv, OneAtATime, Known
 <2> QED BY <2>3,<2>4,<2>5
<1> QED BY <1>8,<1>9,<1>10 DEF PortalInv

(* A step of one visitor that leaves attempts and edits alone. *)
LEMMA VisitStep ==
  ASSUME PortalInv, UNCHANGED <<hour, attempt, previous, edit, twofold>>, NEW v \in Visitors,
      NEW k \in [pc : {"idle", "insert", "redeem"}, profile : Profiles \cup {"none"}], visit' = [visit EXCEPT ![v] = k],
      k.pc = "insert" => Late(v) /\ \A c \in Profiles : ~Known(c)', profile' \in [Profiles -> {"none", "active", "inactive"}],
      \A c \in Profiles : profile[c] # "none" => profile'[c] = profile[c],
      \/ profile' = profile
      \/ /\ visit[v].pc = "insert" /\ k.pc = "redeem"
         /\ \E c \in Profiles : \A d \in Profiles \ {c} : profile'[d] = profile[d]
  PROVE PortalInv'
<1>1. /\ visit' \in [Visitors -> [pc : {"idle", "lookup", "insert", "redeem"}, profile : Profiles \cup {"none"}]]
      /\ visit'[v] = k /\ \A w \in Visitors \ {v} : visit'[w] = visit[w] BY DEF PortalInv, PortalTypes
<1>2. PortalTypes' BY <1>1 DEF PortalInv, PortalTypes
<1>3. AttemptsOK' BY DEF PortalInv, AttemptsOK
<1>4. OneAtATime'
 <2>1. SUFFICES ASSUME ~twofold PROVE /\ \A x, w \in Visitors : Late(x)' /\ Late(w)' => x = w
                                      /\ \A c, d \in Profiles : Known(c)' /\ Known(d)' => c = d
                                      /\ \A x \in Visitors, c \in Profiles : visit'[x].pc = "insert" => ~Known(c)' BY DEF OneAtATime
 <2>2. /\ \A x, w \in Visitors : Late(x) /\ Late(w) => x = w
       /\ \A c, d \in Profiles : Known(c) /\ Known(d) => c = d
       /\ \A x \in Visitors, c \in Profiles : visit[x].pc = "insert" => ~Known(c) BY <2>1 DEF PortalInv, OneAtATime
 <2>3. \A w \in Visitors : Late(w)' => Late(w) BY <1>1 DEF Late
 <2>4. \A x, w \in Visitors : Late(x)' /\ Late(w)' => x = w BY <2>2,<2>3
 <2>5. CASE profile' = profile
  <3>1. \A c \in Profiles : Known(c)' <=> Known(c) BY <2>5 DEF Known
  <3>2. \A x \in Visitors, c \in Profiles : visit'[x].pc = "insert" => ~Known(c)' BY <1>1,<2>2,<3>1
  <3> QED BY <2>2,<2>4,<3>1,<3>2
 <2>6. CASE profile' # profile
  <3>1. visit[v].pc = "insert" /\ k.pc = "redeem" BY <2>6
  <3>2. PICK c \in Profiles : \A d \in Profiles \ {c} : profile'[d] = profile[d] BY <2>6
  <3>3. \A d \in Profiles : ~Known(d) BY <2>2,<3>1
  <3>4. \A d \in Profiles : Known(d)' => d = c BY <3>2,<3>3 DEF Known
  <3>5. \A x \in Visitors : visit'[x].pc # "insert"
   <4>1. Late(v) /\ ~(Late(v)') BY <1>1,<3>1 DEF Late
   <4>2. \A x \in Visitors : ~(Late(x)') BY <2>2,<2>3,<4>1
   <4> QED BY <4>2 DEF Late
  <3> QED BY <2>4,<3>4,<3>5
 <2> QED BY <2>5,<2>6
<1> QED BY <1>2,<1>3,<1>4 DEF PortalInv

LEMMA LookUpKeeps == ASSUME PortalInv, UNCHANGED hour, NEW v \in Visitors, LookUp(v) PROVE PortalInv'
<1>1. visit[v].pc = "lookup" /\ UNCHANGED <<attempt, previous, profile, edit, twofold>> BY DEF LookUp
<1>2. visit[v] \in [pc : {"idle", "lookup", "insert", "redeem"}, profile : Profiles \cup {"none"}] BY DEF PortalInv, PortalTypes
<1>3. PICK k \in [pc : {"insert", "redeem"}, profile : Profiles \cup {"none"}] :
        visit' = [visit EXCEPT ![v] = k] /\ (k.pc = "insert" => \A c \in Profiles : ~Known(c))
 <2>1. CASE {c \in Profiles : profile[c] = "active"} = {}
  <3>1. PICK k : k = [visit[v] EXCEPT !.pc = "insert"] OBVIOUS
  <3>2. visit' = [visit EXCEPT ![v] = k] BY <2>1,<3>1 DEF LookUp, PortalInv, PortalTypes
  <3>3. k \in [pc : {"insert", "redeem"}, profile : Profiles \cup {"none"}] BY <1>2,<3>1
  <3>4. \A c \in Profiles : ~Known(c) BY <2>1 DEF Known
  <3> QED BY <3>2,<3>3,<3>4
 <2>2. CASE {c \in Profiles : profile[c] = "active"} # {}
  <3>1. PICK c \in Profiles : visit' = [visit EXCEPT ![v] = [pc |-> "redeem", profile |-> c]] BY <2>2 DEF LookUp
  <3>2. PICK k : k = [pc |-> "redeem", profile |-> c] OBVIOUS
  <3>3. k \in [pc : {"insert", "redeem"}, profile : Profiles \cup {"none"}] /\ k.pc = "redeem" BY <3>2
  <3> QED BY <3>1,<3>2,<3>3
 <2> QED BY <2>1,<2>2
<1>4. \A c \in Profiles : Known(c)' <=> Known(c) BY <1>1 DEF Known
<1>5. k \in [pc : {"idle", "insert", "redeem"}, profile : Profiles \cup {"none"}] BY <1>3
<1>6. Late(v) BY <1>1 DEF Late
<1>7. profile' \in [Profiles -> {"none", "active", "inactive"}] BY <1>1 DEF PortalInv, PortalTypes
<1>8. k.pc = "insert" => Late(v) /\ \A c \in Profiles : ~Known(c)' BY <1>3,<1>4,<1>6
<1>9. profile' = profile /\ \A c \in Profiles : profile[c] # "none" => profile'[c] = profile[c] BY <1>1
<1>10. \/ profile' = profile
       \/ /\ visit[v].pc = "insert" /\ k.pc = "redeem"
          /\ \E c \in Profiles : \A d \in Profiles \ {c} : profile'[d] = profile[d] BY <1>1
<1>11. UNCHANGED <<hour, attempt, previous, edit, twofold>> BY <1>1
<1> QED BY <1>3,<1>5,<1>7,<1>8,<1>9,<1>10,<1>11, VisitStep

LEMMA InsertProfileKeeps == ASSUME PortalInv, UNCHANGED hour, NEW v \in Visitors, InsertProfile(v) PROVE PortalInv'
<1>1. visit[v].pc = "insert" /\ UNCHANGED <<attempt, previous, edit, twofold>> BY DEF InsertProfile
<1>2. PICK c \in Profiles : /\ profile[c] = "none" /\ profile' = [profile EXCEPT ![c] = "active"]
                            /\ visit' = [visit EXCEPT ![v] = [pc |-> "redeem", profile |-> c]] BY DEF InsertProfile
<1>3. PICK k : k = [pc |-> "redeem", profile |-> c] OBVIOUS
<1>4. k \in [pc : {"idle", "insert", "redeem"}, profile : Profiles \cup {"none"}] /\ k.pc = "redeem" BY <1>3
<1>5. /\ profile' \in [Profiles -> {"none", "active", "inactive"}]
      /\ \A d \in Profiles \ {c} : profile'[d] = profile[d] BY <1>2 DEF PortalInv, PortalTypes
<1>6. \A d \in Profiles : profile[d] # "none" => profile'[d] = profile[d] BY <1>2,<1>5
<1> QED BY <1>1,<1>2,<1>3,<1>4,<1>5,<1>6, VisitStep

LEMMA RedeemEndsKeeps == ASSUME PortalInv, UNCHANGED hour, NEW v \in Visitors, RedeemEnds(v) PROVE PortalInv'
<1>1. UNCHANGED <<attempt, previous, profile, edit, twofold>> BY DEF RedeemEnds
<1>2. PICK k : k = NoVisit OBVIOUS
<1>3. k \in [pc : {"idle", "insert", "redeem"}, profile : Profiles \cup {"none"}] /\ k.pc = "idle" BY <1>2 DEF NoVisit
<1>4. visit' = [visit EXCEPT ![v] = k] BY <1>2 DEF RedeemEnds
<1>5. profile' \in [Profiles -> {"none", "active", "inactive"}] BY <1>1 DEF PortalInv, PortalTypes
<1>6. k.pc = "insert" => Late(v) /\ \A c \in Profiles : ~Known(c)' BY <1>3
<1>7. profile' = profile /\ \A c \in Profiles : profile[c] # "none" => profile'[c] = profile[c] BY <1>1
<1>10. \/ profile' = profile
       \/ /\ visit[v].pc = "insert" /\ k.pc = "redeem"
          /\ \E c \in Profiles : \A d \in Profiles \ {c} : profile'[d] = profile[d] BY <1>1
<1>11. UNCHANGED <<hour, attempt, previous, edit, twofold>> BY <1>1
<1> QED BY <1>3,<1>4,<1>5,<1>6,<1>7,<1>10,<1>11, VisitStep

LEMMA GetProfileKeeps == ASSUME PortalInv, UNCHANGED hour, NEW c \in Profiles, GetProfile(c) PROVE PortalInv'
<1>1. UNCHANGED <<attempt, previous, visit, profile, twofold>> /\ profile[c] # "none" BY DEF GetProfile
<1>2. PICK asked \in {"none", "active", "inactive"} : edit' = [target |-> c, asked |-> asked, read |-> profile[c]] BY DEF GetProfile
<1>3. profile[c] \in {"active", "inactive"} BY <1>1 DEF PortalInv, PortalTypes
<1>4. PortalTypes' BY <1>1,<1>2,<1>3 DEF PortalInv, PortalTypes
<1>5. AttemptsOK' BY <1>1 DEF PortalInv, AttemptsOK
<1>6. OneAtATime' BY <1>1 DEF PortalInv, OneAtATime, Late, Known
<1> QED BY <1>4,<1>5,<1>6 DEF PortalInv

LEMMA UpdateProfileKeeps == ASSUME PortalInv, UNCHANGED hour, UpdateProfile PROVE PortalInv'
<1>1. edit # NoEdit /\ edit' = NoEdit /\ UNCHANGED <<attempt, previous, visit>> BY DEF UpdateProfile
<1>2. PICK c \in Profiles : c = edit.target BY <1>1 DEF PortalInv, PortalTypes
<1>3. PICK now \in {"active", "inactive"} : now = IF edit.asked = "none" THEN edit.read ELSE edit.asked BY <1>1 DEF PortalInv, PortalTypes
<1>4. /\ profile' = [profile EXCEPT ![c] = now]
      /\ twofold' = (twofold \/ (profile[c] = "inactive" /\ now = "active")) BY <1>2,<1>3 DEF UpdateProfile
<1>5. profile[c] \in {"active", "inactive"} BY <1>1,<1>2 DEF PortalInv, PortalTypes
<1>6. /\ profile' \in [Profiles -> {"none", "active", "inactive"}]
      /\ profile'[c] = now /\ \A d \in Profiles \ {c} : profile'[d] = profile[d] BY <1>3,<1>4 DEF PortalInv, PortalTypes
<1>7. PortalTypes'
 <2>1. twofold' \in BOOLEAN BY <1>4
 <2> QED BY <1>1,<1>6,<2>1 DEF PortalInv, PortalTypes
<1>8. AttemptsOK' BY <1>1 DEF PortalInv, AttemptsOK
<1>9. OneAtATime'
 <2>1. SUFFICES ASSUME ~twofold' PROVE /\ \A x, w \in Visitors : Late(x)' /\ Late(w)' => x = w
                                       /\ \A b, d \in Profiles : Known(b)' /\ Known(d)' => b = d
                                       /\ \A x \in Visitors, d \in Profiles : visit'[x].pc = "insert" => ~Known(d)' BY DEF OneAtATime
 <2>2. ~twofold /\ ~(profile[c] = "inactive" /\ now = "active") BY <1>4,<2>1
 <2>3. \A d \in Profiles : Known(d)' => Known(d)
  <3>1. TAKE d \in Profiles
  <3>2. CASE d = c BY <1>5,<1>6,<2>2,<3>2 DEF Known
  <3>3. CASE d # c BY <1>6,<3>3 DEF Known
  <3> QED BY <3>2,<3>3
 <2>4. \A w \in Visitors : Late(w)' <=> Late(w) BY <1>1 DEF Late
 <2> QED BY <1>1,<2>2,<2>3,<2>4 DEF PortalInv, OneAtATime
<1> QED BY <1>7,<1>8,<1>9 DEF PortalInv

------------------------
LEMMA HotspotStepKeeps == HotspotInv /\ [HotspotNext]_hotspotVars => HotspotInv'
<1>1. SUFFICES ASSUME HotspotInv, [HotspotNext]_hotspotVars PROVE HotspotInv' OBVIOUS
<1>2. RadiusInv /\ PortalInv /\ hour \in Nat BY <1>1 DEF HotspotInv, RadiusInv, RadiusTypes
<1>3. ASSUME SessionTimesOut, UNCHANGED portalVars PROVE HotspotInv'
 <2>1. RadiusInv' BY <1>2,<1>3, SessionTimesOutKeeps
 <2>2. hour' \in {hour, hour + 1} BY <1>3 DEF SessionTimesOut, HourPasses
 <2>3. PortalInv' BY <1>2,<1>3,<2>2, PortalWaits
 <2> QED BY <2>1,<2>3 DEF HotspotInv
<1>4. ASSUME UNCHANGED <<hour, portalVars>>, RadiusInv' PROVE HotspotInv'
 <2>1. PortalInv' BY <1>2,<1>4, PortalWaits
 <2> QED BY <1>4,<2>1 DEF HotspotInv
<1>5. ASSUME UNCHANGED <<hour, radiusVars>>, PortalInv' PROVE HotspotInv'
 <2>1. UNCHANGED <<hour, nas, bound, credential, handler, handled, accounted, published, answered, signedOn>> BY <1>5 DEF radiusVars
 <2>2. RadiusTypes' BY <1>2,<2>1 DEF RadiusInv, RadiusTypes
 <2>3. CallsOK' BY <1>2,<2>1 DEF RadiusInv, CallsOK, CallOK, Entitled
 <2>4. OneTenant' BY <1>2,<2>1 DEF RadiusInv, OneTenant
 <2>5. CountsOK' BY <1>2,<2>1 DEF RadiusInv, CountsOK, Inserting
 <2>6. AnsweredIsRecorded' /\ OverrunIsBounded' BY <1>2,<2>1 DEF RadiusInv, AnsweredIsRecorded, OverrunIsBounded
 <2> QED BY <1>5,<2>2,<2>3,<2>4,<2>5,<2>6 DEF HotspotInv, RadiusInv
<1>6. CASE AccessNext
 <2>1. CASE SessionTimesOut BY <1>3,<1>6,<2>1 DEF AccessNext
 <2>2. CASE ~SessionTimesOut
  <3>1. UNCHANGED <<hour, portalVars>> BY <1>6,<2>2 DEF AccessNext
  <3>2. ASSUME NEW t \in Isps, CreateNas(t) PROVE RadiusInv' BY <1>2,<3>1,<3>2, CreateNasKeeps
  <3>3. ASSUME NEW h \in Handlers, AccessRequest(h) PROVE RadiusInv'
   <4>1. TakesUp(h, "access", "binding") BY <3>3 DEF AccessRequest
   <4> QED BY <1>2,<3>1,<4>1, TakesUpKeeps
  <3>4. ASSUME NEW h \in Handlers, ReadBinding(h) \/ ReadCredential(h) \/ Answer(h) \/ HandlerDies(h) PROVE RadiusInv'
    BY <1>2,<3>1,<3>4, ReadBindingKeeps, ReadCredentialKeeps, AnswerKeeps, HandlerDiesKeeps
  <3>5. RadiusInv' BY <1>2,<1>6,<2>2,<3>1,<3>2,<3>3,<3>4, ChangeBindingKeeps, SetCredentialKeeps, DisconnectSessionKeeps DEF AccessNext
  <3> QED BY <1>4,<3>1,<3>5
 <2> QED BY <2>1,<2>2
<1>7. CASE AccountingNext
 <2>1. UNCHANGED <<hour, portalVars>> BY <1>7 DEF AccountingNext
 <2>2. ASSUME NEW t \in Isps, CreateNas(t) PROVE RadiusInv' BY <1>2,<2>1,<2>2, CreateNasKeeps
 <2>3. ASSUME NEW h \in Handlers, AccountingRequest(h) PROVE RadiusInv' BY <1>2,<2>1,<2>3, TakesUpKeeps DEF AccountingRequest
 <2>4. ASSUME NEW h \in Handlers, InsertAccounting(h) \/ EnqueueAccounting(h) \/ Respond(h) \/ HandlerDies(h)
   PROVE RadiusInv' BY <1>2,<2>1,<2>4, InsertAccountingKeeps, EnqueueAccountingKeeps, RespondKeeps, HandlerDiesKeeps
 <2>5. RadiusInv' BY <1>7,<2>2,<2>3,<2>4 DEF AccountingNext
 <2> QED BY <1>4,<2>1,<2>5
<1>8. CASE PortalNext
 <2>1. CASE SessionTimesOut /\ UNCHANGED portalVars BY <1>3,<2>1
 <2>2. CASE ~(SessionTimesOut /\ UNCHANGED portalVars)
  <3>1. UNCHANGED <<hour, radiusVars>> BY <1>8,<2>2 DEF PortalNext
  <3>2. ASSUME NEW v \in Visitors, RedeemPublicVoucher(v) \/ LookUp(v) \/ InsertProfile(v) \/ RedeemEnds(v)
    PROVE PortalInv' BY <1>2,<3>1,<3>2, RedeemKeeps, LookUpKeeps, InsertProfileKeeps, RedeemEndsKeeps
  <3>3. ASSUME NEW c \in Profiles, GetProfile(c) PROVE PortalInv' BY <1>2,<3>1,<3>3, GetProfileKeeps
  <3>4. PortalInv' BY <1>2,<1>8,<2>2,<3>1,<3>2,<3>3, UpdateProfileKeeps DEF PortalNext
  <3> QED BY <1>5,<3>1,<3>4
 <2> QED BY <2>1,<2>2
<1>9. CASE UNCHANGED hotspotVars
 <2>1. UNCHANGED <<hour, radiusVars>> /\ UNCHANGED portalVars BY <1>9 DEF hotspotVars
 <2>2. PortalInv' BY <1>2,<2>1, PortalWaits
 <2> QED BY <1>5,<2>1,<2>2
<1> QED BY <1>1,<1>6,<1>7,<1>8,<1>9 DEF HotspotNext

LEMMA TenantsCounted == ASSUME HotspotInv PROVE OneIspPerAddress
<1>1. PICK t : \A p \in Packets : accounted[p].isps \subseteq {t} BY DEF HotspotInv, RadiusInv, OneTenant
<1>2. PICK U : U = UNION {accounted[p].isps : p \in Packets} OBVIOUS
<1>3. U \subseteq {t} BY <1>1,<1>2
<1>4. IsFiniteSet({t}) /\ Cardinality({t}) = 1 BY FS_Singleton
<1>5. Cardinality(U) <= 1 BY <1>3,<1>4, FS_Subset
<1> QED BY <1>2,<1>5 DEF OneIspPerAddress

LEMMA ProfilesCounted == ASSUME HotspotInv PROVE OneProfilePerPhone
<1>1. SUFFICES ASSUME ~twofold PROVE Cardinality({c \in Profiles : profile[c] = "active"}) <= 1 BY DEF OneProfilePerPhone
<1>2. PICK A : A = {c \in Profiles : profile[c] = "active"} OBVIOUS
<1>3. \A c, d \in A : c = d BY <1>1,<1>2 DEF HotspotInv, PortalInv, OneAtATime, Known
<1>4. CASE A = {}
 <2>1. Cardinality(A) = 0 BY <1>4, FS_EmptySet
 <2> QED BY <1>2,<2>1
<1>5. CASE A # {}
 <2>1. PICK c : A = {c} BY <1>3,<1>5
 <2>2. Cardinality(A) = 1 BY <2>1, FS_Singleton
 <2> QED BY <1>2,<2>2
<1> QED BY <1>4,<1>5

LEMMA WindowsEnd == ASSUME HotspotInv PROVE PatienceIsRewarded /\ BlockIsTheCount
<1> USE HotspotAssumption DEF HotspotInv, PortalInv, PortalTypes, AttemptsOK
<1>1. /\ attempt.started \in Nat /\ attempt.count \in Nat /\ attempt.blocked \in Nat
      /\ attempt.started <= previous /\ previous \in Nat /\ previous <= hour /\ hour \in Nat
      /\ attempt.blocked > 0 => attempt.count >= AttemptLimit BY DEF RadiusInv, RadiusTypes
<1>2. PatienceIsRewarded
 <2>1. SUFFICES ASSUME attempt.count > 0, previous + Window <= hour PROVE ~Limited(Counted(attempt)) BY DEF PatienceIsRewarded
 <2>2. attempt.started + Window <= hour BY <1>1,<2>1
 <2>3. Counted(attempt) = [started |-> hour, count |-> 1, blocked |-> 0] BY <2>2 DEF Counted
 <2>4. ~(1 >= AttemptLimit) /\ ~(0 > hour) BY <1>1
 <2> QED BY <2>3,<2>4 DEF Limited
<1>3. BlockIsTheCount
 <2>1. SUFFICES Counted(attempt).blocked > hour => Counted(attempt).count >= AttemptLimit BY DEF BlockIsTheCount, Limited
 <2>2. CASE attempt.started + Window <= hour
  <3>1. Counted(attempt).blocked = 0 BY <2>2 DEF Counted
  <3> QED BY <1>1,<3>1
 <2>3. CASE ~(attempt.started + Window <= hour)
  <3>1. /\ Counted(attempt).count = attempt.count + 1
        /\ Counted(attempt).blocked = IF attempt.count + 1 >= AttemptLimit THEN hour + Window ELSE attempt.blocked BY <2>3 DEF Counted
  <3>2. CASE attempt.count + 1 >= AttemptLimit BY <3>1,<3>2
  <3>3. CASE ~(attempt.count + 1 >= AttemptLimit)
   <4>1. attempt.blocked = 0 BY <1>1,<3>3
   <4> QED BY <1>1,<3>1,<3>3,<4>1
  <3> QED BY <3>2,<3>3
 <2> QED BY <2>2,<2>3
<1> QED BY <1>2,<1>3

LEMMA HotspotInvSuffices ==
  HotspotInv => /\ HotspotTypeOK /\ AnsweredIsRecorded /\ OneIspPerAddress /\ OverrunIsBounded
                /\ AcceptedIsEntitled /\ LimitsAgree /\ PatienceIsRewarded /\ BlockIsTheCount
                /\ OneProfilePerPhone
<1> SUFFICES ASSUME HotspotInv
  PROVE /\ HotspotTypeOK /\ AnsweredIsRecorded /\ OneIspPerAddress /\ OverrunIsBounded
        /\ AcceptedIsEntitled /\ LimitsAgree /\ PatienceIsRewarded /\ BlockIsTheCount
        /\ OneProfilePerPhone OBVIOUS
<1>1. HotspotTypeOK
 <2>1. \A p \in Packets : accounted[p].isps \subseteq Isps /\ accounted[p].times \in 0..MaxHandled
  <3>1. SUFFICES ASSUME NEW p \in Packets PROVE accounted[p].isps \subseteq Isps /\ accounted[p].times \in 0..MaxHandled OBVIOUS
  <3>2. IsFiniteSet(Inserting(p))
   <4>1. IsFiniteSet(Handlers) /\ Inserting(p) \subseteq Handlers BY HotspotAssumption DEF Inserting
   <4> QED BY <4>1, FS_Subset
  <3>3. Cardinality(Inserting(p)) \in Nat BY <3>2, FS_CardinalityType
  <3>4. accounted[p].times \in Nat /\ accounted[p].isps \subseteq Isps /\ handled \in Nat /\ handled <= MaxHandled /\ MaxHandled \in Nat
    BY HotspotAssumption DEF HotspotInv, RadiusInv, RadiusTypes
  <3>5. accounted[p].times + Cardinality(Inserting(p)) <= handled BY DEF HotspotInv, RadiusInv, CountsOK
  <3> QED BY <3>3,<3>4,<3>5
 <2>2. nas \subseteq Isps /\ answered \subseteq Packets /\ published \subseteq Packets /\ profile \in [Profiles -> {"none", "active", "inactive"}]
   BY DEF HotspotInv, RadiusInv, RadiusTypes, PortalInv, PortalTypes
 <2> QED BY <2>1,<2>2 DEF HotspotTypeOK
<1>2. AcceptedIsEntitled BY DEF AcceptedIsEntitled, HotspotInv, RadiusInv, CallsOK, CallOK
<1> QED BY <1>1,<1>2, TenantsCounted, ProfilesCounted, WindowsEnd, AttributesAgree DEF HotspotInv, RadiusInv

LEMMA HotspotSticks ==
  HotspotInv /\ [HotspotNext]_hotspotVars =>
    [\A c \in Profiles : profile[c] = "inactive" /\ profile'[c] = "active" =>
       edit.target = c /\ (edit.asked = "active" \/ edit.read = "active")]_hotspotVars
<1>1. SUFFICES ASSUME HotspotInv, HotspotNext, NEW c \in Profiles, profile[c] = "inactive", profile'[c] = "active"
  PROVE edit.target = c /\ (edit.asked = "active" \/ edit.read = "active") OBVIOUS
<1>2. profile \in [Profiles -> {"none", "active", "inactive"}] BY <1>1 DEF HotspotInv, PortalInv, PortalTypes
<1>3. profile' # profile BY <1>1
<1>4. CASE UpdateProfile BY <1>1,<1>2,<1>4 DEF UpdateProfile
<1>5. ASSUME NEW v \in Visitors, InsertProfile(v) PROVE FALSE
 <2>1. PICK d \in Profiles : profile[d] = "none" /\ profile' = [profile EXCEPT ![d] = "active"] BY <1>5 DEF InsertProfile
 <2>2. d # c BY <1>1,<2>1
 <2>3. profile'[c] = profile[c] BY <1>2,<2>1,<2>2
 <2> QED BY <1>1,<2>3
<1>6. CASE AccessNext \/ AccountingNext BY <1>3,<1>6 DEF AccessNext, AccountingNext, portalVars
<1>7. CASE PortalNext BY <1>3,<1>4,<1>5,<1>7 DEF PortalNext, portalVars, RedeemPublicVoucher, LookUp, RedeemEnds, GetProfile
<1> QED BY <1>1,<1>6,<1>7 DEF HotspotNext

(* RadiusService.handlePacket, redeemPublicVoucher, CustomersService.update: for any number of
   tenants, packets, calls, visitors and customer rows: what is answered is recorded for the one
   tenant it can belong to, what is accepted was entitled, windows end, and a deactivation is only
   undone by a request. *)
THEOREM HotspotIsKept == HotspotSpec => HotspotHolds
<1>1. HotspotInit => HotspotInv BY HotspotInitHolds
<1>2. HotspotInv /\ [HotspotNext]_hotspotVars => HotspotInv' BY HotspotStepKeeps
<1>3. HotspotInv => /\ HotspotTypeOK /\ AnsweredIsRecorded /\ OneIspPerAddress /\ OverrunIsBounded
                    /\ AcceptedIsEntitled /\ LimitsAgree /\ PatienceIsRewarded /\ BlockIsTheCount
                    /\ OneProfilePerPhone BY HotspotInvSuffices
<1>4. HotspotInv /\ [HotspotNext]_hotspotVars =>
        [\A c \in Profiles : profile[c] = "inactive" /\ profile'[c] = "active" =>
           edit.target = c /\ (edit.asked = "active" \/ edit.read = "active")]_hotspotVars BY HotspotSticks
<1> QED BY <1>1,<1>2,<1>3,<1>4, PTL DEF HotspotSpec, HotspotHolds, DeactivationSticks

------------------------
(* The address inventory: a pool that is being created is reserved for its operator and, as long as
   no two creations crossed, apart from every pool that stands; an address lies in the network of
   the pool it was added to. *)

AddressRows == [pool : Pools \cup {"none"}, holder : Holders \cup {"none"}, status : {"none", "AVAILABLE", "RESERVED", "ALLOCATED"}]
Callings == [kind : {"none", "insert", "audit", "release"}, pool : Pools \cup {"none"},
             net : Networks \cup {NoPool}, address : Inventory \cup {"none"}, meant : Holders \cup {"none"}, holder : Holders \cup {"none"}]

AddressTypes ==
  pool \in [Pools -> Networks \cup {NoPool}] /\ address \in [Inventory -> AddressRows] /\ ask \in [Operators -> Callings] /\ askedFor \in 0..MaxAsked

CallingOK(k) ==
  /\ k.kind = "insert" => k.pool \in Pools /\ pool[k.pool] = NoPool /\ k.net \in Networks
  /\ k.kind \in {"audit", "release"} => k.address \in Inventory
CallingsOK == \A o \in Operators : CallingOK(ask[o])

PoolsReserved ==
  \A o, r \in Operators :
    o # r /\ ask[o].kind = "insert" /\ ask[r].kind = "insert" => ask[o].pool # ask[r].pool

PlacedIn(a, p) == p \in Pools /\ pool[p] # NoPool /\ a \in pool[p].net \ {pool[p].gateway}
AddressesPlaced ==
  \A a \in Inventory :
    /\ address[a].status # "none" => PlacedIn(a, address[a].pool)
    /\ (address[a].holder # "none") <=> (address[a].status = "ALLOCATED")

NetworksApart ==
  ~overlapped =>
    /\ \A p, q \in Standing : p # q => pool[p].net \cap pool[q].net = {}
    /\ \A o, r \in Asking("insert") : o = r
    /\ \A o \in Asking("insert") : \A q \in Standing : pool[q].net \cap ask[o].net.net = {}

AddressesInv == AddressTypes /\ CallingsOK /\ PoolsReserved /\ AddressesPlaced /\ NetworksApart

LEMMA AddressesInitHolds == AddressesInit => AddressesInv
<1>1. SUFFICES ASSUME AddressesInit PROVE AddressesInv OBVIOUS
<1>2. AddressTypes
 <2>1. NoAddress \in AddressRows /\ NoCall \in Callings BY DEF NoAddress, AddressRows, NoCall, Callings
 <2> QED BY <1>1,<2>1, AddressAssumption DEF AddressesInit, AddressTypes
<1>3. \A o \in Operators : ask[o].kind = "none" BY <1>1 DEF AddressesInit, NoCall
<1>4. CallingsOK /\ PoolsReserved BY <1>3 DEF CallingsOK, CallingOK, PoolsReserved
<1>5. AddressesPlaced BY <1>1 DEF AddressesInit, AddressesPlaced, NoAddress
<1>6. Standing = {} /\ Asking("insert") = {} BY <1>1,<1>3 DEF AddressesInit, Standing, Asking
<1>7. NetworksApart BY <1>6 DEF NetworksApart
<1> QED BY <1>2,<1>4,<1>5,<1>7 DEF AddressesInv

\* A step that changes one request, and no pool, and begins no creation.
LEMMA CallingKeeps ==
  ASSUME AddressesInv, NEW o \in Operators, NEW k \in Callings, CallingOK(k), k.kind # "insert",
      ask' = [ask EXCEPT ![o] = k], UNCHANGED <<pool, overlapped>>, askedFor' \in 0..MaxAsked
  PROVE  /\ ask' \in [Operators -> Callings] /\ CallingsOK' /\ PoolsReserved' /\ NetworksApart'
<1>1. ask \in [Operators -> Callings] BY DEF AddressesInv, AddressTypes
<1>2. ask'[o] = k /\ \A r \in Operators \ {o} : ask'[r] = ask[r] BY <1>1
<1>3. ask' \in [Operators -> Callings] BY <1>1
<1>4. CallingsOK' BY <1>2 DEF AddressesInv, CallingsOK, CallingOK
<1>5. PoolsReserved' BY <1>2 DEF AddressesInv, PoolsReserved
<1>6. Asking("insert")' \subseteq Asking("insert") /\ \A r \in Asking("insert")' : ask'[r] = ask[r] BY <1>2 DEF Asking
<1>7. Standing' = Standing /\ pool' = pool /\ overlapped' = overlapped BY DEF Standing
<1>8. NetworksApart' BY <1>6,<1>7 DEF AddressesInv, NetworksApart
<1> QED BY <1>3,<1>4,<1>5,<1>8

LEMMA AddressKept == ASSUME AddressesInv, UNCHANGED <<pool, address>> PROVE address' \in [Inventory -> AddressRows] /\ AddressesPlaced'
<1>1. address' = address /\ pool' = pool OBVIOUS
<1> QED BY <1>1 DEF AddressesInv, AddressTypes, AddressesPlaced, PlacedIn

\* One row of the inventory is written.
LEMMA AddressWritten ==
  ASSUME AddressesInv, UNCHANGED pool, NEW a \in Inventory, NEW w \in AddressRows, address' = [address EXCEPT ![a] = w],
      w.status # "none" => PlacedIn(a, w.pool), (w.holder # "none") <=> (w.status = "ALLOCATED")
  PROVE  /\ address' \in [Inventory -> AddressRows] /\ AddressesPlaced'
         /\ address'[a] = w /\ \A b \in Inventory \ {a} : address'[b] = address[b]
<1>1. address \in [Inventory -> AddressRows] BY DEF AddressesInv, AddressTypes
<1>2. address'[a] = w /\ \A b \in Inventory \ {a} : address'[b] = address[b] BY <1>1
<1>3. address' \in [Inventory -> AddressRows] BY <1>1
<1>4. ASSUME NEW b \in Inventory
  PROVE  /\ address'[b].status # "none" => PlacedIn(b, address'[b].pool)
         /\ (address'[b].holder # "none") <=> (address'[b].status = "ALLOCATED")
 <2>1. CASE b = a BY <1>2,<2>1
 <2>2. CASE b # a BY <1>2,<2>2 DEF AddressesInv, AddressesPlaced
 <2> QED BY <2>1,<2>2
<1>5. AddressesPlaced' BY <1>4 DEF AddressesPlaced, PlacedIn
<1> QED BY <1>2,<1>3,<1>5

\* What a step may do to the inventory.
AddressStep ==
  \A a \in Inventory :
    /\ address[a].holder # "none" => address'[a].holder \in {address[a].holder, "none"}
    /\ address[a].pool # "none" => address'[a].pool = address[a].pool

LEMMA SearchKeeps == ASSUME AddressesInv, NEW o \in Operators, SearchOverlap(o) PROVE AddressesInv'
<1>1. PICK p \in Pools \ Standing, n \in Networks :
        /\ \A q \in Standing : pool[q].net \cap n.net = {}
        /\ \A r \in Operators : ask[r].pool # p
        /\ Asks(o, [NoCall EXCEPT !.kind = "insert", !.pool = p, !.net = n]) BY DEF SearchOverlap
<1>2. PICK k : k = [NoCall EXCEPT !.kind = "insert", !.pool = p, !.net = n] OBVIOUS
<1>3. k \in Callings /\ k.kind = "insert" /\ k.pool = p /\ k.net = n BY <1>2 DEF NoCall, Callings
<1>4. ask' = [ask EXCEPT ![o] = k] /\ ask[o].kind = "none" /\ askedFor < MaxAsked /\ askedFor' = askedFor + 1 BY <1>1,<1>2 DEF Asks
<1>5. ask \in [Operators -> Callings] BY DEF AddressesInv, AddressTypes
<1>6. ask'[o] = k /\ \A r \in Operators \ {o} : ask'[r] = ask[r] BY <1>4,<1>5
<1>7. pool' = pool /\ address' = address /\ (overlapped' <=> (overlapped \/ Asking("insert") # {})) BY DEF SearchOverlap
<1>8. AddressTypes'
 <2>1. askedFor' \in 0..MaxAsked BY <1>4, AddressAssumption DEF AddressesInv, AddressTypes
 <2>2. ask' \in [Operators -> Callings] BY <1>3,<1>4,<1>5
 <2> QED BY <1>7,<2>1,<2>2 DEF AddressesInv, AddressTypes
<1>9. CallingsOK'
 <2>1. pool[p] = NoPool BY DEF Standing
 <2> QED BY <1>3,<1>6,<1>7,<2>1 DEF AddressesInv, CallingsOK, CallingOK
<1>10. PoolsReserved' BY <1>1,<1>3,<1>6 DEF AddressesInv, PoolsReserved
<1>11. AddressesPlaced' BY <1>7, AddressKept
<1>12. NetworksApart'
 <2>1. SUFFICES ASSUME ~overlapped' PROVE
         /\ \A q, r \in Standing' : q # r => pool'[q].net \cap pool'[r].net = {}
         /\ \A q, r \in Asking("insert")' : q = r
         /\ \A q \in Asking("insert")' : \A r \in Standing' : pool'[r].net \cap ask'[q].net.net = {} BY DEF NetworksApart
 <2>2. ~overlapped /\ Asking("insert") = {} BY <1>7,<2>1
 <2>3. Asking("insert")' \subseteq {o} BY <1>6,<2>2 DEF Asking
 <2>4. Standing' = Standing BY <1>7 DEF Standing
 <2>5. \A q, r \in Standing' : q # r => pool'[q].net \cap pool'[r].net = {} BY <1>7,<2>2,<2>4 DEF AddressesInv, NetworksApart
 <2> QED BY <1>1,<1>3,<1>6,<1>7,<2>3,<2>4,<2>5
<1> QED BY <1>8,<1>9,<1>10,<1>11,<1>12 DEF AddressesInv

LEMMA InsertPoolKeeps == ASSUME AddressesInv, NEW o \in Operators, InsertPool(o) PROVE AddressesInv'
<1>1. PICK c : c = ask[o] OBVIOUS
<1>2. ask[o].kind = "insert" /\ pool' = [pool EXCEPT ![c.pool] = c.net] /\ ask' = [ask EXCEPT ![o] = NoCall]
      /\ address' = address /\ askedFor' = askedFor /\ overlapped' = overlapped BY <1>1 DEF InsertPool, Over
<1>3. c.pool \in Pools /\ pool[c.pool] = NoPool /\ c.net \in Networks BY <1>1,<1>2 DEF AddressesInv, CallingsOK, CallingOK
<1>4. ask \in [Operators -> Callings] /\ pool \in [Pools -> Networks \cup {NoPool}] BY DEF AddressesInv, AddressTypes
<1>5. ask'[o] = NoCall /\ \A r \in Operators \ {o} : ask'[r] = ask[r] BY <1>2,<1>4
<1>6. pool'[c.pool] = c.net /\ \A q \in Pools \ {c.pool} : pool'[q] = pool[q] BY <1>2,<1>3,<1>4
<1>7. NoCall \in Callings /\ NoCall.kind = "none" BY DEF NoCall, Callings
<1>8. AddressTypes' BY <1>2,<1>3,<1>4,<1>7 DEF AddressesInv, AddressTypes
<1>9. CallingsOK'
 <2>1. SUFFICES ASSUME NEW r \in Operators PROVE CallingOK(ask[r])' BY DEF CallingsOK
 <2>2. CASE r = o BY <1>5,<1>7,<2>2 DEF CallingOK
 <2>3. CASE r # o
  <3>1. ask'[r] = ask[r] /\ CallingOK(ask[r]) BY <1>5,<2>3 DEF AddressesInv, CallingsOK
  <3>2. ask[r].kind = "insert" => ask[r].pool # c.pool BY <1>1,<1>2,<2>3 DEF AddressesInv, PoolsReserved
  <3> QED BY <1>6,<3>1,<3>2 DEF CallingOK
 <2> QED BY <2>2,<2>3
<1>10. PoolsReserved' BY <1>5,<1>7 DEF AddressesInv, PoolsReserved
<1>11. AddressesPlaced'
 <2>1. ASSUME NEW a, NEW p, PlacedIn(a, p) PROVE p \in Pools /\ pool'[p] # NoPool /\ a \in pool'[p].net \ {pool'[p].gateway}
   BY <1>3,<1>6,<2>1 DEF PlacedIn
 <2> QED BY <1>2,<2>1 DEF AddressesInv, AddressesPlaced, PlacedIn
<1>12. NetworksApart'
 <2>1. SUFFICES ASSUME ~overlapped' PROVE
         /\ \A q, r \in Standing' : q # r => pool'[q].net \cap pool'[r].net = {}
         /\ \A q, r \in Asking("insert")' : q = r
         /\ \A q \in Asking("insert")' : \A r \in Standing' : pool'[r].net \cap ask'[q].net.net = {} BY DEF NetworksApart
 <2>2. /\ \A q, r \in Standing : q # r => pool[q].net \cap pool[r].net = {}
       /\ \A q, r \in Asking("insert") : q = r
       /\ \A q \in Asking("insert") : \A r \in Standing : pool[r].net \cap ask[q].net.net = {} BY <1>2,<2>1 DEF AddressesInv, NetworksApart
 <2>3. o \in Asking("insert") /\ Asking("insert")' = {} BY <1>2,<1>5,<1>7,<2>2 DEF Asking
 <2>4. Standing' \subseteq Standing \cup {c.pool} BY <1>6 DEF Standing
 <2>5. \A r \in Standing : r # c.pool /\ pool'[r] = pool[r] /\ pool[r].net \cap c.net.net = {} BY <1>1,<1>3,<1>6,<2>2,<2>3 DEF Standing
 <2>6. \A q, r \in Standing' : q # r => pool'[q].net \cap pool'[r].net = {} BY <1>6,<2>2,<2>4,<2>5
 <2> QED BY <2>3,<2>6
<1> QED BY <1>8,<1>9,<1>10,<1>11,<1>12 DEF AddressesInv

LEMMA AddAddressKeeps == ASSUME AddressesInv, NEW o \in Operators, AddAddress(o) PROVE AddressesInv' /\ AddressStep
<1>1. PICK p \in Standing, st \in {"AVAILABLE", "RESERVED"} :
        \E a \in pool[p].net \ {pool[p].gateway} :
          address[a] = NoAddress /\ address' = [address EXCEPT ![a] = [pool |-> p, status |-> st, holder |-> "none"]] BY DEF AddAddress
<1>2. PICK a \in pool[p].net \ {pool[p].gateway} :
        address[a] = NoAddress /\ address' = [address EXCEPT ![a] = [pool |-> p, status |-> st, holder |-> "none"]] BY <1>1
<1>3. p \in Pools /\ pool[p] # NoPool /\ pool[p] \in Networks BY DEF Standing, AddressesInv, AddressTypes
<1>4. a \in Inventory BY <1>3, AddressAssumption
<1>5. PICK w : w = [pool |-> p, status |-> st, holder |-> "none"] OBVIOUS
<1>6. w \in AddressRows /\ w.pool = p /\ w.status \in {"AVAILABLE", "RESERVED"} /\ w.holder = "none" BY <1>3,<1>5 DEF AddressRows
<1>7. PlacedIn(a, w.pool) BY <1>3,<1>6 DEF PlacedIn
<1>8. UNCHANGED pool /\ ask' = ask /\ overlapped' = overlapped /\ askedFor' \in 0..MaxAsked
  BY AddressAssumption DEF AddAddress, AddressesInv, AddressTypes
<1>9. address' = [address EXCEPT ![a] = w] BY <1>2,<1>5
<1>10. /\ address' \in [Inventory -> AddressRows] /\ AddressesPlaced'
       /\ address'[a] = w /\ \A b \in Inventory \ {a} : address'[b] = address[b] BY <1>4,<1>6,<1>7,<1>8,<1>9, AddressWritten
<1>11. AddressTypes' BY <1>8,<1>10 DEF AddressesInv, AddressTypes
<1>12. CallingsOK' /\ PoolsReserved' /\ NetworksApart' BY <1>8 DEF AddressesInv, CallingsOK, CallingOK, PoolsReserved, NetworksApart, Standing, Asking
<1>13. AddressStep BY <1>2,<1>10 DEF AddressStep, NoAddress
<1> QED BY <1>10,<1>11,<1>12,<1>13 DEF AddressesInv

LEMMA AllocateKeeps == ASSUME AddressesInv, NEW o \in Operators, AllocateAddress(o) PROVE AddressesInv' /\ AddressStep
<1>1. PICK p \in Standing, h \in Holders, want \in Inventory \cup {"any"} :
        \E a \in Candidates(p, want) :
          /\ Asks(o, [NoCall EXCEPT !.kind = "audit", !.address = a, !.holder = h])
          /\ address' = [address EXCEPT ![a] = [@ EXCEPT !.status = "ALLOCATED", !.holder = h]] BY DEF AllocateAddress
<1>2. PICK a \in Candidates(p, want) :
        /\ Asks(o, [NoCall EXCEPT !.kind = "audit", !.address = a, !.holder = h])
        /\ address' = [address EXCEPT ![a] = [address[a] EXCEPT !.status = "ALLOCATED", !.holder = h]] BY <1>1
<1>3. a \in Inventory /\ address[a].status = "AVAILABLE" BY DEF Candidates
<1>4. address[a] \in AddressRows /\ ask \in [Operators -> Callings] BY <1>3 DEF AddressesInv, AddressTypes
<1>5. PICK w : w = [address[a] EXCEPT !.status = "ALLOCATED", !.holder = h] OBVIOUS
<1>6. w \in AddressRows /\ w.pool = address[a].pool /\ w.status = "ALLOCATED" /\ w.holder = h BY <1>4,<1>5 DEF AddressRows
<1>7. PICK k : k = [NoCall EXCEPT !.kind = "audit", !.address = a, !.holder = h] OBVIOUS
<1>8. k \in Callings /\ k.kind = "audit" /\ k.address = a BY <1>3,<1>7 DEF NoCall, Callings
<1>9. ask' = [ask EXCEPT ![o] = k] /\ askedFor < MaxAsked /\ askedFor' = askedFor + 1 BY <1>2,<1>7 DEF Asks
<1>10. UNCHANGED <<pool, overlapped>> BY DEF AllocateAddress
<1>11. askedFor' \in 0..MaxAsked BY <1>9, AddressAssumption DEF AddressesInv, AddressTypes
<1>12. CallingOK(k) BY <1>3,<1>8 DEF CallingOK
<1>13. ask' \in [Operators -> Callings] /\ CallingsOK' /\ PoolsReserved' /\ NetworksApart' BY <1>8,<1>9,<1>10,<1>11,<1>12, CallingKeeps
<1>14. /\ address' \in [Inventory -> AddressRows] /\ AddressesPlaced'
       /\ address'[a] = w /\ \A b \in Inventory \ {a} : address'[b] = address[b]
 <2>1. PlacedIn(a, w.pool) BY <1>3,<1>6 DEF AddressesInv, AddressesPlaced
 <2>2. w.holder # "none" /\ address' = [address EXCEPT ![a] = w] BY <1>2,<1>5,<1>6, AddressAssumption
 <2> QED BY <1>3,<1>6,<1>10,<2>1,<2>2, AddressWritten
<1>15. AddressTypes' BY <1>10,<1>11,<1>13,<1>14 DEF AddressesInv, AddressTypes
<1>16. address[a].holder = "none" BY <1>3 DEF AddressesInv, AddressesPlaced
<1>17. AddressStep BY <1>6,<1>14,<1>16 DEF AddressStep
<1> QED BY <1>13,<1>14,<1>15,<1>17 DEF AddressesInv

LEMMA ReleaseKeeps == ASSUME AddressesInv, NEW o \in Operators, Release(o) PROVE AddressesInv' /\ AddressStep
<1>1. PICK a : a = ask[o].address OBVIOUS
<1>2. ask[o].kind = "release" /\ a \in Inventory BY <1>1 DEF Release, AddressesInv, CallingsOK, CallingOK
<1>3. address \in [Inventory -> AddressRows] /\ ask \in [Operators -> Callings] /\ askedFor \in 0..MaxAsked BY DEF AddressesInv, AddressTypes
<1>4. UNCHANGED <<pool, overlapped>> /\ askedFor' = askedFor BY DEF Release
<1>5. CASE address[a].status = "ALLOCATED"
 <2>1. PICK w : w = [address[a] EXCEPT !.status = "AVAILABLE", !.holder = "none"] OBVIOUS
 <2>2. w \in AddressRows /\ w.pool = address[a].pool /\ w.status = "AVAILABLE" /\ w.holder = "none"
  <3>1. address[a] \in AddressRows BY <1>2,<1>3
  <3> QED BY <2>1,<3>1 DEF AddressRows
 <2>3. address' = [address EXCEPT ![a] = w] BY <1>1,<1>5,<2>1 DEF Release
 <2>4. PlacedIn(a, w.pool) BY <1>2,<1>5,<2>2 DEF AddressesInv, AddressesPlaced
 <2>5. /\ address' \in [Inventory -> AddressRows] /\ AddressesPlaced'
       /\ address'[a] = w /\ \A b \in Inventory \ {a} : address'[b] = address[b] BY <1>2,<1>4,<2>2,<2>3,<2>4, AddressWritten
 <2>6. PICK k : k = [ask[o] EXCEPT !.kind = "audit"] OBVIOUS
 <2>7. k \in Callings /\ k.kind = "audit" /\ k.address = a BY <1>1,<1>3,<2>6 DEF Callings
 <2>8. ask' = [ask EXCEPT ![o] = k] BY <1>1,<1>5,<2>6 DEF Release
 <2>9. CallingOK(k) BY <1>2,<2>7 DEF CallingOK
 <2>10. ask' \in [Operators -> Callings] /\ CallingsOK' /\ PoolsReserved' /\ NetworksApart' BY <1>3,<1>4,<2>7,<2>8,<2>9, CallingKeeps
 <2>11. AddressTypes' BY <1>3,<1>4,<2>5,<2>10 DEF AddressesInv, AddressTypes
 <2>12. AddressStep BY <2>2,<2>5 DEF AddressStep
 <2> QED BY <2>5,<2>10,<2>11,<2>12 DEF AddressesInv
<1>6. CASE address[a].status # "ALLOCATED"
 <2>1. ask' = [ask EXCEPT ![o] = NoCall] /\ address' = address BY <1>1,<1>6 DEF Release, Over
 <2>2. NoCall \in Callings /\ NoCall.kind = "none" BY DEF NoCall, Callings
 <2>3. CallingOK(NoCall) BY <2>2 DEF CallingOK
 <2>4. ask' \in [Operators -> Callings] /\ CallingsOK' /\ PoolsReserved' /\ NetworksApart' BY <1>3,<1>4,<2>1,<2>2,<2>3, CallingKeeps
 <2>5. address' \in [Inventory -> AddressRows] /\ AddressesPlaced' BY <1>4,<2>1, AddressKept
 <2>6. AddressTypes' BY <1>3,<1>4,<2>4,<2>5 DEF AddressesInv, AddressTypes
 <2>7. AddressStep BY <2>1 DEF AddressStep
 <2> QED BY <2>4,<2>5,<2>6,<2>7 DEF AddressesInv
<1> QED BY <1>5,<1>6

\* Steps that only change the request.
LEMMA AddressRequestKeeps ==
  ASSUME AddressesInv, NEW o \in Operators, NEW k \in Callings, CallingOK(k), k.kind # "insert",
      ask' = [ask EXCEPT ![o] = k], UNCHANGED <<pool, address, overlapped>>, askedFor' \in 0..MaxAsked
  PROVE AddressesInv'
<1>1. ask' \in [Operators -> Callings] /\ CallingsOK' /\ PoolsReserved' /\ NetworksApart' BY CallingKeeps
<1>2. address' \in [Inventory -> AddressRows] /\ AddressesPlaced' BY AddressKept
<1>3. AddressTypes' BY <1>1,<1>2 DEF AddressesInv, AddressTypes
<1> QED BY <1>1,<1>2,<1>3 DEF AddressesInv

LEMMA AddressesStepKeeps == AddressesInv /\ [AddressesNext]_ivars => AddressesInv' /\ AddressStep
<1>1. SUFFICES ASSUME AddressesInv, [AddressesNext]_ivars PROVE AddressesInv' /\ AddressStep OBVIOUS
<1>2. ask \in [Operators -> Callings] /\ askedFor \in 0..MaxAsked BY <1>1 DEF AddressesInv, AddressTypes
<1>3. address' = address => AddressStep BY DEF AddressStep
<1>4. CASE UNCHANGED ivars BY <1>1,<1>3,<1>4 DEF ivars, AddressesInv, AddressTypes, CallingsOK, CallingOK, PoolsReserved, AddressesPlaced, PlacedIn,
  NetworksApart, Standing, Asking
<1>5. ASSUME NEW o \in Operators, ChooseRelease(o) PROVE AddressesInv' /\ AddressStep
 <2>1. PICK a \in Inventory :
         address[a].status = "ALLOCATED" /\ Asks(o, [NoCall EXCEPT !.kind = "release", !.address = a, !.meant = address[a].holder])
           BY <1>5 DEF ChooseRelease
 <2>2. address[a].holder \in Holders \cup {"none"} BY <1>1 DEF AddressesInv, AddressTypes, AddressRows
 <2>3. PICK k : k = [NoCall EXCEPT !.kind = "release", !.address = a, !.meant = address[a].holder] OBVIOUS
 <2>4. k \in Callings /\ k.kind = "release" /\ k.address = a BY <2>2,<2>3 DEF NoCall, Callings
 <2>5. CallingOK(k) BY <2>4 DEF CallingOK
 <2>6. ask' = [ask EXCEPT ![o] = k] /\ askedFor' \in 0..MaxAsked BY <1>2,<2>1,<2>3, AddressAssumption DEF Asks
 <2>7. UNCHANGED <<pool, address, overlapped>> BY <1>5 DEF ChooseRelease
 <2>8. AddressesInv' BY <1>1,<2>4,<2>5,<2>6,<2>7, AddressRequestKeeps
 <2> QED BY <1>3,<2>7,<2>8
<1>6. ASSUME NEW o \in Operators, WriteAudit(o) PROVE AddressesInv' /\ AddressStep
 <2>1. NoCall \in Callings /\ NoCall.kind = "none" BY DEF NoCall, Callings
 <2>2. CallingOK(NoCall) BY <2>1 DEF CallingOK
 <2>3. ask' = [ask EXCEPT ![o] = NoCall] /\ askedFor' = askedFor /\ UNCHANGED <<pool, address, overlapped>> BY <1>6 DEF WriteAudit, Over
 <2>4. AddressesInv' BY <1>1,<1>2,<2>1,<2>2,<2>3, AddressRequestKeeps
 <2> QED BY <1>3,<2>3,<2>4
<1>7. ASSUME NEW o \in Operators, AskAgain(o) PROVE AddressesInv' /\ AddressStep
 <2>1. PICK k : k = [ask[o] EXCEPT !.kind = "release"] OBVIOUS
 <2>2. k \in Callings /\ k.kind = "release" /\ k.address = ask[o].address BY <1>2,<2>1 DEF Callings
 <2>3. ask[o].kind = "audit" /\ ask[o].address \in Inventory BY <1>1,<1>7 DEF AskAgain, AddressesInv, CallingsOK, CallingOK
 <2>4. CallingOK(k) BY <2>2,<2>3 DEF CallingOK
 <2>5. ask' = [ask EXCEPT ![o] = k] BY <1>7,<2>1 DEF AskAgain
 <2>6. askedFor' \in 0..MaxAsked /\ UNCHANGED <<pool, address, overlapped>> BY <1>2,<1>7, AddressAssumption DEF AskAgain
 <2>7. AddressesInv' BY <1>1,<2>2,<2>4,<2>5,<2>6, AddressRequestKeeps
 <2> QED BY <1>3,<2>6,<2>7
<1>8. ASSUME NEW o \in Operators, SearchOverlap(o) \/ InsertPool(o) PROVE AddressesInv' /\ AddressStep
 <2>1. address' = address BY <1>8 DEF SearchOverlap, InsertPool
 <2> QED BY <1>1,<1>3,<1>8,<2>1, SearchKeeps, InsertPoolKeeps
<1> QED BY <1>1,<1>4,<1>5,<1>6,<1>7,<1>8, AddAddressKeeps, AllocateKeeps, ReleaseKeeps DEF AddressesNext

LEMMA AddressesSafe == AddressesInv => AddressesTypeOK /\ PoolsAreApart
<1>1. SUFFICES ASSUME AddressesInv PROVE AddressesTypeOK /\ PoolsAreApart OBVIOUS
<1>2. AddressesTypeOK BY <1>1 DEF AddressesInv, AddressTypes, AddressesTypeOK, AddressRows
<1>3. ASSUME ~overlapped, NEW p \in Standing PROVE address[pool[p].gateway].status # "ALLOCATED"
 <2>1. SUFFICES ASSUME address[pool[p].gateway].status = "ALLOCATED" PROVE FALSE OBVIOUS
 <2>2. p \in Pools /\ pool[p] \in Networks BY <1>1 DEF Standing, AddressesInv, AddressTypes
 <2>3. PICK g : g = pool[p].gateway OBVIOUS
 <2>4. g \in pool[p].net /\ g \in Inventory BY <2>2,<2>3, AddressAssumption
 <2>5. PlacedIn(g, address[g].pool) BY <1>1,<2>1,<2>3,<2>4 DEF AddressesInv, AddressesPlaced
 <2>6. PICK q : q = address[g].pool OBVIOUS
 <2>7. q \in Standing /\ g \in pool[q].net /\ g # pool[q].gateway BY <2>5,<2>6 DEF PlacedIn, Standing
 <2>8. q # p BY <2>3,<2>7
 <2> QED BY <1>1,<1>3,<2>4,<2>7,<2>8 DEF AddressesInv, NetworksApart
<1>4. PoolsAreApart BY <1>1,<1>3 DEF AddressesInv, NetworksApart, PoolsAreApart
<1> QED BY <1>2,<1>4

\* Pools are apart and gateways nobody's unless two creations crossed; an address
\* is never given to a second holder before it has been released (allocate and
\* release of the address inventory).
THEOREM AddressesAreKept == AddressesSpec => AddressesHold
<1>1. AddressesInit => AddressesInv BY AddressesInitHolds
<1>2. AddressesInv /\ [AddressesNext]_ivars => AddressesInv' BY AddressesStepKeeps
<1>3. AddressesInv => AddressesTypeOK /\ PoolsAreApart BY AddressesSafe
<1>4. AddressesInv /\ [AddressesNext]_ivars =>
        [\A a \in Inventory :
           /\ address[a].holder # "none" => address'[a].holder \in {address[a].holder, "none"}
           /\ address[a].pool # "none" => address'[a].pool = address[a].pool
           /\ (address'[a].holder # "none") <=> (address'[a].status = "ALLOCATED")]_ivars
  BY AddressesStepKeeps DEF AddressStep, AddressesInv, AddressesPlaced
<1> QED BY <1>1,<1>2,<1>3,<1>4, PTL DEF AddressesSpec, AddressesHold, GivenOnce

------------------------
(* Registration: an uncommitted slug or address is held by one transaction and is not taken yet. *)

SignUpSteps == {"none", "asked", "conflict", "lost", "signed in"} \cup InTransaction
Applications == [step : SignUpSteps, slug : Slugs \cup {"none"}, email : Emails \cup {"none"}]
HasOwner == {"owner", "whole"}

ApplicationOK(k) ==
  /\ k.step # "none" => k.slug \in Slugs /\ k.email \in Emails
  /\ k.step \in InTransaction => k.slug \notin slugs
  /\ k.step \in HasOwner => \A o \in owners : o[2] # k.email
  /\ k.step = "signed in" => <<k.slug, k.email>> \in owners
  /\ k.step = "conflict" => k.slug \in slugs \/ \E o \in owners : o[2] = k.email
Holding(k, j) ==
  /\ k.step \in InTransaction /\ j.step \in InTransaction => k.slug # j.slug
  /\ k.step \in HasOwner /\ j.step \in HasOwner => k.email # j.email

OwnersOK ==
  /\ \A g \in slugs : \E o \in owners : o[1] = g
  /\ \A o \in owners : o[1] \in slugs /\ o[2] \in consents
  /\ \A o, q \in owners : o[1] = q[1] \/ o[2] = q[2] => o = q

SignUpInv ==
  /\ slugs \in SUBSET Slugs /\ owners \in SUBSET (Slugs \X Emails) /\ consents \in SUBSET Emails
  /\ applicant \in [Applicants -> Applications]
  /\ OwnersOK
  /\ \A a \in Applicants : ApplicationOK(applicant[a])
  /\ \A a, b \in Applicants : a # b => Holding(applicant[a], applicant[b])

LEMMA SignUpInitHolds == SignUpInit => SignUpInv
<1>1. SUFFICES ASSUME SignUpInit PROVE SignUpInv OBVIOUS
<1>2. NoApplication \in Applications /\ NoApplication.step = "none" BY DEF NoApplication, Applications, SignUpSteps
<1>3. applicant \in [Applicants -> Applications] /\ \A a \in Applicants : applicant[a].step = "none" BY <1>1,<1>2 DEF SignUpInit
<1> QED BY <1>1,<1>3 DEF SignUpInit, SignUpInv, OwnersOK, ApplicationOK, Holding, InTransaction, HasOwner

\* A step of one caller that commits nothing.
LEMMA ApplicationMoves ==
  ASSUME SignUpInv, NEW a \in Applicants, NEW k \in Applications, ApplicationOK(k),
      applicant' = [applicant EXCEPT ![a] = k], UNCHANGED <<slugs, owners, consents>>, \A b \in Applicants \ {a} : Holding(k, applicant[b])
  PROVE SignUpInv'
<1>1. applicant \in [Applicants -> Applications] BY DEF SignUpInv
<1>2. applicant'[a] = k /\ \A b \in Applicants \ {a} : applicant'[b] = applicant[b] BY <1>1
<1>3. applicant' \in [Applicants -> Applications] BY <1>1
<1>4. OwnersOK' BY DEF SignUpInv, OwnersOK
<1>5. \A b \in Applicants : ApplicationOK(applicant[b])'
 <2>0. slugs' = slugs /\ owners' = owners OBVIOUS
 <2>1. ApplicationOK(applicant[a])' BY <1>2,<2>0 DEF ApplicationOK
 <2>2. \A b \in Applicants \ {a} : ApplicationOK(applicant[b]) BY DEF SignUpInv
 <2>3. \A b \in Applicants \ {a} : ApplicationOK(applicant[b])' BY <1>2,<2>0,<2>2 DEF ApplicationOK
 <2> QED BY <2>1,<2>3
<1>6. \A b \in Applicants \ {a} : Holding(applicant[b], k) BY DEF Holding
<1>7. \A b, c \in Applicants : b # c => Holding(applicant'[b], applicant'[c]) BY <1>2,<1>6 DEF SignUpInv
<1>8. (\A b, c \in Applicants : b # c => Holding(applicant[b], applicant[c]))' BY <1>7 DEF Holding
<1> QED BY <1>3,<1>4,<1>5,<1>8 DEF SignUpInv

LEMMA RegisterKeeps == ASSUME SignUpInv, NEW a \in Applicants, Register(a) PROVE SignUpInv'
<1>1. PICK g \in Slugs, e \in Emails :
        applicant' = [applicant EXCEPT ![a] = [step |-> "asked", slug |-> g, email |-> e]] BY DEF Register
<1>2. PICK k : k = [step |-> "asked", slug |-> g, email |-> e] OBVIOUS
<1>3. k \in Applications /\ k.step = "asked" /\ k.slug = g /\ k.email = e BY <1>2 DEF Applications, SignUpSteps
<1>4. ApplicationOK(k) BY <1>3 DEF ApplicationOK, InTransaction, HasOwner
<1>5. \A b \in Applicants \ {a} : Holding(k, applicant[b]) BY <1>3 DEF Holding, InTransaction, HasOwner
<1>6. applicant' = [applicant EXCEPT ![a] = k] BY <1>1,<1>2
<1>7. UNCHANGED <<slugs, owners, consents>> BY DEF Register
<1> QED BY <1>3,<1>4,<1>5,<1>6,<1>7, ApplicationMoves

\* A caller goes on to another step of his application.
LEMMA ApplicationAdvances ==
  ASSUME SignUpInv, NEW a \in Applicants, NEW step \in SignUpSteps, Advances(a, step), step # "signed in",
      applicant[a].step # "none", UNCHANGED <<slugs, owners, consents>>,
      step = "conflict" => \/ applicant[a].slug \in slugs
                           \/ \E o \in owners : o[2] = applicant[a].email,
      step \in InTransaction =>
        /\ applicant[a].slug \notin slugs
        /\ \A b \in Applicants \ {a} :
             applicant[b].step \in InTransaction => applicant[b].slug # applicant[a].slug,
      step \in HasOwner =>
        /\ \A o \in owners : o[2] # applicant[a].email
        /\ \A b \in Applicants \ {a} :
             applicant[b].step \in HasOwner => applicant[b].email # applicant[a].email
  PROVE SignUpInv'
<1>1. applicant[a] \in Applications /\ ApplicationOK(applicant[a]) BY DEF SignUpInv
<1>2. PICK k : k = [applicant[a] EXCEPT !.step = step] OBVIOUS
<1>3. k \in Applications /\ k.step = step /\ k.slug = applicant[a].slug /\ k.email = applicant[a].email BY <1>1,<1>2 DEF Applications
<1>4. k.slug \in Slugs /\ k.email \in Emails BY <1>1,<1>3 DEF ApplicationOK
<1>5. ApplicationOK(k) BY <1>3,<1>4 DEF ApplicationOK
<1>6. \A b \in Applicants \ {a} : Holding(k, applicant[b]) BY <1>3 DEF Holding
<1>7. applicant' = [applicant EXCEPT ![a] = k] BY <1>2 DEF Advances
<1> QED BY <1>3,<1>5,<1>6,<1>7, ApplicationMoves

LEMMA InsertTenantKeeps == ASSUME SignUpInv, NEW a \in Applicants, InsertTenant(a) PROVE SignUpInv'
<1>1. applicant[a].step = "asked" /\ UNCHANGED <<slugs, owners, consents>> BY DEF InsertTenant
<1>2. \A b \in Applicants \ {a} :
        applicant[b].step \in InTransaction => applicant[b].slug # applicant[a].slug BY DEF InsertTenant, Waits
<1>3. CASE applicant[a].slug \in slugs
 <2>1. Advances(a, "conflict") BY <1>3 DEF InsertTenant
 <2>2. "conflict" \in SignUpSteps /\ "conflict" \notin InTransaction /\ "conflict" \notin HasOwner BY DEF SignUpSteps, InTransaction, HasOwner
 <2> QED BY <1>1,<1>3,<2>1,<2>2, ApplicationAdvances
<1>4. CASE applicant[a].slug \notin slugs
 <2>1. Advances(a, "tenant") BY <1>4 DEF InsertTenant
 <2>2. "tenant" \in SignUpSteps /\ "tenant" \notin HasOwner BY DEF SignUpSteps, InTransaction, HasOwner
 <2> QED BY <1>1,<1>2,<1>4,<2>1,<2>2, ApplicationAdvances
<1> QED BY <1>3,<1>4

\* What a caller in a transaction keeps to himself.
LEMMA InTransactionKeeps ==
  ASSUME SignUpInv, NEW a \in Applicants, applicant[a].step \in InTransaction
  PROVE  /\ applicant[a].slug \notin slugs /\ applicant[a].slug \in Slugs /\ applicant[a].email \in Emails
         /\ applicant[a].step # "none"
         /\ \A b \in Applicants \ {a} :
              applicant[b].step \in InTransaction => applicant[b].slug # applicant[a].slug
         /\ applicant[a].step \in HasOwner =>
              /\ \A o \in owners : o[2] # applicant[a].email
              /\ \A b \in Applicants \ {a} :
                   applicant[b].step \in HasOwner => applicant[b].email # applicant[a].email
<1>1. ApplicationOK(applicant[a]) /\ \A b \in Applicants \ {a} : Holding(applicant[a], applicant[b]) BY DEF SignUpInv
<1>2. applicant[a].step # "none" BY DEF InTransaction
<1> QED BY <1>1,<1>2 DEF ApplicationOK, Holding

LEMMA InsertOwnerKeeps == ASSUME SignUpInv, NEW a \in Applicants, InsertOwner(a) PROVE SignUpInv'
<1>1. applicant[a].step = "tenant" /\ UNCHANGED <<slugs, owners, consents>> BY DEF InsertOwner
<1>2. \A b \in Applicants \ {a} : applicant[b].step \in HasOwner => applicant[b].email # applicant[a].email BY DEF InsertOwner, HasOwner
<1>3. applicant[a].step \in InTransaction /\ applicant[a].step # "none" BY <1>1 DEF InTransaction
<1>4. CASE \E g \in Slugs : <<g, applicant[a].email>> \in owners
 <2>1. Advances(a, "conflict") BY <1>4 DEF InsertOwner
 <2>2. "conflict" \in SignUpSteps /\ "conflict" \notin InTransaction /\ "conflict" \notin HasOwner BY DEF SignUpSteps, InTransaction, HasOwner
 <2>3. \E o \in owners : o[2] = applicant[a].email BY <1>4
 <2> QED BY <1>1,<1>3,<2>1,<2>2,<2>3, ApplicationAdvances
<1>5. CASE ~\E g \in Slugs : <<g, applicant[a].email>> \in owners
 <2>1. Advances(a, "owner") BY <1>5 DEF InsertOwner
 <2>2. "owner" \in SignUpSteps BY DEF SignUpSteps, InTransaction
 <2>3. \A o \in owners : o[2] # applicant[a].email
  <3>1. \A o \in owners : o \in Slugs \X Emails BY DEF SignUpInv
  <3>2. \A o \in owners : o[1] \in Slugs /\ o = <<o[1], o[2]>> BY <3>1
  <3> QED BY <1>5,<3>2
 <2> QED BY <1>1,<1>2,<1>3,<2>1,<2>2,<2>3, InTransactionKeeps, ApplicationAdvances
<1> QED BY <1>4,<1>5

LEMMA InsertAcceptancesKeeps == ASSUME SignUpInv, NEW a \in Applicants, InsertAcceptances(a) PROVE SignUpInv'
<1>1. applicant[a].step = "owner" /\ Advances(a, "whole") /\ UNCHANGED <<slugs, owners, consents>> BY DEF InsertAcceptances
<1>2. applicant[a].step \in InTransaction /\ applicant[a].step \in HasOwner /\ "whole" \in SignUpSteps
  BY <1>1 DEF InTransaction, HasOwner, SignUpSteps
<1> QED BY <1>1,<1>2, InTransactionKeeps, ApplicationAdvances

LEMMA RollsBackKeeps == ASSUME SignUpInv, NEW a \in Applicants, RegistrationRollsBack(a) PROVE SignUpInv'
<1>1. applicant[a].step \in InTransaction /\ Advances(a, "lost") /\ UNCHANGED <<slugs, owners, consents>> BY DEF RegistrationRollsBack
<1>2. "lost" \in SignUpSteps /\ "lost" \notin InTransaction /\ "lost" \notin HasOwner BY DEF InTransaction, HasOwner, SignUpSteps
<1> QED BY <1>1,<1>2, InTransactionKeeps, ApplicationAdvances

LEMMA CommitRegistrationKeeps == ASSUME SignUpInv, NEW a \in Applicants, CommitRegistration(a) PROVE SignUpInv'
<1>1. PICK g, e : g = applicant[a].slug /\ e = applicant[a].email OBVIOUS
<1>2. PICK step \in {"signed in", "lost"} : Advances(a, step) BY DEF CommitRegistration
<1>3. applicant[a].step = "whole" /\ slugs' = slugs \cup {g} /\ owners' = owners \cup {<<g, e>>}
      /\ consents' = consents \cup {e} BY <1>1 DEF CommitRegistration
<1>4. applicant[a].step \in InTransaction /\ applicant[a].step \in HasOwner BY <1>3 DEF InTransaction, HasOwner
<1>5. /\ g \notin slugs /\ g \in Slugs /\ e \in Emails /\ \A o \in owners : o[2] # e
      /\ \A b \in Applicants \ {a} : applicant[b].step \in InTransaction => applicant[b].slug # g
      /\ \A b \in Applicants \ {a} : applicant[b].step \in HasOwner => applicant[b].email # e BY <1>1,<1>4, InTransactionKeeps
<1>6. applicant \in [Applicants -> Applications] BY DEF SignUpInv
<1>7. PICK k : k = [applicant[a] EXCEPT !.step = step] OBVIOUS
<1>8. k \in Applications /\ k.step = step /\ k.slug = g /\ k.email = e
 <2>1. applicant[a] \in Applications /\ step \in SignUpSteps BY <1>6 DEF SignUpSteps
 <2> QED BY <1>1,<1>7,<2>1 DEF Applications
<1>9. applicant' = [applicant EXCEPT ![a] = k] BY <1>2,<1>7 DEF Advances
<1>10. applicant'[a] = k /\ \A b \in Applicants \ {a} : applicant'[b] = applicant[b] BY <1>6,<1>9
<1>11. applicant' \in [Applicants -> Applications] BY <1>6,<1>8,<1>9
<1>12. slugs' \in SUBSET Slugs /\ owners' \in SUBSET (Slugs \X Emails) /\ consents' \in SUBSET Emails
 <2>1. slugs \in SUBSET Slugs /\ owners \in SUBSET (Slugs \X Emails) /\ consents \in SUBSET Emails BY DEF SignUpInv
 <2>2. <<g, e>> \in Slugs \X Emails BY <1>5
 <2> QED BY <1>3,<1>5,<2>1,<2>2
<1>13. OwnersOK'
 <2>1. \A o \in owners : o[1] # g /\ o[2] # e BY <1>5 DEF SignUpInv, OwnersOK
 <2>2. PICK w : w = <<g, e>> OBVIOUS
 <2>3. w[1] = g /\ w[2] = e /\ owners' = owners \cup {w} BY <1>3,<2>2
 <2>4. /\ \A h \in slugs : \E o \in owners : o[1] = h
       /\ \A o \in owners : o[1] \in slugs /\ o[2] \in consents
       /\ \A o, q \in owners : o[1] = q[1] \/ o[2] = q[2] => o = q BY DEF SignUpInv, OwnersOK
 <2>5. \A h \in slugs' : \E o \in owners' : o[1] = h BY <1>3,<2>3,<2>4
 <2>6. \A o \in owners' : o[1] \in slugs' /\ o[2] \in consents' BY <1>3,<2>3,<2>4
 <2>7. \A o, q \in owners' : o[1] = q[1] \/ o[2] = q[2] => o = q BY <2>1,<2>3,<2>4
 <2> QED BY <2>5,<2>6,<2>7 DEF OwnersOK
<1>14. step \notin InTransaction /\ step \notin HasOwner /\ step \notin {"none", "conflict"} BY DEF InTransaction, HasOwner
<1>15. ASSUME NEW b \in Applicants PROVE ApplicationOK(applicant[b])'
 <2>1. CASE b = a
  <3>1. <<g, e>> \in owners' BY <1>3
  <3> QED BY <1>5,<1>8,<1>10,<1>14,<2>1,<3>1 DEF ApplicationOK
 <2>2. CASE b # a
  <3>1. applicant'[b] = applicant[b] /\ ApplicationOK(applicant[b]) BY <1>10,<2>2 DEF SignUpInv
  <3>2. PICK c : c = applicant[b] OBVIOUS
  <3>3. c.step \in InTransaction => c.slug \notin slugs' BY <1>3,<1>5,<2>2,<3>1,<3>2 DEF ApplicationOK
  <3>4. c.step \in HasOwner => \A o \in owners' : o[2] # c.email
   <4>1. SUFFICES ASSUME c.step \in HasOwner, NEW o \in owners' PROVE o[2] # c.email OBVIOUS
   <4>2. c.email # e /\ \A q \in owners : q[2] # c.email BY <1>5,<2>2,<3>1,<3>2,<4>1 DEF ApplicationOK
   <4>3. o \in owners \/ o = <<g, e>> BY <1>3
   <4>4. ASSUME o = <<g, e>> PROVE o[2] = e BY <4>4
   <4> QED BY <4>2,<4>3,<4>4
  <3>5. owners \subseteq owners' /\ slugs \subseteq slugs' BY <1>3
  <3> QED BY <3>1,<3>2,<3>3,<3>4,<3>5 DEF ApplicationOK
 <2> QED BY <2>1,<2>2
<1>16. ASSUME NEW b \in Applicants, NEW c \in Applicants, b # c PROVE Holding(applicant'[b], applicant'[c])
 <2>1. CASE b = a \/ c = a BY <1>8,<1>10,<1>14,<2>1 DEF Holding
 <2>2. CASE b # a /\ c # a
  <3>1. applicant'[b] = applicant[b] /\ applicant'[c] = applicant[c] BY <1>10,<2>2
  <3>2. Holding(applicant[b], applicant[c]) BY <1>16 DEF SignUpInv
  <3> QED BY <3>1,<3>2
 <2> QED BY <2>1,<2>2
<1>17. (\A b, c \in Applicants : b # c => Holding(applicant[b], applicant[c]))' BY <1>16 DEF Holding
<1> QED BY <1>11,<1>12,<1>13,<1>15,<1>17 DEF SignUpInv

LEMMA SignUpStepKeeps == SignUpInv /\ [SignUpNext]_signUpVars => SignUpInv'
<1>1. SUFFICES ASSUME SignUpInv, [SignUpNext]_signUpVars PROVE SignUpInv' OBVIOUS
<1>2. CASE UNCHANGED signUpVars BY <1>1,<1>2 DEF signUpVars, SignUpInv, OwnersOK, ApplicationOK, Holding
<1>3. CASE SignUpNext BY <1>1,<1>3, RegisterKeeps, InsertTenantKeeps, InsertOwnerKeeps, InsertAcceptancesKeeps, CommitRegistrationKeeps,
  RollsBackKeeps DEF SignUpNext
<1> QED BY <1>1,<1>2,<1>3

LEMMA SignUpSafe == SignUpInv => SignUpTypeOK /\ RegistrationIsWhole
<1>1. SUFFICES ASSUME SignUpInv PROVE SignUpTypeOK /\ RegistrationIsWhole OBVIOUS
<1>2. SignUpTypeOK BY <1>1 DEF SignUpInv, SignUpTypeOK, Applications, SignUpSteps
<1>3. ASSUME NEW g \in slugs PROVE Cardinality({o \in owners : o[1] = g}) = 1
 <2>1. PICK w \in owners : w[1] = g BY <1>1 DEF SignUpInv, OwnersOK
 <2>2. {o \in owners : o[1] = g} = {w} BY <1>1,<2>1 DEF SignUpInv, OwnersOK
 <2> QED BY <2>2, FS_Singleton
<1>4. RegistrationIsWhole BY <1>1,<1>3 DEF SignUpInv, OwnersOK, ApplicationOK, RegistrationIsWhole
<1> QED BY <1>2,<1>4

------------------------
(* Members, sessions and requests: a token that no change overtook names the role its member has, or
   the member changed after it was issued; a request between its two statements holds what it read;
   and as long as no request crossed another there is one at a time. *)

LoginRows == [pc : {"none", "hash", "issued"}, of : Members \cup {"none"}, role : Roles, issued : Nat, revoked : BOOLEAN, overtaken : BOOLEAN]
RequestRows == [kind : Kinds \cup {"none", "close2", "reopen2", "update2"}, target : Members \cup {"none"},
                role : Roles, active : BOOLEAN, was : Roles]
MemberRows == [role : Roles, active : BOOLEAN]
LifecycleRows == [state : {"NONE", "OPEN", "CLOSING", "DELETION_PENDING"}, deletion : BOOLEAN]

AccountTypes ==
  /\ member \in [Members -> MemberRows]
  /\ tenant \in {"TRIAL", "ACTIVE", "ARCHIVED"} /\ lifecycle \in LifecycleRows
  /\ login \in [Logins -> LoginRows] /\ request \in [Logins -> RequestRows]
  /\ time \in 0..MaxTime /\ spent \in 0..MaxRequests
  /\ changed \in [Members -> Nat]

AsRow(l) == member[l.of].role = l.role /\ member[l.of].active
LoginOK(l) ==
  /\ l.pc # "none" => l.of \in Members
  /\ l.pc # "issued" => ~l.revoked
  /\ l.issued <= time
  /\ l.pc = "hash" /\ ~l.overtaken => AsRow(l)
  /\ l.pc = "issued" /\ ~l.overtaken => AsRow(l) \/ changed[l.of] >= l.issued
LoginsOK == \A s \in Logins : LoginOK(login[s])

RequestOK(k, l) ==
  /\ k.kind # "none" => l.pc = "issued"
  /\ k.kind = "update2" =>
       k.target \in Members /\ (k.was = "OWNER" /\ k.role # "OWNER" => l.role = "OWNER")
RequestsOK == \A s \in Logins : RequestOK(request[s], login[s])

OneRequest == ~raced => \A s, r \in Underway : s = r

Agree ==
  /\ lifecycle.state \in {"NONE", "OPEN"} => tenant # "ARCHIVED"
  /\ lifecycle.state = "CLOSING" => tenant = "ARCHIVED"
  /\ tenant = "ARCHIVED" => lifecycle.state \in {"CLOSING", "DELETION_PENDING"}
Halfway == {"close2", "reopen2"}
LifecycleSettled ==
  ~raced /\ ~mended =>
    /\ \A s \in Logins : request[s].kind = "close2" => lifecycle.state = "CLOSING"
    /\ \A s \in Logins : request[s].kind = "reopen2" => lifecycle.state \in {"NONE", "OPEN"}
    /\ (\A s \in Logins : request[s].kind \notin Halfway) => Agree

AccountInv == AccountTypes /\ LoginsOK /\ RequestsOK /\ OneRequest /\ LifecycleSettled

LEMMA AccountInitHolds == AccountInit => AccountInv
<1>1. SUFFICES ASSUME AccountInit PROVE AccountInv OBVIOUS
<1>2. NoLogin \in LoginRows /\ NoLogin.pc = "none" /\ NoLogin.revoked = FALSE /\ NoLogin.issued = 0 BY DEF NoLogin, LoginRows, Roles
<1>3. NoRequest \in RequestRows /\ NoRequest.kind = "none" BY DEF NoRequest, RequestRows, Roles
<1>4. \A s \in Logins : login[s] = NoLogin /\ request[s] = NoRequest BY <1>1 DEF AccountInit
<1>5. AccountTypes
 <2>1. member \in [Members -> MemberRows] BY <1>1 DEF AccountInit, MemberRows, Roles
 <2>2. tenant = "TRIAL" /\ lifecycle \in LifecycleRows BY <1>1 DEF AccountInit, LifecycleRows
 <2>3. login \in [Logins -> LoginRows] /\ request \in [Logins -> RequestRows] BY <1>1,<1>2,<1>3 DEF AccountInit
 <2>4. time \in 0..MaxTime /\ spent \in 0..MaxRequests /\ changed \in [Members -> Nat] BY <1>1, AccountAssumption DEF AccountInit
 <2> QED BY <2>1,<2>2,<2>3,<2>4 DEF AccountTypes
<1>6. LoginsOK
 <2>1. time = 0 BY <1>1 DEF AccountInit
 <2>2. \A s \in Logins : login[s].pc = "none" /\ ~login[s].revoked /\ login[s].issued <= time BY <1>2,<1>4,<2>1
 <2> QED BY <2>2 DEF LoginsOK, LoginOK
<1>7. RequestsOK BY <1>3,<1>4 DEF RequestsOK, RequestOK
<1>8. OneRequest BY <1>3,<1>4 DEF OneRequest, Underway
<1>9. lifecycle.state = "NONE" /\ tenant = "TRIAL" BY <1>1 DEF AccountInit
<1>10. LifecycleSettled BY <1>3,<1>4,<1>9 DEF LifecycleSettled, Agree
<1> QED BY <1>5,<1>6,<1>7,<1>8,<1>10 DEF AccountInv

------------------------
\* A request changes, or ends; the tokens are what they are or other than
\* what they were only in ways that leave an issued one issued to its role.
LoginsGoOn == \A s \in Logins : login[s].pc = "issued" => login'[s].pc = "issued" /\ login'[s].role = login[s].role

LEMMA RequestGoesOn ==
  ASSUME AccountInv, NEW s \in Logins, NEW k \in RequestRows, request' = [request EXCEPT ![s] = k], LoginsGoOn, RequestOK(k, login'[s])
  PROVE  /\ request' \in [Logins -> RequestRows] /\ RequestsOK'
         /\ request'[s] = k /\ \A o \in Logins \ {s} : request'[o] = request[o]
<1>1. request \in [Logins -> RequestRows] BY DEF AccountInv, AccountTypes
<1>2. request'[s] = k /\ \A o \in Logins \ {s} : request'[o] = request[o] BY <1>1
<1>3. request' \in [Logins -> RequestRows] BY <1>1
<1>4. ASSUME NEW o \in Logins PROVE RequestOK(request'[o], login'[o])
 <2>1. CASE o = s BY <1>2,<2>1
 <2>2. CASE o # s
  <3>1. request'[o] = request[o] /\ RequestOK(request[o], login[o]) BY <1>2,<2>2 DEF AccountInv, RequestsOK
  <3> QED BY <3>1 DEF RequestOK, LoginsGoOn
 <2> QED BY <2>1,<2>2
<1>5. RequestsOK' BY <1>4 DEF RequestsOK, RequestOK
<1> QED BY <1>2,<1>3,<1>5

LEMMA RequestsGoOn == ASSUME AccountInv, request' = request, LoginsGoOn PROVE request' \in [Logins -> RequestRows] /\ RequestsOK'
<1>1. request \in [Logins -> RequestRows] BY DEF AccountInv, AccountTypes
<1>2. \A o \in Logins : RequestOK(request[o], login[o]) BY DEF AccountInv, RequestsOK
<1>3. \A o \in Logins : RequestOK(request'[o], login'[o]) BY <1>2 DEF RequestOK, LoginsGoOn
<1> QED BY <1>1,<1>3 DEF RequestsOK, RequestOK

\* The tokens stay as they are.
LEMMA LoginsStay ==
  ASSUME AccountInv, UNCHANGED <<login, member, changed>>, time' \in {time, time + 1}
  PROVE login' \in [Logins -> LoginRows] /\ LoginsOK' /\ LoginsGoOn
<1>1. login \in [Logins -> LoginRows] /\ time \in Nat BY AccountAssumption DEF AccountInv, AccountTypes
<1>2. \A s \in Logins : login[s].issued \in Nat BY <1>1 DEF LoginRows
<1>3. LoginsOK'
 <2>1. SUFFICES ASSUME NEW s \in Logins PROVE LoginOK(login[s])' BY DEF LoginsOK
 <2>2. LoginOK(login[s]) BY DEF AccountInv, LoginsOK
 <2>3. login'[s] = login[s] OBVIOUS
 <2>4. PICK l : l = login[s] OBVIOUS
 <2>5. l.issued <= time' BY <1>1,<1>2,<2>2,<2>4 DEF LoginOK
 <2> QED BY <2>2,<2>3,<2>4,<2>5 DEF LoginOK, AsRow
<1> QED BY <1>1,<1>3 DEF LoginsGoOn

\* One session's row is written.
LEMMA LoginWritten ==
  ASSUME AccountInv, NEW s \in Logins, NEW l \in LoginRows, login' = [login EXCEPT ![s] = l], LoginOK(l), UNCHANGED <<member, changed, time>>,
      login[s].pc = "issued" => l.pc = "issued" /\ l.role = login[s].role
  PROVE  /\ login' \in [Logins -> LoginRows] /\ LoginsOK' /\ LoginsGoOn
         /\ login'[s] = l /\ \A o \in Logins \ {s} : login'[o] = login[o]
<1>1. login \in [Logins -> LoginRows] BY DEF AccountInv, AccountTypes
<1>2. login'[s] = l /\ \A o \in Logins \ {s} : login'[o] = login[o] BY <1>1
<1>3. login' \in [Logins -> LoginRows] BY <1>1
<1>4. LoginsOK'
 <2>1. SUFFICES ASSUME NEW o \in Logins PROVE LoginOK(login[o])' BY DEF LoginsOK
 <2>2. PICK c : c = login'[o] OBVIOUS
 <2>3. LoginOK(c) BY <1>2,<2>2 DEF AccountInv, LoginsOK
 <2> QED BY <2>2,<2>3 DEF LoginOK, AsRow
<1>5. LoginsGoOn BY <1>2 DEF LoginsGoOn
<1> QED BY <1>2,<1>3,<1>4,<1>5

\* No request begins.
LEMMA OneRequestStays ==
  ASSUME AccountInv, NEW s \in Logins, raced => raced', request[s].kind # "none" \/ request' = request,
      \A o \in Logins \ {s} : request'[o] = request[o]
  PROVE OneRequest'
<1>1. Underway' \subseteq Underway BY DEF Underway
<1> QED BY <1>1 DEF AccountInv, OneRequest

\* A step of a request that is not halfway and leaves the two rows.
LEMMA LifecycleStays ==
  ASSUME AccountInv, NEW s \in Logins, UNCHANGED <<lifecycle, tenant>>, raced => raced', mended => mended',
      request[s].kind \notin Halfway, request'[s].kind \notin Halfway, \A o \in Logins \ {s} : request'[o] = request[o]
  PROVE LifecycleSettled'
<1>1. \A o \in Logins : request'[o].kind \in Halfway => request'[o] = request[o] /\ request[o].kind \in Halfway OBVIOUS
<1>2. (\A o \in Logins : request'[o].kind \notin Halfway) => (\A o \in Logins : request[o].kind \notin Halfway) OBVIOUS
<1>3. Agree <=> Agree' BY DEF Agree
<1> QED BY <1>1,<1>2,<1>3 DEF AccountInv, LifecycleSettled, Halfway

\* Nobody else is under way when nothing crossed.
LEMMA NobodyElse ==
  ASSUME AccountInv, NEW s \in Logins, request[s].kind # "none", ~raced
  PROVE \A o \in Logins \ {s} : request[o].kind = "none" BY DEF AccountInv, OneRequest, Underway

------------------------
\* What a step may do to members and tokens.
AccountStep ==
  /\ \A s \in Logins : request[s].kind = "none" /\ request'[s].kind # "none" =>
       \/ AsRow(login[s]) \/ time < changed[login[s].of] + TokenLife \/ login[s].overtaken
  /\ \A m \in Members : member[m].role = "OWNER" /\ member'[m].role # "OWNER" =>
       \E s \in Underway :
         /\ request[s].target = m
         /\ login[s].role = "OWNER" \/ request[s].was # "OWNER"
  /\ \A o \in Logins : login[o].revoked # login'[o].revoked =>
       \E s \in Underway : login[s].of = login[o].of /\ (request[s].kind = "others" => s # o)

LEMMA LoginReadKeeps == ASSUME AccountInv, NEW m \in Members, NEW s \in Logins, LoginRead(m, s) PROVE AccountInv' /\ AccountStep
<1>1. PICK l : l = [NoLogin EXCEPT !.pc = "hash", !.of = m, !.role = member[m].role] OBVIOUS
<1>2. member[m].role \in Roles BY DEF AccountInv, AccountTypes, MemberRows
<1>3. l \in LoginRows /\ l.pc = "hash" /\ l.of = m /\ l.role = member[m].role /\ ~l.revoked /\ l.issued = 0 BY <1>1,<1>2 DEF NoLogin, LoginRows
<1>4. login' = [login EXCEPT ![s] = l] /\ login[s].pc = "none" /\ member[m].active
      /\ UNCHANGED <<member, tenant, lifecycle, request, time, spent, changed, raced, mended>> BY <1>1 DEF LoginRead
<1>5. time \in Nat BY AccountAssumption DEF AccountInv, AccountTypes
<1>6. LoginOK(l) BY <1>3,<1>4,<1>5 DEF LoginOK, AsRow
<1>7. /\ login' \in [Logins -> LoginRows] /\ LoginsOK' /\ LoginsGoOn
      /\ login'[s] = l /\ \A o \in Logins \ {s} : login'[o] = login[o] BY <1>3,<1>4,<1>6, LoginWritten
<1>8. request' \in [Logins -> RequestRows] /\ RequestsOK' BY <1>4,<1>7, RequestsGoOn
<1>9. AccountTypes' BY <1>4,<1>7,<1>8 DEF AccountInv, AccountTypes
<1>10. OneRequest' /\ LifecycleSettled' BY <1>4 DEF AccountInv, OneRequest, Underway, LifecycleSettled, Agree
<1>11. ~login[s].revoked BY <1>4 DEF AccountInv, LoginsOK, LoginOK
<1>12. \A o \in Logins : login'[o].revoked = login[o].revoked
 <2>1. login[s].revoked \in BOOLEAN /\ l.revoked \in BOOLEAN BY <1>3 DEF AccountInv, AccountTypes, LoginRows
 <2>2. l.revoked = login[s].revoked BY <1>3,<1>11,<2>1, Zenon
 <2> QED BY <1>7,<2>2
<1>13. AccountStep BY <1>4,<1>12 DEF AccountStep
<1> QED BY <1>7,<1>8,<1>9,<1>10,<1>13 DEF AccountInv

LEMMA IssueKeeps == ASSUME AccountInv, NEW s \in Logins, IssueTokens(s) PROVE AccountInv' /\ AccountStep
<1>1. PICK l : l = [login[s] EXCEPT !.pc = "issued", !.issued = time] OBVIOUS
<1>2. login[s] \in LoginRows /\ time \in Nat BY AccountAssumption DEF AccountInv, AccountTypes
<1>3. l \in LoginRows /\ l.pc = "issued" /\ l.of = login[s].of /\ l.role = login[s].role
      /\ l.revoked = login[s].revoked /\ l.issued = time /\ l.overtaken = login[s].overtaken BY <1>1,<1>2 DEF LoginRows
<1>4. login' = [login EXCEPT ![s] = l] /\ login[s].pc = "hash"
      /\ UNCHANGED <<member, tenant, lifecycle, request, time, spent, changed, raced, mended>> BY <1>1 DEF IssueTokens
<1>5. LoginOK(login[s]) BY DEF AccountInv, LoginsOK
<1>6. LoginOK(l) BY <1>2,<1>3,<1>4,<1>5 DEF LoginOK, AsRow
<1>7. /\ login' \in [Logins -> LoginRows] /\ LoginsOK' /\ LoginsGoOn
      /\ login'[s] = l /\ \A o \in Logins \ {s} : login'[o] = login[o] BY <1>3,<1>4,<1>6, LoginWritten
<1>8. request' \in [Logins -> RequestRows] /\ RequestsOK' BY <1>4,<1>7, RequestsGoOn
<1>9. AccountTypes' BY <1>4,<1>7,<1>8 DEF AccountInv, AccountTypes
<1>10. OneRequest' /\ LifecycleSettled' BY <1>4 DEF AccountInv, OneRequest, Underway, LifecycleSettled, Agree
<1>11. \A o \in Logins : login'[o].revoked = login[o].revoked BY <1>3,<1>7
<1>12. AccountStep BY <1>4,<1>11 DEF AccountStep
<1> QED BY <1>7,<1>8,<1>9,<1>10,<1>12 DEF AccountInv

LEMMA AdmitKeeps == ASSUME AccountInv, NEW s \in Logins, Admit(s) PROVE AccountInv' /\ AccountStep
<1>1. PICK kind \in Kinds : request' = [request EXCEPT ![s] = [NoRequest EXCEPT !.kind = kind]] BY DEF Admit
<1>2. PICK k : k = [NoRequest EXCEPT !.kind = kind] OBVIOUS
<1>3. k \in RequestRows /\ k.kind = kind BY <1>2 DEF NoRequest, RequestRows, Roles
<1>4. kind \notin Halfway /\ kind # "update2" BY DEF Kinds, Halfway
<1>5. request[s].kind = "none" /\ request' = [request EXCEPT ![s] = k]
      /\ login[s].pc = "issued" /\ time < login[s].issued + TokenLife
      /\ spent < MaxRequests /\ spent' = spent + 1 /\ (raced' <=> (raced \/ Underway # {}))
      /\ UNCHANGED <<member, tenant, lifecycle, login, time, changed, mended>> BY <1>1,<1>2 DEF Admit, GuardAdmits
<1>6. login' \in [Logins -> LoginRows] /\ LoginsOK' /\ LoginsGoOn BY <1>5, LoginsStay
<1>7. RequestOK(k, login'[s]) BY <1>3,<1>4,<1>5 DEF RequestOK
<1>8. /\ request' \in [Logins -> RequestRows] /\ RequestsOK'
      /\ request'[s] = k /\ \A o \in Logins \ {s} : request'[o] = request[o] BY <1>3,<1>5,<1>6,<1>7, RequestGoesOn
<1>9. spent' \in 0..MaxRequests BY <1>5, AccountAssumption DEF AccountInv, AccountTypes
<1>10. AccountTypes' BY <1>5,<1>6,<1>8,<1>9 DEF AccountInv, AccountTypes
<1>11. OneRequest'
 <2>1. SUFFICES ASSUME ~raced' PROVE \A o, r \in Underway' : o = r BY DEF OneRequest
 <2>2. Underway = {} BY <1>5,<2>1
 <2>3. Underway' \subseteq {s} BY <1>8,<2>2 DEF Underway
 <2> QED BY <2>3
<1>12. LifecycleSettled'
 <2>1. request[s].kind \notin Halfway BY <1>5 DEF Halfway
 <2> QED BY <1>3,<1>4,<1>5,<1>8,<2>1, LifecycleStays
<1>13. AccountStep
 <2>1. LoginOK(login[s]) BY DEF AccountInv, LoginsOK
 <2>2. login[s].of \in Members BY <1>5,<2>1 DEF LoginOK
 <2>3. changed[login[s].of] \in Nat /\ login[s].issued \in Nat /\ TokenLife \in Nat /\ time \in Nat
   BY <2>2, AccountAssumption DEF AccountInv, AccountTypes, LoginRows
 <2>4. AsRow(login[s]) \/ time < changed[login[s].of] + TokenLife \/ login[s].overtaken
  <3>1. SUFFICES ASSUME changed[login[s].of] >= login[s].issued PROVE time < changed[login[s].of] + TokenLife BY <1>5,<2>1 DEF LoginOK
  <3>2. PICK c, i : c = changed[login[s].of] /\ i = login[s].issued OBVIOUS
  <3> QED BY <1>5,<2>3,<3>1,<3>2
 <2>5. \A o \in Logins \ {s} : request'[o].kind = request[o].kind BY <1>8
 <2> QED BY <1>5,<2>4,<2>5 DEF AccountStep
<1> QED BY <1>6,<1>8,<1>10,<1>11,<1>12,<1>13 DEF AccountInv

\* A request that is under way goes on or ends and leaves members and tokens.
LEMMA RequestStep ==
  ASSUME AccountInv, NEW s \in Logins, NEW k \in RequestRows, request' = [request EXCEPT ![s] = k],
      request[s].kind # "none", k.kind = "update2" => k.target \in Members,
      k.kind = "update2" /\ k.was = "OWNER" /\ k.role # "OWNER" => login[s].role = "OWNER",
      UNCHANGED <<member, login, time, spent, changed>>, raced => raced',
      tenant' \in {"TRIAL", "ACTIVE", "ARCHIVED"}, lifecycle' \in LifecycleRows, LifecycleSettled'
  PROVE AccountInv' /\ AccountStep
<1>1. login' \in [Logins -> LoginRows] /\ LoginsOK' /\ LoginsGoOn BY LoginsStay
<1>2. login'[s].pc = "issued" BY DEF AccountInv, RequestsOK, RequestOK
<1>3. RequestOK(k, login'[s]) BY <1>2 DEF RequestOK
<1>4. /\ request' \in [Logins -> RequestRows] /\ RequestsOK'
      /\ request'[s] = k /\ \A o \in Logins \ {s} : request'[o] = request[o] BY <1>1,<1>3, RequestGoesOn
<1>5. AccountTypes' BY <1>1,<1>4 DEF AccountInv, AccountTypes
<1>6. OneRequest' BY <1>4, OneRequestStays
<1>7. AccountStep BY <1>4 DEF AccountStep
<1> QED BY <1>1,<1>4,<1>5,<1>6,<1>7 DEF AccountInv

\* The kinds of the request that changed, and of the others.
LEMMA RequestNow ==
  ASSUME AccountInv, NEW s \in Logins, NEW k, request' = [request EXCEPT ![s] = k]
  PROVE request'[s] = k /\ \A o \in Logins \ {s} : request'[o] = request[o] BY DEF AccountInv, AccountTypes

LEMMA ContinuedIs ==
  ASSUME AccountInv, NEW s \in Logins, NEW kind \in {"close2", "reopen2", "none"}, Continues(s, kind)
  PROVE \E k \in RequestRows : k.kind = kind /\ request' = [request EXCEPT ![s] = k]
<1>1. PICK k : k = [request[s] EXCEPT !.kind = kind] OBVIOUS
<1>2. request[s] \in RequestRows BY DEF AccountInv, AccountTypes
<1>3. k \in RequestRows /\ k.kind = kind BY <1>1,<1>2 DEF RequestRows
<1>4. request' = [request EXCEPT ![s] = k] BY <1>1 DEF Continues
<1> QED BY <1>3,<1>4

LEMMA EndedIs == NoRequest \in RequestRows /\ NoRequest.kind = "none" BY DEF NoRequest, RequestRows, Roles

LEMMA CloseLifecycleKeeps == ASSUME AccountInv, NEW s \in Logins, CloseLifecycle(s) PROVE AccountInv' /\ AccountStep
<1>1. request[s].kind = "close" /\ lifecycle' = [lifecycle EXCEPT !.state = "CLOSING"] /\ Continues(s, "close2")
      /\ UNCHANGED <<member, tenant, login, time, spent, changed, raced, mended>> BY DEF CloseLifecycle
<1>2. PICK k \in RequestRows : k.kind = "close2" /\ request' = [request EXCEPT ![s] = k] BY <1>1, ContinuedIs
<1>3. request'[s] = k /\ \A o \in Logins \ {s} : request'[o] = request[o] BY <1>2, RequestNow
<1>4. lifecycle' \in LifecycleRows /\ lifecycle'.state = "CLOSING" BY <1>1 DEF AccountInv, AccountTypes, LifecycleRows
<1>5. LifecycleSettled'
 <2>1. SUFFICES ASSUME ~raced' PROVE LifecycleSettled' BY DEF LifecycleSettled
 <2>2. \A o \in Logins \ {s} : request'[o].kind = "none" BY <1>1,<1>3,<2>1, NobodyElse
 <2> QED BY <1>2,<1>3,<1>4,<2>2 DEF LifecycleSettled, Halfway
<1>6. tenant' \in {"TRIAL", "ACTIVE", "ARCHIVED"} BY <1>1 DEF AccountInv, AccountTypes
<1> QED BY <1>1,<1>2,<1>4,<1>5,<1>6, RequestStep

LEMMA CloseTenantKeeps == ASSUME AccountInv, NEW s \in Logins, CloseTenant(s) PROVE AccountInv' /\ AccountStep
<1>1. request[s].kind = "close2" /\ tenant' = "ARCHIVED" /\ request' = [request EXCEPT ![s] = NoRequest]
      /\ UNCHANGED <<member, lifecycle, login, time, spent, changed, raced, mended>> BY DEF CloseTenant, Ends
<1>2. request'[s] = NoRequest /\ \A o \in Logins \ {s} : request'[o] = request[o] BY <1>1, RequestNow
<1>3. lifecycle' \in LifecycleRows BY <1>1 DEF AccountInv, AccountTypes
<1>4. LifecycleSettled'
 <2>1. SUFFICES ASSUME ~raced', ~mended' PROVE LifecycleSettled' BY DEF LifecycleSettled
 <2>2. \A o \in Logins \ {s} : request'[o].kind = "none" BY <1>1,<1>2,<2>1, NobodyElse
 <2>3. lifecycle.state = "CLOSING" BY <1>1,<2>1 DEF AccountInv, LifecycleSettled
 <2> QED BY <1>1,<1>2,<2>2,<2>3, EndedIs DEF LifecycleSettled, Agree
<1> QED BY <1>1,<1>3,<1>4, EndedIs, RequestStep

LEMMA ReopenLifecycleKeeps == ASSUME AccountInv, NEW s \in Logins, ReopenLifecycle(s) PROVE AccountInv' /\ AccountStep
<1>1. request[s].kind = "reopen" /\ Continues(s, "reopen2")
      /\ lifecycle' = (IF lifecycle.state = "NONE" THEN lifecycle ELSE [lifecycle EXCEPT !.state = "OPEN"])
      /\ UNCHANGED <<member, tenant, login, time, spent, changed, raced, mended>> BY DEF ReopenLifecycle
<1>2. PICK k \in RequestRows : k.kind = "reopen2" /\ request' = [request EXCEPT ![s] = k] BY <1>1, ContinuedIs
<1>3. request'[s] = k /\ \A o \in Logins \ {s} : request'[o] = request[o] BY <1>2, RequestNow
<1>4. lifecycle' \in LifecycleRows /\ lifecycle'.state \in {"NONE", "OPEN"} BY <1>1 DEF AccountInv, AccountTypes, LifecycleRows
<1>5. LifecycleSettled'
 <2>1. SUFFICES ASSUME ~raced' PROVE LifecycleSettled' BY DEF LifecycleSettled
 <2>2. \A o \in Logins \ {s} : request'[o].kind = "none" BY <1>1,<1>3,<2>1, NobodyElse
 <2> QED BY <1>2,<1>3,<1>4,<2>2 DEF LifecycleSettled, Halfway
<1>6. tenant' \in {"TRIAL", "ACTIVE", "ARCHIVED"} BY <1>1 DEF AccountInv, AccountTypes
<1> QED BY <1>1,<1>2,<1>4,<1>5,<1>6, RequestStep

LEMMA ReopenTenantKeeps == ASSUME AccountInv, NEW s \in Logins, ReopenTenant(s) PROVE AccountInv' /\ AccountStep
<1>1. request[s].kind = "reopen2" /\ tenant' = "ACTIVE" /\ request' = [request EXCEPT ![s] = NoRequest]
      /\ UNCHANGED <<member, lifecycle, login, time, spent, changed, raced, mended>> BY DEF ReopenTenant, Ends
<1>2. request'[s] = NoRequest /\ \A o \in Logins \ {s} : request'[o] = request[o] BY <1>1, RequestNow
<1>3. lifecycle' \in LifecycleRows BY <1>1 DEF AccountInv, AccountTypes
<1>4. LifecycleSettled'
 <2>1. SUFFICES ASSUME ~raced', ~mended' PROVE LifecycleSettled' BY DEF LifecycleSettled
 <2>2. \A o \in Logins \ {s} : request'[o].kind = "none" BY <1>1,<1>2,<2>1, NobodyElse
 <2>3. lifecycle.state \in {"NONE", "OPEN"} BY <1>1,<2>1 DEF AccountInv, LifecycleSettled
 <2> QED BY <1>1,<1>2,<2>2,<2>3, EndedIs DEF LifecycleSettled, Agree
<1> QED BY <1>1,<1>3,<1>4, EndedIs, RequestStep

LEMMA RequestDeletionKeeps == ASSUME AccountInv, NEW s \in Logins, RequestDeletion(s) PROVE AccountInv' /\ AccountStep
<1>1. request[s].kind = "delete" /\ lifecycle' = [state |-> "DELETION_PENDING", deletion |-> TRUE]
      /\ request' = [request EXCEPT ![s] = NoRequest]
      /\ UNCHANGED <<member, tenant, login, time, spent, changed, raced, mended>> BY DEF RequestDeletion, Ends
<1>2. request'[s] = NoRequest /\ \A o \in Logins \ {s} : request'[o] = request[o] BY <1>1, RequestNow
<1>3. lifecycle' \in LifecycleRows /\ lifecycle'.state = "DELETION_PENDING" BY <1>1 DEF LifecycleRows
<1>4. tenant' \in {"TRIAL", "ACTIVE", "ARCHIVED"} BY <1>1 DEF AccountInv, AccountTypes
<1>5. LifecycleSettled'
 <2>1. SUFFICES ASSUME ~raced', ~mended' PROVE LifecycleSettled' BY DEF LifecycleSettled
 <2>2. \A o \in Logins \ {s} : request'[o].kind = "none" BY <1>1,<1>2,<2>1, NobodyElse
 <2> QED BY <1>2,<1>3,<2>2, EndedIs DEF LifecycleSettled, Agree
<1> QED BY <1>1,<1>3,<1>4,<1>5, EndedIs, RequestStep

LEMMA CancelDeletionKeeps == ASSUME AccountInv, NEW s \in Logins, CancelDeletion(s) PROVE AccountInv' /\ AccountStep
<1>1. request[s].kind = "cancel" /\ request' = [request EXCEPT ![s] = NoRequest]
      /\ UNCHANGED <<member, tenant, login, time, spent, changed, raced>> BY DEF CancelDeletion, Ends
<1>2. lifecycle' = (IF lifecycle.state = "DELETION_PENDING" THEN [state |-> "OPEN", deletion |-> FALSE] ELSE lifecycle)
      /\ (mended' <=> (mended \/ (lifecycle.state = "DELETION_PENDING" /\ tenant = "ARCHIVED"))) BY DEF CancelDeletion
<1>3. request'[s] = NoRequest /\ \A o \in Logins \ {s} : request'[o] = request[o] BY <1>1, RequestNow
<1>4. lifecycle' \in LifecycleRows /\ tenant' \in {"TRIAL", "ACTIVE", "ARCHIVED"} BY <1>1,<1>2 DEF AccountInv, AccountTypes, LifecycleRows
<1>5. LifecycleSettled'
 <2>1. SUFFICES ASSUME ~raced', ~mended' PROVE LifecycleSettled' BY DEF LifecycleSettled
 <2>2. \A o \in Logins \ {s} : request[o].kind = "none" /\ request'[o].kind = "none" BY <1>1,<1>3,<2>1, NobodyElse
 <2>3. ~raced /\ ~mended BY <1>1,<1>2,<2>1
 <2>4. Agree BY <1>1,<2>2,<2>3 DEF AccountInv, LifecycleSettled, Halfway
 <2>5. Agree' BY <1>1,<1>2,<2>1,<2>4 DEF Agree
 <2> QED BY <1>3,<2>2,<2>5, EndedIs DEF LifecycleSettled
<1> QED BY <1>1,<1>4,<1>5, EndedIs, RequestStep

LEMMA UpdateReadKeeps == ASSUME AccountInv, NEW s \in Logins, UpdateRead(s) PROVE AccountInv' /\ AccountStep
<1>1. PICK t \in Members, r \in Roles, a \in BOOLEAN :
        /\ (member[t].role = "OWNER" /\ r # "OWNER") => login[s].role = "OWNER"
        /\ request' = [request EXCEPT ![s] = [@ EXCEPT !.kind = "update2", !.target = t,
                         !.role = r, !.active = a, !.was = member[t].role]] BY DEF UpdateRead
<1>2. PICK k : k = [request[s] EXCEPT !.kind = "update2", !.target = t, !.role = r, !.active = a, !.was = member[t].role] OBVIOUS
<1>3. request[s] \in RequestRows /\ member[t].role \in Roles BY DEF AccountInv, AccountTypes, MemberRows
<1>4. k \in RequestRows /\ k.kind = "update2" /\ k.target = t /\ k.role = r /\ k.was = member[t].role BY <1>2,<1>3 DEF RequestRows
<1>5. request' = [request EXCEPT ![s] = k] BY <1>1,<1>2
<1>6. request[s].kind = "update"
      /\ UNCHANGED <<member, tenant, lifecycle, login, time, spent, changed, raced, mended>> BY DEF UpdateRead
<1>7. request'[s] = k /\ \A o \in Logins \ {s} : request'[o] = request[o] BY <1>5, RequestNow
<1>8. request[s].kind \notin Halfway /\ k.kind \notin Halfway BY <1>4,<1>6 DEF Halfway
<1>9. LifecycleSettled' BY <1>6,<1>7,<1>8, LifecycleStays
<1>10. lifecycle' \in LifecycleRows /\ tenant' \in {"TRIAL", "ACTIVE", "ARCHIVED"} BY <1>6 DEF AccountInv, AccountTypes
<1> QED BY <1>1,<1>4,<1>5,<1>6,<1>9,<1>10, RequestStep

LEMMA RequestDiesKeeps == ASSUME AccountInv, NEW s \in Logins, RequestDies(s) PROVE AccountInv' /\ AccountStep
<1>1. request[s].kind # "none" /\ request' = [request EXCEPT ![s] = NoRequest]
      /\ (raced' <=> (raced \/ request[s].kind \in Halfway))
      /\ UNCHANGED <<member, tenant, lifecycle, login, time, spent, changed, mended>> BY DEF RequestDies, Ends, Halfway
<1>2. request'[s] = NoRequest /\ \A o \in Logins \ {s} : request'[o] = request[o] BY <1>1, RequestNow
<1>3. LifecycleSettled'
 <2>1. SUFFICES ASSUME ~raced' PROVE LifecycleSettled' BY DEF LifecycleSettled
 <2>2. request[s].kind \notin Halfway /\ NoRequest.kind \notin Halfway BY <1>1,<2>1, EndedIs DEF Halfway
 <2> QED BY <1>1,<1>2,<2>2, LifecycleStays
<1>4. lifecycle' \in LifecycleRows /\ tenant' \in {"TRIAL", "ACTIVE", "ARCHIVED"} BY <1>1 DEF AccountInv, AccountTypes
<1> QED BY <1>1,<1>3,<1>4, EndedIs, RequestStep

\* A request ends that wrote members or tokens.
LEMMA WritingEnds ==
  ASSUME AccountInv, NEW s \in Logins, Ends(s), request[s].kind \notin Halfway, request[s].kind # "none",
      UNCHANGED <<tenant, lifecycle, time, spent, raced, mended>>, login' \in [Logins -> LoginRows], LoginsOK', LoginsGoOn,
      member' \in [Members -> MemberRows], changed' \in [Members -> Nat]
  PROVE AccountInv' /\ request'[s] = NoRequest /\ \A o \in Logins \ {s} : request'[o] = request[o]
<1>1. request' = [request EXCEPT ![s] = NoRequest] BY DEF Ends
<1>2. RequestOK(NoRequest, login'[s]) BY EndedIs DEF RequestOK
<1>3. /\ request' \in [Logins -> RequestRows] /\ RequestsOK'
      /\ request'[s] = NoRequest /\ \A o \in Logins \ {s} : request'[o] = request[o] BY <1>1,<1>2, EndedIs, RequestGoesOn
<1>4. AccountTypes' BY <1>3 DEF AccountInv, AccountTypes
<1>5. OneRequest' BY <1>3, OneRequestStays
<1>6. NoRequest.kind \notin Halfway BY EndedIs DEF Halfway
<1>7. LifecycleSettled' BY <1>3,<1>6, LifecycleStays
<1> QED BY <1>3,<1>4,<1>5,<1>7 DEF AccountInv

LEMMA UpdateWriteKeeps == ASSUME AccountInv, NEW s \in Logins, UpdateWrite(s) PROVE AccountInv' /\ AccountStep
<1>1. PICK c : c = request[s] OBVIOUS
<1>2. PICK t : t = c.target OBVIOUS
<1>3. PICK written : written = [role |-> c.role, active |-> c.active] OBVIOUS
<1>4. /\ c.kind = "update2" /\ Ends(s)
      /\ member' = [member EXCEPT ![t] = written]
      /\ changed' = (IF member'[t] # member[t] THEN [changed EXCEPT ![t] = time] ELSE changed)
      /\ login' = [o \in Logins |-> IF login[o].pc = "hash" /\ login[o].of = t
                                    THEN [login[o] EXCEPT !.overtaken = TRUE] ELSE login[o]]
      /\ UNCHANGED <<tenant, lifecycle, time, spent, raced, mended>> BY <1>1,<1>2,<1>3 DEF UpdateWrite
<1>5. t \in Members /\ c \in RequestRows /\ (c.was = "OWNER" /\ c.role # "OWNER" => login[s].role = "OWNER")
  BY <1>1,<1>2,<1>4 DEF AccountInv, AccountTypes, RequestsOK, RequestOK
<1>6. written \in MemberRows /\ written.role = c.role BY <1>3,<1>5 DEF RequestRows, MemberRows
<1>7. member \in [Members -> MemberRows] /\ changed \in [Members -> Nat] /\ login \in [Logins -> LoginRows] /\ time \in Nat
  BY AccountAssumption DEF AccountInv, AccountTypes
<1>8. member' \in [Members -> MemberRows] /\ changed' \in [Members -> Nat] BY <1>4,<1>5,<1>6,<1>7
<1>9. member'[t] = written /\ \A m \in Members \ {t} : member'[m] = member[m] /\ changed'[m] = changed[m] BY <1>4,<1>5,<1>7
<1>10. \/ member'[t] = member[t] /\ changed'[t] = changed[t]
       \/ changed'[t] = time BY <1>4,<1>5,<1>7
<1>11. ASSUME NEW o \in Logins
  PROVE  \E l \in LoginRows : /\ login'[o] = l /\ l.pc = login[o].pc /\ l.of = login[o].of /\ l.role = login[o].role
                              /\ l.issued = login[o].issued /\ l.revoked = login[o].revoked
                              /\ login[o].overtaken => l.overtaken
                              /\ l.pc = "hash" /\ l.of = t => l.overtaken
 <2>1. login[o] \in LoginRows BY <1>7
 <2>2. CASE login[o].pc = "hash" /\ login[o].of = t
  <3>1. PICK l : l = [login[o] EXCEPT !.overtaken = TRUE] OBVIOUS
  <3>2. l \in LoginRows /\ l.pc = login[o].pc /\ l.of = login[o].of /\ l.role = login[o].role
        /\ l.issued = login[o].issued /\ l.revoked = login[o].revoked /\ l.overtaken BY <2>1,<3>1 DEF LoginRows
  <3>3. login'[o] = l BY <1>4,<2>2,<3>1
  <3> QED BY <3>2,<3>3
 <2>3. CASE ~(login[o].pc = "hash" /\ login[o].of = t) BY <1>4,<2>1,<2>3
 <2> QED BY <2>2,<2>3
<1>12. login' \in [Logins -> LoginRows]
 <2>1. \A o \in Logins : login'[o] \in LoginRows BY <1>11
 <2>2. PICK f : f = login' OBVIOUS
 <2>3. f = [o \in Logins |-> f[o]] BY <1>4,<2>2
 <2> QED BY <2>1,<2>2,<2>3
<1>13. LoginsOK'
 <2>1. SUFFICES ASSUME NEW o \in Logins PROVE LoginOK(login[o])' BY DEF LoginsOK
 <2>2. PICK l \in LoginRows :
         /\ login'[o] = l /\ l.pc = login[o].pc /\ l.of = login[o].of /\ l.role = login[o].role
         /\ l.issued = login[o].issued /\ l.revoked = login[o].revoked
         /\ login[o].overtaken => l.overtaken
         /\ l.pc = "hash" /\ l.of = t => l.overtaken BY <1>11
 <2>3. LoginOK(login[o]) BY DEF AccountInv, LoginsOK
 <2>4. l.pc # "none" => l.of \in Members BY <2>2,<2>3 DEF LoginOK
 <2>5. (l.pc # "issued" => ~l.revoked) /\ l.issued <= time' BY <1>4,<2>2,<2>3 DEF LoginOK
 <2>6. l.pc = "hash" /\ ~l.overtaken => member'[l.of].role = l.role /\ member'[l.of].active BY <1>9,<2>2,<2>3,<2>4 DEF LoginOK, AsRow
 <2>7. l.pc = "issued" /\ ~l.overtaken =>
         \/ member'[l.of].role = l.role /\ member'[l.of].active
         \/ changed'[l.of] >= l.issued
  <3>1. SUFFICES ASSUME l.pc = "issued", ~l.overtaken
    PROVE  \/ member'[l.of].role = l.role /\ member'[l.of].active
           \/ changed'[l.of] >= l.issued OBVIOUS
  <3>2. AsRow(l) \/ changed[l.of] >= l.issued BY <2>2,<2>3,<3>1 DEF LoginOK, AsRow
  <3>3. CASE l.of # t BY <1>9,<2>4,<3>1,<3>2,<3>3 DEF AsRow
  <3>4. CASE l.of = t
   <4>1. changed'[t] = time => changed'[l.of] >= l.issued BY <1>4,<1>7,<2>5,<3>4 DEF LoginRows
   <4> QED BY <1>10,<3>2,<3>4,<4>1 DEF AsRow
  <3> QED BY <3>3,<3>4
 <2> QED BY <2>2,<2>4,<2>5,<2>6,<2>7 DEF LoginOK, AsRow
<1>14. LoginsGoOn BY <1>11 DEF LoginsGoOn
<1>15. request[s].kind \notin Halfway /\ request[s].kind # "none" BY <1>1,<1>4 DEF Halfway
<1>16. AccountInv' /\ request'[s] = NoRequest /\ \A o \in Logins \ {s} : request'[o] = request[o]
  BY <1>4,<1>8,<1>12,<1>13,<1>14,<1>15, WritingEnds
<1>17. \A o \in Logins : login'[o].revoked = login[o].revoked BY <1>11
<1>18. ASSUME NEW m \in Members, member[m].role = "OWNER", member'[m].role # "OWNER"
  PROVE  /\ s \in Underway /\ request[s].target = m
         /\ login[s].role = "OWNER" \/ request[s].was # "OWNER"
 <2>1. m = t BY <1>9,<1>18
 <2>2. c.role # "OWNER" BY <1>6,<1>9,<1>18,<2>1
 <2> QED BY <1>1,<1>2,<1>5,<1>15,<2>1,<2>2 DEF Underway
<1>19. \A o \in Logins : ~(request[o].kind = "none" /\ request'[o].kind # "none") BY <1>15,<1>16, EndedIs
<1>20. AccountStep BY <1>17,<1>18,<1>19 DEF AccountStep
<1> QED BY <1>16,<1>20

LEMMA RevokeKeeps == ASSUME AccountInv, NEW s \in Logins, RevokeSession(s) PROVE AccountInv' /\ AccountStep
<1>1. PICK o \in Logins : /\ login[o].pc = "issued" /\ login[o].of = login[s].of
                          /\ login' = [login EXCEPT ![o].revoked = TRUE] BY DEF RevokeSession
<1>2. request[s].kind = "revoke" /\ Ends(s)
      /\ UNCHANGED <<member, tenant, lifecycle, time, spent, changed, raced, mended>> BY DEF RevokeSession
<1>3. PICK l : l = [login[o] EXCEPT !.revoked = TRUE] OBVIOUS
<1>4. login[o] \in LoginRows /\ member \in [Members -> MemberRows] /\ changed \in [Members -> Nat] BY DEF AccountInv, AccountTypes
<1>5. l \in LoginRows /\ l.pc = login[o].pc /\ l.of = login[o].of /\ l.role = login[o].role
      /\ l.issued = login[o].issued /\ l.overtaken = login[o].overtaken BY <1>3,<1>4 DEF LoginRows
<1>6. login' = [login EXCEPT ![o] = l] BY <1>1,<1>3
<1>7. LoginOK(login[o]) BY DEF AccountInv, LoginsOK
<1>8. LoginOK(l) BY <1>1,<1>5,<1>7 DEF LoginOK, AsRow
<1>9. /\ login' \in [Logins -> LoginRows] /\ LoginsOK' /\ LoginsGoOn
      /\ login'[o] = l /\ \A q \in Logins \ {o} : login'[q] = login[q] BY <1>1,<1>2,<1>5,<1>6,<1>8, LoginWritten
<1>10. request[s].kind \notin Halfway /\ request[s].kind # "none" BY <1>2 DEF Halfway
<1>11. AccountInv' /\ request'[s] = NoRequest /\ \A q \in Logins \ {s} : request'[q] = request[q] BY <1>2,<1>4,<1>9,<1>10, WritingEnds
<1>12. AccountStep
 <2>1. \A q \in Logins : login[q].revoked # login'[q].revoked => q = o BY <1>9
 <2>2. s \in Underway BY <1>10 DEF Underway
 <2>3. \A q \in Logins : ~(request[q].kind = "none" /\ request'[q].kind # "none") BY <1>10,<1>11, EndedIs
 <2> QED BY <1>1,<1>2,<2>1,<2>2,<2>3 DEF AccountStep
<1> QED BY <1>11,<1>12

LEMMA RevokeOthersKeeps == ASSUME AccountInv, NEW s \in Logins, RevokeOtherSessions(s) PROVE AccountInv' /\ AccountStep
<1>1. login' = [o \in Logins |-> IF o \in OthersOf(s) THEN [login[o] EXCEPT !.revoked = TRUE] ELSE login[o]]
      /\ request[s].kind = "others" /\ Ends(s)
      /\ UNCHANGED <<member, tenant, lifecycle, time, spent, changed, raced, mended>> BY DEF RevokeOtherSessions
<1>2. login \in [Logins -> LoginRows] /\ member \in [Members -> MemberRows] /\ changed \in [Members -> Nat] BY DEF AccountInv, AccountTypes
<1>3. ASSUME NEW o \in Logins
  PROVE  \E l \in LoginRows : /\ login'[o] = l /\ l.pc = login[o].pc /\ l.of = login[o].of /\ l.role = login[o].role
                              /\ l.issued = login[o].issued /\ l.overtaken = login[o].overtaken
                              /\ l = login[o] \/ o \in OthersOf(s)
 <2>1. login[o] \in LoginRows BY <1>2
 <2>2. CASE o \in OthersOf(s)
  <3>1. PICK l : l = [login[o] EXCEPT !.revoked = TRUE] OBVIOUS
  <3>2. l \in LoginRows /\ l.pc = login[o].pc /\ l.of = login[o].of /\ l.role = login[o].role
        /\ l.issued = login[o].issued /\ l.overtaken = login[o].overtaken BY <2>1,<3>1 DEF LoginRows
  <3>3. login'[o] = l BY <1>1,<2>2,<3>1
  <3> QED BY <2>2,<3>2,<3>3
 <2>3. CASE o \notin OthersOf(s) BY <1>1,<2>1,<2>3
 <2> QED BY <2>2,<2>3
<1>4. login' \in [Logins -> LoginRows]
 <2>1. \A o \in Logins : login'[o] \in LoginRows BY <1>3
 <2>2. PICK f : f = login' OBVIOUS
 <2>3. f = [o \in Logins |-> f[o]] BY <1>1,<2>2
 <2> QED BY <2>1,<2>2,<2>3
<1>5. LoginsOK'
 <2>1. SUFFICES ASSUME NEW o \in Logins PROVE LoginOK(login[o])' BY DEF LoginsOK
 <2>2. PICK l \in LoginRows : /\ login'[o] = l /\ l.pc = login[o].pc /\ l.of = login[o].of /\ l.role = login[o].role
                              /\ l.issued = login[o].issued /\ l.overtaken = login[o].overtaken
                              /\ l = login[o] \/ o \in OthersOf(s) BY <1>3
 <2>3. LoginOK(login[o]) BY DEF AccountInv, LoginsOK
 <2>4. l.pc # "issued" => ~l.revoked BY <2>2,<2>3 DEF LoginOK, OthersOf
 <2> QED BY <1>1,<2>2,<2>3,<2>4 DEF LoginOK, AsRow
<1>6. LoginsGoOn BY <1>3 DEF LoginsGoOn
<1>7. request[s].kind \notin Halfway /\ request[s].kind # "none" BY <1>1 DEF Halfway
<1>8. AccountInv' /\ request'[s] = NoRequest /\ \A q \in Logins \ {s} : request'[q] = request[q] BY <1>1,<1>2,<1>4,<1>5,<1>6,<1>7, WritingEnds
<1>9. AccountStep
 <2>1. \A o \in Logins : login[o].revoked # login'[o].revoked => o # s /\ login[o].of = login[s].of BY <1>3 DEF OthersOf
 <2>2. s \in Underway BY <1>7 DEF Underway
 <2>3. \A q \in Logins : ~(request[q].kind = "none" /\ request'[q].kind # "none") BY <1>7,<1>8, EndedIs
 <2>4. \A m \in Members : member'[m] = member[m] BY <1>1
 <2>5. \A o \in Logins : login[o].revoked # login'[o].revoked =>
         \E r \in Underway : login[r].of = login[o].of /\ (request[r].kind = "others" => r # o) BY <2>1,<2>2
 <2> QED BY <2>3,<2>4,<2>5 DEF AccountStep
<1> QED BY <1>8,<1>9

LEMMA AccountTickKeeps == ASSUME AccountInv, AccountTick PROVE AccountInv' /\ AccountStep
<1>1. time < MaxTime /\ time' = time + 1
      /\ UNCHANGED <<member, tenant, lifecycle, login, request, spent, changed, raced, mended>> BY DEF AccountTick
<1>2. login' \in [Logins -> LoginRows] /\ LoginsOK' /\ LoginsGoOn BY <1>1, LoginsStay
<1>3. request' \in [Logins -> RequestRows] /\ RequestsOK' BY <1>1,<1>2, RequestsGoOn
<1>4. time' \in 0..MaxTime BY <1>1, AccountAssumption DEF AccountInv, AccountTypes
<1>5. AccountTypes' BY <1>1,<1>2,<1>3,<1>4 DEF AccountInv, AccountTypes
<1>6. OneRequest' /\ LifecycleSettled' BY <1>1 DEF AccountInv, OneRequest, Underway, LifecycleSettled, Agree
<1>7. AccountStep BY <1>1 DEF AccountStep
<1> QED BY <1>2,<1>3,<1>5,<1>6,<1>7 DEF AccountInv

LEMMA AccountStepKeeps == AccountInv /\ [AccountNext]_avars => AccountInv' /\ (AccountStep \/ UNCHANGED avars)
<1>1. SUFFICES ASSUME AccountInv, [AccountNext]_avars PROVE AccountInv' /\ (AccountStep \/ UNCHANGED avars) OBVIOUS
<1>2. CASE UNCHANGED avars BY <1>1,<1>2 DEF avars, AccountInv, AccountTypes, LoginsOK, LoginOK, AsRow, RequestsOK, RequestOK, OneRequest, Underway,
  LifecycleSettled, Agree
<1>3. ASSUME NEW s \in Logins,
    \/ CloseLifecycle(s) \/ CloseTenant(s) \/ ReopenLifecycle(s) \/ ReopenTenant(s)
    \/ RequestDeletion(s) \/ CancelDeletion(s) \/ RequestDies(s)
  PROVE AccountInv' /\ AccountStep BY <1>1,<1>3, CloseLifecycleKeeps, CloseTenantKeeps, ReopenLifecycleKeeps, ReopenTenantKeeps,
    RequestDeletionKeeps, CancelDeletionKeeps, RequestDiesKeeps
<1>4. ASSUME NEW s \in Logins,
    \/ IssueTokens(s) \/ Admit(s) \/ UpdateRead(s) \/ UpdateWrite(s)
    \/ RevokeSession(s) \/ RevokeOtherSessions(s)
  PROVE AccountInv' /\ AccountStep BY <1>1,<1>4, IssueKeeps, AdmitKeeps, UpdateReadKeeps, UpdateWriteKeeps, RevokeKeeps, RevokeOthersKeeps
<1>5. CASE AccountNext BY <1>1,<1>3,<1>4,<1>5, LoginReadKeeps, AccountTickKeeps DEF AccountNext
<1> QED BY <1>1,<1>2,<1>5

LEMMA AccountSafe == AccountInv => AccountTypeOK /\ LifecycleAgrees
<1>1. SUFFICES ASSUME AccountInv PROVE AccountTypeOK /\ LifecycleAgrees OBVIOUS
<1>2. AccountTypeOK BY <1>1 DEF AccountInv, AccountTypes, AccountTypeOK, MemberRows, LifecycleRows
<1>3. LifecycleAgrees
 <2>1. SUFFICES ASSUME Underway = {}, ~raced, ~mended PROVE Agree BY DEF LifecycleAgrees, Agree
 <2>2. \A s \in Logins : request[s].kind \notin Halfway BY <2>1 DEF Underway, Halfway
 <2> QED BY <1>1,<2>1,<2>2 DEF AccountInv, LifecycleSettled
<1> QED BY <1>2,<1>3

------------------------
(* The vault: a row is locked by the transaction that will write it, what is written is under the
   writer's active key, and a rotation of everything that counts on one key has left no other key
   outside the rows it holds. *)

SecretRows == {NoSecret} \cup [kid : KeyIds, version : Nat \ {0}]
Writes == UNION {[S -> SecretRows] : S \in SUBSET Secrets}
TxRows == [op : {"none", "create", "delete", "all", "one"}, rows : SUBSET Secrets, todo : SUBSET Secrets, write : Writes, calm : BOOLEAN]

VaultTypes ==
  secret \in [Secrets -> SecretRows] /\ ring \in [Processes -> Rings] /\ tx \in [Processes -> TxRows] /\ begun \in 0..MaxChanges

\* What a transaction t of p has in hand when b transactions have begun.
RowsInHand(t) ==
  /\ DOMAIN t.write \subseteq t.rows /\ t.todo \subseteq t.rows
  /\ t.op = "none" => t.rows = {} /\ ~t.calm
VersionsCounted(t, b) ==
  /\ \A n \in t.rows : secret[n].version <= b
  /\ \A n \in DOMAIN t.write : t.write[n].version <= b + 1
UnderActive(p, t) == \A n \in DOMAIN t.write : t.write[n] = NoSecret \/ t.write[n].kid = ring[p].active
Calm(p, t) ==
  t.calm =>
    /\ \A q \in Processes : ring[q].active = ring[p].active
    /\ \A n \in Secrets \ t.rows : secret[n] = NoSecret \/ secret[n].kid = ring[p].active
    /\ \A n \in t.rows \ (t.todo \cup DOMAIN t.write) : secret[n] = NoSecret \/ secret[n].kid = ring[p].active
TxOK(p, t, b) == RowsInHand(t) /\ VersionsCounted(t, b) /\ UnderActive(p, t) /\ Calm(p, t)

TxsOK == \A p \in Processes : TxOK(p, tx[p], begun)
Disjoint == \A p, q \in Processes : p # q => tx[p].rows \cap tx[q].rows = {}
SecretsCounted == \A n \in Secrets : secret[n].version <= begun + 1
HeadHeld == headLock # "none" => headLock \in Processes /\ tx[headLock].op # "none" /\ tx[headLock].todo = {}
OldKeyGone ==
  retired # "none" =>
    /\ \A p \in Processes : ring[p].active = retired
    /\ \A n \in Secrets : secret[n] = NoSecret \/ secret[n].kid = retired
Chain ==
  /\ head \in [entries : Nat, last : Nat] /\ head.entries = head.last /\ ~alarm
  /\ verify \in [pc : {"none", "head"}, total : Nat, moved : BOOLEAN]
  /\ verify.pc = "head" /\ ~verify.moved => verify.total = head.entries

VaultInv == VaultTypes /\ TxsOK /\ Disjoint /\ SecretsCounted /\ HeadHeld /\ OldKeyGone /\ Chain

------------------------
LEMMA NoTxIs == NoTx \in TxRows /\ NoTx.op = "none" /\ NoTx.rows = {} /\ NoTx.todo = {} /\ ~NoTx.calm /\ DOMAIN NoTx.write = {}
<1>1. NoTx.write = [n \in {} |-> NoSecret] BY DEF NoTx
<1>2. [n \in {} |-> NoSecret] \in [{} -> SecretRows] BY DEF SecretRows
<1>3. NoTx.write \in Writes BY <1>1,<1>2 DEF Writes
<1>4. DOMAIN NoTx.write = {} BY <1>1
<1>5. NoTx.op = "none" /\ NoTx.rows = {} /\ NoTx.todo = {} /\ ~NoTx.calm BY DEF NoTx
<1>6. \E w : NoTx = [op |-> "none", rows |-> {}, todo |-> {}, write |-> w, calm |-> FALSE] BY DEF NoTx
<1>7. NoTx \in TxRows BY <1>3,<1>6 DEF TxRows
<1> QED BY <1>4,<1>5,<1>7

LEMMA NoTxOK == ASSUME NEW p, NEW b PROVE TxOK(p, NoTx, b) BY NoTxIs DEF TxOK, RowsInHand, VersionsCounted, UnderActive, Calm

LEMMA VaultInitHolds == VaultInit => VaultInv
<1>1. SUFFICES ASSUME VaultInit PROVE VaultInv OBVIOUS
<1>2. PICK k \in KeyIds :
        secret = [n \in Secrets |-> [kid |-> k, version |-> 1]] /\ ring = [p \in Processes |-> [keys |-> {k}, active |-> k]] /\ retired = k
          BY <1>1 DEF VaultInit
<1>3. tx = [p \in Processes |-> NoTx] /\ headLock = "none" /\ begun = 0 /\ head = [entries |-> 0, last |-> 0]
      /\ verify = [pc |-> "none", total |-> 0, moved |-> FALSE] /\ alarm = FALSE BY <1>1 DEF VaultInit
<1>4. VaultTypes
 <2>1. [kid |-> k, version |-> 1] \in SecretRows BY DEF SecretRows
 <2>2. [keys |-> {k}, active |-> k] \in Rings BY DEF Rings
 <2>3. tx \in [Processes -> TxRows] BY <1>3, NoTxIs
 <2> QED BY <1>2,<1>3,<2>1,<2>2,<2>3, VaultAssumption DEF VaultTypes
<1>5. \A p \in Processes : tx[p] = NoTx BY <1>3
<1>6. TxsOK BY <1>5, NoTxOK DEF TxsOK
<1>7. Disjoint BY <1>5, NoTxIs DEF Disjoint
<1>8. SecretsCounted BY <1>2,<1>3 DEF SecretsCounted
<1>9. HeadHeld BY <1>3 DEF HeadHeld
<1>10. OldKeyGone BY <1>2 DEF OldKeyGone
<1>11. Chain BY <1>3 DEF Chain
<1> QED BY <1>4,<1>6,<1>7,<1>8,<1>9,<1>10,<1>11 DEF VaultInv

\* A step of one transaction that commits nothing.
LEMMA TxStep ==
  ASSUME VaultInv, NEW p \in Processes, NEW t \in TxRows, tx' = [tx EXCEPT ![p] = t], begun' \in 0..MaxChanges, begun' >= begun, TxOK(p, t, begun'),
      \A q \in Processes \ {p} : t.rows \cap tx[q].rows = {},
      UNCHANGED <<secret, ring, head, verify, alarm, retired>>,
      \/ headLock' = headLock /\ (headLock = p => t.op # "none" /\ t.todo = {})
      \/ headLock' = "none"
      \/ headLock' = p /\ t.op # "none" /\ t.todo = {}
  PROVE VaultInv'
<1>1. tx \in [Processes -> TxRows] /\ begun \in Nat BY VaultAssumption DEF VaultInv, VaultTypes
<1>2. tx'[p] = t /\ \A q \in Processes \ {p} : tx'[q] = tx[q] BY <1>1
<1>3. VaultTypes'
 <2>1. tx' \in [Processes -> TxRows] BY <1>1
 <2> QED BY <2>1 DEF VaultInv, VaultTypes
<1>4. TxsOK'
 <2>1. SUFFICES ASSUME NEW q \in Processes PROVE TxOK(q, tx[q], begun)' BY DEF TxsOK
 <2>2. PICK c, b : c = tx'[q] /\ b = begun' OBVIOUS
 <2>3. TxOK(q, c, b)
  <3>1. CASE q = p BY <1>2,<2>2,<3>1
  <3>2. CASE q # p
   <4>1. c = tx[q] /\ TxOK(q, c, begun) BY <1>2,<2>2,<3>2 DEF VaultInv, TxsOK
   <4>2. c \in TxRows /\ secret \in [Secrets -> SecretRows] BY <1>1,<4>1 DEF VaultInv, VaultTypes
   <4>3. \A n \in Secrets : secret[n].version \in Nat BY <4>2 DEF SecretRows, NoSecret
   <4>4. c.rows \subseteq Secrets /\ c.write \in Writes BY <4>2 DEF TxRows
   <4>5. \A n \in DOMAIN c.write : c.write[n] \in SecretRows BY <4>4 DEF Writes
   <4>6. \A n \in DOMAIN c.write : c.write[n].version \in Nat BY <4>5 DEF SecretRows, NoSecret
   <4>7. b \in Nat /\ b >= begun BY <2>2, VaultAssumption
   <4>8. VersionsCounted(c, b)
    <5>1. \A n \in c.rows : secret[n].version <= b BY <1>1,<4>1,<4>3,<4>4,<4>7 DEF TxOK, VersionsCounted
    <5>2. \A n \in DOMAIN c.write : c.write[n].version <= b + 1 BY <1>1,<4>1,<4>6,<4>7 DEF TxOK, VersionsCounted
    <5> QED BY <5>1,<5>2 DEF VersionsCounted
   <4> QED BY <4>1,<4>8 DEF TxOK
  <3> QED BY <3>1,<3>2
 <2> QED BY <2>2,<2>3 DEF TxOK, RowsInHand, VersionsCounted, UnderActive, Calm
<1>5. Disjoint' BY <1>2 DEF VaultInv, Disjoint
<1>6. SecretsCounted'
 <2>1. SUFFICES ASSUME NEW n \in Secrets PROVE secret[n].version <= begun' + 1 BY DEF SecretsCounted
 <2>2. secret[n].version <= begun + 1 BY DEF VaultInv, SecretsCounted
 <2>3. secret[n] \in SecretRows BY DEF VaultInv, VaultTypes
 <2>4. secret[n].version \in Nat BY <2>3 DEF SecretRows, NoSecret
 <2>5. begun' \in Nat BY VaultAssumption
 <2> QED BY <1>1,<2>2,<2>4,<2>5
<1>7. HeadHeld'
 <2>1. HeadHeld BY DEF VaultInv
 <2> QED BY <1>2,<2>1, VaultAssumption DEF HeadHeld
<1>8. OldKeyGone' /\ Chain' BY DEF VaultInv, OldKeyGone, Chain
<1> QED BY <1>3,<1>4,<1>5,<1>6,<1>7,<1>8 DEF VaultInv

\* A transaction begins.
LEMMA BeginKeeps ==
  ASSUME VaultInv, NEW p \in Processes, NEW t \in TxRows, Begin(p, t), TxOK(p, t, begun + 1), \A q \in Processes \ {p} : t.rows \cap tx[q].rows = {}
  PROVE VaultInv'
<1>1. tx' = [tx EXCEPT ![p] = t] /\ tx[p].op = "none" /\ begun < MaxChanges /\ begun' = begun + 1
      /\ UNCHANGED <<secret, ring, head, headLock, verify, alarm, deploys, retired>> BY DEF Begin
<1>2. begun' \in 0..MaxChanges /\ begun' >= begun BY <1>1, VaultAssumption DEF VaultInv, VaultTypes
<1>3. headLock # p BY <1>1, VaultAssumption DEF VaultInv, HeadHeld
<1>4. TxOK(p, t, begun') BY <1>1
<1> QED BY <1>1,<1>2,<1>3,<1>4, TxStep

\* The counts of the rows a transaction takes.
LEMMA VersionBelow == ASSUME VaultInv, NEW n \in Secrets PROVE secret[n].version <= begun + 1 BY DEF VaultInv, SecretsCounted

LEMMA CreateSecretKeeps == ASSUME VaultInv, NEW p \in Processes, CreateSecret(p) PROVE VaultInv'
<1>1. PICK n \in Secrets \ Present :
        /\ ~Locked(n)
        /\ Begin(p, [NoTx EXCEPT !.op = "create", !.rows = {n},
                       !.write = [m \in {n} |-> [kid |-> ring[p].active, version |-> 1]]]) BY DEF CreateSecret
<1>2. PICK w : w = [m \in {n} |-> [kid |-> ring[p].active, version |-> 1]] OBVIOUS
<1>3. PICK written : written = [kid |-> ring[p].active, version |-> 1] OBVIOUS
<1>4. ring[p].active \in KeyIds BY DEF VaultInv, VaultTypes, Rings
<1>5. written \in SecretRows /\ written.kid = ring[p].active /\ written.version = 1 BY <1>3,<1>4 DEF SecretRows
<1>6. DOMAIN w = {n} /\ w[n] = written /\ w \in [{n} -> SecretRows] BY <1>2,<1>3,<1>5
<1>7. {n} \in SUBSET Secrets OBVIOUS
<1>8. w \in Writes BY <1>6,<1>7 DEF Writes
<1>9. PICK t : t = [NoTx EXCEPT !.op = "create", !.rows = {n}, !.write = w] OBVIOUS
<1>10. t.op = "create" /\ t.rows = {n} /\ t.todo = {} /\ t.write = w /\ ~t.calm /\ t \in TxRows BY <1>7,<1>8,<1>9, NoTxIs DEF TxRows
<1>11. Begin(p, t) BY <1>1,<1>2,<1>9
<1>12. TxOK(p, t, begun + 1)
 <2>1. RowsInHand(t) BY <1>6,<1>10 DEF RowsInHand
 <2>2. VersionsCounted(t, begun + 1)
  <3>1. begun \in Nat BY VaultAssumption DEF VaultInv, VaultTypes
  <3> QED BY <1>5,<1>6,<1>10,<3>1, VersionBelow DEF VersionsCounted
 <2>3. UnderActive(p, t) BY <1>5,<1>6,<1>10 DEF UnderActive
 <2>4. Calm(p, t) BY <1>10 DEF Calm
 <2> QED BY <2>1,<2>2,<2>3,<2>4 DEF TxOK
<1>13. \A q \in Processes \ {p} : t.rows \cap tx[q].rows = {} BY <1>1,<1>10 DEF Locked
<1> QED BY <1>10,<1>11,<1>12,<1>13, BeginKeeps

LEMMA DeleteSecretKeeps == ASSUME VaultInv, NEW p \in Processes, DeleteSecret(p) PROVE VaultInv'
<1>1. PICK n \in Present :
        ~Locked(n) /\ Begin(p, [NoTx EXCEPT !.op = "delete", !.rows = {n}, !.write = [m \in {n} |-> NoSecret]]) BY DEF DeleteSecret
<1>2. PICK w : w = [m \in {n} |-> NoSecret] OBVIOUS
<1>3. DOMAIN w = {n} /\ w[n] = NoSecret /\ w \in [{n} -> SecretRows] BY <1>2 DEF SecretRows
<1>4. {n} \in SUBSET Secrets BY DEF Present
<1>5. w \in Writes BY <1>3,<1>4 DEF Writes
<1>6. PICK t : t = [NoTx EXCEPT !.op = "delete", !.rows = {n}, !.write = w] OBVIOUS
<1>7. t.op = "delete" /\ t.rows = {n} /\ t.todo = {} /\ t.write = w /\ ~t.calm /\ t \in TxRows BY <1>4,<1>5,<1>6, NoTxIs DEF TxRows
<1>8. Begin(p, t) BY <1>1,<1>2,<1>6
<1>9. TxOK(p, t, begun + 1)
 <2>1. RowsInHand(t) BY <1>3,<1>7 DEF RowsInHand
 <2>2. VersionsCounted(t, begun + 1)
  <3>1. begun \in Nat /\ NoSecret.version = 0 BY VaultAssumption DEF VaultInv, VaultTypes, NoSecret
  <3> QED BY <1>3,<1>4,<1>7,<3>1, VersionBelow DEF VersionsCounted
 <2>3. UnderActive(p, t) BY <1>3,<1>7 DEF UnderActive
 <2>4. Calm(p, t) BY <1>7 DEF Calm
 <2> QED BY <2>1,<2>2,<2>3,<2>4 DEF TxOK
<1>10. \A q \in Processes \ {p} : t.rows \cap tx[q].rows = {} BY <1>1,<1>7 DEF Locked
<1> QED BY <1>7,<1>8,<1>9,<1>10, BeginKeeps

LEMMA RotateAllKeeps == ASSUME VaultInv, NEW p \in Processes, RotateAll(p) PROVE VaultInv'
<1>2. PICK t : t = [NoTx EXCEPT !.op = "all", !.rows = Present, !.todo = Present, !.calm = AllActive(ring[p].active)] OBVIOUS
<1>3. Present \in SUBSET Secrets /\ AllActive(ring[p].active) \in BOOLEAN BY DEF Present, AllActive
<1>4. t.op = "all" /\ t.rows = Present /\ t.todo = Present /\ t.write = NoTx.write
      /\ (t.calm <=> AllActive(ring[p].active)) /\ t \in TxRows BY <1>2,<1>3, NoTxIs DEF TxRows
<1>5. Begin(p, t) BY <1>2 DEF RotateAll
<1>6. TxOK(p, t, begun + 1)
 <2>1. RowsInHand(t) BY <1>4, NoTxIs DEF RowsInHand
 <2>2. VersionsCounted(t, begun + 1) BY <1>3,<1>4, NoTxIs, VersionBelow DEF VersionsCounted
 <2>3. UnderActive(p, t) BY <1>4, NoTxIs DEF UnderActive
 <2>4. Calm(p, t) BY <1>4 DEF Calm, AllActive, Present
 <2> QED BY <2>1,<2>2,<2>3,<2>4 DEF TxOK
<1>7. \A q \in Processes \ {p} : t.rows \cap tx[q].rows = {} BY <1>4 DEF RotateAll, Locked
<1> QED BY <1>4,<1>5,<1>6,<1>7, BeginKeeps

LEMMA RotateOneKeeps == ASSUME VaultInv, NEW p \in Processes, RotateOne(p) PROVE VaultInv'
<1>1. PICK n \in Present : ~Locked(n) /\ Begin(p, [NoTx EXCEPT !.op = "one", !.rows = {n}, !.todo = {n}]) BY DEF RotateOne
<1>2. PICK t : t = [NoTx EXCEPT !.op = "one", !.rows = {n}, !.todo = {n}] OBVIOUS
<1>3. {n} \in SUBSET Secrets BY DEF Present
<1>4. t.op = "one" /\ t.rows = {n} /\ t.todo = {n} /\ t.write = NoTx.write /\ ~t.calm /\ t \in TxRows BY <1>2,<1>3, NoTxIs DEF TxRows
<1>5. Begin(p, t) BY <1>1,<1>2
<1>6. TxOK(p, t, begun + 1)
 <2>1. RowsInHand(t) BY <1>4, NoTxIs DEF RowsInHand
 <2>2. VersionsCounted(t, begun + 1) BY <1>3,<1>4, NoTxIs, VersionBelow DEF VersionsCounted
 <2>3. UnderActive(p, t) BY <1>4, NoTxIs DEF UnderActive
 <2>4. Calm(p, t) BY <1>4 DEF Calm
 <2> QED BY <2>1,<2>2,<2>3,<2>4 DEF TxOK
<1>7. \A q \in Processes \ {p} : t.rows \cap tx[q].rows = {} BY <1>1,<1>4 DEF Locked
<1> QED BY <1>4,<1>5,<1>6,<1>7, BeginKeeps

LEMMA TxIs ==
  ASSUME VaultInv, NEW p \in Processes
  PROVE  /\ tx[p] \in TxRows /\ TxOK(p, tx[p], begun) /\ begun \in Nat /\ begun \in 0 .. MaxChanges
         /\ \A q \in Processes \ {p} : tx[p].rows \cap tx[q].rows = {}
<1>1. tx[p] \in TxRows /\ begun \in 0..MaxChanges BY DEF VaultInv, VaultTypes
<1>2. begun \in Nat BY <1>1, VaultAssumption
<1> QED BY <1>1,<1>2 DEF VaultInv, TxsOK, Disjoint

LEMMA RotateRowKeeps == ASSUME VaultInv, NEW p \in Processes, RotateRow(p) PROVE VaultInv'
<1>1. PICK c : c = tx[p] OBVIOUS
<1>2. PICK n \in c.todo :
        /\ secret[n].kid \in ring[p].keys
        /\ tx' = [tx EXCEPT ![p].todo = @ \ {n},
                            ![p].write = IF secret[n].kid = ring[p].active THEN @
                              ELSE [m \in DOMAIN @ \cup {n} |->
                                      IF m = n THEN [kid |-> ring[p].active, version |-> secret[n].version + 1]
                                      ELSE @[m]]] BY <1>1 DEF RotateRow
<1>3. c \in TxRows /\ TxOK(p, c, begun) /\ begun \in Nat /\ \A q \in Processes \ {p} : c.rows \cap tx[q].rows = {} BY <1>1, TxIs
<1>4. c.write \in Writes /\ c.rows \in SUBSET Secrets /\ c.todo \in SUBSET Secrets /\ n \in c.rows BY <1>3 DEF TxRows, TxOK, RowsInHand
<1>5. PICK written : written = [kid |-> ring[p].active, version |-> secret[n].version + 1] OBVIOUS
<1>6. PICK w : w = (IF secret[n].kid = ring[p].active THEN c.write
                    ELSE [m \in DOMAIN c.write \cup {n} |-> IF m = n THEN written ELSE c.write[m]]) OBVIOUS
<1>7. secret[n] \in SecretRows /\ ring[p].active \in KeyIds BY <1>4 DEF VaultInv, VaultTypes, Rings
<1>8. secret[n].version \in Nat BY <1>7 DEF SecretRows, NoSecret
<1>9. written \in SecretRows /\ written.kid = ring[p].active /\ written.version = secret[n].version + 1 BY <1>5,<1>7,<1>8 DEF SecretRows
<1>10. PICK S \in SUBSET Secrets : c.write \in [S -> SecretRows] BY <1>4 DEF Writes
<1>11. DOMAIN c.write = S BY <1>10
<1>12. /\ w \in Writes /\ DOMAIN w \subseteq c.rows /\ DOMAIN c.write \subseteq DOMAIN w
       /\ secret[n].kid = ring[p].active \/ n \in DOMAIN w
       /\ \A m \in DOMAIN w : (w[m] = written /\ m = n) \/ (m \in DOMAIN c.write /\ w[m] = c.write[m])
 <2>1. DOMAIN c.write \subseteq c.rows BY <1>3 DEF TxOK, RowsInHand
 <2>2. CASE secret[n].kid = ring[p].active BY <1>4,<1>6,<2>1,<2>2
 <2>3. CASE secret[n].kid # ring[p].active
  <3>1. w = [m \in S \cup {n} |-> IF m = n THEN written ELSE c.write[m]] BY <1>6,<1>11,<2>3
  <3>2. w \in [S \cup {n} -> SecretRows] BY <1>9,<1>10,<3>1
  <3>3. S \cup {n} \in SUBSET Secrets BY <1>4,<1>10
  <3>4. w \in Writes BY <3>2,<3>3 DEF Writes
  <3>5. DOMAIN w = S \cup {n} BY <3>1
  <3>6. \A m \in S \cup {n} : (w[m] = written /\ m = n) \/ (m \in S /\ w[m] = c.write[m]) BY <3>1
  <3> QED BY <1>4,<1>11,<2>1,<3>4,<3>5,<3>6
 <2> QED BY <2>2,<2>3
<1>13. PICK t : t = [c EXCEPT !.todo = @ \ {n}, !.write = w] OBVIOUS
<1>14. t \in TxRows /\ t.op = c.op /\ t.rows = c.rows /\ t.todo = c.todo \ {n} /\ t.write = w /\ t.calm = c.calm BY <1>3,<1>12,<1>13 DEF TxRows
<1>15. tx' = [tx EXCEPT ![p] = t] BY <1>1,<1>2,<1>5,<1>6,<1>13
<1>16. TxOK(p, t, begun)
 <2>1. RowsInHand(t) BY <1>3,<1>12,<1>14 DEF TxOK, RowsInHand
 <2>2. VersionsCounted(t, begun)
  <3>1. \A m \in t.rows : secret[m].version <= begun BY <1>3,<1>14 DEF TxOK, VersionsCounted
  <3>2. written.version <= begun + 1 BY <1>3,<1>4,<1>8,<1>9,<1>14,<3>1
  <3>3. \A m \in DOMAIN c.write : c.write[m].version <= begun + 1 BY <1>3 DEF TxOK, VersionsCounted
  <3>4. \A m \in DOMAIN w : w[m].version <= begun + 1 BY <1>12,<3>2,<3>3
  <3> QED BY <1>14,<3>1,<3>4 DEF VersionsCounted
 <2>3. UnderActive(p, t) BY <1>3,<1>9,<1>12,<1>14 DEF TxOK, UnderActive
 <2>4. Calm(p, t) BY <1>3,<1>12,<1>14 DEF TxOK, Calm
 <2> QED BY <2>1,<2>2,<2>3,<2>4 DEF TxOK
<1>17. UNCHANGED <<secret, ring, head, headLock, verify, alarm, deploys, begun, retired>> BY DEF RotateRow
<1>18. headLock # p BY <1>1, VaultAssumption DEF VaultInv, HeadHeld
<1>19. begun' \in 0..MaxChanges /\ begun' >= begun /\ TxOK(p, t, begun') BY <1>3,<1>16,<1>17, TxIs
<1>20. \A q \in Processes \ {p} : t.rows \cap tx[q].rows = {} BY <1>3,<1>14
<1> QED BY <1>14,<1>15,<1>17,<1>18,<1>19,<1>20, TxStep

LEMMA AuditEntryKeeps == ASSUME VaultInv, NEW p \in Processes, AuditEntry(p) PROVE VaultInv'
<1>1. tx[p].op # "none" /\ tx[p].todo = {} /\ headLock' = p
      /\ UNCHANGED <<secret, ring, tx, head, verify, alarm, deploys, begun, retired>> BY DEF AuditEntry
<1>2. tx' = [tx EXCEPT ![p] = tx[p]] BY <1>1 DEF VaultInv, VaultTypes
<1>3. begun' \in 0..MaxChanges /\ begun' >= begun /\ TxOK(p, tx[p], begun') BY <1>1, TxIs
<1> QED BY <1>1,<1>2,<1>3, TxIs, TxStep

LEMMA RollbackKeeps == ASSUME VaultInv, NEW p \in Processes, Rollback(p) PROVE VaultInv'
<1>1. tx' = [tx EXCEPT ![p] = NoTx] /\ headLock' = (IF headLock = p THEN "none" ELSE headLock)
      /\ UNCHANGED <<secret, ring, head, verify, alarm, deploys, begun, retired>> BY DEF Rollback
<1>2. begun' \in 0..MaxChanges /\ begun' >= begun /\ TxOK(p, NoTx, begun') BY <1>1, TxIs, NoTxOK
<1>3. \/ headLock' = headLock /\ headLock # p
      \/ headLock' = "none" BY <1>1
<1> QED BY <1>1,<1>2,<1>3, NoTxIs, TxStep

\* What a commit writes.
LEMMA CommitKeeps == ASSUME VaultInv, NEW p \in Processes, Commit(p) PROVE VaultInv'
<1>1. PICK c : c = tx[p] OBVIOUS
<1>2. PICK k : k = ring[p].active OBVIOUS
<1>3. /\ headLock = p /\ headLock' = "none"
      /\ secret' = [n \in Secrets |-> IF n \in DOMAIN c.write THEN c.write[n] ELSE secret[n]]
      /\ head' = [entries |-> head.entries + 1, last |-> head.last + 1]
      /\ verify' = [verify EXCEPT !.moved = @ \/ verify.pc = "head"]
      /\ retired' = (IF c.op = "all" /\ c.calm THEN k ELSE retired)
      /\ tx' = [tx EXCEPT ![p] = NoTx]
      /\ UNCHANGED <<ring, alarm, deploys, begun>> BY <1>1,<1>2 DEF Commit
<1>4. /\ c \in TxRows /\ TxOK(p, c, begun) /\ begun \in Nat /\ tx \in [Processes -> TxRows]
      /\ \A q \in Processes \ {p} : c.rows \cap tx[q].rows = {} BY <1>1, TxIs DEF VaultInv, VaultTypes
<1>5. tx'[p] = NoTx /\ \A q \in Processes \ {p} : tx'[q] = tx[q] BY <1>3,<1>4
<1>6. c.todo = {} BY <1>1,<1>3, VaultAssumption DEF VaultInv, HeadHeld
<1>7. c.write \in Writes /\ DOMAIN c.write \subseteq c.rows /\ c.rows \subseteq Secrets BY <1>4 DEF TxRows, TxOK, RowsInHand
<1>8. \A n \in DOMAIN c.write : c.write[n] \in SecretRows BY <1>7 DEF Writes
<1>9. secret \in [Secrets -> SecretRows] BY DEF VaultInv, VaultTypes
<1>10. secret' \in [Secrets -> SecretRows] BY <1>3,<1>8,<1>9
<1>11. \A n \in Secrets : \/ n \in DOMAIN c.write /\ secret'[n] = c.write[n]
                          \/ n \notin DOMAIN c.write /\ secret'[n] = secret[n] BY <1>3
<1>12. \A n \in Secrets \ c.rows : secret'[n] = secret[n] BY <1>7,<1>11
<1>13. VaultTypes'
 <2>1. tx' \in [Processes -> TxRows] BY <1>3,<1>4, NoTxIs
 <2> QED BY <1>3,<1>10,<2>1 DEF VaultInv, VaultTypes
<1>14. ASSUME NEW j, \A q \in Processes : ring[q].active = j, NEW S \in SUBSET Secrets, \A n \in S : secret[n] = NoSecret \/ secret[n].kid = j
  PROVE \A n \in S : secret'[n] = NoSecret \/ secret'[n].kid = j BY <1>4,<1>11,<1>14 DEF TxOK, UnderActive
<1>15. TxsOK'
 <2>1. SUFFICES ASSUME NEW q \in Processes PROVE TxOK(q, tx[q], begun)' BY DEF TxsOK
 <2>2. CASE q = p
  <3>1. TxOK(q, NoTx, begun)' BY NoTxIs DEF TxOK, RowsInHand, VersionsCounted, UnderActive, Calm
  <3> QED BY <1>5,<2>2,<3>1
 <2>3. CASE q # p
  <3>1. PICK t : t = tx[q] OBVIOUS
  <3>2. tx'[q] = t /\ TxOK(q, t, begun) /\ t \in TxRows BY <1>4,<1>5,<2>3,<3>1, TxIs
  <3>3. t.rows \subseteq Secrets \ c.rows BY <1>4,<2>3,<3>1,<3>2 DEF TxRows
  <3>4. \A n \in t.rows : secret'[n] = secret[n] BY <1>12,<3>3
  <3>5. RowsInHand(t) BY <3>2 DEF TxOK
  <3>6. \A n \in t.rows : secret'[n].version <= begun BY <3>2,<3>4 DEF TxOK, VersionsCounted
  <3>7. ASSUME t.calm
    PROVE  /\ \A n \in Secrets \ t.rows : secret'[n] = NoSecret \/ secret'[n].kid = ring[q].active
           /\ \A n \in t.rows \ (t.todo \cup DOMAIN t.write) : secret'[n] = NoSecret \/ secret'[n].kid = ring[q].active
   <4>1. /\ \A r \in Processes : ring[r].active = ring[q].active
         /\ \A n \in Secrets \ t.rows : secret[n] = NoSecret \/ secret[n].kid = ring[q].active
         /\ \A n \in t.rows \ (t.todo \cup DOMAIN t.write) : secret[n] = NoSecret \/ secret[n].kid = ring[q].active BY <3>2,<3>7 DEF TxOK, Calm
   <4>2. \A n \in Secrets \ t.rows : secret'[n] = NoSecret \/ secret'[n].kid = ring[q].active BY <1>14,<4>1
   <4> QED BY <3>4,<4>1,<4>2
  <3>8. PICK r : r = ring' OBVIOUS
  <3>9. r = ring BY <1>3,<3>8
  <3>10. (RowsInHand(t) /\ VersionsCounted(t, begun) /\ UnderActive(q, t))'
    BY <1>3,<3>2,<3>5,<3>6 DEF TxOK, RowsInHand, VersionsCounted, UnderActive
  <3>11. Calm(q, t)' BY <1>3,<3>2,<3>7 DEF TxOK, Calm
  <3>12. TxOK(q, t, begun)' BY <3>10,<3>11 DEF TxOK
  <3> QED BY <3>2,<3>12
 <2> QED BY <2>2,<2>3
<1>16. Disjoint' BY <1>5, NoTxIs DEF VaultInv, Disjoint
<1>17. SecretsCounted'
 <2>1. SUFFICES ASSUME NEW n \in Secrets PROVE secret'[n].version <= begun' + 1 BY DEF SecretsCounted
 <2>2. n \in DOMAIN c.write => c.write[n].version <= begun + 1 BY <1>4 DEF TxOK, VersionsCounted
 <2>3. secret[n].version <= begun + 1 BY DEF VaultInv, SecretsCounted
 <2> QED BY <1>3,<1>11,<2>2,<2>3
<1>18. HeadHeld' BY <1>3 DEF HeadHeld
<1>19. OldKeyGone'
 <2>1. SUFFICES ASSUME retired' # "none"
   PROVE  /\ \A q \in Processes : ring[q].active = retired'
          /\ \A n \in Secrets : secret'[n] = NoSecret \/ secret'[n].kid = retired' BY <1>3 DEF OldKeyGone
 <2>2. CASE c.op = "all" /\ c.calm
  <3>1. retired' = k /\ \A q \in Processes : ring[q].active = k BY <1>2,<1>3,<1>4,<2>2 DEF TxOK, Calm
  <3>2. \A n \in Secrets \ DOMAIN c.write : secret[n] = NoSecret \/ secret[n].kid = k BY <1>2,<1>4,<1>6,<2>2 DEF TxOK, Calm
  <3>3. \A n \in DOMAIN c.write : c.write[n] = NoSecret \/ c.write[n].kid = k BY <1>2,<1>4 DEF TxOK, UnderActive
  <3> QED BY <1>11,<3>1,<3>2,<3>3
 <2>3. CASE ~(c.op = "all" /\ c.calm)
  <3>1. retired' = retired BY <1>3,<2>3
  <3>2. /\ \A q \in Processes : ring[q].active = retired
        /\ \A n \in Secrets : secret[n] = NoSecret \/ secret[n].kid = retired BY <2>1,<3>1 DEF VaultInv, OldKeyGone
  <3>3. \A n \in Secrets : secret'[n] = NoSecret \/ secret'[n].kid = retired BY <1>14,<3>2
  <3> QED BY <3>1,<3>2,<3>3
 <2> QED BY <2>2,<2>3
<1>20. Chain'
 <2>1. head \in [entries : Nat, last : Nat] /\ head.entries = head.last /\ ~alarm
       /\ verify \in [pc : {"none", "head"}, total : Nat, moved : BOOLEAN] BY DEF VaultInv, Chain
 <2>2. head' \in [entries : Nat, last : Nat] /\ head'.entries = head'.last /\ ~alarm' BY <1>3,<2>1
 <2>3. verify' \in [pc : {"none", "head"}, total : Nat, moved : BOOLEAN] BY <1>3,<2>1
 <2>4. verify'.pc = verify.pc /\ (verify.pc = "head" => verify'.moved) BY <1>3,<2>1
 <2> QED BY <2>2,<2>3,<2>4 DEF Chain
<1> QED BY <1>13,<1>15,<1>16,<1>17,<1>18,<1>19,<1>20 DEF VaultInv

LEMMA DeployKeeps == ASSUME VaultInv, NEW p \in Processes, Deploy(p) PROVE VaultInv'
<1>1. PICK r \in Rings : /\ ring' = [ring EXCEPT ![p] = r]
                         /\ tx' = [q \in Processes |-> [tx[q] EXCEPT !.calm = @ /\ r.active = ring[q].active]]
                         /\ retired' = (IF r.active = retired THEN retired ELSE "none") BY DEF Deploy
<1>2. tx[p].op = "none" /\ UNCHANGED <<secret, head, headLock, verify, alarm, begun>> BY DEF Deploy
<1>3. ring \in [Processes -> Rings] /\ tx \in [Processes -> TxRows] BY DEF VaultInv, VaultTypes
<1>4. ring'[p] = r /\ \A q \in Processes \ {p} : ring'[q] = ring[q] BY <1>1,<1>3
<1>5. ring' \in [Processes -> Rings] BY <1>1,<1>3
<1>6. ASSUME NEW q \in Processes
  PROVE  \E t \in TxRows : /\ tx'[q] = t /\ t.op = tx[q].op /\ t.rows = tx[q].rows /\ t.todo = tx[q].todo
                           /\ t.write = tx[q].write
                           /\ t.calm => tx[q].calm /\ r.active = ring[q].active
 <2>1. PICK b \in BOOLEAN : b <=> (tx[q].calm /\ r.active = ring[q].active) OBVIOUS
 <2>2. PICK d : d = (tx[q].calm /\ r.active = ring[q].active) OBVIOUS
 <2>3. tx[q] \in TxRows BY <1>3
 <2>4. tx[q].calm \in BOOLEAN BY <2>3 DEF TxRows
 <2>5. d \in BOOLEAN /\ (d => tx[q].calm /\ r.active = ring[q].active) BY <2>2,<2>4, Zenon
 <2>6. tx'[q] = [tx[q] EXCEPT !.calm = d] BY <1>1,<2>2
 <2>7. PICK t : t = [tx[q] EXCEPT !.calm = d] OBVIOUS
 <2>8. t \in TxRows /\ t.op = tx[q].op /\ t.rows = tx[q].rows /\ t.todo = tx[q].todo /\ t.write = tx[q].write
       /\ t.calm = d BY <2>3,<2>5,<2>7 DEF TxRows
 <2> QED BY <2>5,<2>6,<2>7,<2>8
<1>7. tx' \in [Processes -> TxRows]
 <2>1. \A q \in Processes : tx'[q] \in TxRows BY <1>6
 <2>2. PICK f : f = tx' OBVIOUS
 <2>3. f = [q \in Processes |-> f[q]] BY <1>1,<2>2
 <2> QED BY <2>1,<2>2,<2>3
<1>8. VaultTypes' BY <1>2,<1>5,<1>7 DEF VaultInv, VaultTypes
<1>9. TxsOK'
 <2>1. SUFFICES ASSUME NEW q \in Processes PROVE TxOK(q, tx[q], begun)' BY DEF TxsOK
 <2>2. PICK t \in TxRows : /\ tx'[q] = t /\ t.op = tx[q].op /\ t.rows = tx[q].rows /\ t.todo = tx[q].todo
                           /\ t.write = tx[q].write
                           /\ t.calm => tx[q].calm /\ r.active = ring[q].active BY <1>6
 <2>3. TxOK(q, tx[q], begun) BY TxIs
 <2>4. RowsInHand(t) BY <2>2,<2>3 DEF TxOK, RowsInHand
 <2>5. VersionsCounted(t, begun) BY <2>2,<2>3 DEF TxOK, VersionsCounted
 <2>6. q = p => t.rows = {} /\ ~t.calm /\ DOMAIN t.write = {} BY <1>2,<2>2,<2>3 DEF TxOK, RowsInHand
 <2>7. \A n \in DOMAIN t.write : t.write[n] = NoSecret \/ t.write[n].kid = ring'[q].active BY <1>4,<2>2,<2>3,<2>6 DEF TxOK, UnderActive
 <2>8. ASSUME t.calm
   PROVE  /\ \A o \in Processes : ring'[o].active = ring'[q].active
          /\ \A n \in Secrets \ t.rows : secret[n] = NoSecret \/ secret[n].kid = ring'[q].active
          /\ \A n \in t.rows \ (t.todo \cup DOMAIN t.write) : secret[n] = NoSecret \/ secret[n].kid = ring'[q].active
  <3>1. q # p /\ ring'[q] = ring[q] BY <1>4,<2>6,<2>8
  <3>2. tx[q].calm /\ r.active = ring[q].active BY <2>2,<2>8
  <3>3. Calm(q, tx[q]) BY <2>3 DEF TxOK
  <3>4. \A o \in Processes : ring'[o].active = ring[q].active BY <1>4,<3>2,<3>3 DEF Calm
  <3> QED BY <2>2,<3>1,<3>2,<3>3,<3>4 DEF Calm
 <2>9. (RowsInHand(t) /\ VersionsCounted(t, begun))' BY <1>2,<2>4,<2>5 DEF RowsInHand, VersionsCounted
 <2>10. (UnderActive(q, t) /\ Calm(q, t))' BY <1>2,<2>7,<2>8 DEF UnderActive, Calm
 <2>11. TxOK(q, t, begun)' BY <2>9,<2>10 DEF TxOK
 <2> QED BY <2>2,<2>11
<1>10. \A q \in Processes : tx'[q].rows = tx[q].rows /\ tx'[q].op = tx[q].op /\ tx'[q].todo = tx[q].todo BY <1>6
<1>11. Disjoint' BY <1>10 DEF VaultInv, Disjoint
<1>12. SecretsCounted' BY <1>2 DEF VaultInv, SecretsCounted
<1>13. HeadHeld' BY <1>2,<1>10 DEF VaultInv, HeadHeld
<1>14. OldKeyGone' BY <1>1,<1>2,<1>4 DEF VaultInv, OldKeyGone
<1>15. Chain' BY <1>2 DEF VaultInv, Chain
<1> QED BY <1>8,<1>9,<1>11,<1>12,<1>13,<1>14,<1>15 DEF VaultInv

\* The integrity check changes nothing but its own state.
LEMMA VerifyKeeps == ASSUME VaultInv, VerifyEntries \/ VerifyHead PROVE VaultInv'
<1>1. UNCHANGED <<secret, ring, tx, head, headLock, deploys, begun, retired>> BY DEF VerifyEntries, VerifyHead
<1>2. VaultTypes' /\ Disjoint' /\ SecretsCounted' /\ HeadHeld' /\ OldKeyGone'
  BY <1>1 DEF VaultInv, VaultTypes, Disjoint, SecretsCounted, HeadHeld, OldKeyGone
<1>3. TxsOK' BY <1>1 DEF VaultInv, TxsOK, TxOK, RowsInHand, VersionsCounted, UnderActive, Calm
<1>4. Chain'
 <2>1. Chain BY DEF VaultInv
 <2>2. CASE VerifyEntries BY <2>1,<2>2 DEF VerifyEntries, Chain
 <2>3. CASE VerifyHead BY <2>1,<2>3 DEF VerifyHead, Chain
 <2> QED BY <2>2,<2>3
<1> QED BY <1>2,<1>3,<1>4 DEF VaultInv

LEMMA VaultStepKeeps == VaultInv /\ [VaultNext]_vvars => VaultInv'
<1>1. SUFFICES ASSUME VaultInv, [VaultNext]_vvars PROVE VaultInv' OBVIOUS
<1>2. CASE UNCHANGED vvars
 <2>1. VaultTypes' /\ Disjoint' /\ SecretsCounted' /\ HeadHeld' /\ OldKeyGone' /\ Chain'
   BY <1>1,<1>2 DEF vvars, VaultInv, VaultTypes, Disjoint, SecretsCounted, HeadHeld, OldKeyGone, Chain
 <2>2. TxsOK' BY <1>1,<1>2 DEF vvars, VaultInv, TxsOK, TxOK, RowsInHand, VersionsCounted, UnderActive, Calm
 <2> QED BY <2>1,<2>2 DEF VaultInv
<1>3. CASE VaultNext BY <1>1,<1>3, CreateSecretKeeps, DeleteSecretKeeps, RotateAllKeeps, RotateOneKeeps, RotateRowKeeps, AuditEntryKeeps,
  CommitKeeps, RollbackKeeps, DeployKeeps, VerifyKeeps DEF VaultNext
<1> QED BY <1>1,<1>2,<1>3

LEMMA VaultSafe == VaultInv => VaultHolds
<1>1. SUFFICES ASSUME VaultInv PROVE VaultHolds OBVIOUS
<1>2. VaultTypeOK
 <2>1. ASSUME NEW n \in Secrets PROVE secret[n] \in {NoSecret} \cup [kid : KeyIds, version : 1..MaxChanges + 1]
  <3>1. secret[n] \in SecretRows /\ secret[n].version <= begun + 1 /\ begun \in 0..MaxChanges BY <1>1 DEF VaultInv, VaultTypes, SecretsCounted
  <3>2. CASE secret[n] = NoSecret BY <3>2
  <3>3. CASE secret[n] \in [kid : KeyIds, version : Nat \ {0}]
   <4>1. secret[n].version \in 1..MaxChanges + 1 BY <3>1,<3>3, VaultAssumption
   <4> QED BY <3>3,<4>1
  <3> QED BY <3>1,<3>2,<3>3 DEF SecretRows
 <2>2. secret \in [Secrets -> {NoSecret} \cup [kid : KeyIds, version : 1..MaxChanges + 1]] BY <1>1,<2>1 DEF VaultInv, VaultTypes
 <2>3. headLock \in Processes \cup {"none"} BY <1>1 DEF VaultInv, HeadHeld
 <2> QED BY <1>1,<2>2,<2>3 DEF VaultInv, VaultTypes, VaultTypeOK
<1>3. RetiredKeyIsUnused BY <1>1 DEF VaultInv, OldKeyGone, RetiredKeyIsUnused, Present
<1>4. AlarmMeansMoved BY <1>1 DEF VaultInv, Chain, AlarmMeansMoved
<1>5. OneWriterPerSecret BY <1>1 DEF VaultInv, Disjoint, OneWriterPerSecret
<1> QED BY <1>2,<1>3,<1>4,<1>5 DEF VaultHolds

------------------------
(* The workspace as it runs beside the rest: each of its parts takes its own steps and leaves the
   others alone. *)

WorkspaceInv == AccountInv /\ SignUpInv /\ VaultInv /\ AddressesInv

LEMMA WorkspaceSteps ==
  [AccessTurnNext]_accessVars =>
    /\ [AccountNext]_avars /\ [SignUpNext]_signUpVars /\ [VaultNext]_vvars /\ [AddressesNext]_ivars
<1>1. SUFFICES ASSUME [AccessTurnNext]_accessVars
  PROVE [AccountNext]_avars /\ [SignUpNext]_signUpVars /\ [VaultNext]_vvars /\ [AddressesNext]_ivars OBVIOUS
<1>2. UNCHANGED workspaceVars => UNCHANGED <<avars, signUpVars, vvars, ivars>> BY DEF workspaceVars
<1>3. UNCHANGED workspaceVars \/ WorkspaceTurn BY <1>1 DEF AccessTurnNext, accessVars
<1>4. WorkspaceTurn =>
        [AccountNext]_avars /\ [SignUpNext]_signUpVars /\ [VaultNext]_vvars /\ [AddressesNext]_ivars BY DEF WorkspaceTurn
<1> QED BY <1>2,<1>3,<1>4

\* Owners' authority, the keys of the secrets and the holders of the addresses
\* stay what WorkspaceHolds says, for any number of members, sign-ins, requests,
\* applicants, secrets, keys, processes, pools and holders (account, registration,
\* vault and address inventory services).
THEOREM WorkspaceIsKept == AccessSpec => WorkspaceHolds
<1>1. AccessInit => WorkspaceInv BY AccountInitHolds, SignUpInitHolds, VaultInitHolds, AddressesInitHolds DEF AccessInit, WorkspaceInv
<1>2. WorkspaceInv /\ [AccessTurnNext]_accessVars => WorkspaceInv'
  BY WorkspaceSteps, AccountStepKeeps, SignUpStepKeeps, VaultStepKeeps, AddressesStepKeeps DEF WorkspaceInv
<1>3. WorkspaceInv => /\ VaultHolds /\ AccountTypeOK /\ LifecycleAgrees /\ SignUpTypeOK /\ RegistrationIsWhole
                      /\ AddressesTypeOK /\ PoolsAreApart BY VaultSafe, AccountSafe, SignUpSafe, AddressesSafe DEF WorkspaceInv
<1>4. WorkspaceInv /\ [AccessTurnNext]_accessVars => AccountStep \/ UNCHANGED avars BY WorkspaceSteps, AccountStepKeeps DEF WorkspaceInv
<1>5. WorkspaceInv /\ [AccessTurnNext]_accessVars =>
        [\A s \in Logins : request[s].kind = "none" /\ request'[s].kind # "none" =>
           LET l == login[s] IN
           \/ member[l.of].active /\ member[l.of].role = l.role
           \/ time < changed[l.of] + TokenLife
           \/ l.overtaken]_avars
 <2>1. AccountStep =>
         \A s \in Logins : request[s].kind = "none" /\ request'[s].kind # "none" =>
           \/ member[login[s].of].active /\ member[login[s].of].role = login[s].role
           \/ time < changed[login[s].of] + TokenLife
           \/ login[s].overtaken BY DEF AccountStep, AsRow
 <2> QED BY <1>4,<2>1
<1>6. WorkspaceInv /\ [AccessTurnNext]_accessVars =>
        [\A m \in Members : member[m].role = "OWNER" /\ member'[m].role # "OWNER" =>
           \E s \in Underway :
             /\ request[s].target = m
             /\ login[s].role = "OWNER" \/ request[s].was # "OWNER"]_avars
 <2>1. AccountStep =>
         \A m \in Members : member[m].role = "OWNER" /\ member'[m].role # "OWNER" =>
           \E s \in Underway :
             /\ request[s].target = m
             /\ login[s].role = "OWNER" \/ request[s].was # "OWNER" BY DEF AccountStep
 <2> QED BY <1>4,<2>1
<1>7. WorkspaceInv /\ [AccessTurnNext]_accessVars =>
        [\A o \in Logins : login[o].revoked # login'[o].revoked =>
           \E s \in Underway : login[s].of = login[o].of /\ (request[s].kind = "others" => s # o)]_avars
 <2>1. AccountStep =>
         \A o \in Logins : login[o].revoked # login'[o].revoked =>
           \E s \in Underway : login[s].of = login[o].of /\ (request[s].kind = "others" => s # o) BY DEF AccountStep
 <2> QED BY <1>4,<2>1
<1>8. WorkspaceInv /\ [AccessTurnNext]_accessVars =>
        [\A a \in Inventory :
           /\ address[a].holder # "none" => address'[a].holder \in {address[a].holder, "none"}
           /\ address[a].pool # "none" => address'[a].pool = address[a].pool
           /\ (address'[a].holder # "none") <=> (address'[a].status = "ALLOCATED")]_ivars
 <2>1. WorkspaceInv /\ [AccessTurnNext]_accessVars => AddressesInv' /\ AddressStep BY WorkspaceSteps, AddressesStepKeeps DEF WorkspaceInv
 <2> QED BY <2>1 DEF AddressStep, AddressesInv, AddressesPlaced
<1> QED BY <1>1,<1>2,<1>3,<1>5,<1>6,<1>7,<1>8, PTL DEF AccessSpec, WorkspaceHolds, AccountHolds, AuthorityEnds, OwnersFallToOwners,
  RevokedByOwner, AddressesHold, GivenOnce
====
