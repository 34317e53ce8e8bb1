---- MODULE NetworkCommandProofs ----
(* Theorems about NetworkCommand, for every number of commands, sessions, workers and enforcers,
   with slow workers, crashes, timeouts, errors and explicit retries at any point; about
   RouterFleet, for every number of processes, changes of a router, plans and requests by hand; and
   about WanRouting, for every number of connections, rebalances, gateways and policies, every
   threshold, and answers of the page's requests in any order. *)
EXTENDS NetworkCommand, RouterFleet, WanRouting, Sums, FunctionTheorems, TLAPS

\* What a process with the local state k knows, given the commands S that were
\* carried out and the commands U that exist.
ActorOK(k, S, U) ==
  /\ k.todo \subseteq k.batch
  /\ k.jobs \cup k.batch \subseteq U
  /\ k.pc = "apply" => k.batch \ k.todo \subseteq S
  /\ k.pc = "executed" => k.batch \subseteq S

ActorsOK == \A a \in Actors : ActorOK(actor[a], carried, Used)

\* The inductive invariant.
IInv == TypeOK /\ ActorsOK /\ VerifiedWasCarriedOut

\* Rows are never deleted and the history only grows.
HistoryGrows == Used \subseteq Used' /\ carried \subseteq carried'

------------------------
(* Helpers. *)

\* The updates of a row keep its type; none deletes a row, and only Executed
\* makes a row EXECUTED.
LEMMA RowUpdates ==
  ASSUME NEW r \in Rows
  PROVE  /\ Claimed(r) \in Rows /\ Executed(r) \in Rows /\ Failed(r) \in Rows
         /\ Verified(r) \in Rows /\ Unverified(r) \in Rows /\ Retried(r) \in Rows
         /\ Claimed(r).status = "SENT"
         /\ Executed(r).status \in {r.status, "EXECUTED"}
         /\ Failed(r).status \in {r.status, "FAILED"}
         /\ Verified(r).status = IF r.status = "EXECUTED" THEN "VERIFIED" ELSE r.status
         /\ Unverified(r).status \in {r.status, "FAILED"}
         /\ Retried(r).status = "RETRYING" BY DEF Rows, Statuses, Executable, Claimed, Executed, Failed, Verified, Unverified, Retried

\* The control of a process keeps its knowledge.
LEMMA ControlOK ==
  ASSUME NEW k \in ActorStates, NEW S, NEW U, ActorOK(k, S, U), NEW a
  PROVE  /\ NextJob(k) \in ActorStates /\ ActorOK(NextJob(k), S, U)
         /\ \A l \in Labels \ {"apply", "executed"} :
              Enter(k, l) \in ActorStates /\ ActorOK(Enter(k, l), S, U)
         /\ Throw(a, k) \in ActorStates /\ ActorOK(Throw(a, k), S, U)
<1>1. NextJob(k) \in ActorStates /\ ActorOK(NextJob(k), S, U) BY DEF NextJob, ActorStates, ActorOK, Labels
<1>2. \A l \in Labels \ {"apply", "executed"} :
        Enter(k, l) \in ActorStates /\ ActorOK(Enter(k, l), S, U) BY DEF Enter, ActorStates, ActorOK
<1> QED BY <1>1,<1>2 DEF Throw, Labels

LEMMA LandingOK ==
  ASSUME NEW k \in ActorStates, NEW S, NEW U, ActorOK(k, S, U), NEW a PROVE Landing(a, k) \in ActorStates /\ ActorOK(Landing(a, k), S, U)
<1>1. /\ Enter(k, "failed") \in ActorStates /\ ActorOK(Enter(k, "failed"), S, U)
      /\ Enter(k, "unverify") \in ActorStates /\ ActorOK(Enter(k, "unverify"), S, U) BY ControlOK DEF Labels
<1>2. /\ NextJob(k) \in ActorStates /\ ActorOK(NextJob(k), S, U)
      /\ Throw(a, k) \in ActorStates /\ ActorOK(Throw(a, k), S, U) BY ControlOK
<1>3. Landing(a, k) \in {Enter(k, "failed"), Enter(k, "unverify"), NextJob(k), Throw(a, k)} BY DEF Landing
<1> QED BY <1>1,<1>2,<1>3

\* More history cannot make a process wrong.
LEMMA KnowledgeGrows == ASSUME NEW k, NEW S, NEW U, NEW T, NEW V, ActorOK(k, S, U), S \subseteq T, U \subseteq V PROVE ActorOK(k, T, V) BY DEF ActorOK

\* One process moves to a well-formed state, the others stay.
LEMMA GotoOK ==
  ASSUME TypeOK, ActorsOK, HistoryGrows, NEW a \in Actors, NEW k \in ActorStates, ActorOK(k, carried', Used'), Goto(a, k)
  PROVE actor' \in [Actors -> ActorStates] /\ ActorsOK'
<1>1. actor' \in [Actors -> ActorStates] BY DEF TypeOK, Goto
<1>2. ASSUME NEW b \in Actors PROVE ActorOK(actor'[b], carried', Used')
 <2>1. CASE b = a BY <2>1 DEF TypeOK, Goto
 <2>2. CASE b # a
  <3>1. actor'[b] = actor[b] /\ ActorOK(actor[b], carried, Used) BY <2>2 DEF TypeOK, Goto, ActorsOK
  <3> QED BY <3>1, KnowledgeGrows DEF HistoryGrows
 <2> QED BY <2>1,<2>2
<1> QED BY <1>1,<1>2 DEF ActorsOK

LEMMA StillOK == ASSUME TypeOK, ActorsOK, HistoryGrows, UNCHANGED actor PROVE actor' \in [Actors -> ActorStates] /\ ActorsOK'
<1>1. \A a \in Actors : ActorOK(actor[a], carried', Used') BY KnowledgeGrows DEF ActorsOK, HistoryGrows
<1> QED BY <1>1 DEF ActorsOK, TypeOK

\* A disturbance spends one unit of the budget.
LEMMA DisturbOK == ASSUME NEW kind, budget \in Nat, Disturb(kind) PROVE budget' \in Nat BY DEF Disturb

\* What a step has to show of the rows it changed.
RowsOK ==
  /\ row' \in [Commands -> Rows]
  /\ \A c \in Commands :
       /\ row[c].status # "ABSENT" => row'[c].status # "ABSENT"
       /\ row'[c].status \in {"EXECUTED", "VERIFIED"} =>
            row[c].status \in {"EXECUTED", "VERIFIED"} \/ c \in carried

\* Rows that follow RowsOK keep the history and the rule on verified commands.
LEMMA RowsKeep ==
  ASSUME TypeOK, VerifiedWasCarriedOut, RowsOK, carried \subseteq carried'
  PROVE HistoryGrows /\ VerifiedWasCarriedOut' BY DEF RowsOK, HistoryGrows, Used, VerifiedWasCarriedOut

\* Steps that leave the router alone: rows and one process change.
LEMMA QuietStep ==
  ASSUME IInv, RowsOK, UNCHANGED router, budget' \in Nat, NEW a \in Actors, NEW k \in ActorStates, Goto(a, k),
      HistoryGrows => ActorOK(k, carried', Used')
  PROVE IInv'
<1>1. HistoryGrows /\ VerifiedWasCarriedOut' BY RowsKeep DEF IInv, router
<1>2. actor' \in [Actors -> ActorStates] /\ ActorsOK' BY <1>1, GotoOK DEF IInv
<1> QED BY <1>1,<1>2 DEF IInv, TypeOK, RowsOK, router

\* ... or no process at all.
LEMMA RowOnlyStep == ASSUME IInv, RowsOK, UNCHANGED <<actor, router>>, budget' \in Nat PROVE IInv'
<1>1. HistoryGrows /\ VerifiedWasCarriedOut' BY RowsKeep DEF IInv, router
<1>2. actor' \in [Actors -> ActorStates] /\ ActorsOK' BY <1>1, StillOK DEF IInv
<1> QED BY <1>1,<1>2 DEF IInv, TypeOK, RowsOK, router

\* Rows that do not change, or change by one of the updates, follow RowsOK.
LEMMA RowsUnchanged == ASSUME TypeOK, UNCHANGED row PROVE RowsOK BY DEF TypeOK, RowsOK, VerifiedWasCarriedOut

\* The state of a process, as the invariant gives it.
LEMMA ActorState ==
  ASSUME IInv, NEW a \in Actors
  PROVE  /\ actor[a] \in ActorStates
         /\ ActorOK(actor[a], carried, Used)
         /\ HistoryGrows => ActorOK(actor[a], carried', Used')
<1>1. actor[a] \in ActorStates /\ ActorOK(actor[a], carried, Used) BY DEF IInv, TypeOK, ActorsOK
<1> QED BY <1>1, KnowledgeGrows DEF HistoryGrows

------------------------
(* Preservation, one lemma per action. *)

LEMMA InitIInv == Init => IInv
<1> SUFFICES ASSUME Init PROVE IInv OBVIOUS
<1>1. Blank \in Rows /\ Idle \in ActorStates BY DEF Blank, Rows, Statuses, Kinds, Idle, ActorStates, Labels
<1>2. TypeOK BY <1>1, BoundAssumption DEF Init, TypeOK
<1>3. ActorsOK BY DEF Init, ActorsOK, ActorOK, Idle
<1>4. VerifiedWasCarriedOut BY DEF Init, VerifiedWasCarriedOut, Blank
<1> QED BY <1>2,<1>3,<1>4 DEF IInv

LEMMA InsertOK ==
  ASSUME TypeOK, NEW ids \in SUBSET (Commands \ Used), NEW kind \in Kinds,
      NEW target, \A c \in ids : target[c] \in Sessions, Insert(ids, kind, target)
  PROVE RowsOK /\ ids \subseteq Used'
<1>1. \A c \in ids : /\ row'[c].status = "QUEUED" /\ row'[c].kind \in Kinds
                     /\ row'[c] \in Rows BY DEF Insert, Queued, TypeOK, Rows, Statuses
<1>2. \A c \in Commands \ ids : row'[c] = row[c] BY DEF Insert
<1> QED BY <1>1,<1>2 DEF RowsOK, Used, TypeOK, Insert

LEMMA TerminateIInv == ASSUME IInv, NEW s \in Sessions, Terminate(s) PROVE IInv'
<1>1. PICK c \in Commands \ Used : Insert({c}, "DISCONNECT_SESSION", [d \in {c} |-> s]) BY DEF Terminate
<1>2. RowsOK BY <1>1, InsertOK DEF IInv, Kinds
<1> QED BY <1>2, RowOnlyStep DEF Terminate, IInv, TypeOK

LEMMA RetryIInv == ASSUME IInv, NEW c \in Commands, Retry(c) PROVE IInv'
<1>1. RowsOK BY RowUpdates DEF IInv, TypeOK, Retry, Update, RowsOK
<1> QED BY <1>1, RowOnlyStep, DisturbOK DEF Retry, IInv, TypeOK

LEMMA LeaseExpiresIInv == ASSUME IInv, NEW c \in Commands, LeaseExpires(c) PROVE IInv'
<1>1. RowsOK BY DEF IInv, TypeOK, LeaseExpires, RowsOK, Rows
<1>2. budget' \in Nat BY DisturbOK DEF LeaseExpires, IInv, TypeOK
<1> QED BY <1>1,<1>2, RowOnlyStep DEF LeaseExpires

LEMMA ClaimIInv == ASSUME IInv, NEW w \in Workers, Claim(w) PROVE IInv'
<1> DEFINE k == [Idle EXCEPT !.pc = "load", !.jobs = Oldest]
<1>1. RowsOK BY RowUpdates DEF IInv, TypeOK, Claim, Update, RowsOK
<1>2. k \in ActorStates /\ Oldest \subseteq Used BY DEF Idle, ActorStates, Labels, Oldest, Claimable, Used
<1>3. HistoryGrows => ActorOK(k, carried', Used') BY <1>2 DEF ActorOK, Idle, HistoryGrows
<1> QED BY <1>1,<1>2,<1>3, QuietStep DEF Claim, Actors, IInv, TypeOK

LEMMA LoadIInv == ASSUME IInv, NEW w \in Workers, Load(w) \/ LoadFails(w) PROVE IInv'
<1>1. PICK c \in actor[w].jobs, l \in {"apply", "caught"} :
        Goto(w, [actor[w] EXCEPT !.pc = l, !.jobs = @ \ {c}, !.batch = {c}, !.todo = {c}]) BY DEF Load, LoadFails
<1> DEFINE k == [actor[w] EXCEPT !.pc = l, !.jobs = @ \ {c}, !.batch = {c}, !.todo = {c}]
<1>2. w \in Actors /\ actor[w] \in ActorStates /\ (HistoryGrows => ActorOK(actor[w], carried', Used')) BY ActorState DEF Actors
<1>3. k \in ActorStates BY <1>2 DEF ActorStates, Labels
<1>4. HistoryGrows => ActorOK(k, carried', Used') BY <1>2 DEF ActorOK, ActorStates
<1>5. RowsOK BY RowsUnchanged DEF Load, LoadFails, IInv
<1>6. budget' \in Nat /\ UNCHANGED router BY DisturbOK DEF Load, LoadFails, IInv, TypeOK
<1> QED BY <1>1,<1>2,<1>3,<1>4,<1>5,<1>6, QuietStep

LEMMA CaughtIInv == ASSUME IInv, NEW w \in Workers, Caught(w) PROVE IInv'
<1>1. RowsOK BY RowUpdates DEF IInv, TypeOK, Caught, Update, RowsOK
<1>2. w \in Actors /\ actor[w] \in ActorStates BY ActorState DEF Actors
<1>3. NextJob(actor[w]) \in ActorStates
      /\ (HistoryGrows => ActorOK(NextJob(actor[w]), carried', Used')) BY <1>2, ActorState, ControlOK
<1> QED BY <1>1,<1>2,<1>3, QuietStep DEF Caught, IInv, TypeOK

LEMMA EvaluateIInv == ASSUME IInv, NEW e \in Enforcers, Evaluate(e) PROVE IInv'
<1>1. PICK S \in SUBSET Sessions \ {{}}, ids \in SUBSET (Commands \ Used) :
        /\ \E target \in [ids -> S] : Insert(ids, "BANDWIDTH_ENFORCEMENT", target)
        /\ Goto(e, [Idle EXCEPT !.pc = "apply", !.batch = ids, !.todo = ids]) BY DEF Evaluate
<1> DEFINE k == [Idle EXCEPT !.pc = "apply", !.batch = ids, !.todo = ids]
<1>2. RowsOK /\ ids \subseteq Used'
 <2>1. PICK target \in [ids -> S] : Insert(ids, "BANDWIDTH_ENFORCEMENT", target) BY <1>1
 <2>2. \A c \in ids : target[c] \in Sessions OBVIOUS
 <2> QED BY <2>1,<2>2, InsertOK DEF IInv, Kinds
<1>3. k \in ActorStates /\ ActorOK(k, carried', Used') BY <1>2 DEF Idle, ActorStates, Labels, ActorOK
<1> QED BY <1>1,<1>2,<1>3, QuietStep DEF Evaluate, Actors, IInv, TypeOK

LEMMA ClearManagedIInv == ASSUME IInv, NEW e \in Enforcers, ClearManaged(e) PROVE IInv'
<1>1. RowsOK /\ carried \subseteq carried' BY RowsUnchanged DEF ClearManaged, IInv
<1>2. HistoryGrows /\ VerifiedWasCarriedOut' BY <1>1, RowsKeep DEF IInv
<1>3. actor' \in [Actors -> ActorStates] /\ ActorsOK' BY <1>2, StillOK DEF IInv, ClearManaged
<1> QED BY <1>1,<1>2,<1>3 DEF IInv, TypeOK, RowsOK, ClearManaged

LEMMA PruneIInv == ASSUME IInv, NEW e \in Enforcers, Prune(e) PROVE IInv'
<1>1. RowsOK /\ carried \subseteq carried' BY RowsUnchanged DEF Prune, IInv
<1>2. HistoryGrows /\ VerifiedWasCarriedOut' BY <1>1, RowsKeep DEF IInv
<1>3. e \in Actors /\ NextJob(actor[e]) \in ActorStates
      /\ ActorOK(NextJob(actor[e]), carried', Used') BY <1>2, ActorState, ControlOK DEF Actors
<1>4. actor' \in [Actors -> ActorStates] /\ ActorsOK' BY <1>2,<1>3, GotoOK DEF IInv, Prune
<1>5. policy' \in [Sessions -> Commands \cup {None}] BY DEF Prune, IInv, TypeOK
<1> QED BY <1>1,<1>2,<1>4,<1>5 DEF IInv, TypeOK, RowsOK, Prune

\* The router's side of an execution.
LEMMA CarryOutOK ==
  ASSUME TypeOK, NEW c \in Commands, CarryOut(c)
  PROVE  /\ policy' \in [Sessions -> Commands \cup {None}]
         /\ online' \in [Sessions -> BOOLEAN]
         /\ carried' = carried \cup {c} /\ carried' \in SUBSET Commands BY DEF TypeOK, CarryOut

LEMMA RouterStep ==
  ASSUME IInv, NEW c \in Commands, CarryOut(c), UNCHANGED row, budget' \in Nat, NEW a \in Actors, NEW k \in ActorStates, Goto(a, k),
      HistoryGrows => ActorOK(k, carried', Used')
  PROVE IInv'
<1>1. RowsOK /\ carried \subseteq carried' BY RowsUnchanged, CarryOutOK DEF IInv
<1>2. HistoryGrows /\ VerifiedWasCarriedOut' BY <1>1, RowsKeep DEF IInv
<1>3. actor' \in [Actors -> ActorStates] /\ ActorsOK' BY <1>2, GotoOK DEF IInv
<1> QED BY <1>1,<1>2,<1>3, CarryOutOK DEF IInv, TypeOK, RowsOK

LEMMA ApplyIInv == ASSUME IInv, NEW a \in Actors, Apply(a) PROVE IInv'
<1>1. PICK c \in Commands : ApplyOne(a, c) BY DEF Apply
<1>2. actor[a] \in ActorStates /\ (HistoryGrows => ActorOK(actor[a], carried', Used'))
      /\ ActorOK(actor[a], carried, Used) BY ActorState
<1>3. carried' = carried \cup {c} BY <1>1, CarryOutOK DEF ApplyOne, IInv
<1>4. CASE actor[a].todo = {c}
 <2> DEFINE k == Enter(actor[a], "executed")
 <2>1. Goto(a, k) BY <1>1,<1>4 DEF ApplyOne
 <2>2. k \in ActorStates BY <1>2 DEF Enter, ActorStates, Labels
 <2>3. actor[a].batch \subseteq carried' BY <1>1,<1>2,<1>3,<1>4 DEF ApplyOne, At, ActorOK
 <2>4. HistoryGrows => ActorOK(k, carried', Used') BY <1>2,<2>3 DEF ActorOK, Enter, ActorStates
 <2> QED BY <1>1,<2>1,<2>2,<2>4, RouterStep DEF ApplyOne, IInv, TypeOK
<1>5. CASE actor[a].todo # {c}
 <2> DEFINE k == [actor[a] EXCEPT !.todo = @ \ {c}]
 <2>1. Goto(a, k) BY <1>1,<1>5 DEF ApplyOne
 <2>2. k \in ActorStates BY <1>2 DEF ActorStates
 <2>3. HistoryGrows => ActorOK(k, carried', Used') BY <1>1,<1>2,<1>3 DEF ActorOK, ActorStates, ApplyOne, At
 <2> QED BY <1>1,<2>1,<2>2,<2>3, RouterStep DEF ApplyOne, IInv, TypeOK
<1> QED BY <1>4,<1>5

LEMMA ApplyTimesOutIInv == ASSUME IInv, NEW a \in Actors, ApplyTimesOut(a) PROVE IInv'
<1>1. actor[a] \in ActorStates BY ActorState
<1>2. PICK c \in actor[a].todo : CarryOut(c) BY DEF ApplyTimesOut
<1>3. c \in Commands BY <1>1 DEF ActorStates
<1>4. Landing(a, actor[a]) \in ActorStates
      /\ (HistoryGrows => ActorOK(Landing(a, actor[a]), carried', Used')) BY ActorState, LandingOK
<1> QED BY <1>2,<1>3,<1>4, RouterStep, DisturbOK DEF ApplyTimesOut, IInv, TypeOK

LEMMA MarkExecutedIInv == ASSUME IInv, NEW a \in Actors, MarkExecuted(a) PROVE IInv'
<1>1. actor[a] \in ActorStates /\ actor[a].batch \subseteq carried BY ActorState DEF MarkExecuted, At, ActorOK
<1>2. RowsOK BY <1>1, RowUpdates DEF IInv, TypeOK, MarkExecuted, Update, RowsOK
<1>3. Enter(actor[a], "verify") \in ActorStates
      /\ (HistoryGrows => ActorOK(Enter(actor[a], "verify"), carried', Used')) BY ActorState, ControlOK DEF Labels
<1> QED BY <1>2,<1>3, QuietStep DEF MarkExecuted, IInv, TypeOK

LEMMA VerifyIInv == ASSUME IInv, NEW a \in Actors, Verify(a) \/ VerifyUnreadable(a) PROVE IInv'
<1>1. PICK C \in SUBSET actor[a].batch : Goto(a, [Enter(actor[a], "mark") EXCEPT !.ok = C])
                                         \/ Goto(a, Enter(actor[a], "mark")) BY DEF Verify, VerifyUnreadable
<1> DEFINE k == Enter(actor[a], "mark")
           m == [k EXCEPT !.ok = C]
<1>2. k \in ActorStates /\ (HistoryGrows => ActorOK(k, carried', Used')) BY ActorState, ControlOK DEF Labels
<1>3. C \in SUBSET Commands BY ActorState DEF ActorStates
<1>4. m \in ActorStates /\ (HistoryGrows => ActorOK(m, carried', Used'))
 <2> HIDE DEF k
 <2> QED BY <1>2,<1>3 DEF ActorStates, ActorOK
<1>5. RowsOK BY RowsUnchanged DEF Verify, VerifyUnreadable, IInv
<1>6. budget' \in Nat /\ UNCHANGED router BY DisturbOK DEF Verify, VerifyUnreadable, IInv, TypeOK
<1> QED BY <1>1,<1>2,<1>4,<1>5,<1>6, QuietStep

\* One turn of a loop over the batch.
LEMMA TurnOK ==
  ASSUME NEW k \in ActorStates, NEW S, NEW U, ActorOK(k, S, U), k.pc \notin {"apply", "executed"}, NEW c
  PROVE LET m == [k EXCEPT !.todo = @ \ {c}] IN m \in ActorStates /\ ActorOK(m, S, U) BY DEF ActorStates, ActorOK

LEMMA MarkIInv == ASSUME IInv, NEW a \in Actors, Mark(a) PROVE IInv'
<1>1. PICK c \in actor[a].todo :
        /\ Update({c}, Verified) \/ Update({c}, Unverified)
        /\ Goto(a, IF actor[a].todo # {c} THEN [actor[a] EXCEPT !.todo = @ \ {c}]
                   ELSE IF a \in Workers THEN NextJob(actor[a])
                   ELSE Enter(actor[a], "prune")) BY DEF Mark
<1>2. RowsOK BY <1>1, RowUpdates DEF IInv, TypeOK, Update, RowsOK
<1>3. actor[a] \in ActorStates /\ (HistoryGrows => ActorOK(actor[a], carried', Used'))
      /\ actor[a].pc = "mark" BY ActorState DEF Mark, At
<1> DEFINE next == IF actor[a].todo # {c} THEN [actor[a] EXCEPT !.todo = @ \ {c}]
                   ELSE IF a \in Workers THEN NextJob(actor[a])
                   ELSE Enter(actor[a], "prune")
<1>4. next \in ActorStates /\ (HistoryGrows => ActorOK(next, carried', Used'))
 <2>1. CASE actor[a].todo # {c} BY <1>3,<2>1, TurnOK DEF ActorStates
 <2>2. CASE actor[a].todo = {c} BY <2>2, ActorState, ControlOK DEF Labels
 <2> QED BY <2>1,<2>2
<1>5. Goto(a, next) /\ budget' \in Nat /\ UNCHANGED router BY <1>1 DEF Mark, IInv, TypeOK
<1> QED BY <1>2,<1>4,<1>5, QuietStep

LEMMA UnverifyIInv == ASSUME IInv, NEW a \in Actors, Unverify(a) PROVE IInv'
<1>1. PICK c \in actor[a].todo :
        /\ Update({c}, Unverified)
        /\ Goto(a, IF actor[a].todo = {c} THEN Throw(a, actor[a])
                   ELSE [actor[a] EXCEPT !.todo = @ \ {c}]) BY DEF Unverify
<1>2. RowsOK BY <1>1, RowUpdates DEF IInv, TypeOK, Update, RowsOK
<1>3. actor[a] \in ActorStates /\ (HistoryGrows => ActorOK(actor[a], carried', Used'))
      /\ actor[a].pc = "unverify" BY ActorState DEF Unverify, At
<1> DEFINE next == IF actor[a].todo = {c} THEN Throw(a, actor[a])
                   ELSE [actor[a] EXCEPT !.todo = @ \ {c}]
<1>4. next \in ActorStates /\ (HistoryGrows => ActorOK(next, carried', Used'))
 <2>1. CASE actor[a].todo # {c} BY <1>3,<2>1, TurnOK DEF ActorStates
 <2>2. CASE actor[a].todo = {c} BY <2>2, ActorState, ControlOK
 <2> QED BY <2>1,<2>2
<1>5. Goto(a, next) /\ budget' \in Nat /\ UNCHANGED router BY <1>1 DEF Unverify, IInv, TypeOK
<1> QED BY <1>2,<1>4,<1>5, QuietStep

LEMMA MarkFailedIInv == ASSUME IInv, NEW a \in Actors, MarkFailed(a) PROVE IInv'
<1>1. RowsOK BY RowUpdates DEF IInv, TypeOK, MarkFailed, Update, RowsOK
<1>2. Throw(a, actor[a]) \in ActorStates
      /\ (HistoryGrows => ActorOK(Throw(a, actor[a]), carried', Used')) BY ActorState, ControlOK
<1> QED BY <1>1,<1>2, QuietStep DEF MarkFailed, IInv, TypeOK

LEMMA StepFailsIInv == ASSUME IInv, NEW a \in Actors, StepFails(a) PROVE IInv'
<1>1. RowsOK BY RowsUnchanged DEF StepFails, IInv
<1>2. Landing(a, actor[a]) \in ActorStates
      /\ (HistoryGrows => ActorOK(Landing(a, actor[a]), carried', Used')) BY ActorState, LandingOK
<1> QED BY <1>1,<1>2, QuietStep, DisturbOK DEF StepFails, IInv, TypeOK

LEMMA CrashIInv == ASSUME IInv, NEW a \in Actors, Crash(a) PROVE IInv'
<1>1. RowsOK BY RowsUnchanged DEF Crash, IInv
<1>2. Idle \in ActorStates /\ ActorOK(Idle, carried', Used') BY DEF Idle, ActorStates, Labels, ActorOK
<1> QED BY <1>1,<1>2, QuietStep, DisturbOK DEF Crash, IInv, TypeOK

LEMMA RoamIInv == ASSUME IInv, NEW s \in Sessions, Roam(s) PROVE IInv'
<1>1. RowsOK /\ carried \subseteq carried' BY RowsUnchanged DEF Roam, IInv
<1>2. HistoryGrows /\ VerifiedWasCarriedOut' BY <1>1, RowsKeep DEF IInv
<1>3. actor' \in [Actors -> ActorStates] /\ ActorsOK' BY <1>2, StillOK DEF IInv, Roam
<1> QED BY <1>1,<1>2,<1>3, DisturbOK DEF IInv, TypeOK, RowsOK, Roam

LEMMA NextIInv == ASSUME IInv, [Next]_vars PROVE IInv'
<1>1. CASE UNCHANGED vars BY <1>1 DEF vars, router, IInv, TypeOK, ActorsOK, ActorOK, VerifiedWasCarriedOut, Used
<1>2. ASSUME NEW a \in Actors, Step(a) PROVE IInv' BY <1>2, ApplyIInv, MarkExecutedIInv, VerifyIInv, MarkIInv, UnverifyIInv, MarkFailedIInv DEF Step
<1>3. ASSUME NEW a \in Actors, Failure(a) PROVE IInv' BY <1>3, ApplyTimesOutIInv, VerifyIInv, StepFailsIInv, CrashIInv DEF Failure
<1>4. ASSUME NEW w \in Workers, WorkerStep(w) \/ LoadFails(w) PROVE IInv' BY <1>2,<1>4, ClaimIInv, LoadIInv, CaughtIInv DEF WorkerStep, Actors
<1>5. ASSUME NEW e \in Enforcers, Evaluate(e) \/ ClearManaged(e) \/ Prune(e) \/ Step(e) PROVE IInv'
  BY <1>2,<1>5, EvaluateIInv, ClearManagedIInv, PruneIInv DEF Actors
<1>6. ASSUME NEW c \in Commands, Retry(c) \/ LeaseExpires(c) PROVE IInv' BY <1>6, RetryIInv, LeaseExpiresIInv
<1>7. ASSUME NEW s \in Sessions, Terminate(s) \/ Roam(s) PROVE IInv' BY <1>7, TerminateIInv, RoamIInv
<1> QED BY <1>1,<1>3,<1>4,<1>5,<1>6,<1>7 DEF Next

------------------------
\* The inductive invariant holds in every reachable state.
THEOREM Invariance == Spec => []IInv
<1>1. Init => IInv BY InitIInv
<1>2. IInv /\ [Next]_vars => IInv' BY NextIInv
<1> QED BY <1>1,<1>2, PTL DEF Spec

\* Every row, process and queue stays within its type.
THEOREM TypeCorrect == Spec => []TypeOK
<1>1. IInv => TypeOK BY DEF IInv
<1> QED BY <1>1, Invariance, PTL

\* No row is EXECUTED or VERIFIED unless the router carried the command out
\* (executeVerifiedBandwidthCommands, executePersistedDisconnectCommand).
THEOREM VerifiedIsCarriedOut == Spec => []VerifiedWasCarriedOut
<1>1. IInv => VerifiedWasCarriedOut BY DEF IInv
<1> QED BY <1>1, Invariance, PTL

------------------------
(* The fabric implements CommandLifecycle. *)

LEMMA PhaseValues ==
  /\ PhaseOf("ABSENT") = "none"
  /\ \A x \in Executable : PhaseOf(x) = "submitted"
  /\ PhaseOf("EXECUTED") = "acknowledged"
  /\ PhaseOf("VERIFIED") = "verified"
  /\ PhaseOf("FAILED") = "failed"
  /\ PhaseOf("QUEUED") = "submitted" /\ PhaseOf("SENT") = "submitted"
  /\ PhaseOf("RETRYING") = "submitted" BY DEF PhaseOf, Executable

\* A step that moves the commands of C from one phase to another, and no other.
LEMMA ShiftOK ==
  ASSUME NEW C \in SUBSET Commands, NEW from, NEW to, \A c \in C : PhaseOf(row[c].status) = from /\ PhaseOf(row'[c].status) = to,
      \A c \in Commands \ C : PhaseOf(row'[c].status) = PhaseOf(row[c].status), UNCHANGED carried
  PROVE Lifecycle!Shift(C, from, to) BY DEF Lifecycle!Shift, phase

\* A step that moves no command.
LEMMA StutterOK == ASSUME UNCHANGED <<row, carried>> PROVE UNCHANGED Lifecycle!vars BY DEF Lifecycle!vars, phase

LEMMA InsertShifts ==
  ASSUME TypeOK, NEW ids \in SUBSET (Commands \ Used), NEW kind, NEW target, Insert(ids, kind, target), UNCHANGED carried PROVE Lifecycle!Submit
<1>1. \A c \in ids : row[c].status = "ABSENT" /\ row'[c].status = "QUEUED" BY DEF Insert, Queued, Used, TypeOK, Rows
<1>2. \A c \in Commands \ ids : row'[c] = row[c] BY DEF Insert
<1>3. Lifecycle!Shift(ids, "none", "submitted") BY <1>1,<1>2, ShiftOK, PhaseValues
<1> QED BY <1>3 DEF Lifecycle!Submit

LEMMA FailedShifts == ASSUME TypeOK, NEW C \in SUBSET Commands, Update(C, Failed), UNCHANGED carried PROVE Lifecycle!Fail
<1> DEFINE D == {c \in C : row[c].status \in Executable}
<1>1. \A c \in D : row'[c].status = "FAILED" BY DEF Update, Failed, TypeOK, Rows
<1>2. \A c \in Commands \ D : row'[c] = row[c] BY DEF Update, Failed
<1>3. Lifecycle!Shift(D, "submitted", "failed") BY <1>1,<1>2, ShiftOK, PhaseValues
<1> QED BY <1>3 DEF Lifecycle!Fail

LEMMA ExecutedShifts ==
  ASSUME TypeOK, NEW C \in SUBSET Commands, C \subseteq carried, Update(C, Executed), UNCHANGED carried PROVE Lifecycle!Acknowledge
<1> DEFINE D == {c \in C : row[c].status \in Executable}
<1>1. \A c \in D : row'[c].status = "EXECUTED" BY DEF Update, Executed, TypeOK, Rows
<1>2. \A c \in Commands \ D : row'[c] = row[c] BY DEF Update, Executed
<1>3. Lifecycle!Shift(D, "submitted", "acknowledged") BY <1>1,<1>2, ShiftOK, PhaseValues
<1> QED BY <1>3 DEF Lifecycle!Acknowledge

LEMMA VerifiedShifts == ASSUME TypeOK, NEW c \in Commands, Update({c}, Verified), UNCHANGED carried PROVE Lifecycle!Verify
<1> DEFINE D == {d \in {c} : row[d].status = "EXECUTED"}
<1>1. \A d \in D : row'[d].status = "VERIFIED" BY DEF Update, Verified, TypeOK, Rows
<1>2. \A d \in Commands \ D : row'[d] = row[d] BY DEF Update, Verified
<1>3. Lifecycle!Shift(D, "acknowledged", "verified") BY <1>1,<1>2, ShiftOK, PhaseValues
<1> QED BY <1>3 DEF Lifecycle!Verify

LEMMA UnverifiedShifts == ASSUME TypeOK, NEW c \in Commands, Update({c}, Unverified), UNCHANGED carried PROVE Lifecycle!Fail
<1> DEFINE D == {d \in {c} : row[d].status = "EXECUTED"}
<1>1. \A d \in D : row'[d].status = "FAILED" BY DEF Update, Unverified, TypeOK, Rows
<1>2. \A d \in Commands \ D : row'[d] = row[d] BY DEF Update, Unverified
<1>3. Lifecycle!Shift(D, "acknowledged", "failed") BY <1>1,<1>2, ShiftOK, PhaseValues
<1> QED BY <1>3 DEF Lifecycle!Fail

LEMMA RetriedShifts == ASSUME TypeOK, NEW c \in Commands, Retry(c) PROVE Lifecycle!Reopen
<1>1. row[c].status = "FAILED" /\ row'[c].status = "RETRYING" BY DEF Retry, Update, Retried, TypeOK, Rows
<1>2. \A d \in Commands \ {c} : row'[d] = row[d] BY DEF Retry, Update
<1>3. Lifecycle!Shift({c}, "failed", "submitted") BY <1>1,<1>2, ShiftOK, PhaseValues DEF Retry, router
<1> QED BY <1>3 DEF Lifecycle!Reopen

\* A claim and the end of a lease are not visible.
LEMMA ClaimStutters == ASSUME TypeOK, NEW w \in Workers, Claim(w) PROVE UNCHANGED Lifecycle!vars
<1>1. \A c \in Commands : PhaseOf(row'[c].status) = PhaseOf(row[c].status)
  BY PhaseValues DEF Claim, Update, Claimed, Oldest, Claimable, Executable, TypeOK, Rows
<1> QED BY <1>1 DEF Lifecycle!vars, phase, Claim, router

LEMMA LeaseStutters == ASSUME TypeOK, NEW c \in Commands, LeaseExpires(c) PROVE UNCHANGED Lifecycle!vars
<1>1. \A d \in Commands : row'[d].status = row[d].status BY DEF LeaseExpires, TypeOK, Rows
<1> QED BY <1>1 DEF Lifecycle!vars, phase, LeaseExpires, router

\* The router carries out commands that exist.
LEMMA CarryOutShows == ASSUME IInv, NEW a \in Actors, NEW c \in actor[a].todo, CarryOut(c), UNCHANGED row PROVE Lifecycle!CarryOut
<1>1. c \in Commands /\ row[c].status # "ABSENT" /\ row[c].status \in Statuses BY ActorState DEF ActorOK, Used, IInv, TypeOK, Rows
<1>2. PhaseOf(row[c].status) # "none" BY <1>1 DEF PhaseOf, Statuses
<1>3. carried' = carried \cup {c} /\ UNCHANGED phase BY DEF CarryOut, phase
<1> QED BY <1>1,<1>2,<1>3 DEF Lifecycle!CarryOut, phase

LEMMA StepShows == ASSUME IInv, NEW a \in Actors, Step(a) PROVE [Lifecycle!Next]_Lifecycle!vars
<1>1. actor[a].batch \in SUBSET Commands /\ actor[a].todo \in SUBSET Commands BY ActorState DEF ActorStates
<1>2. CASE Apply(a) BY <1>2, CarryOutShows DEF Apply, ApplyOne, Lifecycle!Next
<1>3. CASE MarkExecuted(a)
 <2>1. actor[a].batch \subseteq carried BY <1>3, ActorState DEF MarkExecuted, At, ActorOK
 <2> QED BY <1>1,<1>3,<2>1, ExecutedShifts DEF MarkExecuted, router, IInv, Lifecycle!Next
<1>4. CASE Verify(a) BY <1>4, StutterOK DEF Verify, router
<1>5. CASE Mark(a)
 <2>1. PICK c \in actor[a].todo : Update({c}, Verified) \/ Update({c}, Unverified) BY <1>5 DEF Mark
 <2> QED BY <1>1,<1>5,<2>1, VerifiedShifts, UnverifiedShifts DEF Mark, router, IInv, Lifecycle!Next
<1>6. CASE Unverify(a)
 <2>1. PICK c \in actor[a].todo : Update({c}, Unverified) BY <1>6 DEF Unverify
 <2> QED BY <1>1,<1>6,<2>1, UnverifiedShifts DEF Unverify, router, IInv, Lifecycle!Next
<1>7. CASE MarkFailed(a) BY <1>1,<1>7, FailedShifts DEF MarkFailed, router, IInv, Lifecycle!Next
<1> QED BY <1>2,<1>3,<1>4,<1>5,<1>6,<1>7 DEF Step

LEMMA NextShows == ASSUME IInv, [Next]_vars PROVE [Lifecycle!Next]_Lifecycle!vars
<1> USE DEF Lifecycle!Next
<1>1. CASE UNCHANGED vars BY <1>1, StutterOK DEF vars
<1>2. ASSUME NEW a \in Actors, Failure(a) PROVE [Lifecycle!Next]_Lifecycle!vars
 <2>1. CASE ApplyTimesOut(a) BY <2>1, CarryOutShows DEF ApplyTimesOut
 <2>2. CASE VerifyUnreadable(a) \/ StepFails(a) \/ Crash(a) BY <2>2, StutterOK DEF VerifyUnreadable, StepFails, Crash, router
 <2> QED BY <1>2,<2>1,<2>2 DEF Failure
<1>3. ASSUME NEW w \in Workers, WorkerStep(w) \/ LoadFails(w) PROVE [Lifecycle!Next]_Lifecycle!vars
 <2>1. CASE Load(w) \/ LoadFails(w) BY <2>1, StutterOK DEF Load, LoadFails, router
 <2>2. CASE Caught(w)
  <3>1. actor[w].batch \in SUBSET Commands BY ActorState DEF ActorStates, Actors
  <3> QED BY <2>2,<3>1, FailedShifts DEF Caught, router, IInv
 <2> QED BY <1>3,<2>1,<2>2, ClaimStutters, StepShows DEF WorkerStep, Actors, IInv
<1>4. ASSUME NEW e \in Enforcers, Evaluate(e) \/ ClearManaged(e) \/ Prune(e) \/ Step(e) PROVE [Lifecycle!Next]_Lifecycle!vars
 <2>1. CASE Evaluate(e)
  <3>1. PICK ids \in SUBSET (Commands \ Used) :
          \E target : Insert(ids, "BANDWIDTH_ENFORCEMENT", target) BY <2>1 DEF Evaluate
  <3>2. PICK target : Insert(ids, "BANDWIDTH_ENFORCEMENT", target) BY <3>1
  <3> QED BY <2>1,<3>1,<3>2, InsertShifts DEF Evaluate, router, IInv
 <2>2. CASE ClearManaged(e) \/ Prune(e) BY <2>2, StutterOK DEF ClearManaged, Prune
 <2> QED BY <1>4,<2>1,<2>2, StepShows DEF Actors
<1>5. ASSUME NEW c \in Commands, Retry(c) \/ LeaseExpires(c) PROVE [Lifecycle!Next]_Lifecycle!vars BY <1>5, RetriedShifts, LeaseStutters DEF IInv
<1>6. ASSUME NEW s \in Sessions, Terminate(s) \/ Roam(s) PROVE [Lifecycle!Next]_Lifecycle!vars
 <2>1. CASE Terminate(s) BY <2>1, InsertShifts DEF Terminate, router, IInv
 <2>2. CASE Roam(s) BY <2>2, StutterOK DEF Roam
 <2> QED BY <1>6,<2>1,<2>2
<1> QED BY <1>1,<1>2,<1>3,<1>4,<1>5,<1>6 DEF Next

\* Submitted, acknowledged and verified are told apart, in that order, for every
\* command: the fabric implements the safety part of CommandLifecycle.
THEOREM ImplementsLifecycle == Spec => LifecycleSafety
<1>1. Init => Lifecycle!Init BY PhaseValues DEF Init, Lifecycle!Init, phase, Blank
<1>2. IInv /\ [Next]_vars => [Lifecycle!Next]_Lifecycle!vars BY NextShows
<1> QED BY <1>1,<1>2, Invariance, PTL DEF Spec, LifecycleSafety, Lifecycle!Safety

------------------------
(* The outcome of a command is final. *)

Final == \A c \in Commands :
           /\ row[c].status = "VERIFIED" => row'[c].status = "VERIFIED"
           /\ row[c].status = "FAILED" => row'[c].status \in {"FAILED", "RETRYING"}

LEMMA UpdatesFinal ==
  ASSUME TypeOK, NEW C \in SUBSET Commands,
      \/ Update(C, Executed) \/ Update(C, Failed)
      \/ Update(C, Verified) \/ Update(C, Unverified)
  PROVE Final BY DEF Final, Update, Executed, Failed, Verified, Unverified, Executable, TypeOK, Rows

LEMMA StepFinal == ASSUME IInv, NEW a \in Actors, Step(a) PROVE Final
<1>1. actor[a].batch \in SUBSET Commands /\ actor[a].todo \in SUBSET Commands BY ActorState DEF ActorStates
<1>2. CASE Apply(a) \/ Verify(a) BY <1>2 DEF Apply, ApplyOne, Verify, Final
<1>3. CASE MarkExecuted(a) \/ MarkFailed(a) BY <1>1,<1>3, UpdatesFinal DEF MarkExecuted, MarkFailed, IInv
<1>4. CASE Mark(a) \/ Unverify(a)
 <2>1. PICK c \in actor[a].todo : Update({c}, Verified) \/ Update({c}, Unverified) BY <1>4 DEF Mark, Unverify
 <2> QED BY <1>1,<2>1, UpdatesFinal DEF IInv
<1> QED BY <1>2,<1>3,<1>4 DEF Step

LEMMA NextFinal == ASSUME IInv, [Next]_vars PROVE Final
<1>1. CASE UNCHANGED vars BY <1>1 DEF vars, Final
<1>2. ASSUME NEW a \in Actors, Failure(a) PROVE Final BY <1>2 DEF Failure, ApplyTimesOut, VerifyUnreadable, StepFails, Crash, Final
<1>3. ASSUME NEW w \in Workers, WorkerStep(w) \/ LoadFails(w) PROVE Final
 <2>1. CASE Claim(w) BY <2>1 DEF Claim, Update, Oldest, Claimable, Final
 <2>2. CASE Load(w) \/ LoadFails(w) BY <2>2 DEF Load, LoadFails, Final
 <2>3. CASE Caught(w) BY <2>3, ActorState, UpdatesFinal DEF Caught, ActorStates, Actors, IInv
 <2> QED BY <1>3,<2>1,<2>2,<2>3, StepFinal DEF WorkerStep, Actors
<1>4. ASSUME NEW e \in Enforcers, Evaluate(e) \/ ClearManaged(e) \/ Prune(e) \/ Step(e) PROVE Final
 <2>1. CASE Evaluate(e)
  <3>1. PICK ids \in SUBSET (Commands \ Used) : \E target : Insert(ids, "BANDWIDTH_ENFORCEMENT", target) BY <2>1 DEF Evaluate
  <3>2. \A c \in Commands : c \notin ids => row'[c] = row[c] BY <3>1 DEF Insert
  <3>3. \A c \in ids : row[c].status = "ABSENT" BY DEF Used
  <3> QED BY <3>2,<3>3 DEF Final
 <2>2. CASE ClearManaged(e) \/ Prune(e) BY <2>2 DEF ClearManaged, Prune, Final
 <2> QED BY <1>4,<2>1,<2>2, StepFinal DEF Actors
<1>5. ASSUME NEW c \in Commands, Retry(c) \/ LeaseExpires(c) PROVE Final
 <2>1. row \in [Commands -> Rows] BY DEF IInv, TypeOK
 <2>2. CASE Retry(c)
  <3>1. row' = [d \in Commands |-> IF d \in {c} THEN Retried(row[d]) ELSE row[d]] BY <2>2 DEF Retry, Update
  <3>2. row[c].status = "FAILED" /\ Retried(row[c]).status = "RETRYING" BY <2>1,<2>2 DEF Retry, Retried, Rows
  <3> QED BY <3>1,<3>2 DEF Final
 <2>3. CASE LeaseExpires(c) BY <2>1,<2>3 DEF LeaseExpires, Rows, Final
 <2> QED BY <1>5,<2>2,<2>3
<1>6. ASSUME NEW s \in Sessions, Terminate(s) \/ Roam(s) PROVE Final BY <1>6 DEF Terminate, Roam, Insert, Used, Final
<1> QED BY <1>1,<1>2,<1>3,<1>4,<1>5,<1>6 DEF Next

\* VERIFIED is never undone and FAILED is left by an explicit retry alone,
\* whoever comes late with an outcome of its own (markFailed, markVerificationFailed).
THEOREM OutcomesAreFinal == Spec => OutcomeIsFinal
<1>1. IInv /\ [Next]_vars =>
        [\A c \in Commands :
           /\ row[c].status = "VERIFIED" => row'[c].status = "VERIFIED"
           /\ row[c].status = "FAILED" => row'[c].status \in {"FAILED", "RETRYING"}]_vars BY NextFinal DEF Final
<1> QED BY <1>1, Invariance, PTL DEF Spec, OutcomeIsFinal

------------------------
(* The rows of the routers. *)

Sealed == [key : {"none", "old", "new"}, secret : 0..MaxSecrets]
Devices == [vendor : Vendors, protocol : Protocols, catalogue : Vendors, networkSettings : BOOLEAN, credentials : Sealed]
Updates == [at : Processes \union {"idle"}, vendor : Vendor, protocol : Protocols \union {NotGiven},
            credentials : {"keep", "clear", "enter"}, readVendor : Vendor, readProtocol : Protocols \union {NotGiven}, sealed : Sealed]
Working(a) == update[a].at # "idle"

DeviceTypes ==
  /\ device \in Devices /\ ringStage \in [Processes -> OldOnly..NewOnly]
  /\ update \in [Admins -> Updates]
  /\ rotation \in [by : Processes \union {"nobody"}, sealed : Sealed]
  /\ sealedAnew \in BOOLEAN /\ lastSecret \in 0..MaxSecrets /\ crossed \in BOOLEAN /\ secrets \in 0..MaxSecrets

\* A change has read the row, and sealed what it brings with the key its process still
\* has; as long as no two crossed it is the only one, and the vendor is the one it read.
UpdateOK(a) ==
  Working(a) =>
    /\ update[a].readVendor \in Vendors /\ update[a].readProtocol \in Protocols
    /\ update[a].credentials = "enter" => update[a].sealed.key = ActiveKey(update[a].at)
    /\ ~crossed => update[a].readVendor = device.vendor /\ \A b \in Admins \ {a} : ~Working(b)

\* A rotation holds the row it read.  Once it has sealed anew no process is left with the
\* old key alone, and nothing is sealed with it any more.
KeysOK ==
  /\ rotation # NoRotation => rotation.by \in Processes /\ rotation.sealed = device.credentials
                              /\ device.credentials.key # "none"
  /\ device.credentials.key = "none" => device.credentials = NoCredentials
  /\ sealedAnew => (\A p \in Processes : ringStage[p] # OldOnly) /\ device.credentials.key # "old"
  /\ \A p \in Processes : ringStage[p] = NewOnly => sealedAnew

DeviceInv ==
  /\ DeviceTypes /\ KeysOK /\ CatalogueFitsVendor /\ LastSecretIsKept
  /\ \A a \in Admins : UpdateOK(a)

LEMMA DeviceBegins == FleetDeviceInit => DeviceInv
<1> SUFFICES ASSUME FleetDeviceInit PROVE DeviceInv OBVIOUS
<1>1. PICK v \in Vendors :
        device = [vendor |-> v, protocol |-> ResolveProtocol(v), catalogue |-> v,
                  networkSettings |-> FALSE, credentials |-> NoCredentials] BY DEF FleetDeviceInit
<1>2. NoCredentials \in Sealed BY FleetAssumption DEF NoCredentials, Sealed
<1>3. device \in Devices BY <1>1,<1>2 DEF Devices, Protocols
<1>4. NoUpdate \in Updates BY <1>2 DEF NoUpdate, Updates, Vendor
<1>5. NoRotation \in [by : Processes \union {"nobody"}, sealed : Sealed] BY <1>2 DEF NoRotation
<1>6. DeviceTypes
 <2>1. ringStage \in [Processes -> OldOnly..NewOnly] /\ update \in [Admins -> Updates] BY <1>4 DEF FleetDeviceInit, OldOnly, NewOnly
 <2>2. lastSecret \in 0..MaxSecrets /\ secrets \in 0..MaxSecrets BY FleetAssumption DEF FleetDeviceInit
 <2>3. sealedAnew \in BOOLEAN /\ crossed \in BOOLEAN BY DEF FleetDeviceInit
 <2> QED BY <1>3,<1>5,<2>1,<2>2,<2>3 DEF DeviceTypes, FleetDeviceInit
<1>7. KeysOK BY <1>1 DEF KeysOK, FleetDeviceInit, NoCredentials, OldOnly, NewOnly
<1>8. CatalogueFitsVendor /\ LastSecretIsKept BY <1>1 DEF CatalogueFitsVendor, LastSecretIsKept, FleetDeviceInit, NoCredentials
<1>9. \A a \in Admins : UpdateOK(a) BY DEF UpdateOK, Working, FleetDeviceInit, NoUpdate
<1> QED BY <1>6,<1>7,<1>8,<1>9 DEF DeviceInv

LEMMA SealIsTyped ==
  ASSUME NEW p \in Processes, NEW secret \in 0..MaxSecrets
  PROVE  /\ Seal(p, secret) \in Sealed /\ Seal(p, secret).secret = secret /\ Seal(p, secret).key = ActiveKey(p)
         /\ ActiveKey(p) \in {"old", "new"} /\ (ringStage[p] # OldOnly => ActiveKey(p) = "new") BY DEF Seal, Sealed, ActiveKey

LEMMA ReadKeepsDevice ==
  ASSUME DeviceInv, NEW a \in Admins, NEW p \in Processes, NEW v \in Vendor, NEW protocol \in Protocols \union {NotGiven},
      NEW c \in {"keep", "clear", "enter"}, ReadForUpdate(a, p, v, protocol, c)
  PROVE DeviceInv'
<1>0. DeviceTypes /\ KeysOK BY DEF DeviceInv
<1>1. UNCHANGED <<device, ringStage, rotation, sealedAnew, lastSecret>> BY DEF ReadForUpdate
<1> PICK sealed : sealed = IF c = "enter" THEN Seal(p, secrets + 1) ELSE NoCredentials OBVIOUS
<1> PICK new : new = [at |-> p, vendor |-> v, protocol |-> protocol, credentials |-> c,
                      readVendor |-> device.vendor, readProtocol |-> device.protocol, sealed |-> sealed] OBVIOUS
<1>2. update' = [update EXCEPT ![a] = new] BY DEF ReadForUpdate
<1>3. secrets' \in 0..MaxSecrets /\ (c = "enter" => secrets + 1 \in 0..MaxSecrets) BY <1>0, FleetAssumption DEF ReadForUpdate, DeviceTypes
<1>4. sealed \in Sealed /\ (c = "enter" => sealed.key = ActiveKey(p))
 <2>1. NoCredentials \in Sealed BY FleetAssumption DEF NoCredentials, Sealed
 <2> QED BY <1>3,<2>1, SealIsTyped
<1>5. new \in Updates BY <1>0,<1>4 DEF Updates, DeviceTypes, Devices, Vendor
<1>6. update'[a] = new /\ \A b \in Admins \ {a} : update'[b] = update[b] BY <1>0,<1>2 DEF DeviceTypes
<1>7. crossed' = (crossed \/ \E b \in Admins \ {a} : Working(b)) BY DEF ReadForUpdate, Working
<1>8. crossed' \in BOOLEAN BY <1>0,<1>7 DEF DeviceTypes
<1>9. DeviceTypes' BY <1>0,<1>1,<1>2,<1>3,<1>5,<1>8 DEF DeviceTypes
<1>10. KeysOK' BY <1>0,<1>1 DEF KeysOK
<1>11. CatalogueFitsVendor' /\ LastSecretIsKept' BY <1>1,<1>7 DEF DeviceInv, CatalogueFitsVendor, LastSecretIsKept
<1>12. ASSUME NEW b \in Admins PROVE UpdateOK(b)'
 <2>1. CASE b = a
  <3>1. new.at = p /\ new.readVendor = device.vendor /\ new.readProtocol = device.protocol /\ new.sealed = sealed
        /\ new.credentials = c OBVIOUS
  <3>2. device.vendor \in Vendors /\ device.protocol \in Protocols BY <1>0 DEF DeviceTypes, Devices
  <3>3. ActiveKey(p)' = ActiveKey(p) BY <1>1 DEF ActiveKey
  <3>4. ~crossed' => \A d \in Admins \ {a} : ~Working(d)' BY <1>6,<1>7 DEF Working
  <3> QED BY <1>1,<1>4,<1>6,<2>1,<3>1,<3>2,<3>3,<3>4 DEF UpdateOK, ActiveKey
 <2>2. CASE b # a
  <3>1. update'[b] = update[b] /\ UpdateOK(b) BY <1>6,<2>2 DEF DeviceInv
  <3>2. CASE Working(b)
   <4>1. crossed' BY <1>7,<2>2,<3>2
   <4> QED BY <1>1,<3>1,<3>2,<4>1 DEF UpdateOK, Working, ActiveKey
  <3>3. CASE ~Working(b) BY <3>1,<3>3 DEF UpdateOK, Working
  <3> QED BY <3>2,<3>3
 <2> QED BY <2>1,<2>2
<1> QED BY <1>9,<1>10,<1>11,<1>12 DEF DeviceInv

LEMMA WriteKeepsDevice == ASSUME DeviceInv, NEW a \in Admins, WriteUpdate(a) PROVE DeviceInv'
<1>0. DeviceTypes /\ KeysOK /\ UpdateOK(a) BY DEF DeviceInv
<1>1. UNCHANGED <<ringStage, rotation, sealedAnew, crossed, secrets>> /\ Working(a) /\ rotation = NoRotation BY DEF WriteUpdate, Working
<1> PICK u \in Updates : u = update[a] BY <1>0 DEF DeviceTypes
<1> PICK old \in Devices : old = device BY <1>0 DEF DeviceTypes
<1>2. u.readVendor \in Vendors /\ u.readProtocol \in Protocols /\ u.at \in Processes BY <1>0,<1>1 DEF UpdateOK, Working, Updates
<1> PICK vendor : vendor = IF u.vendor # NotGiven THEN u.vendor ELSE old.vendor OBVIOUS
<1> PICK catalogue : catalogue = IF u.vendor # NotGiven THEN u.vendor ELSE u.readVendor OBVIOUS
<1> PICK sealed : sealed = IF u.credentials = "clear" THEN NoCredentials
                           ELSE IF u.credentials = "enter" THEN u.sealed ELSE old.credentials OBVIOUS
<1>3. vendor \in Vendors /\ catalogue \in Vendors BY <1>2 DEF Updates, Devices, Vendor
<1>4. NextProtocol(u) \in Protocols BY <1>2 DEF NextProtocol, Updates, Vendor, Protocols
<1>5. sealed \in Sealed
 <2>1. NoCredentials \in Sealed BY FleetAssumption DEF NoCredentials, Sealed
 <2> QED BY <2>1 DEF Updates, Devices
<1> PICK new : new = [vendor |-> vendor, protocol |-> NextProtocol(u), catalogue |-> catalogue,
                      networkSettings |-> FALSE, credentials |-> sealed] OBVIOUS
<1>6. new \in Devices BY <1>3,<1>4,<1>5 DEF Devices
<1>7. device' = new BY DEF WriteUpdate
<1>8. lastSecret' = sealed.secret
 <2>1. old.credentials.secret = lastSecret BY DEF DeviceInv, LastSecretIsKept
 <2> QED BY <2>1 DEF WriteUpdate, NoCredentials
<1>9. update' = [update EXCEPT ![a] = NoUpdate] BY DEF WriteUpdate
<1>10. ~Working(a)' /\ (\A b \in Admins \ {a} : update'[b] = update[b]) /\ update' \in [Admins -> Updates]
 <2>1. NoCredentials \in Sealed BY FleetAssumption DEF NoCredentials, Sealed
 <2>2. NoUpdate \in Updates BY <2>1 DEF NoUpdate, Updates, Vendor
 <2>3. NoUpdate.at = "idle" BY DEF NoUpdate
 <2> QED BY <1>0,<1>9,<2>2,<2>3 DEF DeviceTypes, Working
<1>11. DeviceTypes'
 <2>1. lastSecret' \in 0..MaxSecrets BY <1>5,<1>8 DEF Sealed
 <2> QED BY <1>0,<1>1,<1>6,<1>7,<1>10,<2>1 DEF DeviceTypes
<1>12. KeysOK'
 <2>1. u.credentials = "enter" => u.sealed.key = ActiveKey(u.at) BY <1>0,<1>1 DEF UpdateOK
 <2>2. ActiveKey(u.at) \in {"old", "new"} BY DEF ActiveKey
 <2>3. sealedAnew => ActiveKey(u.at) = "new" BY <1>0,<1>2 DEF KeysOK, ActiveKey
 <2>4. sealed.key = "none" => sealed = NoCredentials BY <1>0,<2>1,<2>2 DEF KeysOK, NoCredentials
 <2>5. sealedAnew => sealed.key # "old" BY <1>0,<2>1,<2>3 DEF KeysOK, NoCredentials
 <2>6. new.credentials = sealed OBVIOUS
 <2>7. (sealedAnew => \A p \in Processes : ringStage[p] # OldOnly)
       /\ \A p \in Processes : ringStage[p] = NewOnly => sealedAnew BY <1>0 DEF KeysOK
 <2> QED BY <1>1,<1>7,<2>4,<2>5,<2>6,<2>7 DEF KeysOK
<1>13. LastSecretIsKept' BY <1>7,<1>8 DEF LastSecretIsKept
<1>14. CatalogueFitsVendor'
 <2>1. ~crossed => u.readVendor = old.vendor BY <1>0,<1>1 DEF UpdateOK
 <2> QED BY <1>1,<1>7,<2>1 DEF CatalogueFitsVendor
<1>15. ASSUME NEW b \in Admins PROVE UpdateOK(b)'
 <2>1. CASE b = a BY <1>10,<2>1 DEF UpdateOK
 <2>2. CASE b # a
  <3>1. update'[b] = update[b] /\ UpdateOK(b) BY <1>10,<2>2 DEF DeviceInv
  <3>2. ASSUME ~crossed PROVE ~Working(b)' BY <1>0,<1>1,<2>2,<3>1,<3>2 DEF UpdateOK, Working
  <3> QED BY <1>1,<3>1,<3>2 DEF UpdateOK, Working, ActiveKey
 <2> QED BY <2>1,<2>2
<1> QED BY <1>11,<1>12,<1>13,<1>14,<1>15 DEF DeviceInv

LEMMA RotationKeepsDevice == ASSUME DeviceInv, CommitRotation \/ \E p \in Processes : LockForRotation(p) PROVE DeviceInv'
<1>0. DeviceTypes /\ KeysOK BY DEF DeviceInv
<1>1. ASSUME NEW p \in Processes, LockForRotation(p) PROVE DeviceInv'
 <2>1. UNCHANGED <<device, ringStage, update, sealedAnew, lastSecret, crossed, secrets>>
       /\ rotation' = [by |-> p, sealed |-> device.credentials] /\ device.credentials # NoCredentials BY <1>1 DEF LockForRotation
 <2>2. DeviceTypes' BY <1>0,<2>1 DEF DeviceTypes, Devices
 <2>3. KeysOK' BY <1>0,<2>1 DEF KeysOK
 <2>4. CatalogueFitsVendor' /\ LastSecretIsKept' BY <2>1 DEF DeviceInv, CatalogueFitsVendor, LastSecretIsKept
 <2>5. \A a \in Admins : UpdateOK(a)' BY <2>1 DEF DeviceInv, UpdateOK, Working, ActiveKey
 <2> QED BY <2>2,<2>3,<2>4,<2>5 DEF DeviceInv
<1>2. CASE CommitRotation
 <2>1. UNCHANGED <<ringStage, update, lastSecret, crossed, secrets>> /\ rotation # NoRotation /\ rotation' = NoRotation
       /\ sealedAnew' = \A p \in Processes : ringStage[p] # OldOnly BY <1>2 DEF CommitRotation
 <2> PICK old \in Devices : old = device BY <1>0 DEF DeviceTypes
 <2>2. rotation.by \in Processes /\ rotation.sealed = old.credentials /\ old.credentials \in Sealed BY <1>0,<2>1 DEF KeysOK, Devices
 <2> PICK p \in Processes : p = rotation.by BY <2>2
 <2> PICK sealed : sealed = Seal(p, old.credentials.secret) OBVIOUS
 <2>3. /\ sealed \in Sealed /\ sealed.secret = old.credentials.secret /\ sealed.key \in {"old", "new"}
       /\ ringStage[p] # OldOnly => sealed.key = "new" BY <2>2, SealIsTyped DEF Sealed
 <2> PICK new : new = [old EXCEPT !.credentials = sealed] OBVIOUS
 <2>4. new \in Devices /\ new.credentials = sealed /\ new.vendor = old.vendor /\ new.catalogue = old.catalogue BY <2>3 DEF Devices
 <2>5. device' = new BY <1>2,<2>2 DEF CommitRotation, Resealed
 <2>6. sealedAnew' \in BOOLEAN BY <2>1
 <2>7. rotation' \in [by : Processes \union {"nobody"}, sealed : Sealed]
  <3>1. NoCredentials \in Sealed BY FleetAssumption DEF NoCredentials, Sealed
  <3> QED BY <2>1,<3>1 DEF NoRotation
 <2>8. DeviceTypes' BY <1>0,<2>1,<2>4,<2>5,<2>6,<2>7 DEF DeviceTypes
 <2>9. KeysOK'
  <3>1. sealedAnew' => (\A q \in Processes : ringStage[q] # OldOnly) /\ sealed.key # "old" BY <2>1,<2>3
  <3>2. \A q \in Processes : ringStage[q] = NewOnly => sealedAnew' BY <1>0,<2>1 DEF KeysOK
  <3> QED BY <2>1,<2>3,<2>4,<2>5,<3>1,<3>2 DEF KeysOK
 <2>10. CatalogueFitsVendor' /\ LastSecretIsKept' BY <2>1,<2>3,<2>4,<2>5 DEF DeviceInv, CatalogueFitsVendor, LastSecretIsKept
 <2>11. \A a \in Admins : UpdateOK(a)' BY <2>1,<2>4,<2>5 DEF DeviceInv, UpdateOK, Working, ActiveKey
 <2> QED BY <2>8,<2>9,<2>10,<2>11 DEF DeviceInv
<1> QED BY <1>1,<1>2

LEMMA RedeployKeepsDevice == ASSUME DeviceInv, NEW p \in Processes, Redeploy(p) PROVE DeviceInv'
<1>0. DeviceTypes /\ KeysOK BY DEF DeviceInv
<1>1. UNCHANGED <<device, rotation, sealedAnew, lastSecret, crossed, secrets>> BY DEF Redeploy
<1> PICK stage \in OldOnly..NewOnly : stage = ringStage[p] BY <1>0 DEF DeviceTypes
<1>2. /\ ringStage' = [ringStage EXCEPT ![p] = stage + 1] /\ stage # NewOnly /\ (stage = Both => sealedAnew)
      /\ update' = [a \in Admins |-> IF update[a].at = p THEN NoUpdate ELSE update[a]] BY DEF Redeploy
<1>3. stage + 1 \in OldOnly..NewOnly /\ stage + 1 # OldOnly /\ (stage + 1 = NewOnly => stage = Both) BY <1>2 DEF OldOnly, Both, NewOnly
<1>4. ringStage' \in [Processes -> OldOnly..NewOnly] /\ ringStage'[p] = stage + 1
      /\ \A q \in Processes \ {p} : ringStage'[q] = ringStage[q] BY <1>0,<1>2,<1>3 DEF DeviceTypes
<1>5. NoUpdate \in Updates /\ NoUpdate.at = "idle"
 <2>1. NoCredentials \in Sealed BY FleetAssumption DEF NoCredentials, Sealed
 <2> QED BY <2>1 DEF NoUpdate, Updates, Vendor
<1>6. update' \in [Admins -> Updates] BY <1>0,<1>2,<1>5 DEF DeviceTypes
<1>7. DeviceTypes' BY <1>0,<1>1,<1>4,<1>6 DEF DeviceTypes
<1>8. KeysOK'
 <2>1. sealedAnew => \A q \in Processes : ringStage'[q] # OldOnly BY <1>0,<1>3,<1>4 DEF KeysOK
 <2>2. \A q \in Processes : ringStage'[q] = NewOnly => sealedAnew BY <1>0,<1>2,<1>3,<1>4 DEF KeysOK
 <2> QED BY <1>0,<1>1,<2>1,<2>2 DEF KeysOK
<1>9. CatalogueFitsVendor' /\ LastSecretIsKept' BY <1>1 DEF DeviceInv, CatalogueFitsVendor, LastSecretIsKept
<1>10. ASSUME NEW a \in Admins, Working(a)' PROVE UpdateOK(a)'
 <2>1. update'[a] = update[a] /\ update[a].at # p /\ Working(a) BY <1>2,<1>5,<1>10 DEF Working
 <2>2. update[a].at \in Processes BY <1>0,<2>1 DEF DeviceTypes, Updates, Working
 <2>3. ActiveKey(update[a].at) = IF ringStage'[update[a].at] = OldOnly THEN "old" ELSE "new" BY <1>4,<2>1,<2>2 DEF ActiveKey
 <2>4. UpdateOK(a) BY DEF DeviceInv
 <2>5. \A b \in Admins : ~Working(b) => ~Working(b)' BY <1>2,<1>5 DEF Working
 <2> QED BY <1>1,<2>1,<2>3,<2>4,<2>5 DEF UpdateOK, ActiveKey
<1>11. \A a \in Admins : UpdateOK(a)' BY <1>10 DEF UpdateOK
<1> QED BY <1>7,<1>8,<1>9,<1>11 DEF DeviceInv

LEMMA DeviceStutters == DeviceInv /\ UNCHANGED deviceVars => DeviceInv'
<1> SUFFICES ASSUME DeviceInv, UNCHANGED <<device, ringStage, update, rotation, sealedAnew, lastSecret, crossed, secrets>>
  PROVE DeviceInv' BY DEF deviceVars
<1>1. DeviceTypes' /\ KeysOK' BY DEF DeviceInv, DeviceTypes, KeysOK
<1>2. CatalogueFitsVendor' /\ LastSecretIsKept' BY DEF DeviceInv, CatalogueFitsVendor, LastSecretIsKept
<1>3. \A a \in Admins : UpdateOK(a)' BY DEF DeviceInv, UpdateOK, Working, ActiveKey
<1> QED BY <1>1,<1>2,<1>3 DEF DeviceInv

LEMMA DeviceStep == DeviceInv /\ DeviceNext => DeviceInv'
<1> SUFFICES ASSUME DeviceInv, DeviceNext PROVE DeviceInv' OBVIOUS
<1>1. ASSUME SetNetworkSettings PROVE DeviceInv'
 <2>1. UNCHANGED <<ringStage, update, rotation, sealedAnew, lastSecret, crossed, secrets>>
       /\ device' = [device EXCEPT !.networkSettings = TRUE] BY <1>1 DEF SetNetworkSettings
 <2> PICK old \in Devices : old = device BY DEF DeviceInv, DeviceTypes
 <2> PICK new : new = [old EXCEPT !.networkSettings = TRUE] OBVIOUS
 <2>2. new \in Devices /\ new.credentials = old.credentials /\ new.vendor = old.vendor /\ new.catalogue = old.catalogue BY DEF Devices
 <2>3. DeviceTypes' BY <2>1,<2>2 DEF DeviceInv, DeviceTypes
 <2>4. KeysOK' BY <2>1,<2>2 DEF DeviceInv, KeysOK
 <2>5. CatalogueFitsVendor' /\ LastSecretIsKept' BY <2>1,<2>2 DEF DeviceInv, CatalogueFitsVendor, LastSecretIsKept
 <2>6. \A a \in Admins : UpdateOK(a)' BY <2>1,<2>2 DEF DeviceInv, UpdateOK, Working, ActiveKey
 <2> QED BY <2>3,<2>4,<2>5,<2>6 DEF DeviceInv
<1> QED BY <1>1, ReadKeepsDevice, WriteKeepsDevice, RotationKeepsDevice, RedeployKeepsDevice DEF DeviceNext

\* Whoever may still run opens the credentials.
LEMMA DeviceInvOpens == DeviceInv => CredentialsCanBeOpened
<1> SUFFICES ASSUME DeviceInv, device.credentials # NoCredentials, \A p \in Processes : ringStage[p] # OldOnly, NEW p \in Processes
  PROVE Opens(p, device.credentials) BY DEF CredentialsCanBeOpened
<1>1. device.credentials.key \in {"old", "new"} BY DEF DeviceInv, DeviceTypes, KeysOK, Devices, Sealed
<1>2. ringStage[p] \in OldOnly..NewOnly BY DEF DeviceInv, DeviceTypes
<1>3. CASE ringStage[p] = Both BY <1>1,<1>3 DEF Opens, Ring, Both, OldOnly
<1>4. CASE ringStage[p] = NewOnly
 <2>1. device.credentials.key = "new" BY <1>1,<1>4 DEF DeviceInv, KeysOK
 <2> QED BY <1>4,<2>1 DEF Opens, Ring, Both, OldOnly, NewOnly
<1> QED BY <1>2,<1>3,<1>4 DEF OldOnly, Both, NewOnly

------------------------
(* Plans put on a router by hand. *)

Speeds == 0..(1 + MaxSpeedChanges)
Final3 == {"EXECUTED", "VERIFIED", "FAILED"}
Outcomes == {"ABSENT", "EXECUTED", "VERIFIED", "FAILED"} \union StillExecutable
CommandRows == [status : Outcomes, speed : Speeds]
Hands == [at : {"idle", "queue", "apply", "executed", "verify"}, plan : Plans \union {NotGiven}, speed : Speeds, worker : BOOLEAN]

HandTypes ==
  /\ command \in [Plans -> CommandRows] /\ hand \in [HandEnforcers -> Hands]
  /\ speed \in [Plans -> Speeds] /\ applications \in [Plans -> Nat]
  /\ speedChanges \in 0..MaxSpeedChanges
  /\ \A h \in HandEnforcers : hand[h].at # "idle" => hand[h].plan \in Plans
  /\ \A p \in Plans : speed[p] <= 1 + speedChanges

AtWork(h, p) == hand[h].plan = p /\ hand[h].at \in {"apply", "executed"}

\* Unless it was disturbed, one is at work on the command of a plan at most, which is not
\* used up before the router was reached; and a plan that reached it has used its command
\* up, or is about to.
PlanOK(p) == p \notin again =>
  /\ \A h, o \in HandEnforcers : AtWork(h, p) /\ AtWork(o, p) => h = o
  /\ \A h \in HandEnforcers : AtWork(h, p) => command[p].status # "ABSENT"
  /\ \A h \in HandEnforcers : AtWork(h, p) /\ hand[h].at = "apply" => applications[p] = 0 /\ command[p].status \in StillExecutable
  /\ applications[p] <= 1
  /\ applications[p] = 1 => command[p].status \in Final3 \/ \E h \in HandEnforcers : hand[h].at = "executed" /\ hand[h].plan = p

HandInv == HandTypes /\ VerifiedIsOnTheRouter /\ \A p \in Plans : PlanOK(p)

LEMMA HandBegins == FleetHandInit => HandInv
<1> SUFFICES ASSUME FleetHandInit PROVE HandInv OBVIOUS
<1>1. NoCommand \in CommandRows /\ 1 \in Speeds BY FleetAssumption DEF NoCommand, CommandRows, Outcomes, Speeds
<1>2. NoHand \in Hands /\ NoHand.at = "idle" BY FleetAssumption DEF NoHand, Hands, Speeds
<1>3. HandTypes
 <2>1. command \in [Plans -> CommandRows] /\ hand \in [HandEnforcers -> Hands] BY <1>1,<1>2 DEF FleetHandInit
 <2>2. speed \in [Plans -> Speeds] /\ applications \in [Plans -> Nat] BY <1>1 DEF FleetHandInit
 <2>3. speedChanges \in 0..MaxSpeedChanges BY FleetAssumption DEF FleetHandInit
 <2>4. \A p \in Plans : speed[p] <= 1 + speedChanges BY DEF FleetHandInit
 <2>5. \A h \in HandEnforcers : hand[h].at = "idle" BY <1>2 DEF FleetHandInit
 <2> QED BY <2>1,<2>2,<2>3,<2>4,<2>5 DEF HandTypes
<1>4. VerifiedIsOnTheRouter BY DEF VerifiedIsOnTheRouter, FleetHandInit
<1>5. \A p \in Plans : PlanOK(p) BY <1>2 DEF PlanOK, AtWork, FleetHandInit
<1> QED BY <1>3,<1>4,<1>5 DEF HandInv

\* One that begins, goes on or ends, with what it wrote of its command: what it leaves of
\* the plan, and who else is at work on it.
LeavesPlan(h, p, new, entry, n) == p \notin again' =>
  /\ new.at \in {"apply", "executed"} => entry.status # "ABSENT" /\ \A o \in HandEnforcers \ {h} : ~AtWork(o, p)
  /\ new.at = "apply" => applications[p] + n = 0 /\ entry.status \in StillExecutable
  /\ \A o \in HandEnforcers \ {h} : AtWork(o, p) =>
       n = 0 /\ entry.status # "ABSENT" /\ (hand[o].at = "apply" => entry.status \in StillExecutable)
  /\ applications[p] + n <= 1
  /\ applications[p] + n = 1 => entry.status \in Final3 \/ new.at = "executed"
       \/ \E o \in HandEnforcers \ {h} : hand[o].at = "executed" /\ hand[o].plan = p

Moves(h, p, new, entry, n) ==
  /\ hand[h].at = "idle" \/ hand[h].plan = p
  /\ new.at # "idle" => new.plan = p
  /\ hand' = [hand EXCEPT ![h] = new] /\ command' = [command EXCEPT ![p] = entry]
  /\ applications' = [applications EXCEPT ![p] = applications[p] + n]
  /\ again' \in {again, again \union {p}} /\ UNCHANGED <<speed, speedChanges>>

\* Such a move keeps the invariant, whatever else goes on.
LEMMA HandMoves ==
  ASSUME HandInv, NEW h \in HandEnforcers, NEW p \in Plans, NEW new \in Hands, NEW entry \in CommandRows, NEW n \in {0, 1},
      Moves(h, p, new, entry, n), LeavesPlan(h, p, new, entry, n), VerifiedIsOnTheRouter'
  PROVE HandInv'
<1> USE DEF Moves, LeavesPlan
<1>0. HandTypes BY DEF HandInv
<1>1. hand'[h] = new /\ (\A o \in HandEnforcers \ {h} : hand'[o] = hand[o]) /\ hand' \in [HandEnforcers -> Hands] BY <1>0 DEF HandTypes
<1>2. command'[p] = entry /\ (\A q \in Plans \ {p} : command'[q] = command[q]) /\ command' \in [Plans -> CommandRows] BY <1>0 DEF HandTypes
<1>3. applications[p] \in Nat /\ applications[p] + n \in Nat BY <1>0 DEF HandTypes
<1>4. applications'[p] = applications[p] + n /\ (\A q \in Plans \ {p} : applications'[q] = applications[q])
      /\ applications' \in [Plans -> Nat] BY <1>0,<1>3 DEF HandTypes
<1>5. HandTypes'
 <2>1. \A o \in HandEnforcers : hand'[o].at # "idle" => hand'[o].plan \in Plans BY <1>0,<1>1 DEF HandTypes
 <2> QED BY <1>0,<1>1,<1>2,<1>4,<2>1 DEF HandTypes
<1>6. ASSUME NEW q \in Plans \ {p} PROVE PlanOK(q)'
 <2>1. PlanOK(q) /\ (q \notin again' => q \notin again) BY DEF HandInv
 <2>2. \A o \in HandEnforcers : AtWork(o, q)' <=> AtWork(o, q) BY <1>1 DEF AtWork
 <2>3. \A o \in HandEnforcers : AtWork(o, q) => hand'[o] = hand[o] BY <1>1 DEF AtWork
 <2>4. \A o \in HandEnforcers : hand[o].at = "executed" /\ hand[o].plan = q => AtWork(o, q) BY DEF AtWork
 <2> QED BY <1>2,<1>4,<2>1,<2>2,<2>3,<2>4 DEF PlanOK
<1>7. PlanOK(p)'
 <2> SUFFICES ASSUME p \notin again' PROVE PlanOK(p)' BY DEF PlanOK
 <2>1. PlanOK(p) /\ p \notin again BY DEF HandInv
 <2>2. \A o \in HandEnforcers \ {h} : AtWork(o, p)' <=> AtWork(o, p) BY <1>1 DEF AtWork
 <2>3. AtWork(h, p)' => new.at \in {"apply", "executed"} BY <1>1 DEF AtWork
 <2>4. \A g, o \in HandEnforcers : AtWork(g, p)' /\ AtWork(o, p)' => g = o BY <2>1,<2>2,<2>3 DEF PlanOK
 <2>5. ASSUME NEW o \in HandEnforcers, AtWork(o, p)', hand'[o].at = "apply"
       PROVE applications'[p] = 0 /\ command'[p].status \in StillExecutable
  <3>1. CASE o = h
   <4>1. new.at = "apply" BY <1>1,<2>5,<3>1
   <4> QED BY <1>2,<1>4,<4>1
  <3>2. CASE o # h
   <4>1. o \in HandEnforcers \ {h} /\ AtWork(o, p) /\ hand[o].at = "apply" BY <1>1,<2>2,<2>5,<3>2
   <4>2. applications[p] = 0 BY <2>1,<4>1 DEF PlanOK
   <4>3. n = 0 /\ entry.status \in StillExecutable BY <4>1
   <4> QED BY <1>2,<1>4,<4>2,<4>3
  <3> QED BY <3>1,<3>2
 <2>6. new.at = "executed" => hand'[h].at = "executed" /\ hand'[h].plan = p BY <1>1
 <2>7. \A o \in HandEnforcers \ {h} : hand[o].at = "executed" /\ hand[o].plan = p => hand'[o].at = "executed" /\ hand'[o].plan = p BY <1>1
 <2>8. applications'[p] <= 1 BY <1>4
 <2>9. applications'[p] = 1 => command'[p].status \in Final3 \/ \E g \in HandEnforcers : hand'[g].at = "executed" /\ hand'[g].plan = p
   BY <1>2,<1>4,<2>6,<2>7
 <2>10. ASSUME NEW o \in HandEnforcers, AtWork(o, p)' PROVE command'[p].status # "ABSENT"
  <3>1. CASE o = h BY <1>2,<2>3,<2>10,<3>1
  <3>2. CASE o # h BY <1>2,<2>2,<2>10,<3>2
  <3> QED BY <3>1,<3>2
 <2> QED BY <2>4,<2>5,<2>8,<2>9,<2>10 DEF PlanOK
<1> QED BY <1>5,<1>6,<1>7 DEF HandInv

\* What is said of the router stands when nothing was said and no one who was between its
\* change and the answer is not there any more.
LEMMA StillSaid ==
  ASSUME VerifiedIsOnTheRouter, UNCHANGED <<queue, lastAnswer>>,
      \A o \in HandEnforcers : hand'[o].at \in {"idle", "queue", "apply"} => hand[o].at \in {"idle", "queue", "apply"}
  PROVE VerifiedIsOnTheRouter'
BY DEF VerifiedIsOnTheRouter

LEMMA HandIs ==
  ASSUME HandInv, NEW h \in HandEnforcers, hand[h].at # "idle"
  PROVE  /\ hand[h] \in Hands /\ hand[h].plan \in Plans
         /\ \A at \in {"apply", "executed", "verify"} :
              [hand[h] EXCEPT !.at = at] \in Hands /\ [hand[h] EXCEPT !.at = at].at = at
              /\ [hand[h] EXCEPT !.at = at].plan = hand[h].plan
         /\ NoHand \in Hands /\ NoHand.at = "idle"
         /\ command[hand[h].plan] \in CommandRows /\ applications[hand[h].plan] \in Nat /\ PlanOK(hand[h].plan)
         /\ applications = [applications EXCEPT ![hand[h].plan] = applications[hand[h].plan] + 0]
         /\ command = [command EXCEPT ![hand[h].plan] = command[hand[h].plan]]
<1>0. HandTypes BY DEF HandInv
<1>1. hand[h] \in Hands /\ hand[h].plan \in Plans BY <1>0 DEF HandTypes
<1>2. \A at \in {"apply", "executed", "verify"} :
        [hand[h] EXCEPT !.at = at] \in Hands /\ [hand[h] EXCEPT !.at = at].at = at
        /\ [hand[h] EXCEPT !.at = at].plan = hand[h].plan BY <1>1 DEF Hands
<1>3. NoHand \in Hands /\ NoHand.at = "idle" BY FleetAssumption DEF NoHand, Hands, Speeds
<1>4. command[hand[h].plan] \in CommandRows /\ applications[hand[h].plan] \in Nat /\ PlanOK(hand[h].plan) BY <1>0,<1>1 DEF HandInv, HandTypes
<1>5. applications = [applications EXCEPT ![hand[h].plan] = applications[hand[h].plan] + 0] BY <1>0,<1>4 DEF HandTypes
<1>6. command = [command EXCEPT ![hand[h].plan] = command[hand[h].plan]] BY <1>0 DEF HandTypes
<1> QED BY <1>1,<1>2,<1>3,<1>4,<1>5,<1>6

\* A command is taken up: nobody else is at work on it, or it is disturbed.
LEMMA TakenUp ==
  ASSUME HandInv, NEW h \in HandEnforcers, NEW p \in Plans, hand[h].at \in {"idle", "queue"}, hand[h].at = "idle" \/ hand[h].plan = p, TakesUp(p),
      NEW new \in Hands, new.at = "apply", new.plan = p, hand' = [hand EXCEPT ![h] = new],
      NEW entry \in CommandRows, command' = [command EXCEPT ![p] = entry], entry.status \in StillExecutable,
      command[p].status \notin Final3, UNCHANGED <<queue, speed, lastAnswer, applications, speedChanges>>
  PROVE HandInv'
<1>0. HandTypes /\ VerifiedIsOnTheRouter /\ PlanOK(p) BY DEF HandInv
<1>1. again' \in {again, again \union {p}} /\ entry.status # "ABSENT" BY DEF TakesUp, StillExecutable
<1>2. p \notin again' => (\A o \in HandEnforcers : ~AtWork(o, p)) /\ p \notin again BY DEF TakesUp, AtWork
<1>3. applications[p] \in Nat BY <1>0 DEF HandTypes
<1>4. p \notin again' => applications[p] = 0
 <2> SUFFICES ASSUME p \notin again' PROVE applications[p] = 0 OBVIOUS
 <2>1. \A o \in HandEnforcers : ~(hand[o].at = "executed" /\ hand[o].plan = p) BY <1>2 DEF AtWork
 <2> QED BY <1>0,<1>2,<1>3,<2>1 DEF PlanOK
<1>6. VerifiedIsOnTheRouter'
 <2>1. hand'[h] = new /\ \A o \in HandEnforcers \ {h} : hand'[o] = hand[o] BY <1>0 DEF HandTypes
 <2>2. \A o \in HandEnforcers : hand'[o].at \in {"idle", "queue", "apply"} => hand[o].at \in {"idle", "queue", "apply"} BY <2>1
 <2> QED BY <1>0,<2>2, StillSaid
<1>7. LeavesPlan(h, p, new, entry, 0) BY <1>1,<1>2,<1>3,<1>4 DEF LeavesPlan
<1>8. applications' = [applications EXCEPT ![p] = applications[p] + 0] BY <1>0,<1>3 DEF HandTypes
<1>9. Moves(h, p, new, entry, 0) BY <1>1,<1>8 DEF Moves
<1> QED BY <1>6,<1>7,<1>9, HandMoves

LEMMA AskingKeepsHands == ASSUME HandInv, NEW h \in HandEnforcers, NEW p \in Plans, AskToEnforce(h, p) \/ WorkerTakes(h, p) PROVE HandInv'
<1>0. HandTypes /\ VerifiedIsOnTheRouter /\ PlanOK(p) BY DEF HandInv
<1> PICK old \in CommandRows : old = command[p] BY <1>0 DEF HandTypes
<1>1. CASE AskToEnforce(h, p)
 <2> PICK new : new = [at |-> "queue", plan |-> p, speed |-> speed[p], worker |-> FALSE] OBVIOUS
 <2>1. new \in Hands /\ new.at = "queue" /\ new.plan = p BY <1>0 DEF HandTypes, Hands
 <2>2. /\ hand[h].at = "idle" /\ hand' = [hand EXCEPT ![h] = new]
       /\ UNCHANGED <<command, queue, speed, lastAnswer, again, applications, speedChanges>> BY <1>1 DEF AskToEnforce
 <2>3. hand'[h] = new /\ \A o \in HandEnforcers \ {h} : hand'[o] = hand[o] BY <1>0,<2>2 DEF HandTypes
 <2>4. \A o \in HandEnforcers : hand'[o].at \in {"idle", "queue", "apply"} => hand[o].at \in {"idle", "queue", "apply"} BY <2>2,<2>3
 <2>5. VerifiedIsOnTheRouter' BY <1>0,<2>2,<2>4, StillSaid
 <2>6. command' = [command EXCEPT ![p] = old] BY <1>0,<2>2 DEF HandTypes
 <2>8. p \notin again' =>
         /\ \A o \in HandEnforcers \ {h} : AtWork(o, p) =>
              old.status # "ABSENT" /\ (hand[o].at = "apply" => old.status \in StillExecutable)
         /\ applications[p] <= 1
         /\ applications[p] = 1 => old.status \in Final3 \/ \E o \in HandEnforcers \ {h} : hand[o].at = "executed" /\ hand[o].plan = p
   BY <1>0,<2>2 DEF PlanOK, AtWork
 <2>9. applications[p] \in Nat BY <1>0 DEF HandTypes
 <2>10. applications' = [applications EXCEPT ![p] = applications[p] + 0] BY <1>0,<2>2,<2>9 DEF HandTypes
 <2>11. LeavesPlan(h, p, new, old, 0) BY <2>1,<2>8,<2>9 DEF LeavesPlan
 <2>12. Moves(h, p, new, old, 0) BY <2>1,<2>2,<2>6,<2>10 DEF Moves
 <2> QED BY <2>1,<2>5,<2>11,<2>12, HandMoves
<1>2. CASE WorkerTakes(h, p)
 <2> PICK new : new = [at |-> "apply", plan |-> p, speed |-> old.speed, worker |-> TRUE] OBVIOUS
 <2> PICK entry : entry = [old EXCEPT !.status = "SENT"] OBVIOUS
 <2>1. new \in Hands /\ new.at = "apply" /\ new.plan = p BY DEF Hands, CommandRows
 <2>2. entry \in CommandRows /\ entry.status \in StillExecutable BY DEF CommandRows, Outcomes, StillExecutable
 <2>3. /\ hand[h].at = "idle" /\ hand' = [hand EXCEPT ![h] = new] /\ TakesUp(p) /\ old.status \notin Final3
       /\ command' = [command EXCEPT ![p] = entry] /\ UNCHANGED <<queue, speed, lastAnswer, applications, speedChanges>>
   BY <1>2 DEF WorkerTakes, Final3
 <2> QED BY <2>1,<2>2,<2>3, TakenUp
<1> QED BY <1>1,<1>2

LEMMA QueueingKeepsHands == ASSUME HandInv, NEW h \in HandEnforcers, QueueByHand(h) PROVE HandInv'
<1>0. HandTypes BY DEF HandInv
<1>1. hand[h].at = "queue" /\ UNCHANGED <<queue, speed, applications, speedChanges>> BY DEF QueueByHand
<1> PICK p \in Plans : p = hand[h].plan BY <1>1, HandIs
<1> PICK old \in CommandRows : old = command[p] BY <1>1, HandIs
<1> PICK go : go = [hand[h] EXCEPT !.at = "apply"] OBVIOUS
<1>2. go \in Hands /\ go.at = "apply" /\ go.plan = p BY <1>1, HandIs
<1>3. ASSUME old = NoCommand, command' = [command EXCEPT ![p] = [status |-> "QUEUED", speed |-> hand[h].speed]],
    HandTo(h, "apply"), TakesUp(p), UNCHANGED lastAnswer
  PROVE HandInv'
 <2> PICK entry : entry = [status |-> "QUEUED", speed |-> hand[h].speed] OBVIOUS
 <2>1. hand[h] \in Hands BY <1>1, HandIs
 <2>2. entry \in CommandRows /\ entry.status \in StillExecutable BY <2>1 DEF CommandRows, Outcomes, Hands, StillExecutable
 <2>3. hand' = [hand EXCEPT ![h] = go] /\ command' = [command EXCEPT ![p] = entry] BY <1>3 DEF HandTo
 <2>4. old.status \notin Final3 BY <1>3 DEF NoCommand, Final3
 <2> QED BY <1>1,<1>2,<1>3,<2>2,<2>3,<2>4, TakenUp
<1>4. ASSUME old.status \in StillExecutable, HandTo(h, "apply"), TakesUp(p), UNCHANGED <<command, lastAnswer>> PROVE HandInv'
 <2>1. hand' = [hand EXCEPT ![h] = go] BY <1>4 DEF HandTo
 <2>2. command' = [command EXCEPT ![p] = old] BY <1>1,<1>4, HandIs
 <2>3. old.status \notin Final3 BY <1>4 DEF StillExecutable, Final3
 <2> QED BY <1>1,<1>2,<1>4,<2>1,<2>2,<2>3, TakenUp
<1>5. ASSUME Ends(h, Refusal(old, hand[h].speed)), UNCHANGED <<command, again>> PROVE HandInv'
 <2>1. hand' = [hand EXCEPT ![h] = NoHand] /\ lastAnswer' = [plan |-> p, answer |-> Refusal(old, hand[h].speed)] BY <1>5 DEF Ends
 <2>2. lastAnswer'.answer # "verified" BY <2>1 DEF Refusal
 <2>3. VerifiedIsOnTheRouter' BY <2>2 DEF VerifiedIsOnTheRouter
 <2>4. NoHand \in Hands /\ NoHand.at = "idle" /\ command' = [command EXCEPT ![p] = old] /\ PlanOK(p) /\ applications[p] \in Nat
   BY <1>1,<1>5, HandIs
 <2>6. p \notin again' =>
         /\ \A o \in HandEnforcers \ {h} : AtWork(o, p) =>
              old.status # "ABSENT" /\ (hand[o].at = "apply" => old.status \in StillExecutable)
         /\ applications[p] <= 1
         /\ applications[p] = 1 => old.status \in Final3 \/ \E o \in HandEnforcers \ {h} : hand[o].at = "executed" /\ hand[o].plan = p
   BY <1>1,<1>5,<2>4 DEF PlanOK, AtWork
 <2>7. applications' = [applications EXCEPT ![p] = applications[p] + 0] BY <1>1, HandIs
 <2>8. LeavesPlan(h, p, NoHand, old, 0) BY <2>4,<2>6 DEF LeavesPlan
 <2>9. Moves(h, p, NoHand, old, 0) BY <1>1,<1>5,<2>1,<2>4,<2>7 DEF Moves
 <2> QED BY <2>3,<2>4,<2>8,<2>9, HandMoves
<1>6. old = command[hand[h].plan] OBVIOUS
<1> QED BY <1>3,<1>4,<1>5,<1>6 DEF QueueByHand

\* The router is reached, or not: who was at work on the command is the only one.
LEMMA ApplyingKeepsHands == ASSUME HandInv, NEW h \in HandEnforcers, ApplyPlan(h) \/ ApplyPlanFails(h) PROVE HandInv'
<1>0. HandTypes BY DEF HandInv
<1>1. hand[h].at = "apply" /\ UNCHANGED <<speed, again, speedChanges>> BY DEF ApplyPlan, ApplyPlanFails
<1> PICK p \in Plans : p = hand[h].plan BY <1>1, HandIs
<1> PICK old \in CommandRows : old = command[p] BY <1>1, HandIs
<1>2. PlanOK(p) /\ applications[p] \in Nat /\ AtWork(h, p) BY <1>1, HandIs DEF AtWork
<1>3. p \notin again => applications[p] = 0 /\ old.status \in StillExecutable /\ old.status # "ABSENT" /\ \A o \in HandEnforcers \ {h} : ~AtWork(o, p)
  BY <1>1,<1>2 DEF PlanOK
<1>4. CASE ApplyPlan(h)
 <2> PICK new : new = [hand[h] EXCEPT !.at = "executed"] OBVIOUS
 <2>1. new \in Hands /\ new.at = "executed" /\ new.plan = p BY <1>1, HandIs
 <2>2. /\ hand' = [hand EXCEPT ![h] = new] /\ applications' = [applications EXCEPT ![p] = applications[p] + 1]
       /\ UNCHANGED command BY <1>4 DEF ApplyPlan, HandTo
 <2>3. hand'[h].at = "executed" BY <1>0,<2>1,<2>2 DEF HandTypes
 <2>4. VerifiedIsOnTheRouter' BY <2>3 DEF VerifiedIsOnTheRouter
 <2>5. command' = [command EXCEPT ![p] = old] BY <1>1,<2>2, HandIs
 <2>6. p \notin again => applications[p] + 1 <= 1 BY <1>3
 <2>7. LeavesPlan(h, p, new, old, 1) BY <1>1,<1>2,<1>3,<2>1,<2>6 DEF LeavesPlan
 <2>8. Moves(h, p, new, old, 1) BY <1>1,<2>1,<2>2,<2>5 DEF Moves
 <2> QED BY <2>1,<2>4,<2>7,<2>8, HandMoves
<1>5. CASE ApplyPlanFails(h)
 <2> PICK entry : entry = [old EXCEPT !.status = IF old.status \in StillExecutable THEN "FAILED" ELSE old.status] OBVIOUS
 <2>1. entry \in CommandRows /\ (old.status \in StillExecutable => entry.status \in Final3) BY DEF CommandRows, Outcomes, Final3
 <2>2. command' = [command EXCEPT ![p] = entry] BY <1>5 DEF ApplyPlanFails
 <2>3. hand' = [hand EXCEPT ![h] = NoHand] /\ lastAnswer' = [plan |-> p, answer |-> "failed"] BY <1>5 DEF ApplyPlanFails, Ends
 <2>4. NoHand \in Hands /\ NoHand.at = "idle" /\ applications = [applications EXCEPT ![p] = applications[p] + 0] BY <1>1, HandIs
 <2>5. VerifiedIsOnTheRouter' BY <2>3 DEF VerifiedIsOnTheRouter
 <2>6. PICK n \in {0, 1} : applications' = [applications EXCEPT ![p] = applications[p] + n] BY <1>5,<2>4 DEF ApplyPlanFails
 <2>7. p \notin again => entry.status \in Final3 /\ applications[p] + n <= 1 BY <1>3,<2>1
 <2>8. LeavesPlan(h, p, NoHand, entry, n) BY <1>1,<1>3,<2>4,<2>7 DEF LeavesPlan
 <2>9. Moves(h, p, NoHand, entry, n) BY <1>1,<2>2,<2>3,<2>4,<2>6 DEF Moves
 <2> QED BY <2>1,<2>4,<2>5,<2>8,<2>9, HandMoves
<1> QED BY <1>4,<1>5

LEMMA MarkingKeepsHands == ASSUME HandInv, NEW h \in HandEnforcers, MarkPlanExecuted(h) \/ VerifyPlan(h) \/ CommandFails(h) PROVE HandInv'
<1>0. HandTypes BY DEF HandInv
<1>1. hand[h].at \in {"executed", "verify"} /\ UNCHANGED <<queue, speed, again, applications, speedChanges>>
  BY DEF MarkPlanExecuted, VerifyPlan, CommandFails
<1> PICK p \in Plans : p = hand[h].plan BY <1>1, HandIs
<1> PICK old \in CommandRows : old = command[p] BY <1>1, HandIs
<1>2. PlanOK(p) /\ applications[p] \in Nat /\ applications' = [applications EXCEPT ![p] = applications[p] + 0] BY <1>1, HandIs
<1> PICK holds \in BOOLEAN : holds <=> queue = [plan |-> p, speed |-> hand[h].speed] OBVIOUS
<1>3. ASSUME NEW new \in Hands, new.at \in {"idle", "verify"}, new.at = "verify" => new.plan = p, hand' = [hand EXCEPT ![h] = new],
    NEW entry \in CommandRows, command' = [command EXCEPT ![p] = entry],
    hand[h].at = "executed" /\ old.status \in StillExecutable => entry.status \in Final3,
    old.status \in Final3 => entry.status \in Final3, old.status \in StillExecutable /\ hand[h].at = "verify" => entry = old,
    VerifiedIsOnTheRouter'
  PROVE HandInv'
 <2> SUFFICES ASSUME p \notin again PROVE LeavesPlan(h, p, new, entry, 0)
  <3>1. Moves(h, p, new, entry, 0) BY <1>1,<1>2,<1>3 DEF Moves
  <3>2. p \in again => LeavesPlan(h, p, new, entry, 0) BY <1>1 DEF LeavesPlan
  <3> QED BY <1>3,<3>1,<3>2, HandMoves
 <2>2. CASE p \notin again /\ hand[h].at = "executed"
  <3>1. AtWork(h, p) BY <2>2 DEF AtWork
  <3>2. (\A o \in HandEnforcers \ {h} : ~AtWork(o, p)) /\ applications[p] <= 1 /\ old.status # "ABSENT" BY <1>2,<2>2,<3>1 DEF PlanOK
  <3>3. entry.status \in Final3 BY <1>3,<2>2,<3>2 DEF CommandRows, Outcomes, Final3
  <3> QED BY <1>2,<1>3,<3>2,<3>3 DEF LeavesPlan
 <2>3. CASE p \notin again /\ hand[h].at = "verify"
  <3>1. applications[p] <= 1 BY <1>2,<2>3 DEF PlanOK
  <3>2. applications[p] = 1 => entry.status \in Final3 \/ \E o \in HandEnforcers \ {h} : hand[o].at = "executed" /\ hand[o].plan = p
    BY <1>2,<1>3,<2>3 DEF PlanOK
  <3>3. \A o \in HandEnforcers \ {h} : AtWork(o, p) =>
          entry.status # "ABSENT" /\ (hand[o].at = "apply" => entry.status \in StillExecutable)
   <4>1. old.status # "ABSENT" => entry.status # "ABSENT" BY <1>3,<2>3 DEF CommandRows, Outcomes, Final3
   <4> QED BY <1>2,<1>3,<2>3,<4>1 DEF PlanOK
  <3> QED BY <1>2,<1>3,<3>1,<3>2,<3>3 DEF LeavesPlan
 <2> QED BY <1>1,<2>2,<2>3
<1>4. CASE MarkPlanExecuted(h)
 <2> PICK entry : entry = [old EXCEPT !.status = IF old.status \in StillExecutable THEN "EXECUTED" ELSE old.status] OBVIOUS
 <2> PICK new : new = [hand[h] EXCEPT !.at = "verify"] OBVIOUS
 <2>1. entry \in CommandRows /\ (old.status \in StillExecutable => entry.status = "EXECUTED") /\ (old.status \notin StillExecutable => entry = old)
   BY DEF CommandRows, Outcomes
 <2>2. new \in Hands /\ new.at = "verify" /\ new.plan = p BY <1>1, HandIs
 <2>3. hand[h].at = "executed" /\ command' = [command EXCEPT ![p] = entry] /\ hand' = [hand EXCEPT ![h] = new] BY <1>4 DEF MarkPlanExecuted, HandTo
 <2>4. hand'[h].at = "verify" BY <1>0,<2>2,<2>3 DEF HandTypes
 <2>5. VerifiedIsOnTheRouter' BY <2>4 DEF VerifiedIsOnTheRouter
 <2> QED BY <1>3,<2>1,<2>2,<2>3,<2>5 DEF Final3, StillExecutable
<1>5. NoHand \in Hands /\ NoHand.at = "idle" BY <1>1, HandIs
<1>6. CASE VerifyPlan(h)
 <2> PICK entry : entry = [old EXCEPT !.status = IF old.status # "EXECUTED" THEN old.status ELSE IF holds THEN "VERIFIED" ELSE "FAILED"] OBVIOUS
 <2>1. entry \in CommandRows /\ (old.status # "EXECUTED" => entry = old) /\ (old.status = "EXECUTED" => entry.status \in Final3)
   BY DEF CommandRows, Outcomes, Final3
 <2>2. /\ hand[h].at = "verify" /\ command' = [command EXCEPT ![p] = entry] /\ hand' = [hand EXCEPT ![h] = NoHand]
       /\ lastAnswer' = [plan |-> p, answer |-> IF holds THEN "verified" ELSE "executed_unverified"] BY <1>6 DEF VerifyPlan, Ends
 <2>3. VerifiedIsOnTheRouter'
  <3>1. holds => queue.plan = p OBVIOUS
  <3>2. lastAnswer'.plan = p /\ (lastAnswer'.answer = "verified" => holds) BY <2>2
  <3> QED BY <1>1,<3>1,<3>2 DEF VerifiedIsOnTheRouter
 <2> QED BY <1>3,<1>5,<2>1,<2>2,<2>3 DEF Final3, StillExecutable
<1>7. CASE CommandFails(h)
 <2> PICK open : open = IF hand[h].at = "verify" THEN {"EXECUTED"} ELSE StillExecutable OBVIOUS
 <2> PICK entry : entry = [old EXCEPT !.status = IF old.status \in open THEN "FAILED" ELSE old.status] OBVIOUS
 <2>1. entry \in CommandRows /\ (old.status \notin open => entry = old) /\ (old.status \in open => entry.status = "FAILED")
   BY DEF CommandRows, Outcomes
 <2>2. /\ command' = [command EXCEPT ![p] = entry] /\ hand' = [hand EXCEPT ![h] = NoHand]
       /\ lastAnswer' = [plan |-> p, answer |-> "failed"] BY <1>7 DEF CommandFails, Ends
 <2>3. VerifiedIsOnTheRouter' BY <2>2 DEF VerifiedIsOnTheRouter
 <2>4. hand[h].at = "verify" => open = {"EXECUTED"} OBVIOUS
 <2>5. hand[h].at = "executed" => open = StillExecutable OBVIOUS
 <2> QED BY <1>1,<1>3,<1>5,<2>1,<2>2,<2>3,<2>4,<2>5 DEF Final3, StillExecutable
<1> QED BY <1>4,<1>6,<1>7

LEMMA DyingKeepsHands == ASSUME HandInv, NEW h \in HandEnforcers, HandDies(h) PROVE HandInv'
<1>0. HandTypes /\ VerifiedIsOnTheRouter BY DEF HandInv
<1>1. hand[h].at # "idle" /\ hand' = [hand EXCEPT ![h] = NoHand] /\ UNCHANGED <<command, queue, speed, applications, speedChanges>> BY DEF HandDies
<1> PICK p \in Plans : p = hand[h].plan BY <1>1, HandIs
<1> PICK old \in CommandRows : old = command[p] BY <1>1, HandIs
<1>2. /\ PlanOK(p) /\ applications[p] \in Nat
      /\ command' = [command EXCEPT ![p] = old] /\ NoHand \in Hands /\ NoHand.at = "idle" /\ hand[h] \in Hands BY <1>1, HandIs
<1>3. again' \in {again, again \union {p}} /\ (p \notin again' => p \notin again /\ hand[h].at # "executed") BY DEF HandDies
<1>4. VerifiedIsOnTheRouter'
 <2>1. CASE hand[h].at \in {"executed", "verify"} BY <2>1 DEF HandDies, VerifiedIsOnTheRouter
 <2>2. CASE hand[h].at \notin {"executed", "verify"}
  <3>1. hand'[h] = NoHand /\ \A o \in HandEnforcers \ {h} : hand'[o] = hand[o] BY <1>0,<1>1 DEF HandTypes
  <3>2. hand[h].at \in {"queue", "apply"} BY <1>1,<1>2,<2>2 DEF Hands
  <3>3. \A o \in HandEnforcers : hand'[o].at \in {"idle", "queue", "apply"} => hand[o].at \in {"idle", "queue", "apply"} BY <3>1,<3>2
  <3>4. UNCHANGED lastAnswer BY <2>2 DEF HandDies
  <3> QED BY <1>0,<1>1,<3>3,<3>4, StillSaid
 <2> QED BY <2>1,<2>2
<1>5. p \notin again' =>
        /\ applications[p] <= 1
        /\ applications[p] = 1 => old.status \in Final3 \/ \E o \in HandEnforcers \ {h} : hand[o].at = "executed" /\ hand[o].plan = p
        /\ \A o \in HandEnforcers \ {h} : AtWork(o, p) =>
             old.status # "ABSENT" /\ (hand[o].at = "apply" => old.status \in StillExecutable)
  BY <1>2,<1>3 DEF PlanOK, AtWork
<1>6. applications' = [applications EXCEPT ![p] = applications[p] + 0] BY <1>1, HandIs
<1>7. LeavesPlan(h, p, NoHand, old, 0) BY <1>2,<1>5 DEF LeavesPlan
<1>8. Moves(h, p, NoHand, old, 0) BY <1>1,<1>2,<1>3,<1>6 DEF Moves
<1> QED BY <1>2,<1>4,<1>7,<1>8, HandMoves

LEMMA HandsStutter == HandInv /\ UNCHANGED <<command, queue, hand, lastAnswer, again, applications, speed, speedChanges>> => HandInv'
<1> SUFFICES ASSUME HandInv, UNCHANGED <<command, queue, hand, lastAnswer, again, applications, speed, speedChanges>> PROVE HandInv' OBVIOUS
<1>1. HandTypes' /\ VerifiedIsOnTheRouter' BY DEF HandInv, HandTypes, VerifiedIsOnTheRouter
<1>2. \A p \in Plans : PlanOK(p)' BY DEF HandInv, PlanOK, AtWork
<1> QED BY <1>1,<1>2 DEF HandInv

LEMMA HandStep == HandInv /\ HandNext => HandInv'
<1>1. ASSUME HandInv, NEW p \in Plans, ChangeSpeed(p) PROVE HandInv'
 <2>1. /\ speedChanges < MaxSpeedChanges /\ speedChanges' = speedChanges + 1 /\ speed' = [speed EXCEPT ![p] = speed[p] + 1]
       /\ UNCHANGED <<command, queue, hand, lastAnswer, again, applications>> BY <1>1 DEF ChangeSpeed
 <2>2. HandTypes /\ speed[p] <= 1 + speedChanges /\ speed[p] \in Speeds /\ speedChanges \in 0..MaxSpeedChanges BY <1>1 DEF HandInv, HandTypes
 <2>3. speed[p] + 1 \in Speeds /\ speed[p] + 1 <= 1 + speedChanges' /\ speedChanges' \in 0..MaxSpeedChanges BY <2>1,<2>2, FleetAssumption DEF Speeds
 <2>4. speed' \in [Plans -> Speeds] /\ speed'[p] = speed[p] + 1 /\ \A q \in Plans \ {p} : speed'[q] = speed[q] BY <2>1,<2>2,<2>3 DEF HandTypes
 <2>5. \A q \in Plans : speed'[q] <= 1 + speedChanges'
  <3>1. \A q \in Plans : speed[q] \in Int /\ speed[q] <= 1 + speedChanges BY <2>2 DEF HandTypes, Speeds
  <3> QED BY <2>1,<2>2,<2>3,<2>4,<3>1
 <2>6. HandTypes' BY <2>1,<2>2,<2>3,<2>4,<2>5 DEF HandTypes
 <2>7. VerifiedIsOnTheRouter' BY <1>1,<2>1 DEF HandInv, VerifiedIsOnTheRouter
 <2>8. \A q \in Plans : PlanOK(q)' BY <1>1,<2>1 DEF HandInv, PlanOK, AtWork
 <2> QED BY <2>6,<2>7,<2>8 DEF HandInv
<1>2. ASSUME HandInv, NEW p \in Plans, RetryPlan(p) PROVE HandInv'
 <2>0. HandTypes BY <1>2 DEF HandInv
 <2> PICK entry : entry = [command[p] EXCEPT !.status = "RETRYING"] OBVIOUS
 <2>1. command' = [command EXCEPT ![p] = entry] /\ again' = again \union {p} /\ UNCHANGED <<queue, speed, hand, lastAnswer, applications, speedChanges>>
   BY <1>2 DEF RetryPlan
 <2>2. entry \in CommandRows BY <2>0 DEF HandTypes, CommandRows, Outcomes, StillExecutable
 <2>3. command' \in [Plans -> CommandRows] /\ \A q \in Plans \ {p} : command'[q] = command[q] BY <2>0,<2>1,<2>2 DEF HandTypes
 <2>4. HandTypes' /\ VerifiedIsOnTheRouter' BY <1>2,<2>0,<2>1,<2>3 DEF HandInv, HandTypes, VerifiedIsOnTheRouter
 <2>5. \A q \in Plans : PlanOK(q)' BY <1>2,<2>1,<2>3 DEF HandInv, PlanOK, AtWork
 <2> QED BY <2>4,<2>5 DEF HandInv
<1> QED BY <1>1,<1>2, AskingKeepsHands, QueueingKeepsHands, ApplyingKeepsHands, MarkingKeepsHands, DyingKeepsHands DEF HandNext

LEMMA FleetInvariance == FleetSpec => [](DeviceInv /\ HandInv)
<1>1. FleetInit => DeviceInv /\ HandInv BY DeviceBegins, HandBegins DEF FleetInit
<1>2. DeviceNext => UNCHANGED handVars BY DEF DeviceNext, SetNetworkSettings, CommitRotation, WriteUpdate, ReadForUpdate, LockForRotation, Redeploy
<1>3. HandNext => UNCHANGED deviceVars
  BY DEF HandNext, ChangeSpeed, RetryPlan, AskToEnforce, WorkerTakes, QueueByHand, ApplyPlan, ApplyPlanFails, MarkPlanExecuted, VerifyPlan,
    CommandFails, HandDies
<1>4. DeviceInv /\ HandInv /\ [FleetNext]_fleetVars => (DeviceInv /\ HandInv)'
 <2>1. ASSUME DeviceInv, HandInv, UNCHANGED handVars, DeviceNext PROVE (DeviceInv /\ HandInv)' BY <2>1, DeviceStep, HandsStutter DEF handVars
 <2>2. ASSUME DeviceInv, HandInv, UNCHANGED deviceVars, HandNext PROVE (DeviceInv /\ HandInv)' BY <2>2, HandStep, DeviceStutters
 <2>3. ASSUME DeviceInv, HandInv, UNCHANGED <<deviceVars, handVars>> PROVE (DeviceInv /\ HandInv)' BY <2>3, HandsStutter, DeviceStutters DEF handVars
 <2> QED BY <1>2,<1>3,<2>1,<2>2,<2>3 DEF FleetNext, fleetVars
<1> QED BY <1>1,<1>4, PTL DEF FleetSpec

\* What a router's row, its key and its command say is true of the router: the catalogue
\* entry is its vendor's, its secret is the last one entered and can be opened by every
\* process left, "verified" is only said of the plan that is there, and a plan reaches it
\* once unless its command was disturbed: two at work on it, its holder lost behind the
\* router, or retried (routers.service.ts, network-command.service.ts).
THEOREM FleetIsKept == FleetSpec => []FleetHolds
<1>1. DeviceInv /\ HandInv => FleetHolds
 <2> SUFFICES ASSUME DeviceInv, HandInv PROVE FleetHolds OBVIOUS
 <2>1. FleetTypeOK BY DEF DeviceInv, HandInv, DeviceTypes, HandTypes, FleetTypeOK, Devices, Sealed, CommandRows, Outcomes, Speeds
 <2>2. CatalogueFitsVendor /\ LastSecretIsKept /\ CredentialsCanBeOpened BY DeviceInvOpens DEF DeviceInv
 <2>3. VerifiedIsOnTheRouter BY DEF HandInv
 <2>4. PlanIsAppliedOnce BY DEF HandInv, PlanOK, PlanIsAppliedOnce
 <2> QED BY <2>1,<2>2,<2>3,<2>4 DEF FleetHolds
<1> QED BY <1>1, FleetInvariance, PTL

------------------------
(* The order of the connections. *)

WanBefore(w) == {v \in Wans : priority[v] < priority[w] \/ (priority[v] = priority[w] /\ v <= w)}

LEMMA WansType == NumWans \in Nat /\ NumWans # 0 /\ Wans \subseteq Nat /\ IsFiniteSet(Wans) /\ Cardinality(Wans) = NumWans /\ Wans = 1..NumWans
<1>1. NumWans \in Nat /\ NumWans # 0 BY WanAssumption
<1>2. IsFiniteSet(1..NumWans) /\ Cardinality(1..NumWans) = NumWans BY <1>1, FS_Interval
<1> QED BY <1>1,<1>2 DEF Wans

\* Every connection has one place, and every place one connection.
LEMMA PlacesAreApart ==
  ASSUME priority \in [Wans -> Nat]
  PROVE  /\ \A w \in Wans : Place(w) \in 1..NumWans
         /\ \A v, w \in Wans : Place(v) = Place(w) => v = w
<1>1. \A w \in Wans : IsFiniteSet(WanBefore(w)) /\ WanBefore(w) \subseteq Wans /\ Place(w) = Cardinality(WanBefore(w)) /\ w \in WanBefore(w)
 <2>1. TAKE w \in Wans
 <2>2. WanBefore(w) \in SUBSET Wans BY DEF WanBefore
 <2>3. IsFiniteSet(WanBefore(w)) BY <2>2, WansType, FS_Subset
 <2>4. w \in WanBefore(w) BY WansType DEF WanBefore
 <2> QED BY <2>2,<2>3,<2>4 DEF Place, WanBefore
<1>2. \A w \in Wans : Place(w) \in 1..NumWans
 <2>1. TAKE w \in Wans
 <2>2. Cardinality(WanBefore(w)) \in Nat /\ Cardinality(WanBefore(w)) <= NumWans BY <1>1, WansType, FS_Subset, FS_CardinalityType
 <2>3. Cardinality(WanBefore(w)) # 0 BY <1>1, FS_EmptySet
 <2> QED BY <1>1,<2>2,<2>3, WansType
<1>3. ASSUME NEW v \in Wans, NEW w \in Wans, Place(v) = Place(w), v # w PROVE FALSE
 <2>1. priority[v] \in Nat /\ priority[w] \in Nat /\ v \in Nat /\ w \in Nat BY WansType
 <2>2. WanBefore(v) \subseteq WanBefore(w) \/ WanBefore(w) \subseteq WanBefore(v)
  <3>1. CASE priority[v] < priority[w] \/ (priority[v] = priority[w] /\ v <= w)
   <4>1. WanBefore(v) \subseteq WanBefore(w) BY <2>1,<3>1, WansType DEF WanBefore
   <4> QED BY <4>1
  <3>2. CASE priority[w] < priority[v] \/ (priority[v] = priority[w] /\ w <= v)
   <4>1. WanBefore(w) \subseteq WanBefore(v) BY <2>1,<3>2, WansType DEF WanBefore
   <4> QED BY <4>1
  <3> QED BY <2>1,<3>1,<3>2
 <2>3. WanBefore(v) = WanBefore(w)
  <3>1. Cardinality(WanBefore(v)) = Cardinality(WanBefore(w)) BY <1>1,<1>3
  <3>2. IsFiniteSet(WanBefore(v)) /\ IsFiniteSet(WanBefore(w)) BY <1>1
  <3>3. WanBefore(v) \subseteq WanBefore(w) => WanBefore(v) = WanBefore(w) BY <3>1,<3>2, FS_Subset
  <3>4. WanBefore(w) \subseteq WanBefore(v) => WanBefore(v) = WanBefore(w) BY <3>1,<3>2, FS_Subset
  <3> QED BY <2>2,<3>3,<3>4
 <2>4. v \in WanBefore(w) /\ w \in WanBefore(v) BY <1>1,<2>3
 <2> QED BY <1>3,<2>1,<2>4 DEF WanBefore
<1> QED BY <1>2,<1>3

LEMMA OrderedIsAll ==
  ASSUME priority \in [Wans -> Nat]
  PROVE  /\ Ordered \in [1..NumWans -> Wans] /\ DOMAIN Ordered = 1..NumWans
         /\ \A i, j \in 1..NumWans : Ordered[i] = Ordered[j] => i = j
         /\ \A w \in Wans : \E i \in 1..NumWans : Ordered[i] = w
<1> PICK f : f = [w \in Wans |-> Place(w)] OBVIOUS
<1>1. f \in Injection(Wans, 1..NumWans) BY PlacesAreApart DEF Injection, IsInjective
<1>2. IsFiniteSet(1..NumWans) /\ Cardinality(Wans) = Cardinality(1..NumWans) BY WansType
<1>3. f \in Surjection(Wans, 1..NumWans) BY <1>1,<1>2, FS_Injection
<1>4. \A i \in 1..NumWans : \E w \in Wans : Place(w) = i BY <1>3 DEF Surjection
<1>5. \A i \in 1..NumWans : Ordered[i] \in Wans /\ Place(Ordered[i]) = i BY <1>4 DEF Ordered
<1>6. \A w \in Wans : Place(w) \in 1..NumWans /\ Ordered[Place(w)] = w BY <1>5, PlacesAreApart
<1> QED BY <1>5,<1>6 DEF Ordered

------------------------
(* The invariant of the routes. *)

Healths == {"UNKNOWN", "HEALTHY", "DEGRADED", "UNAVAILABLE", "RECOVERING", "DISABLED", "DRAINING"}
WanRows == [gateway : Gateways, enabled : BOOLEAN, drain : BOOLEAN, answers : 0..RecoveryThreshold, health : Healths]
RebRows == [at : {"idle", "list", "write", "verify"}, plan : Seq(Routes), seen : [Wans -> Nat], next : Nat, verified : BOOLEAN]

\* One route for each connection, in their order, and one rank in service.
PlanFits(plan) ==
  /\ plan \in Seq(Routes) /\ Len(plan) = NumWans
  /\ \A i \in 1..NumWans : plan[i].wan = Ordered[i]
  /\ \A i, j \in 1..NumWans : ~plan[i].disabled /\ ~plan[j].disabled =>
       priority[plan[i].wan] = priority[plan[j].wan]

\* A rebalance under way carries such a plan, and the routes it saw are still the
\* connections'.
RebFits(k, rts) ==
  /\ IF k.at = "idle" THEN k.plan = <<>> ELSE PlanFits(k.plan)
  /\ k.at = "write" => /\ k.next \in 1..NumWans
                       /\ \A w \in Wans : k.seen[w] # 0 => k.seen[w] \in DOMAIN rts /\ rts[k.seen[w]].wan = w

RoutesIn(rts, w) == {i \in DOMAIN rts : rts[i].wan = w}

\* k is about to add a route for w, since it saw none.
Adds(k, w) == k.at = "write" /\ k.seen[w] = 0 /\ \E i \in k.next..NumWans : Ordered[i] = w
Adding(rb, w) == {r \in Rebalancers : Adds(rb[r], w)}

AtOnce == IF raced THEN Cardinality(Rebalancers) ELSE 1
CountsFit == \A w \in Wans : Cardinality(RoutesIn(routes, w)) + Cardinality(Adding(reb, w)) <= AtOnce

OneRebalance == ~raced => \A r, s \in Rebalancers : reb[r].at # "idle" /\ reb[s].at # "idle" => r = s

\* What a rebalance that runs alone has written is there.
Wrote(k, i) == k.at = "verify" \/ (k.at = "write" /\ i < k.next)
WritesLast == ~raced => \A r \in Rebalancers : \A i \in 1..NumWans :
  Wrote(reb[r], i) => \E j \in DOMAIN routes : routes[j] = reb[r].plan[i]

AtRest == \A r \in Rebalancers : reb[r].at \in {"idle", "list"}
AppliedFits ==
  /\ applied = NoPlan \/ PlanFits(applied)
  /\ ~raced /\ applied # NoPlan /\ AtRest => ToSet(routes) = ToSet(applied)
  /\ ~raced /\ wanFaults = 0 /\ AtRest /\ DOMAIN routes # {} => applied # NoPlan

WanTypes ==
  /\ wan \in [Wans -> WanRows] /\ priority \in [Wans -> Nat] /\ routes \in Seq(Routes)
  /\ reb \in [Rebalancers -> RebRows] /\ raced \in BOOLEAN /\ wanFaults \in Nat
  /\ \A w \in Wans : wan[w].health = "UNAVAILABLE" /\ RecoveryThreshold # 1 => wan[w].answers = 0

WanInv ==
  /\ WanTypes
  /\ \A r \in Rebalancers : RebFits(reb[r], routes)
  /\ CountsFit /\ OneRebalance /\ WritesLast /\ AppliedFits

LEMMA IdleFits == IdleReb \in RebRows /\ IdleReb.at = "idle" /\ (\A rts : RebFits(IdleReb, rts)) /\ \A w \in Wans : ~Adds(IdleReb, w)
BY DEF IdleReb, NoPlan, RebRows, RebFits, Adds

LEMMA CountTypes ==
  ASSUME NEW rts \in Seq(Routes), NEW rb, NEW w
  PROVE  /\ IsFiniteSet(RoutesIn(rts, w)) /\ Cardinality(RoutesIn(rts, w)) \in Nat
         /\ IsFiniteSet(Adding(rb, w)) /\ Cardinality(Adding(rb, w)) \in Nat
         /\ Cardinality(Adding(rb, w)) <= Cardinality(Rebalancers)
<1>1. RoutesIn(rts, w) \in SUBSET (1..Len(rts)) /\ Len(rts) \in Nat BY DEF RoutesIn
<1>2. IsFiniteSet(1..Len(rts)) BY <1>1, FS_Interval
<1>3. Adding(rb, w) \in SUBSET Rebalancers BY DEF Adding
<1>4. IsFiniteSet(RoutesIn(rts, w)) BY <1>1,<1>2, FS_Subset
<1>5. IsFiniteSet(Adding(rb, w)) /\ Cardinality(Adding(rb, w)) <= Cardinality(Rebalancers) BY <1>3, WanAssumption, FS_Subset
<1> QED BY <1>4,<1>5, FS_CardinalityType

\* A step that writes no route: one rebalance moves, and adds to nothing it did not add to.
LEMMA NoMoreAdded ==
  ASSUME NEW rts \in Seq(Routes), NEW rb \in [Rebalancers -> RebRows], NEW r \in Rebalancers, NEW k \in RebRows, NEW w,
      Adds(k, w) => Adds(rb[r], w), NEW b \in Nat, Cardinality(RoutesIn(rts, w)) + Cardinality(Adding(rb, w)) <= b
  PROVE Cardinality(RoutesIn(rts, w)) + Cardinality(Adding([rb EXCEPT ![r] = k], w)) <= b
<1> HIDE DEF RebRows
<1> PICK rc : rc = [rb EXCEPT ![r] = k] OBVIOUS
<1>1. rc[r] = k /\ \A s \in Rebalancers \ {r} : rc[s] = rb[s] OBVIOUS
<1>2. Adding(rc, w) \in SUBSET Adding(rb, w)
 <2>1. ASSUME NEW s \in Rebalancers, Adds(rc[s], w) PROVE Adds(rb[s], w)
  <3>1. CASE s = r BY <1>1,<2>1,<3>1
  <3>2. CASE s # r
   <4>1. rc[s] = rb[s] BY <1>1,<3>2
   <4> QED BY <2>1,<4>1
  <3> QED BY <3>1,<3>2
 <2> QED BY <2>1 DEF Adding
<1>3. Cardinality(Adding(rc, w)) <= Cardinality(Adding(rb, w)) BY <1>2, CountTypes, FS_Subset
<1> QED BY <1>3, CountTypes

LEMMA WanInitHolds == WanInit => WanInv
<1> SUFFICES ASSUME WanInit PROVE WanInv OBVIOUS
<1>1. PICK health \in [Wans -> {"UNKNOWN", "HEALTHY"}] :
        wan = [w \in Wans |-> [gateway |-> CHOOSE g \in Gateways : TRUE, enabled |-> TRUE, drain |-> FALSE,
                               health |-> health[w], answers |-> 0]] BY DEF WanInit
<1>2. (CHOOSE g \in Gateways : TRUE) \in Gateways BY WanAssumption
<1>3. wan \in [Wans -> WanRows] /\ \A w \in Wans : wan[w].answers = 0
 <2>1. 0 \in 0..RecoveryThreshold BY WanAssumption
 <2> QED BY <1>1,<1>2,<2>1 DEF WanRows, Healths
<1>4. reb \in [Rebalancers -> RebRows] /\ \A r \in Rebalancers : reb[r] = IdleReb BY IdleFits DEF WanInit
<1>5. routes = <<>> /\ routes \in Seq(Routes) /\ DOMAIN routes = {} /\ ~raced /\ raced \in BOOLEAN /\ wanFaults \in Nat /\ applied = NoPlan
 <2>1. routes = <<>> /\ raced = FALSE /\ wanFaults = 0 /\ applied = NoPlan BY DEF WanInit
 <2>2. <<>> \in Seq(Routes) /\ DOMAIN <<>> = {} OBVIOUS
 <2> QED BY <2>1,<2>2
<1>6. priority \in [Wans -> Nat] BY WansType DEF WanInit
<1>7. WanTypes BY <1>3,<1>4,<1>5,<1>6 DEF WanTypes
<1>8. \A r \in Rebalancers : RebFits(reb[r], routes) BY <1>4, IdleFits
<1>9. CountsFit
 <2>1. SUFFICES ASSUME NEW w \in Wans PROVE Cardinality(RoutesIn(routes, w)) + Cardinality(Adding(reb, w)) <= AtOnce BY DEF CountsFit
 <2>2. RoutesIn(routes, w) = {} BY <1>5 DEF RoutesIn
 <2>3. Adding(reb, w) = {} BY <1>4, IdleFits DEF Adding
 <2>4. Cardinality({}) = 0 BY FS_EmptySet
 <2>5. AtOnce = 1 BY <1>5, Zenon DEF AtOnce
 <2> QED BY <2>2,<2>3,<2>4,<2>5
<1>10. OneRebalance /\ WritesLast BY <1>4, IdleFits DEF OneRebalance, WritesLast, Wrote
<1>11. AppliedFits BY <1>5 DEF AppliedFits
<1> QED BY <1>7,<1>8,<1>9,<1>10,<1>11 DEF WanInv

\* A set of places of a sequence has a last one.
LEMMA LastRoute == ASSUME NEW rts \in Seq(Routes), NEW w, RoutesIn(rts, w) # {} PROVE \E i \in RoutesIn(rts, w) : \A j \in RoutesIn(rts, w) : j <= i
<1>1. RoutesIn(rts, w) \subseteq 1..Len(rts) /\ Len(rts) \in Nat BY DEF RoutesIn
<1>2. IsFiniteSet(RoutesIn(rts, w)) BY CountTypes
<1> PICK g : g = [i \in RoutesIn(rts, w) |-> i] OBVIOUS
<1>3. \A x \in RoutesIn(rts, w) : g[x] \in Int /\ g[x] = x BY <1>1
<1>4. \E x \in RoutesIn(rts, w) : \A y \in RoutesIn(rts, w) : g[y] <= g[x] BY <1>2,<1>3, GreatestValue
<1> QED BY <1>3,<1>4

\* A write to the router: t is in its route i of rts, or, if i is 0, in one more.
IsPut(new, rts, t, i) ==
  /\ new \in Seq(Routes) /\ DOMAIN rts \subseteq DOMAIN new
  /\ \A j \in DOMAIN rts : new[j].wan = rts[j].wan
  /\ \A j \in DOMAIN rts : rts[j].wan # t.wan => new[j] = rts[j]
  /\ \E j \in DOMAIN new : new[j] = t
  /\ \A w : w # t.wan => RoutesIn(new, w) = RoutesIn(rts, w)
  /\ i # 0 => RoutesIn(new, t.wan) = RoutesIn(rts, t.wan)
  /\ i = 0 => RoutesIn(new, t.wan) = RoutesIn(rts, t.wan) \cup {Len(rts) + 1} /\ Len(rts) + 1 \notin RoutesIn(rts, t.wan)

LEMMA RoutePut ==
  ASSUME NEW rts \in Seq(Routes), NEW t \in Routes, NEW i, i = 0 \/ (i \in DOMAIN rts /\ rts[i].wan = t.wan),
      NEW new, new = IF i = 0 THEN Append(rts, t) ELSE [rts EXCEPT ![i] = t]
  PROVE IsPut(new, rts, t, i)
<1> HIDE DEF Routes
<1>1. DOMAIN rts = 1..Len(rts) /\ Len(rts) \in Nat OBVIOUS
<1>2. CASE i = 0
 <2>1. new = Append(rts, t) BY <1>2
 <2>2. /\ new \in Seq(Routes) /\ DOMAIN new = 1..(Len(rts) + 1) /\ new[Len(rts) + 1] = t
       /\ \A j \in 1..Len(rts) : new[j] = rts[j] BY <2>1
 <2>3. DOMAIN new = DOMAIN rts \cup {Len(rts) + 1} /\ Len(rts) + 1 \notin DOMAIN rts BY <1>1,<2>2
 <2>4. \A w : w # t.wan => RoutesIn(new, w) = RoutesIn(rts, w) BY <1>1,<2>2,<2>3 DEF RoutesIn
 <2>5. RoutesIn(new, t.wan) = RoutesIn(rts, t.wan) \cup {Len(rts) + 1} BY <1>1,<2>2,<2>3 DEF RoutesIn
 <2>6. Len(rts) + 1 \notin RoutesIn(rts, t.wan) BY <2>3 DEF RoutesIn
 <2> QED BY <1>1,<1>2,<2>2,<2>3,<2>4,<2>5,<2>6 DEF IsPut
<1>3. CASE i # 0
 <2>1. new = [rts EXCEPT ![i] = t] /\ i \in DOMAIN rts /\ rts[i].wan = t.wan BY <1>3
 <2>2. DOMAIN new = DOMAIN rts /\ new[i] = t /\ \A j \in DOMAIN rts \ {i} : new[j] = rts[j] BY <2>1
 <2>3. new \in Seq(Routes) BY <1>1,<2>1
 <2>4. \A j \in DOMAIN rts : new[j].wan = rts[j].wan BY <2>1,<2>2
 <2>5. \A w : RoutesIn(new, w) = RoutesIn(rts, w) BY <2>2,<2>4 DEF RoutesIn
 <2> QED BY <1>3,<2>1,<2>2,<2>3,<2>4,<2>5 DEF IsPut
<1> QED BY <1>2,<1>3

\* The decision and the order are what the priorities make them.
LEMMA PlanIsFit == ASSUME WanTypes PROVE PlanFits(Plan)
<1>1. Ordered \in [1..NumWans -> Wans] /\ NumWans \in Nat /\ Wans = 1..NumWans BY WansType, OrderedIsAll DEF WanTypes
<1>2. \A i \in 1..NumWans : Plan[i] = [wan |-> Ordered[i], gateway |-> wan[Ordered[i]].gateway, distance |-> i, disabled |-> ~Eligible(Ordered[i])]
  BY DEF Plan
<1>3. \A i \in 1..NumWans : Ordered[i] \in Wans /\ wan[Ordered[i]].gateway \in Gateways BY <1>1 DEF WanTypes, WanRows
<1>4. \A i \in 1..NumWans : Plan[i] \in Routes /\ Plan[i].wan = Ordered[i] /\ Plan[i].disabled = ~Eligible(Ordered[i])
 <2>1. TAKE i \in 1..NumWans
 <2> PICK e \in BOOLEAN : e = ~Eligible(Ordered[i]) OBVIOUS
 <2>2. Plan[i] = [wan |-> Ordered[i], gateway |-> wan[Ordered[i]].gateway, distance |-> i, disabled |-> e] BY <1>2
 <2>3. i \in Wans BY <1>1
 <2> QED BY <1>3,<2>2,<2>3 DEF Routes
<1>5. DOMAIN Plan = 1..NumWans BY DEF Plan
<1>6. Plan \in [1..NumWans -> Routes] BY <1>4,<1>5 DEF Plan
<1>7. Plan \in Seq(Routes) /\ Len(Plan) = NumWans BY <1>1,<1>6
<1>8. ASSUME NEW i \in 1..NumWans, NEW j \in 1..NumWans, ~Plan[i].disabled, ~Plan[j].disabled PROVE priority[Plan[i].wan] = priority[Plan[j].wan]
 <2>1. Eligible(Ordered[i]) /\ Eligible(Ordered[j]) BY <1>4,<1>8
 <2>2. priority[Ordered[i]] \in Nat /\ priority[Ordered[j]] \in Nat BY <1>3 DEF WanTypes
 <2>3. priority[Ordered[i]] <= priority[Ordered[j]] /\ priority[Ordered[j]] <= priority[Ordered[i]] BY <1>3,<2>1 DEF Eligible
 <2>4. priority[Ordered[i]] = priority[Ordered[j]] BY <2>2,<2>3
 <2> QED BY <1>4,<2>4
<1> QED BY <1>4,<1>7,<1>8 DEF PlanFits

LEMMA SameOrder ==
  ASSUME UNCHANGED priority PROVE Ordered' = Ordered /\ (\A plan : PlanFits(plan) => PlanFits(plan)') /\ \A k, w : Adds(k, w)' <=> Adds(k, w)
<1>1. Ordered' = Ordered BY DEF Ordered, Place
<1>2. \A plan : PlanFits(plan) => PlanFits(plan)' BY <1>1 DEF PlanFits
<1>3. \A k, w : Adds(k, w)' <=> Adds(k, w) BY <1>1 DEF Adds
<1> QED BY <1>1,<1>2,<1>3

LEMMA OnceType == ASSUME raced \in BOOLEAN PROVE AtOnce \in Nat /\ (raced => AtOnce = Cardinality(Rebalancers)) /\ (~raced => AtOnce = 1)
<1>1. Cardinality(Rebalancers) \in Nat BY WanAssumption, FS_CardinalityType
<1> QED BY <1>1 DEF AtOnce

\* A step of one rebalance r, which then has the local k and adds no more than before.
\* The routes stay what they are.
LEMMA RebMoves ==
  ASSUME WanInv, NEW r \in Rebalancers, NEW k \in RebRows, RebFits(k, routes), reb' = [reb EXCEPT ![r] = k],
      UNCHANGED <<priority, routes>>, raced' \in BOOLEAN, raced => raced'
  PROVE  /\ \A s \in Rebalancers : RebFits(reb[s], routes)'
         /\ reb' \in [Rebalancers -> RebRows] /\ reb'[r] = k /\ \A s \in Rebalancers \ {r} : reb'[s] = reb[s]
         /\ (\A w \in Wans : ~Adds(k, w)) => CountsFit'
<1>1. reb \in [Rebalancers -> RebRows] /\ routes \in Seq(Routes) /\ raced \in BOOLEAN BY DEF WanInv, WanTypes
<1>2. reb' \in [Rebalancers -> RebRows] /\ reb'[r] = k /\ \A s \in Rebalancers \ {r} : reb'[s] = reb[s]
 <2> HIDE DEF RebRows
 <2> QED BY <1>1
<1>3. \A s \in Rebalancers : RebFits(reb[s], routes)'
 <2>1. SUFFICES ASSUME NEW s \in Rebalancers PROVE RebFits(reb[s], routes)' OBVIOUS
 <2> PICK c : c = reb'[s] OBVIOUS
 <2>2. RebFits(c, routes) BY <1>2 DEF WanInv
 <2>3. RebFits(c, routes)' BY <2>2, SameOrder DEF RebFits
 <2> QED BY <2>3 DEF RebFits
<1>4. ASSUME \A w \in Wans : ~Adds(k, w) PROVE CountsFit'
 <2>1. SUFFICES ASSUME NEW w \in Wans PROVE (Cardinality(RoutesIn(routes, w)) + Cardinality(Adding(reb, w)) <= AtOnce)' BY DEF CountsFit
 <2>2. Cardinality(RoutesIn(routes, w)) + Cardinality(Adding(reb, w)) <= AtOnce BY DEF WanInv, CountsFit
 <2>3. AtOnce \in Nat BY <1>1, OnceType
 <2>4. Cardinality(RoutesIn(routes, w)) + Cardinality(Adding([reb EXCEPT ![r] = k], w)) <= AtOnce
  <3>1. Adds(k, w) => Adds(reb[r], w) BY <1>4
  <3> HIDE DEF RebRows, Adding, Adds, RoutesIn, AtOnce
  <3> QED BY ONLY <1>1,<2>2,<2>3,<3>1, k \in RebRows, r \in Rebalancers, NoMoreAdded
 <2>5. Adding(reb, w)' = Adding([reb EXCEPT ![r] = k], w)
  <3>1. reb' = [reb EXCEPT ![r] = k] OBVIOUS
  <3> PICK rb : rb = reb' OBVIOUS
  <3>2. \A s \in Rebalancers : Adds(rb[s], w)' <=> Adds(rb[s], w) BY SameOrder
  <3>3. Adding(rb, w)' = Adding(rb, w) BY <3>2 DEF Adding
  <3>4. Adding(reb, w)' = Adding(rb, w)' BY DEF Adding, Adds
  <3> QED BY <3>1,<3>3,<3>4
 <2>6. AtOnce <= AtOnce' /\ AtOnce' \in Nat
  <3>1. Cardinality(Rebalancers) \in Nat /\ Cardinality(Rebalancers) # 0 BY WanAssumption, FS_CardinalityType, FS_EmptySet
  <3>2. AtOnce' = IF raced' THEN Cardinality(Rebalancers) ELSE 1 BY DEF AtOnce
  <3> QED BY <1>1,<3>1,<3>2, OnceType
 <2>7. RoutesIn(routes, w)' = RoutesIn(routes, w) BY DEF RoutesIn
 <2>8. Cardinality(RoutesIn(routes, w)) \in Nat /\ Cardinality(Adding([reb EXCEPT ![r] = k], w)) \in Nat BY <1>1, CountTypes
 <2> QED BY <2>3,<2>4,<2>5,<2>6,<2>7,<2>8
<1> QED BY <1>2,<1>3,<1>4

\* A step of the operators or the monitor leaves the routes alone.
LEMMA WanMoves ==
  ASSUME WanInv, UNCHANGED <<priority, routes, reb, applied, raced, wanFaults>>, NEW w \in Wans, NEW k \in WanRows,
      wan' = [wan EXCEPT ![w] = k], k.health = "UNAVAILABLE" /\ RecoveryThreshold # 1 => k.answers = 0
  PROVE WanInv'
<1>1. wan \in [Wans -> WanRows] BY DEF WanInv, WanTypes
<1>2. wan' \in [Wans -> WanRows] /\ wan'[w] = k /\ \A v \in Wans \ {w} : wan'[v] = wan[v]
 <2> HIDE DEF WanRows
 <2> QED BY <1>1
<1>3. \A v \in Wans : wan'[v].health = "UNAVAILABLE" /\ RecoveryThreshold # 1 => wan'[v].answers = 0 BY <1>2 DEF WanInv, WanTypes
<1>4. WanTypes' BY <1>2,<1>3 DEF WanInv, WanTypes
<1>5. (\A r \in Rebalancers : RebFits(reb[r], routes))' /\ CountsFit' /\ OneRebalance' /\ WritesLast' /\ AppliedFits'
 <2>1. Ordered' = Ordered BY DEF Ordered, Place
 <2>2. (\A r \in Rebalancers : RebFits(reb[r], routes))' BY <2>1 DEF WanInv, RebFits, PlanFits
 <2>3. CountsFit'
  <3>1. \A v \in Wans : Adding(reb, v)' = Adding(reb, v) BY <2>1 DEF Adding, Adds
  <3>2. \A v \in Wans : RoutesIn(routes, v)' = RoutesIn(routes, v) BY DEF RoutesIn
  <3>3. AtOnce' = AtOnce BY DEF AtOnce
  <3> QED BY <3>1,<3>2,<3>3 DEF WanInv, CountsFit
 <2>4. OneRebalance' /\ WritesLast' BY DEF WanInv, OneRebalance, WritesLast, Wrote
 <2>5. AppliedFits'
  <3>1. PlanFits(applied)' <=> PlanFits(applied) BY <2>1 DEF PlanFits
  <3>2. AtRest' <=> AtRest BY DEF AtRest
  <3>3. ToSet(routes)' = ToSet(routes) /\ ToSet(applied)' = ToSet(applied) OBVIOUS
  <3> QED BY <3>1,<3>2,<3>3 DEF WanInv, AppliedFits
 <2> QED BY <2>2,<2>3,<2>4,<2>5
<1> QED BY <1>4,<1>5 DEF WanInv

LEMMA UpdateWanKeeps ==
  ASSUME WanInv, NEW w \in Wans, NEW gateway \in Gateways, NEW enabled \in BOOLEAN, NEW drain \in BOOLEAN, UpdateWan(w, gateway, enabled, drain)
  PROVE WanInv' /\ \A v \in Wans : wan[v].health = "UNAVAILABLE" /\ wan'[v].health # "UNAVAILABLE" =>
                      wan'[v].health \in {"DISABLED", "DRAINING"}
<1>1. wan \in [Wans -> WanRows] /\ wan[w] \in WanRows BY DEF WanInv, WanTypes
<1> PICK h : h = IF ~enabled THEN "DISABLED" ELSE IF drain THEN "DRAINING" ELSE wan[w].health OBVIOUS
<1> PICK k : k = [wan[w] EXCEPT !.gateway = gateway, !.enabled = enabled, !.drain = drain, !.health = h] OBVIOUS
<1>2. wan' = [wan EXCEPT ![w] = k] BY <1>1 DEF UpdateWan
<1>3. h \in Healths BY <1>1 DEF WanRows, Healths
<1>4. k \in WanRows /\ k.health = h /\ k.answers = wan[w].answers BY <1>1,<1>3 DEF WanRows
<1>5. h = "UNAVAILABLE" => wan[w].health = "UNAVAILABLE" OBVIOUS
<1>6. k.health = "UNAVAILABLE" /\ RecoveryThreshold # 1 => k.answers = 0 BY <1>4,<1>5 DEF WanInv, WanTypes
<1>7. UNCHANGED <<priority, routes, reb, applied, raced, wanFaults>> BY DEF UpdateWan
<1>8. WanInv' BY <1>2,<1>4,<1>6,<1>7, WanMoves
<1>9. wan'[w] = k /\ \A v \in Wans \ {w} : wan'[v] = wan[v] BY <1>1,<1>2
<1>10. wan[w].health = "UNAVAILABLE" /\ h # "UNAVAILABLE" => h \in {"DISABLED", "DRAINING"} OBVIOUS
<1> QED BY <1>4,<1>8,<1>9,<1>10

LEMMA ProbeKeeps ==
  ASSUME WanInv, NEW w \in Wans, NEW success \in BOOLEAN, NEW busy \in BOOLEAN, Probe(w, success, busy)
  PROVE WanInv' /\ \A v \in Wans : wan[v].health = "UNAVAILABLE" /\ wan'[v].health # "UNAVAILABLE" =>
                      wan'[v].health \in {"RECOVERING"} \cup (IF RecoveryThreshold = 1 THEN {"DEGRADED"} ELSE {})
<1>1. wan \in [Wans -> WanRows] /\ wan[w] \in WanRows BY DEF WanInv, WanTypes
<1>2. RecoveryThreshold \in Nat \ {0} /\ wan[w].answers \in 0..RecoveryThreshold BY <1>1, WanAssumption DEF WanRows
<1> PICK a : a = IF ~success THEN 0 ELSE IF wan[w].answers < RecoveryThreshold THEN wan[w].answers + 1 ELSE RecoveryThreshold OBVIOUS
<1> PICK h : h = HealthAfter(wan[w].health, success, a, busy) OBVIOUS
<1> PICK k : k = [wan[w] EXCEPT !.answers = a, !.health = h] OBVIOUS
<1>3. wan' = [wan EXCEPT ![w] = k] BY <1>1 DEF Probe
<1>4. a \in 0..RecoveryThreshold BY <1>2
<1>5. h \in Healths BY <1>1 DEF WanRows, Healths, HealthAfter
<1>6. k \in WanRows /\ k.health = h /\ k.answers = a BY <1>1,<1>4,<1>5 DEF WanRows
<1>7. wan[w].health = "UNAVAILABLE" /\ RecoveryThreshold # 1 => wan[w].answers = 0 BY DEF WanInv, WanTypes
<1>8. success /\ wan[w].health = "UNAVAILABLE" => IF RecoveryThreshold = 1 THEN a >= RecoveryThreshold ELSE a < RecoveryThreshold BY <1>2,<1>7
<1>10. wan[w].health = "UNAVAILABLE" /\ h # "UNAVAILABLE" => h = "RECOVERING" \/ (h = "DEGRADED" /\ RecoveryThreshold = 1)
  BY <1>2,<1>4,<1>8 DEF HealthAfter
<1>11. success /\ h = "UNAVAILABLE" => wan[w].health = "UNAVAILABLE" BY DEF HealthAfter
<1>12. h = "UNAVAILABLE" /\ RecoveryThreshold # 1 => a = 0
 <2>1. CASE ~success BY <2>1
 <2>2. CASE success BY <1>2,<1>4,<1>8,<1>11,<2>2 DEF HealthAfter
 <2> QED BY <2>1,<2>2
<1>13. UNCHANGED <<priority, routes, reb, applied, raced, wanFaults>> BY DEF Probe
<1>14. WanInv' BY <1>3,<1>6,<1>12,<1>13, WanMoves
<1>15. wan'[w] = k /\ \A v \in Wans \ {w} : wan'[v] = wan[v] BY <1>1,<1>3
<1> QED BY <1>6,<1>10,<1>14,<1>15

LEMMA DecideKeeps == ASSUME WanInv, NEW r \in Rebalancers, Decide(r) PROVE WanInv'
<1>0. WanTypes BY DEF WanInv
<1> PICK k : k = [IdleReb EXCEPT !.at = "list", !.plan = Plan] OBVIOUS
<1>1. reb[r].at = "idle" /\ reb' = [reb EXCEPT ![r] = k] BY DEF Decide, RebAt, RebMove
<1>2. PlanFits(Plan) BY <1>0, PlanIsFit
<1>3. k \in RebRows /\ k.at = "list" /\ k.plan = Plan
 <2>1. Plan \in Seq(Routes) BY <1>2 DEF PlanFits
 <2> QED BY <2>1, IdleFits DEF RebRows
<1>4. RebFits(k, routes) /\ \A w \in Wans : ~Adds(k, w) BY <1>2,<1>3 DEF RebFits, Adds
<1>5. raced \in BOOLEAN /\ raced' \in BOOLEAN /\ (raced => raced') /\ (~raced' => ~raced /\ \A s \in Rebalancers : reb[s].at = "idle")
  BY <1>0 DEF WanTypes, Decide, RebAt
<1>6. UNCHANGED <<wan, priority, routes, applied, wanFaults>> BY DEF Decide
<1>7. /\ \A s \in Rebalancers : RebFits(reb[s], routes)'
      /\ reb' \in [Rebalancers -> RebRows] /\ reb'[r] = k /\ \A s \in Rebalancers \ {r} : reb'[s] = reb[s]
      /\ CountsFit' BY <1>1,<1>3,<1>4,<1>5,<1>6, RebMoves
<1>8. WanTypes' BY <1>0,<1>5,<1>6,<1>7 DEF WanTypes
<1>9. OneRebalance' BY <1>5,<1>7 DEF OneRebalance
<1>10. WritesLast'
 <2>1. ASSUME ~raced', NEW s \in Rebalancers PROVE reb'[s].at \in {"idle", "list"} BY <1>3,<1>5,<1>7,<2>1
 <2> QED BY <2>1 DEF WritesLast, Wrote
<1>11. AppliedFits'
 <2>1. AtRest' => AtRest
  <3>1. SUFFICES ASSUME AtRest', NEW s \in Rebalancers PROVE reb[s].at \in {"idle", "list"} BY DEF AtRest
  <3>2. CASE s = r BY <1>1,<3>2
  <3>3. CASE s # r BY <1>7,<3>1,<3>3 DEF AtRest
  <3> QED BY <3>2,<3>3
 <2>2. PlanFits(applied) => PlanFits(applied)' BY <1>6, SameOrder DEF PlanFits
 <2>3. ToSet(routes)' = ToSet(routes) /\ ToSet(applied)' = ToSet(applied) BY <1>6
 <2> QED BY <1>5,<1>6,<2>1,<2>2,<2>3 DEF WanInv, AppliedFits
<1> QED BY <1>7,<1>8,<1>9,<1>10,<1>11 DEF WanInv

\* A rebalance that is neither idle nor deciding leaves nothing to show of the plan
\* that is in force.
LEMMA AppliedLater == ASSUME WanInv, NEW r \in Rebalancers, reb'[r].at \notin {"idle", "list"}, UNCHANGED <<priority, applied>> PROVE AppliedFits'
<1>1. ~AtRest' BY DEF AtRest
<1>2. PlanFits(applied) => PlanFits(applied)' BY SameOrder DEF PlanFits
<1> QED BY <1>1,<1>2 DEF WanInv, AppliedFits

LEMMA AloneStill ==
  ASSUME WanInv, NEW r \in Rebalancers, reb[r].at # "idle", \A s \in Rebalancers \ {r} : reb'[s] = reb[s], UNCHANGED raced
  PROVE OneRebalance' /\ (~raced => \A s \in Rebalancers \ {r} : reb'[s].at = "idle")
<1>1. ~raced => \A s \in Rebalancers \ {r} : reb[s].at = "idle" BY DEF WanInv, OneRebalance
<1> QED BY <1>1 DEF OneRebalance

LEMMA ListRoutesKeeps == ASSUME WanInv, NEW r \in Rebalancers, ListRoutes(r) PROVE WanInv'
<1>0. WanTypes /\ reb \in [Rebalancers -> RebRows] /\ routes \in Seq(Routes) BY DEF WanInv, WanTypes
<1> PICK seen : seen = [w \in Wans |-> IF RoutesOf(w) = {} THEN 0 ELSE CHOOSE i \in RoutesOf(w) : \A j \in RoutesOf(w) : j <= i] OBVIOUS
<1> PICK k : k = [reb[r] EXCEPT !.at = "write", !.next = 1, !.seen = seen] OBVIOUS
<1>1. reb[r].at = "list" /\ reb' = [reb EXCEPT ![r] = k] BY DEF ListRoutes, RebAt, RebMove
<1>2. \A w \in Wans : IF RoutesIn(routes, w) = {} THEN seen[w] = 0 ELSE seen[w] \in RoutesIn(routes, w)
 <2>1. SUFFICES ASSUME NEW w \in Wans PROVE IF RoutesIn(routes, w) = {} THEN seen[w] = 0 ELSE seen[w] \in RoutesIn(routes, w) OBVIOUS
 <2>2. RoutesOf(w) = RoutesIn(routes, w) BY DEF RoutesOf, RoutesIn
 <2>3. CASE RoutesIn(routes, w) = {} BY <2>2,<2>3
 <2>4. CASE RoutesIn(routes, w) # {}
  <3>1. \E i \in RoutesIn(routes, w) : \A j \in RoutesIn(routes, w) : j <= i BY <1>0,<2>4, LastRoute
  <3>2. seen[w] = CHOOSE i \in RoutesIn(routes, w) : \A j \in RoutesIn(routes, w) : j <= i BY <2>2,<2>4
  <3> QED BY <2>4,<3>1,<3>2
 <2> QED BY <2>3,<2>4
<1>3. \A w \in Wans : RoutesIn(routes, w) \subseteq 1..Len(routes) /\ Len(routes) \in Nat BY <1>0 DEF RoutesIn
<1>4. seen \in [Wans -> Nat] /\ \A w \in Wans : seen[w] # 0 => seen[w] \in DOMAIN routes /\ routes[seen[w]].wan = w
 <2>1. \A w \in Wans : seen[w] \in Nat
  <3>1. TAKE w \in Wans
  <3>2. CASE RoutesIn(routes, w) = {}
   <4>1. seen[w] = 0 BY <1>2,<3>2
   <4> QED BY ONLY <4>1, 0 \in Nat
  <3>3. CASE RoutesIn(routes, w) # {}
   <4>1. seen[w] \in RoutesIn(routes, w) BY <1>2,<3>3
   <4> QED BY <1>3,<4>1
  <3> QED BY <3>2,<3>3
 <2>2. DOMAIN seen = Wans OBVIOUS
 <2> QED BY <1>2,<2>1,<2>2 DEF RoutesIn
<1>5. k \in RebRows /\ k.at = "write" /\ k.next = 1 /\ k.seen = seen /\ k.plan = reb[r].plan
 <2> PICK old \in RebRows : old = reb[r] BY <1>0
 <2>1. k = [old EXCEPT !.at = "write", !.next = 1, !.seen = seen] OBVIOUS
 <2>2. old \in RebRows OBVIOUS
 <2>3. seen \in [Wans -> Nat] BY <1>4
 <2> QED BY ONLY <2>1,<2>2,<2>3, old = reb[r] DEF RebRows
<1>6. RebFits(reb[r], routes) BY DEF WanInv
<1>7. RebFits(k, routes)
 <2>1. 1 \in 1..NumWans BY WansType
 <2> QED BY <1>1,<1>4,<1>5,<1>6,<2>1 DEF RebFits
<1>8. UNCHANGED <<wan, priority, routes, applied, raced, wanFaults>> BY DEF ListRoutes
<1>9. /\ \A s \in Rebalancers : RebFits(reb[s], routes)'
      /\ reb' \in [Rebalancers -> RebRows] /\ reb'[r] = k /\ \A s \in Rebalancers \ {r} : reb'[s] = reb[s]
 <2>1. raced' \in BOOLEAN /\ (raced => raced') BY <1>0,<1>8 DEF WanTypes
 <2> QED BY <1>1,<1>5,<1>7,<1>8,<2>1, RebMoves
<1>10. OneRebalance' /\ (~raced => \A s \in Rebalancers \ {r} : reb'[s].at = "idle") BY <1>1,<1>8,<1>9, AloneStill
<1>11. CountsFit'
 <2>1. SUFFICES ASSUME NEW w \in Wans PROVE (Cardinality(RoutesIn(routes, w)) + Cardinality(Adding(reb, w)) <= AtOnce)' BY DEF CountsFit
 <2> PICK rb : rb = reb' OBVIOUS
 <2>2. RoutesIn(routes, w)' = RoutesIn(routes, w) /\ AtOnce' = AtOnce BY <1>8 DEF RoutesIn, AtOnce
 <2>3. Adding(reb, w)' = Adding(rb, w)
  <3>1. \A s \in Rebalancers : Adds(rb[s], w)' <=> Adds(rb[s], w) BY <1>8, SameOrder
  <3>2. Adding(rb, w)' = Adding(rb, w) BY <3>1 DEF Adding
  <3>3. Adding(reb, w)' = Adding(rb, w)' BY DEF Adding, Adds
  <3> QED BY <3>2,<3>3
 <2>4. Cardinality(RoutesIn(routes, w)) + Cardinality(Adding(reb, w)) <= AtOnce BY DEF WanInv, CountsFit
 <2>5. AtOnce \in Nat /\ (raced => AtOnce = Cardinality(Rebalancers)) /\ (~raced => AtOnce = 1) /\ raced \in BOOLEAN BY <1>0, OnceType DEF WanTypes
 <2>6. CASE RoutesIn(routes, w) = {}
  <3>1. Cardinality(RoutesIn(routes, w)) = 0 BY <2>6, FS_EmptySet
  <3>2. CASE raced BY <1>0,<2>2,<2>3,<2>5,<3>1,<3>2, CountTypes
  <3>3. CASE ~raced
   <4>1. Adding(rb, w) \in SUBSET {r} BY <1>10,<3>3 DEF Adding, Adds
   <4>2. IsFiniteSet({r}) /\ Cardinality({r}) = 1 BY FS_Singleton
   <4>3. Cardinality(Adding(rb, w)) <= 1 BY <4>1,<4>2, FS_Subset
   <4>4. Cardinality(Adding(rb, w)) \in Nat BY <1>0, CountTypes
   <4> QED BY <2>2,<2>3,<2>5,<3>1,<3>3,<4>3,<4>4
  <3> QED BY <3>2,<3>3
 <2>7. CASE RoutesIn(routes, w) # {}
  <3>1. seen[w] # 0 BY <1>2,<1>3,<2>7
  <3>2. ~Adds(k, w) BY <1>5,<3>1 DEF Adds
  <3>3. rb = [reb EXCEPT ![r] = k] BY <1>1
  <3>4. Cardinality(RoutesIn(routes, w)) + Cardinality(Adding(rb, w)) <= AtOnce
   <4>1. AtOnce \in Nat /\ k \in RebRows /\ (Adds(k, w) => Adds(reb[r], w)) BY <1>5,<2>5,<3>2
   <4> HIDE DEF RebRows, Adding, Adds, RoutesIn, AtOnce
   <4> QED BY ONLY <1>0,<2>4,<3>3,<4>1, r \in Rebalancers, NoMoreAdded
  <3> QED BY <2>2,<2>3,<3>4
 <2> QED BY <2>6,<2>7
<1>12. WritesLast'
 <2>1. \A i \in 1..NumWans : ~Wrote(k, i) BY <1>5 DEF Wrote
 <2>2. ASSUME ~raced', NEW s \in Rebalancers, NEW i \in 1..NumWans PROVE ~Wrote(reb'[s], i)
  <3>1. CASE s = r BY <1>9,<2>1,<3>1
  <3>2. CASE s # r
   <4>1. reb'[s].at = "idle" BY <1>8,<1>10,<2>2,<3>2
   <4> QED BY <4>1 DEF Wrote
  <3> QED BY <3>1,<3>2
 <2>3. \A s \in Rebalancers : \A i \in 1..NumWans : Wrote(reb[s], i)' <=> Wrote(reb'[s], i) BY DEF Wrote
 <2> QED BY <2>2,<2>3 DEF WritesLast
<1>13. AppliedFits' BY <1>5,<1>8,<1>9, AppliedLater
<1>14. WanTypes' BY <1>0,<1>8,<1>9 DEF WanTypes
<1> QED BY <1>9,<1>10,<1>11,<1>12,<1>13,<1>14 DEF WanInv

\* A rebalance r writes its next route t, and goes on, or fails after the router did it.
WritesNext(r, t, k) ==
  /\ reb[r].at = "write" /\ t = reb[r].plan[reb[r].next] /\ routes' = Written(t, reb[r].seen[t.wan])
  /\ k \in RebRows /\ reb' = [reb EXCEPT ![r] = k] /\ UNCHANGED <<priority, raced>>
  /\ \/ k = IdleReb
     \/ k.at = "verify" /\ k.plan = reb[r].plan /\ reb[r].next = NumWans
     \/ /\ k.at = "write" /\ k.plan = reb[r].plan /\ reb[r].next # NumWans
        /\ k.next = reb[r].next + 1 /\ k.seen = reb[r].seen

LEMMA RouteWrites ==
  ASSUME WanInv, NEW r \in Rebalancers, NEW t, NEW k, WritesNext(r, t, k)
  PROVE  /\ routes' \in Seq(Routes) /\ reb' \in [Rebalancers -> RebRows] /\ reb'[r] = k
         /\ \A s \in Rebalancers : RebFits(reb[s], routes)'
         /\ CountsFit' /\ OneRebalance' /\ WritesLast'
<1>a. k \in RebRows /\ reb[r].at = "write" /\ t = reb[r].plan[reb[r].next] BY DEF WritesNext
<1>b. reb' = [reb EXCEPT ![r] = k] BY DEF WritesNext
<1>c. UNCHANGED <<priority, raced>> BY DEF WritesNext
<1>0. /\ reb \in [Rebalancers -> RebRows] /\ routes \in Seq(Routes) /\ raced \in BOOLEAN /\ priority \in [Wans -> Nat] BY DEF WanInv, WanTypes
<1> PICK old \in RebRows : old = reb[r] BY <1>0
<1> PICK n : n = old.next OBVIOUS
<1>d. \/ k = IdleReb
      \/ k.at = "verify" /\ k.plan = old.plan /\ n = NumWans
      \/ k.at = "write" /\ k.plan = old.plan /\ n # NumWans /\ k.next = n + 1 /\ k.seen = old.seen BY DEF WritesNext
<1>1. RebFits(old, routes) /\ old.at = "write" BY <1>a DEF WanInv
<1>2. PlanFits(old.plan) /\ n \in 1..NumWans /\ \A w \in Wans : old.seen[w] # 0 => old.seen[w] \in DOMAIN routes /\ routes[old.seen[w]].wan = w
  BY <1>1 DEF RebFits
<1>3. NumWans \in Nat /\ Wans = 1..NumWans BY WansType
<1>n. n \in Nat /\ 1 <= n /\ n <= NumWans BY ONLY <1>2,<1>3
<1>4. t = old.plan[n] /\ t \in Routes /\ t.wan = Ordered[n] /\ t.wan \in Wans
 <2>1. t = old.plan[n] BY <1>a
 <2>2. old.plan \in Seq(Routes) /\ n \in 1..Len(old.plan) BY <1>2 DEF PlanFits
 <2>3. t \in Routes
  <3> HIDE DEF Routes
  <3> QED BY <2>1,<2>2
 <2>4. t.wan = Ordered[n] BY <1>2,<2>1 DEF PlanFits
 <2>5. t.wan \in Wans BY <2>3 DEF Routes
 <2> QED BY <2>1,<2>3,<2>4,<2>5
<1> PICK i : i = old.seen[t.wan] OBVIOUS
<1>5. i = 0 \/ (i \in DOMAIN routes /\ routes[i].wan = t.wan) BY <1>2,<1>4
<1> PICK new : new = routes' OBVIOUS
<1>6. new = IF i = 0 THEN Append(routes, t) ELSE [routes EXCEPT ![i] = t] BY DEF Written, WritesNext
<1>7. /\ new \in Seq(Routes) /\ DOMAIN routes \subseteq DOMAIN new
      /\ \A j \in DOMAIN routes : new[j].wan = routes[j].wan
      /\ \A j \in DOMAIN routes : routes[j].wan # t.wan => new[j] = routes[j]
      /\ \E j \in DOMAIN new : new[j] = t
      /\ \A w : w # t.wan => RoutesIn(new, w) = RoutesIn(routes, w)
      /\ i # 0 => RoutesIn(new, t.wan) = RoutesIn(routes, t.wan)
      /\ i = 0 => RoutesIn(new, t.wan) = RoutesIn(routes, t.wan) \cup {Len(routes) + 1} /\ Len(routes) + 1 \notin RoutesIn(routes, t.wan)
 <2>1. routes \in Seq(Routes) BY ONLY <1>0
 <2>2. t \in Routes BY ONLY <1>4
 <2> HIDE DEF Routes, RoutesIn
 <2>3. IsPut(new, routes, t, i)
  <3> HIDE DEF IsPut
  <3> QED BY ONLY <2>1,<2>2,<1>5,<1>6, RoutePut
 <2> QED BY ONLY <2>3 DEF IsPut
<1>8. reb' \in [Rebalancers -> RebRows] /\ reb'[r] = k /\ \A s \in Rebalancers \ {r} : reb'[s] = reb[s]
 <2> HIDE DEF RebRows
 <2> QED BY ONLY <1>0,<1>a,<1>b, r \in Rebalancers
<1>9. OneRebalance' /\ (~raced => \A s \in Rebalancers \ {r} : reb'[s].at = "idle") BY <1>8,<1>c,<1>a, AloneStill
<1>10. RebFits(k, new)
 <2>1. CASE k = IdleReb BY <2>1, IdleFits
 <2>2. CASE k.at = "verify" /\ k.plan = old.plan BY <1>2,<2>2 DEF RebFits
 <2>3. CASE k.at = "write" /\ k.plan = old.plan /\ n # NumWans /\ k.next = n + 1 /\ k.seen = old.seen
  <3>0. n # NumWans BY ONLY <2>3
  <3>1. n + 1 \in 1..NumWans BY ONLY <1>n,<1>3,<3>0
  <3>2. \A w \in Wans : k.seen[w] # 0 => k.seen[w] \in DOMAIN new /\ new[k.seen[w]].wan = w
   <4>1. SUFFICES ASSUME NEW w \in Wans, old.seen[w] # 0 PROVE old.seen[w] \in DOMAIN new /\ new[old.seen[w]].wan = w BY <2>3
   <4>2. old.seen[w] \in DOMAIN routes /\ routes[old.seen[w]].wan = w BY ONLY <1>2,<4>1
   <4> QED BY ONLY <1>7,<4>2
  <3>3. PlanFits(k.plan) BY <1>2,<2>3
  <3> QED BY ONLY <2>3,<3>1,<3>2,<3>3 DEF RebFits
 <2> QED BY ONLY <1>d,<2>1,<2>2,<2>3
<1>11. \A s \in Rebalancers : RebFits(reb[s], routes)'
 <2>1. SUFFICES ASSUME NEW s \in Rebalancers PROVE RebFits(reb[s], routes)' OBVIOUS
 <2> PICK c : c = reb'[s] OBVIOUS
 <2>2. RebFits(c, new)
  <3>1. CASE s = r BY <1>8,<1>10,<3>1
  <3>2. CASE s # r
   <4>1. RebFits(c, routes) BY <1>8,<3>2 DEF WanInv
   <4>2. \A j \in DOMAIN routes : j \in DOMAIN new /\ new[j].wan = routes[j].wan BY ONLY <1>7
   <4> QED BY ONLY <4>1,<4>2 DEF RebFits
  <3> QED BY <3>1,<3>2
 <2>3. RebFits(c, new)' BY <1>c,<2>2, SameOrder DEF RebFits
 <2> QED BY <2>3 DEF RebFits
<1>12. \A w \in Wans : Adds(k, w) => Adds(old, w) /\ w # t.wan
 <2>1. SUFFICES ASSUME NEW w \in Wans, Adds(k, w) PROVE Adds(old, w) /\ w # t.wan OBVIOUS
 <2>2. k.at = "write" /\ k.next = n + 1 /\ k.seen = old.seen BY <1>d,<2>1, IdleFits DEF Adds
 <2>3. PICK j \in (n + 1)..NumWans : Ordered[j] = w BY <2>1,<2>2 DEF Adds
 <2>4. j \in n..NumWans /\ j \in 1..NumWans /\ j # n BY ONLY <1>n,<1>3, j \in (n + 1)..NumWans
 <2>5. w # t.wan BY <1>0,<1>2,<1>4,<2>3,<2>4, OrderedIsAll
 <2> QED BY <1>1,<2>1,<2>2,<2>3,<2>4,<2>5 DEF Adds
<1> PICK rb : rb = reb' OBVIOUS
<1>13. ASSUME NEW w \in Wans PROVE Cardinality(RoutesIn(new, w)) + Cardinality(Adding(rb, w)) <= AtOnce
 <2>1. AtOnce \in Nat BY <1>0, OnceType
 <2>2. Cardinality(RoutesIn(routes, w)) + Cardinality(Adding(reb, w)) <= AtOnce BY DEF WanInv, CountsFit
 <2>3. CASE RoutesIn(new, w) = RoutesIn(routes, w)
  <3>1. Adds(k, w) => Adds(reb[r], w) BY <1>12
  <3>2. rb = [reb EXCEPT ![r] = k] BY <1>b
  <3>3. Cardinality(RoutesIn(routes, w)) + Cardinality(Adding(rb, w)) <= AtOnce
   <4> HIDE DEF RebRows, Adding, Adds, RoutesIn, AtOnce
   <4> QED BY ONLY <1>0,<2>1,<2>2,<3>1,<3>2,<1>a, r \in Rebalancers, NoMoreAdded
  <3> QED BY <2>3,<3>3
 <2>4. CASE i = 0 /\ w = t.wan
  <3>1. Adds(old, w)
   <4>1. n \in n..NumWans BY ONLY <1>n,<1>3
   <4> QED BY <1>1,<1>4,<2>4,<4>1 DEF Adds
  <3>2. r \in Adding(reb, w) BY <3>1 DEF Adding
  <3>3. Adding(rb, w) \in SUBSET (Adding(reb, w) \ {r})
   <4>1. SUFFICES ASSUME NEW s \in Adding(rb, w) PROVE s \in Adding(reb, w) \ {r} OBVIOUS
   <4>2. s \in Rebalancers /\ Adds(rb[s], w) BY <4>1 DEF Adding
   <4>3. s # r BY <1>8,<1>12,<2>4,<4>2
   <4>4. rb[s] = reb[s] BY <1>8,<4>2,<4>3
   <4> QED BY <4>2,<4>3,<4>4 DEF Adding
  <3>4. IsFiniteSet(Adding(reb, w)) /\ Cardinality(Adding(reb, w)) \in Nat /\ Cardinality(Adding(rb, w)) \in Nat
        /\ IsFiniteSet(RoutesIn(routes, w)) /\ Cardinality(RoutesIn(routes, w)) \in Nat BY <1>0, CountTypes
  <3>5. IsFiniteSet(Adding(reb, w) \ {r}) /\ Cardinality(Adding(reb, w) \ {r}) = Cardinality(Adding(reb, w)) - 1 BY <3>2,<3>4, FS_RemoveElement
  <3>6. Cardinality(Adding(rb, w)) <= Cardinality(Adding(reb, w)) - 1
   <4>1. Cardinality(Adding(rb, w)) <= Cardinality(Adding(reb, w) \ {r}) BY ONLY <3>3,<3>5, FS_Subset
   <4> QED BY ONLY <3>5,<4>1
  <3>7. Cardinality(RoutesIn(new, w)) = Cardinality(RoutesIn(routes, w)) + 1
   <4>1. RoutesIn(new, w) = RoutesIn(routes, w) \cup {Len(routes) + 1} /\ Len(routes) + 1 \notin RoutesIn(routes, w) BY ONLY <1>7,<2>4
   <4> QED BY ONLY <3>4,<4>1, FS_AddElement
  <3> QED BY ONLY <2>1,<2>2,<3>4,<3>6,<3>7
 <2> QED BY <1>7,<2>3,<2>4
<1>14. CountsFit'
 <2>1. SUFFICES ASSUME NEW w \in Wans PROVE (Cardinality(RoutesIn(routes, w)) + Cardinality(Adding(reb, w)) <= AtOnce)' BY DEF CountsFit
 <2>2. RoutesIn(routes, w)' = RoutesIn(new, w) /\ AtOnce' = AtOnce BY <1>c DEF RoutesIn, AtOnce
 <2>3. Adding(reb, w)' = Adding(rb, w)
  <3>1. \A s \in Rebalancers : Adds(rb[s], w)' <=> Adds(rb[s], w) BY <1>c, SameOrder
  <3>2. Adding(rb, w)' = Adding(rb, w) BY <3>1 DEF Adding
  <3>3. Adding(reb, w)' = Adding(rb, w)' BY DEF Adding, Adds
  <3> QED BY <3>2,<3>3
 <2> QED BY <1>13,<2>2,<2>3
<1>15. WritesLast'
 <2>1. SUFFICES ASSUME ~raced, NEW s \in Rebalancers, NEW m \in 1..NumWans, Wrote(rb[s], m)
   PROVE \E j \in DOMAIN new : new[j] = rb[s].plan[m] BY <1>c DEF WritesLast, Wrote
 <2>2. s = r BY <1>9,<2>1 DEF Wrote
 <2>3. rb[s] = k /\ k # IdleReb /\ k.plan = old.plan BY <1>8,<1>d,<2>1,<2>2, IdleFits DEF Wrote
 <2>4. CASE m = n BY <1>4,<1>7,<2>3,<2>4
 <2>5. CASE m # n
  <3>1. m < n
   <4>1. \/ n = NumWans
         \/ n + 1 = k.next /\ m < k.next BY <1>d,<2>1,<2>3, IdleFits DEF Wrote
   <4>2. m \in 1..NumWans OBVIOUS
   <4> QED BY ONLY <1>n,<1>3,<2>5,<4>1,<4>2
  <3>2. Wrote(old, m) BY <1>1,<3>1 DEF Wrote
  <3>3. PICK j \in DOMAIN routes : routes[j] = old.plan[m] BY <2>1,<3>2 DEF WanInv, WritesLast
  <3>4. routes[j].wan = Ordered[m] BY <1>2,<3>3 DEF PlanFits
  <3>5. Ordered[m] # t.wan BY <1>0,<1>2,<1>4,<2>5, OrderedIsAll
  <3> QED BY <1>7,<2>3,<3>3,<3>4,<3>5
 <2> QED BY <2>4,<2>5
<1> QED BY <1>7,<1>8,<1>9,<1>11,<1>14,<1>15

LEMMA WriteRouteKeeps == ASSUME WanInv, NEW r \in Rebalancers, WriteRoute(r) PROVE WanInv'
<1>0. WanTypes BY DEF WanInv
<1> PICK old \in RebRows : old = reb[r] BY <1>0 DEF WanTypes
<1> PICK k : k = IF old.next = NumWans THEN [old EXCEPT !.at = "verify"] ELSE [old EXCEPT !.next = old.next + 1] OBVIOUS
<1>1. old.at = "write" BY DEF WriteRoute, RebAt
<1>2. reb' = [reb EXCEPT ![r] = k] /\ UNCHANGED <<wan, priority, applied, raced, wanFaults>> BY DEF WriteRoute, RebMove
<1>3. /\ k \in RebRows /\ k.plan = old.plan
      /\ IF old.next = NumWans THEN k.at = "verify" ELSE k.at = "write" /\ k.next = old.next + 1 /\ k.seen = old.seen
 <2>1. CASE old.next = NumWans
  <3>1. k = [old EXCEPT !.at = "verify"] BY <2>1
  <3>2. old \in RebRows OBVIOUS
  <3> QED BY ONLY <2>1,<3>1,<3>2 DEF RebRows
 <2>2. CASE old.next # NumWans
  <3>1. k = [old EXCEPT !.next = old.next + 1] BY <2>2
  <3>2. old \in RebRows OBVIOUS
  <3> QED BY ONLY <1>1,<2>2,<3>1,<3>2 DEF RebRows
 <2> QED BY <2>1,<2>2
<1> PICK t : t = reb[r].plan[reb[r].next] OBVIOUS
<1>4. routes' = Written(t, reb[r].seen[t.wan]) BY DEF WriteRoute
<1>5. /\ routes' \in Seq(Routes) /\ reb' \in [Rebalancers -> RebRows] /\ reb'[r] = k
      /\ \A s \in Rebalancers : RebFits(reb[s], routes)'
      /\ CountsFit' /\ OneRebalance' /\ WritesLast'
 <2>1. reb[r].at = "write" BY <1>1
 <2>2. \/ k = IdleReb
       \/ k.at = "verify" /\ k.plan = reb[r].plan /\ reb[r].next = NumWans
       \/ /\ k.at = "write" /\ k.plan = reb[r].plan /\ reb[r].next # NumWans
          /\ k.next = reb[r].next + 1 /\ k.seen = reb[r].seen BY <1>3
 <2>3. UNCHANGED <<priority, raced>> /\ k \in RebRows BY <1>2,<1>3
 <2>4. WritesNext(r, t, k) BY <1>2,<1>4,<2>1,<2>2,<2>3 DEF WritesNext
 <2> QED BY <2>4, RouteWrites
<1>6. WanTypes' BY <1>0,<1>2,<1>5 DEF WanTypes
<1>7. AppliedFits'
 <2>1. reb'[r].at \notin {"idle", "list"} BY <1>3,<1>5
 <2> QED BY <1>2,<2>1, AppliedLater
<1> QED BY <1>5,<1>6,<1>7 DEF WanInv

\* A rebalance ends without a write.
LEMMA RebEnds ==
  ASSUME WanInv, NEW r \in Rebalancers, reb[r].at # "idle", reb' = [reb EXCEPT ![r] = IdleReb], UNCHANGED <<priority, routes, raced>>
  PROVE  /\ \A s \in Rebalancers : RebFits(reb[s], routes)'
         /\ reb' \in [Rebalancers -> RebRows] /\ reb'[r] = IdleReb /\ (~raced => \A s \in Rebalancers : reb'[s].at = "idle")
         /\ CountsFit' /\ OneRebalance' /\ WritesLast'
<1>1. raced \in BOOLEAN /\ raced' \in BOOLEAN BY DEF WanInv, WanTypes
<1>2. /\ \A s \in Rebalancers : RebFits(reb[s], routes)'
      /\ reb' \in [Rebalancers -> RebRows] /\ reb'[r] = IdleReb /\ \A s \in Rebalancers \ {r} : reb'[s] = reb[s]
      /\ CountsFit'
 <2>1. IdleReb \in RebRows /\ RebFits(IdleReb, routes) /\ \A w \in Wans : ~Adds(IdleReb, w) BY IdleFits
 <2> HIDE DEF IdleReb
 <2> QED BY <1>1,<2>1, RebMoves
<1>3. OneRebalance' /\ (~raced => \A s \in Rebalancers \ {r} : reb'[s].at = "idle") BY <1>2, AloneStill
<1>4. ~raced => \A s \in Rebalancers : reb'[s].at = "idle" BY <1>2,<1>3, IdleFits
<1>5. WritesLast' BY <1>4 DEF WritesLast, Wrote
<1> QED BY <1>2,<1>3,<1>4,<1>5

\* Alone, a rebalance finds what it wrote, and nothing else.
LEMMA AloneIsInForce ==
  ASSUME WanInv, ~raced, NEW r \in Rebalancers, reb[r].at = "verify" PROVE InForceFirst(reb[r].plan) /\ ToSet(routes) = ToSet(reb[r].plan)
<1>0. routes \in Seq(Routes) /\ priority \in [Wans -> Nat] /\ raced \in BOOLEAN BY DEF WanInv, WanTypes
<1> PICK plan : plan = reb[r].plan OBVIOUS
<1>1. PlanFits(plan) BY DEF WanInv, RebFits
<1>2. DOMAIN plan = 1..NumWans /\ \A i \in 1..NumWans : plan[i].wan = Ordered[i] BY <1>1 DEF PlanFits
<1>3. \A i \in 1..NumWans : \E j \in DOMAIN routes : routes[j] = plan[i] BY DEF WanInv, WritesLast, Wrote
<1>4. ASSUME NEW w \in Wans, NEW i \in RoutesIn(routes, w), NEW j \in RoutesIn(routes, w) PROVE i = j
 <2>1. Cardinality(RoutesIn(routes, w)) + Cardinality(Adding(reb, w)) <= AtOnce BY DEF WanInv, CountsFit
 <2>2. AtOnce = 1 BY <1>0, OnceType
 <2>3. IsFiniteSet(RoutesIn(routes, w)) /\ Cardinality(RoutesIn(routes, w)) \in Nat /\ Cardinality(Adding(reb, w)) \in Nat BY <1>0, CountTypes
 <2>4. Cardinality(RoutesIn(routes, w)) <= 1 BY ONLY <2>1,<2>2,<2>3
 <2>5. Cardinality(RoutesIn(routes, w)) # 0 BY <1>4,<2>3, FS_EmptySet
 <2>6. Cardinality(RoutesIn(routes, w)) = 1 BY ONLY <2>3,<2>4,<2>5
 <2>7. PICK x : RoutesIn(routes, w) = {x} BY <2>3,<2>6, FS_Singleton
 <2> QED BY <2>7
<1>5. ASSUME NEW i \in 1..NumWans
  PROVE  /\ RoutesOf(plan[i].wan) # {}
         /\ plan[i] = routes[CHOOSE j \in RoutesOf(plan[i].wan) : \A k \in RoutesOf(plan[i].wan) : j <= k]
 <2> PICK w : w = plan[i].wan OBVIOUS
 <2>a. Ordered[i] \in Wans BY <1>0, OrderedIsAll
 <2>b. w = Ordered[i] BY <1>2
 <2>1. w \in Wans BY ONLY <2>a,<2>b
 <2>2. PICK j \in DOMAIN routes : routes[j] = plan[i] BY <1>3
 <2>3. RoutesOf(w) = RoutesIn(routes, w) /\ j \in RoutesIn(routes, w) BY <2>2 DEF RoutesOf, RoutesIn
 <2>4. \A k \in RoutesOf(w) : k = j BY <1>4,<2>1,<2>3
 <2>5. j <= j BY <1>0
 <2>6. (CHOOSE m \in RoutesOf(w) : \A k \in RoutesOf(w) : m <= k) = j BY <2>3,<2>4,<2>5
 <2> QED BY <2>2,<2>3,<2>6
<1>6. InForceFirst(plan) BY <1>2,<1>5 DEF InForceFirst
<1>7. ToSet(plan) \subseteq ToSet(routes) BY <1>2,<1>3 DEF ToSet
<1>8. ToSet(routes) \subseteq ToSet(plan)
 <2>1. SUFFICES ASSUME NEW j \in DOMAIN routes PROVE \E i \in DOMAIN plan : plan[i] = routes[j] BY DEF ToSet
 <2>2. routes[j] \in Routes
  <3> HIDE DEF Routes
  <3> QED BY <1>0
 <2>3. routes[j].wan \in Wans BY <2>2 DEF Routes
 <2>4. PICK i \in 1..NumWans : Ordered[i] = routes[j].wan BY <1>0,<2>3, OrderedIsAll
 <2>5. PICK l \in DOMAIN routes : routes[l] = plan[i] BY <1>3
 <2>6. l \in RoutesIn(routes, routes[j].wan) /\ j \in RoutesIn(routes, routes[j].wan) BY <1>2,<2>4,<2>5 DEF RoutesIn
 <2>7. l = j BY <1>4,<2>3,<2>6
 <2> QED BY <1>2,<2>5,<2>7
<1> QED BY <1>6,<1>7,<1>8

LEMMA VerifyRoutesKeeps == ASSUME WanInv, NEW r \in Rebalancers, VerifyRoutes(r) PROVE WanInv'
<1>0. WanTypes BY DEF WanInv
<1>1. reb[r].at = "verify" /\ reb' = [reb EXCEPT ![r] = IdleReb] /\ UNCHANGED <<wan, priority, routes, raced, wanFaults>>
  BY DEF VerifyRoutes, RebAt, RebMove
<1>2. /\ \A s \in Rebalancers : RebFits(reb[s], routes)'
      /\ reb' \in [Rebalancers -> RebRows] /\ reb'[r] = IdleReb /\ (~raced => \A s \in Rebalancers : reb'[s].at = "idle")
      /\ CountsFit' /\ OneRebalance' /\ WritesLast'
 <2>1. reb[r].at # "idle" BY <1>1
 <2> HIDE DEF IdleReb
 <2> QED BY <1>1,<2>1, RebEnds
<1>3. PlanFits(reb[r].plan) BY <1>1 DEF WanInv, RebFits
<1>4. reb[r].plan # NoPlan BY <1>3, WansType DEF PlanFits, NoPlan
<1>5. applied' = IF InForceFirst(reb[r].plan) THEN reb[r].plan ELSE NoPlan BY DEF VerifyRoutes
<1>6. NoPlan \in Seq(Routes) BY DEF NoPlan
<1>7. AppliedFits'
 <2>1. applied' = NoPlan \/ PlanFits(applied)'
  <3> PICK plan : plan = reb[r].plan OBVIOUS
  <3>1. PlanFits(plan)' BY <1>1,<1>3, SameOrder
  <3>2. applied' = plan \/ applied' = NoPlan BY <1>5
  <3>3. applied' = plan => (PlanFits(applied)' <=> PlanFits(plan)') BY DEF PlanFits
  <3> QED BY <3>1,<3>2,<3>3
 <2>2. ~raced' => applied' = reb[r].plan /\ ToSet(routes) = ToSet(reb[r].plan) BY <1>1,<1>5, AloneIsInForce
 <2>3. ToSet(routes)' = ToSet(routes) /\ (~raced' => ToSet(applied)' = ToSet(reb[r].plan)) BY <1>1,<2>2
 <2>4. ~raced' => applied' # NoPlan BY <1>4,<2>2
 <2> HIDE DEF PlanFits, AtRest, NoPlan
 <2> QED BY <2>1,<2>2,<2>3,<2>4 DEF AppliedFits
<1>8. WanTypes' BY <1>0,<1>1,<1>2 DEF WanTypes
<1> QED BY <1>2,<1>7,<1>8 DEF WanInv

LEMMA RebalanceFailsKeeps == ASSUME WanInv, NEW r \in Rebalancers, RebalanceFails(r) PROVE WanInv'
<1>0. WanTypes BY DEF WanInv
<1>1. reb[r].at # "idle" /\ reb' = [reb EXCEPT ![r] = IdleReb] /\ UNCHANGED <<wan, priority, raced>> /\ applied' = NoPlan
      /\ wanFaults' = wanFaults + 1 /\ wanFaults \in Nat BY <1>0 DEF RebalanceFails, RebAt, RebMove, WanTypes
<1>2. AppliedFits' BY <1>1 DEF AppliedFits
<1>3. CASE UNCHANGED routes
 <2>1. /\ \A s \in Rebalancers : RebFits(reb[s], routes)'
       /\ reb' \in [Rebalancers -> RebRows]
       /\ CountsFit' /\ OneRebalance' /\ WritesLast'
  <3>1. UNCHANGED <<priority, routes, raced>> BY <1>1,<1>3
  <3> HIDE DEF IdleReb
  <3> QED BY <1>1,<3>1, RebEnds
 <2>2. WanTypes' BY <1>0,<1>1,<1>3,<2>1 DEF WanTypes
 <2> QED BY <1>2,<2>1,<2>2 DEF WanInv
<1>4. CASE ~ UNCHANGED routes
 <2> PICK t : t = reb[r].plan[reb[r].next] OBVIOUS
 <2>1. reb[r].at = "write" /\ routes' = Written(t, reb[r].seen[t.wan]) BY <1>4 DEF RebalanceFails, RebAt
 <2>2. /\ routes' \in Seq(Routes) /\ reb' \in [Rebalancers -> RebRows]
       /\ \A s \in Rebalancers : RebFits(reb[s], routes)'
       /\ CountsFit' /\ OneRebalance' /\ WritesLast'
  <3>1. IdleReb \in RebRows BY IdleFits
  <3>2. UNCHANGED <<priority, raced>> BY <1>1
  <3> HIDE DEF IdleReb
  <3>3. WritesNext(r, t, IdleReb) BY <1>1,<2>1,<3>1,<3>2 DEF WritesNext
  <3> QED BY <3>3, RouteWrites
 <2>3. WanTypes' BY <1>0,<1>1,<2>2 DEF WanTypes
 <2> QED BY <1>2,<2>2,<2>3 DEF WanInv
<1> QED BY <1>3,<1>4

WanRecovers == \A w \in Wans : wan[w].health = "UNAVAILABLE" /\ wan'[w].health # "UNAVAILABLE" =>
  wan'[w].health \in {"RECOVERING", "DISABLED", "DRAINING"} \cup (IF RecoveryThreshold = 1 THEN {"DEGRADED"} ELSE {})

LEMMA WanStepKeeps == WanInv /\ [WanNext]_wanVars => WanInv' /\ (wan' = wan \/ WanRecovers)
<1> SUFFICES ASSUME WanInv, [WanNext]_wanVars PROVE WanInv' /\ (wan' = wan \/ WanRecovers) OBVIOUS
<1>0. wan \in [Wans -> WanRows] BY DEF WanInv, WanTypes
<1>1. ASSUME UNCHANGED wanVars PROVE WanInv' /\ wan' = wan
 <2>1. wan' = wan /\ UNCHANGED <<priority, routes, reb, applied, raced, wanFaults>> BY <1>1 DEF wanVars
 <2>2. 1 \in Wans BY WansType
 <2> PICK k \in WanRows : k = wan[1] BY <1>0,<2>2
 <2>3. wan' = [wan EXCEPT ![1] = k] /\ (k.health = "UNAVAILABLE" /\ RecoveryThreshold # 1 => k.answers = 0)
  <3> HIDE DEF WanRows
  <3>1. wan' = [wan EXCEPT ![1] = k] BY <1>0,<2>1,<2>2
  <3>2. k.health = "UNAVAILABLE" /\ RecoveryThreshold # 1 => k.answers = 0 BY <2>2 DEF WanInv, WanTypes
  <3> QED BY <3>1,<3>2
 <2> QED BY <2>1,<2>2,<2>3, WanMoves
<1>2. ASSUME NEW w \in Wans, NEW g \in Gateways, NEW enabled \in BOOLEAN, NEW drain \in BOOLEAN, UpdateWan(w, g, enabled, drain)
  PROVE WanInv' /\ WanRecovers BY <1>2, UpdateWanKeeps DEF WanRecovers
<1>3. ASSUME NEW w \in Wans, \/ \E g \in Gateways : UpdateWan(w, g, wan[w].enabled, wan[w].drain)
                             \/ UpdateWan(w, wan[w].gateway, ~wan[w].enabled, wan[w].drain)
                             \/ UpdateWan(w, wan[w].gateway, wan[w].enabled, ~wan[w].drain)
  PROVE WanInv' /\ WanRecovers
 <2>1. wan[w].gateway \in Gateways /\ wan[w].enabled \in BOOLEAN /\ wan[w].drain \in BOOLEAN BY <1>0,<1>3 DEF WanRows
 <2> PICK e \in BOOLEAN : e = ~wan[w].enabled OBVIOUS
 <2> PICK d \in BOOLEAN : d = ~wan[w].drain OBVIOUS
 <2>2. CASE \E g \in Gateways : UpdateWan(w, g, wan[w].enabled, wan[w].drain) BY <1>2,<2>1,<2>2
 <2>3. CASE UpdateWan(w, wan[w].gateway, ~wan[w].enabled, wan[w].drain)
  <3>1. UpdateWan(w, wan[w].gateway, e, wan[w].drain) BY <2>3
  <3> QED BY <1>2,<2>1,<3>1
 <2>4. CASE UpdateWan(w, wan[w].gateway, wan[w].enabled, ~wan[w].drain)
  <3>1. UpdateWan(w, wan[w].gateway, wan[w].enabled, d) BY <2>4
  <3> QED BY <1>2,<2>1,<3>1
 <2> QED BY <1>3,<2>2,<2>3,<2>4
<1>4. ASSUME NEW w \in Wans, NEW success \in BOOLEAN, NEW busy \in BOOLEAN, Probe(w, success, busy) PROVE WanInv' /\ WanRecovers
  BY <1>4, ProbeKeeps DEF WanRecovers
<1>5. ASSUME NEW r \in Rebalancers, Decide(r) \/ ListRoutes(r) \/ WriteRoute(r) \/ VerifyRoutes(r) \/ RebalanceFails(r) PROVE WanInv' /\ wan' = wan
 <2>1. WanInv' BY <1>5, DecideKeeps, ListRoutesKeeps, WriteRouteKeeps, VerifyRoutesKeeps, RebalanceFailsKeeps
 <2>2. wan' = wan BY <1>5 DEF Decide, ListRoutes, WriteRoute, VerifyRoutes, RebalanceFails
 <2> QED BY <2>1,<2>2
<1> QED BY <1>1,<1>3,<1>4,<1>5 DEF WanNext

LEMMA WanInvHolds == WanInv => WanTypeOK /\ RoutesAreNotDoubled /\ AppliedIsInForce /\ OnePrimaryRank /\ NoFaultNoBlackHole
<1> SUFFICES ASSUME WanInv PROVE WanTypeOK /\ RoutesAreNotDoubled /\ AppliedIsInForce /\ OnePrimaryRank /\ NoFaultNoBlackHole OBVIOUS
<1>0. WanTypes /\ AppliedFits BY DEF WanInv
<1>1. WanTypeOK
 <2>1. applied \in Seq(Routes)
  <3>1. CASE applied = NoPlan BY <3>1 DEF NoPlan
  <3>2. CASE PlanFits(applied) BY <3>2 DEF PlanFits
  <3> QED BY <1>0,<3>1,<3>2 DEF AppliedFits
 <2> QED BY <1>0,<2>1 DEF WanTypes, WanTypeOK, WanRows, Healths
<1>2. RoutesAreNotDoubled
 <2>1. SUFFICES ASSUME NEW w \in Wans PROVE Cardinality(RoutesOf(w)) <= IF raced THEN Cardinality(Rebalancers) ELSE 1 BY DEF RoutesAreNotDoubled
 <2>2. Cardinality(RoutesIn(routes, w)) + Cardinality(Adding(reb, w)) <= AtOnce BY DEF WanInv, CountsFit
 <2>3. Cardinality(RoutesIn(routes, w)) \in Nat /\ Cardinality(Adding(reb, w)) \in Nat BY <1>0, CountTypes DEF WanTypes
 <2>4. AtOnce \in Nat BY <1>0, OnceType DEF WanTypes
 <2>5. Cardinality(RoutesIn(routes, w)) <= AtOnce BY ONLY <2>2,<2>3,<2>4
 <2>6. RoutesOf(w) = RoutesIn(routes, w) BY DEF RoutesOf, RoutesIn
 <2> QED BY <2>5,<2>6 DEF AtOnce
<1>3. AppliedIsInForce BY <1>0 DEF AppliedFits, AtRest, AppliedIsInForce
<1>4. OnePrimaryRank
 <2>1. SUFFICES ASSUME NEW r \in Rebalancers, NEW i \in DOMAIN reb[r].plan, NEW j \in DOMAIN reb[r].plan,
     ~reb[r].plan[i].disabled, ~reb[r].plan[j].disabled
   PROVE priority[reb[r].plan[i].wan] = priority[reb[r].plan[j].wan] BY DEF OnePrimaryRank
 <2> PICK plan : plan = reb[r].plan OBVIOUS
 <2>2. RebFits(reb[r], routes) BY DEF WanInv
 <2>3. PlanFits(plan) BY <2>1,<2>2 DEF RebFits
 <2>4. DOMAIN plan = 1..NumWans BY <2>3 DEF PlanFits
 <2> QED BY <2>1,<2>3,<2>4 DEF PlanFits
<1>5. NoFaultNoBlackHole
 <2>1. SUFFICES ASSUME ~raced, wanFaults = 0, \A r \in Rebalancers : RebAt(r, "idle"), \E i \in DOMAIN routes : TRUE
   PROVE  \/ \E i \in DOMAIN routes : ~routes[i].disabled
          \/ applied # NoPlan /\ \A i \in DOMAIN applied : applied[i].disabled BY DEF NoFaultNoBlackHole
 <2>2. AtRest BY <2>1 DEF AtRest, RebAt
 <2>3. applied # NoPlan /\ ToSet(routes) = ToSet(applied) BY <1>0,<2>1,<2>2 DEF AppliedFits
 <2>4. ASSUME NEW i \in DOMAIN applied PROVE \E j \in DOMAIN routes : routes[j] = applied[i] BY <2>3 DEF ToSet
 <2> QED BY <2>3,<2>4
<1> QED BY <1>1,<1>2,<1>3,<1>4,<1>5

------------------------
(* The operators' page. *)

FlowRows == [op : {"none", "load", "rebalance", "drain", "create"},
             at : {"none", "write", "lists", "listed", "loaded", "status"}, of : Policies \cup {0}, lists : SUBSET Policies]
Works(k) == k.op \in {"rebalance", "drain"}
Saves(k) == k.op = "create"

\* What is under way reads lists of the server P, and applies the picked policy pk,
\* unless another was picked since (m).
FlowOK(k, P, pk, m) ==
  /\ k.lists \subseteq P
  /\ k.op = "rebalance" /\ k.at = "write" => k.of # 0 /\ ("verdict" \in m \/ k.of = pk)

\* The first n places of fl are in use, and the buttons (w, s) are out while the one
\* operation they began is under way.
FlowsOK(fl, n, w, s) ==
  /\ fl \in [Flows -> FlowRows] /\ n \in Flows /\ w \in BOOLEAN /\ s \in BOOLEAN
  /\ \A f \in Flows : f > n => fl[f] = NoFlow
  /\ w <=> \E f \in Flows : Works(fl[f])
  /\ s <=> \E f \in Flows : Saves(fl[f])
  /\ \A f, g \in Flows : Works(fl[f]) /\ Works(fl[g]) => f = g
  /\ \A f, g \in Flows : Saves(fl[f]) /\ Saves(fl[g]) => f = g

ListsDue(fl) == \E f \in Flows : fl[f].at \in {"lists", "listed"}

ListingFits == "list" \notin mishap => listing = policies \/ ListsDue(flow)

PageInv ==
  /\ \E n \in 0..NumPolicies : policies = 1..n
  /\ listing \subseteq policies /\ picked \in listing \cup {0} /\ panel \in Policies \cup {0}
  /\ panelLoading \in BOOLEAN
  /\ FlowsOK(flow, flows, working, saving)
  /\ \A f \in Flows : FlowOK(flow[f], policies, picked, mishap)
  /\ ListingFits /\ PanelIsOfPicked /\ VerdictIsOfPicked

LEMMA FlowsType == Flows \subseteq Nat /\ 1 \in Flows /\ MaxFlows \in Nat BY WanAssumption DEF Flows

\* The page asks for something, or a request moves on, at place f.
LEMMA FlowPut ==
  ASSUME NEW fl, NEW n, NEW w, NEW s, FlowsOK(fl, n, w, s), NEW f \in Flows, NEW k \in FlowRows, NEW o \in Flows, n <= o, f <= o, NEW v, NEW t,
      v = (Works(k) \/ (w /\ ~Works(fl[f]))), t = (Saves(k) \/ (s /\ ~Saves(fl[f]))),
      Works(k) => Works(fl[f]) \/ ~w, Saves(k) => Saves(fl[f]) \/ ~s
  PROVE FlowsOK([fl EXCEPT ![f] = k], o, v, t)
<1> PICK g : g = [fl EXCEPT ![f] = k] OBVIOUS
<1>1. fl \in [Flows -> FlowRows] BY DEF FlowsOK
<1>2. g \in [Flows -> FlowRows] /\ g[f] = k /\ \A e \in Flows \ {f} : g[e] = fl[e] BY <1>1
<1>3. \A e \in Flows : e > o => g[e] = NoFlow BY <1>2, FlowsType DEF FlowsOK
<1>4. /\ v \in BOOLEAN /\ v <=> \E e \in Flows : Works(g[e])
      /\ \A e, h \in Flows : Works(g[e]) /\ Works(g[h]) => e = h
 <2>1. w \in BOOLEAN /\ (w <=> \E e \in Flows : Works(fl[e])) /\ \A e, h \in Flows : Works(fl[e]) /\ Works(fl[h]) => e = h BY DEF FlowsOK
 <2>2. Works(g[f]) <=> Works(k) BY <1>2
 <2>3. \A e \in Flows \ {f} : Works(g[e]) <=> Works(fl[e]) BY <1>2
 <2> HIDE DEF Works
 <2>4. v \in BOOLEAN OBVIOUS
 <2>5. v <=> \E e \in Flows : Works(g[e]) BY <2>1,<2>2,<2>3, Zenon
 <2>6. \A e, h \in Flows : Works(g[e]) /\ Works(g[h]) => e = h BY <2>1,<2>2,<2>3, Zenon
 <2> QED BY <2>4,<2>5,<2>6
<1>5. /\ t \in BOOLEAN /\ t <=> \E e \in Flows : Saves(g[e])
      /\ \A e, h \in Flows : Saves(g[e]) /\ Saves(g[h]) => e = h
 <2>1. s \in BOOLEAN /\ (s <=> \E e \in Flows : Saves(fl[e])) /\ \A e, h \in Flows : Saves(fl[e]) /\ Saves(fl[h]) => e = h BY DEF FlowsOK
 <2>2. Saves(g[f]) <=> Saves(k) BY <1>2
 <2>3. \A e \in Flows \ {f} : Saves(g[e]) <=> Saves(fl[e]) BY <1>2
 <2> HIDE DEF Saves
 <2>4. t \in BOOLEAN OBVIOUS
 <2>5. t <=> \E e \in Flows : Saves(g[e]) BY <2>1,<2>2,<2>3, Zenon
 <2>6. \A e, h \in Flows : Saves(g[e]) /\ Saves(g[h]) => e = h BY <2>1,<2>2,<2>3, Zenon
 <2> QED BY <2>4,<2>5,<2>6
<1> QED BY <1>2,<1>3,<1>4,<1>5 DEF FlowsOK

\* A new request takes the next place.
LEMMA FlowAsked ==
  ASSUME NEW fl, NEW n, NEW w, NEW s, FlowsOK(fl, n, w, s), n < MaxFlows, NEW k \in FlowRows, NEW v, NEW t,
      v = (w \/ Works(k)), t = (s \/ Saves(k)), Works(k) => ~w, Saves(k) => ~s
  PROVE n + 1 \in Flows /\ fl[n + 1] = NoFlow /\ FlowsOK([fl EXCEPT ![n + 1] = k], n + 1, v, t)
<1>1. n \in Flows /\ n + 1 \in Flows /\ n <= n + 1 /\ n + 1 <= n + 1 /\ n + 1 > n BY FlowsType DEF FlowsOK, Flows
<1>2. fl[n + 1] = NoFlow BY <1>1 DEF FlowsOK
<1>3. ~Works(fl[n + 1]) /\ ~Saves(fl[n + 1]) BY <1>2 DEF NoFlow, Works, Saves
<1>4. w \in BOOLEAN /\ s \in BOOLEAN BY DEF FlowsOK
<1>5. v = (Works(k) \/ (w /\ ~Works(fl[n + 1]))) BY <1>3,<1>4
<1>6. t = (Saves(k) \/ (s /\ ~Saves(fl[n + 1]))) BY <1>3,<1>4
<1>7. FlowsOK([fl EXCEPT ![n + 1] = k], n + 1, v, t) BY <1>1,<1>5,<1>6, FlowPut
<1> QED BY <1>1,<1>2,<1>7

\* A request that is under way moves on, and its operation keeps the buttons.
LEMMA FlowMoved ==
  ASSUME NEW fl, NEW n, NEW w, NEW s, FlowsOK(fl, n, w, s), NEW f \in Flows, NEW k \in FlowRows, fl[f].at # "none", k.op = fl[f].op
  PROVE FlowsOK([fl EXCEPT ![f] = k], n, w, s)
<1>1. f <= n /\ n \in Flows /\ n <= n BY FlowsType DEF FlowsOK, NoFlow
<1>2. (Works(k) <=> Works(fl[f])) /\ (Saves(k) <=> Saves(fl[f])) BY DEF Works, Saves
<1>3. w \in BOOLEAN /\ (Works(fl[f]) => w) /\ s \in BOOLEAN /\ (Saves(fl[f]) => s) BY DEF FlowsOK
<1>4. w = (Works(k) \/ (w /\ ~Works(fl[f]))) BY <1>2,<1>3
<1>5. s = (Saves(k) \/ (s /\ ~Saves(fl[f]))) BY <1>2,<1>3
<1> QED BY <1>1,<1>2,<1>4,<1>5, FlowPut

\* An operation ends and gives its button back.
LEMMA FlowEnded ==
  ASSUME NEW fl, NEW n, NEW w, NEW s, FlowsOK(fl, n, w, s), NEW f \in Flows, fl[f].at # "none",
      NEW v, NEW t, v = (w /\ ~Works(fl[f])), t = (s /\ ~Saves(fl[f]))
  PROVE FlowsOK([fl EXCEPT ![f] = NoFlow], n, v, t)
<1>1. f <= n /\ n \in Flows /\ n <= n BY FlowsType DEF FlowsOK, NoFlow
<1>2. NoFlow \in FlowRows /\ ~Works(NoFlow) /\ ~Saves(NoFlow) BY DEF NoFlow, FlowRows, Works, Saves
<1>3. w \in BOOLEAN /\ s \in BOOLEAN BY DEF FlowsOK
<1>4. v = (Works(NoFlow) \/ (w /\ ~Works(fl[f]))) BY <1>2,<1>3
<1>5. t = (Saves(NoFlow) \/ (s /\ ~Saves(fl[f]))) BY <1>2,<1>3
<1>6. FlowsOK([fl EXCEPT ![f] = NoFlow], n, v, t) BY <1>1,<1>2,<1>4,<1>5, FlowPut
<1> QED BY <1>6

\* What a step leaves to show when nothing new is served: the rows' promises under the
\* policies, the picked one and the mishaps after the step.
LEMMA PageStep ==
  ASSUME PageInv, \E n \in 0..NumPolicies : policies' = 1..n, policies \subseteq policies',
      listing' \subseteq policies', picked' \in listing' \cup {0}, panel' \in Policies \cup {0}, panelLoading' \in BOOLEAN,
      FlowsOK(flow', flows', working', saving'), \A f \in Flows : FlowOK(flow'[f], policies', picked', mishap'),
      ListingFits', PanelIsOfPicked', VerdictIsOfPicked'
  PROVE PageInv' BY DEF PageInv

\* Places a request does not touch keep their promise.
LEMMA FlowKept ==
  ASSUME NEW fl \in [Flows -> FlowRows], NEW f \in Flows, NEW k, NEW P, NEW pk, NEW m, FlowOK(k, P, pk, m), \A g \in Flows : FlowOK(fl[g], P, pk, m)
  PROVE \A g \in Flows : FlowOK([fl EXCEPT ![f] = k][g], P, pk, m)
<1> HIDE DEF FlowRows
<1>1. TAKE g \in Flows
<1>2. CASE g = f BY <1>2
<1>3. CASE g # f BY <1>3
<1> QED BY <1>2,<1>3

LEMMA DueKept ==
  ASSUME NEW fl \in [Flows -> FlowRows], NEW f \in Flows, NEW k, ListsDue(fl), k.at \in {"lists", "listed"} \/ fl[f].at \notin {"lists", "listed"}
  PROVE ListsDue([fl EXCEPT ![f] = k])
<1> PICK g \in Flows : fl[g].at \in {"lists", "listed"} BY DEF ListsDue
<1> HIDE DEF FlowRows
<1>1. CASE g = f
 <2>1. [fl EXCEPT ![f] = k][f] = k OBVIOUS
 <2> QED BY <1>1,<2>1 DEF ListsDue
<1>2. CASE g # f
 <2>1. [fl EXCEPT ![f] = k][g] = fl[g] BY <1>2
 <2> QED BY <1>2,<2>1 DEF ListsDue
<1> QED BY <1>1,<1>2

LEMMA RequestOK ==
  ASSUME NEW op, NEW at, NEW p, NEW k, k = [NoFlow EXCEPT !.op = op, !.at = at, !.of = p], NEW P, NEW pk, NEW m,
      op = "rebalance" /\ at = "write" => p # 0 /\ p = pk
  PROVE FlowOK(k, P, pk, m) BY DEF NoFlow, FlowOK

LEMMA PageInitHolds == PageInit => PageInv
<1> SUFFICES ASSUME PageInit PROVE PageInv OBVIOUS
<1>0. MaxFlows \in Nat /\ 1 \in Flows BY FlowsType
<1> PICK k : k = [NoFlow EXCEPT !.op = "load", !.at = "lists"] OBVIOUS
<1>1. NoFlow \in FlowRows /\ k \in FlowRows /\ k.op = "load" /\ k.at = "lists" /\ k.lists = {} BY DEF NoFlow, FlowRows
<1>2. flow = [f \in Flows |-> IF f = 1 THEN k ELSE NoFlow] BY DEF PageInit
<1>3. flow \in [Flows -> FlowRows] /\ flow[1] = k /\ \A f \in Flows \ {1} : flow[f] = NoFlow BY <1>0,<1>1,<1>2
<1>a. ~Works(k) /\ ~Saves(k) /\ ~Works(NoFlow) /\ ~Saves(NoFlow) BY <1>1 DEF Works, Saves, NoFlow
<1>b. FlowOK(k, policies, picked, mishap) /\ FlowOK(NoFlow, policies, picked, mishap) BY <1>1 DEF FlowOK, NoFlow
<1>4. \A f \in Flows : ~Works(flow[f]) /\ ~Saves(flow[f])
 <2>1. TAKE f \in Flows
 <2>2. flow[f] = k \/ flow[f] = NoFlow BY <1>3
 <2> QED BY <1>a,<2>2
<1>5. \A f \in Flows : f > 1 => flow[f] = NoFlow BY <1>3
<1>6. FlowsOK(flow, flows, working, saving) BY <1>0,<1>3,<1>4,<1>5 DEF PageInit, FlowsOK
<1>7. \A f \in Flows : FlowOK(flow[f], policies, picked, mishap)
 <2>1. TAKE f \in Flows
 <2>2. flow[f] = k \/ flow[f] = NoFlow BY <1>3
 <2> QED BY <1>b,<2>2
<1>8. ListingFits BY <1>0,<1>1,<1>3 DEF ListingFits, ListsDue
<1>9. PICK n \in 0..NumPolicies : policies = 1..n BY DEF PageInit
<1> QED BY <1>6,<1>7,<1>8,<1>9 DEF PageInit, PageInv, PanelIsOfPicked, PanelVisible, VerdictIsOfPicked

LEMMA PageFacts ==
  ASSUME PageInv
  PROVE  /\ policies \subseteq Policies /\ policies \subseteq policies /\ \E n \in 0..NumPolicies : policies = 1..n
         /\ listing \subseteq policies /\ picked \in listing \cup {0} /\ panel \in Policies \cup {0} /\ panelLoading \in BOOLEAN
         /\ picked \in Policies \cup {0}
         /\ flow \in [Flows -> FlowRows] /\ flows \in Flows /\ working \in BOOLEAN /\ saving \in BOOLEAN
         /\ FlowsOK(flow, flows, working, saving)
         /\ \A f \in Flows : FlowOK(flow[f], policies, picked, mishap)
<1>1. PICK n \in 0..NumPolicies : policies = 1..n BY DEF PageInv
<1>2. policies \subseteq Policies BY <1>1, WanAssumption DEF Policies
<1> QED BY <1>2 DEF PageInv, FlowsOK

\* A request is made; nothing but its button and its place change.
LEMMA PageAsks ==
  ASSUME PageInv, NEW op \in {"load", "rebalance", "drain", "create"}, NEW at \in {"write", "lists", "status"},
      NEW p \in Policies \cup {0}, Ask(flow, op, at, p), op = "rebalance" => p # 0 /\ p = picked,
      op \in {"rebalance", "drain"} => ~working, op = "create" => ~saving,
      working' = (working \/ op \in {"rebalance", "drain"}), saving' = (saving \/ op = "create"),
      UNCHANGED <<policies, listing, picked, panel, panelLoading, verdict, mishap>>
  PROVE PageInv'
<1> PICK k : k = [NoFlow EXCEPT !.op = op, !.at = at, !.of = p] OBVIOUS
<1>1. flows < MaxFlows /\ flows' = flows + 1 /\ flow' = [flow EXCEPT ![flows + 1] = k] BY DEF Ask
<1>2. FlowsOK(flow, flows, working, saving) BY DEF PageInv
<1>3. flows + 1 \in Flows /\ flow[flows + 1] = NoFlow /\ FlowsOK(flow', flows', working', saving')
 <2>0. k \in FlowRows /\ (Works(k) <=> op \in {"rebalance", "drain"}) /\ (Saves(k) <=> op = "create") BY DEF NoFlow, FlowRows, Works, Saves
 <2> PICK v : v = working' OBVIOUS
 <2> PICK t : t = saving' OBVIOUS
 <2>a. v = (working \/ Works(k)) /\ t = (saving \/ Saves(k)) BY <2>0
 <2>b. (Works(k) => ~working) /\ (Saves(k) => ~saving) BY <2>0
 <2>1. flows + 1 \in Flows /\ flow[flows + 1] = NoFlow /\ FlowsOK([flow EXCEPT ![flows + 1] = k], flows + 1, v, t)
  <3> HIDE DEF FlowRows, Works, Saves, FlowsOK, Flows, NoFlow
  <3>1. k \in FlowRows BY <2>0
  <3>2. flows < MaxFlows BY <1>1
  <3> QED BY ONLY <1>2,<3>1,<3>2,<2>a,<2>b, FlowAsked
 <2> QED BY <1>1,<2>1
<1>4. FlowOK(k, policies, picked, mishap) BY RequestOK
<1>5. \A f \in Flows : FlowOK(flow'[f], policies, picked, mishap) BY <1>1,<1>3,<1>4, PageFacts, FlowKept
<1>6. flow[flows + 1].at \notin {"lists", "listed"} BY <1>3 DEF NoFlow
<1>7. ListsDue(flow) => ListsDue(flow') BY <1>1,<1>3,<1>6, PageFacts, DueKept
<1>8. ListingFits' BY <1>7 DEF PageInv, ListingFits, ListsDue
<1>9. PanelIsOfPicked' /\ VerdictIsOfPicked' BY DEF PageInv, PanelIsOfPicked, VerdictIsOfPicked, PanelVisible
<1> QED BY <1>3,<1>5,<1>8,<1>9, PageFacts, PageStep

LEMMA AsksKeep == ASSUME PageInv, Refresh \/ AskRebalance \/ AskDrain \/ AskCreate PROVE PageInv'
<1>1. CASE Refresh
 <2>1. Ask(flow, "load", "lists", 0) BY <1>1, FlowsType DEF Refresh
 <2>2. working' = (working \/ "load" \in {"rebalance", "drain"}) /\ saving' = (saving \/ "load" = "create") BY <1>1, PageFacts DEF Refresh
 <2>3. UNCHANGED <<policies, listing, picked, panel, panelLoading, verdict, mishap>> BY <1>1 DEF Refresh
 <2> QED BY <2>1,<2>2,<2>3, PageAsks
<1>2. CASE AskRebalance
 <2>1. Ask(flow, "rebalance", "write", picked) /\ picked # 0 /\ ~working BY <1>2 DEF AskRebalance, PanelVisible
 <2>2. working' = (working \/ "rebalance" \in {"rebalance", "drain"}) /\ saving' = (saving \/ "rebalance" = "create") BY <1>2, PageFacts DEF AskRebalance
 <2>3. UNCHANGED <<policies, listing, picked, panel, panelLoading, verdict, mishap>> BY <1>2 DEF AskRebalance
 <2> QED BY <2>1,<2>2,<2>3, PageFacts, PageAsks
<1>3. CASE AskDrain
 <2>1. Ask(flow, "drain", "write", picked) /\ ~working BY <1>3 DEF AskDrain
 <2>2. working' = (working \/ "drain" \in {"rebalance", "drain"}) /\ saving' = (saving \/ "drain" = "create") BY <1>3, PageFacts DEF AskDrain
 <2>3. UNCHANGED <<policies, listing, picked, panel, panelLoading, verdict, mishap>> BY <1>3 DEF AskDrain
 <2> QED BY <2>1,<2>2,<2>3, PageFacts, PageAsks
<1>4. CASE AskCreate
 <2>1. Ask(flow, "create", "write", 0) /\ ~saving BY <1>4 DEF AskCreate
 <2>2. working' = (working \/ "create" \in {"rebalance", "drain"}) /\ saving' = (saving \/ "create" = "create") BY <1>4, PageFacts DEF AskCreate
 <2>3. UNCHANGED <<policies, listing, picked, panel, panelLoading, verdict, mishap>> BY <1>4 DEF AskCreate
 <2> QED BY <2>1,<2>2,<2>3, PageAsks
<1> QED BY <1>1,<1>2,<1>3,<1>4

\* A request goes on to the next of its operation.
LEMMA PageMoves ==
  ASSUME PageInv, NEW f \in Flows, flow[f].at # "none", NEW k \in FlowRows, k.op = flow[f].op,
      flow' = [flow EXCEPT ![f] = k], UNCHANGED <<flows, working, saving, listing, picked, panel>>,
      \E n \in 0..NumPolicies : policies' = 1..n, policies \subseteq policies',
      FlowOK(k, policies', picked, mishap), "verdict" \in mishap' <=> "verdict" \in mishap, "panel" \in mishap' <=> "panel" \in mishap,
      panelLoading' \in BOOLEAN, panelLoading => panelLoading', ListingFits', VerdictIsOfPicked'
  PROVE PageInv'
<1>1. FlowsOK(flow, flows, working, saving) /\ flow \in [Flows -> FlowRows] BY DEF PageInv, FlowsOK
<1>2. FlowsOK(flow', flows', working', saving')
 <2> HIDE DEF FlowRows
 <2>1. FlowsOK([flow EXCEPT ![f] = k], flows, working, saving) BY <1>1, FlowMoved
 <2> QED BY <2>1
<1>3. \A g \in Flows : FlowOK(flow[g], policies', picked, mishap) BY PageFacts DEF FlowOK
<1>4. \A g \in Flows : FlowOK(flow'[g], policies', picked, mishap)
 <2> PICK P : P = policies' OBVIOUS
 <2>1. FlowOK(k, P, picked, mishap) /\ \A g \in Flows : FlowOK(flow[g], P, picked, mishap) BY <1>3
 <2>2. \A g \in Flows : FlowOK([flow EXCEPT ![f] = k][g], P, picked, mishap) BY ONLY <1>1,<2>1, FlowKept
 <2> QED BY <2>2
<1>5. \A g \in Flows : FlowOK(flow'[g], policies', picked', mishap') BY <1>4 DEF FlowOK
<1>6. PanelIsOfPicked' BY PageFacts DEF PageInv, PanelIsOfPicked, PanelVisible
<1>7. listing' \subseteq policies' /\ picked' \in listing' \cup {0} /\ panel' \in Policies \cup {0} BY PageFacts
<1> QED BY <1>2,<1>5,<1>6,<1>7, PageStep

\* A request is the last of its operation.
LEMMA PageEnds ==
  ASSUME PageInv, NEW f \in Flows, flow[f].at \notin {"none", "lists", "listed"}, flow' = Ended(f), Release(f),
      UNCHANGED <<flows, policies, listing, picked, verdict>>,
      "verdict" \in mishap' <=> "verdict" \in mishap, "list" \in mishap' <=> "list" \in mishap,
      panel' \in Policies \cup {0}, panelLoading' \in BOOLEAN, PanelIsOfPicked'
  PROVE PageInv'
<1>1. FlowsOK(flow, flows, working, saving) /\ flow \in [Flows -> FlowRows] BY DEF PageInv, FlowsOK
<1>2. flow' = [flow EXCEPT ![f] = NoFlow] BY DEF Ended
<1>3. FlowsOK(flow', flows', working', saving')
 <2> PICK v : v = (working /\ ~Works(flow[f])) OBVIOUS
 <2> PICK t : t = (saving /\ ~Saves(flow[f])) OBVIOUS
 <2>0. flow[f].at # "none" OBVIOUS
 <2>1. FlowsOK([flow EXCEPT ![f] = NoFlow], flows, v, t)
  <3> HIDE DEF Works, Saves, FlowsOK, FlowRows
  <3>1. v = (working /\ ~Works(flow[f])) /\ t = (saving /\ ~Saves(flow[f])) OBVIOUS
  <3> QED BY ONLY <1>1,<2>0,<3>1, FlowEnded
 <2>2. working' = v /\ saving' = t BY DEF Release, Works, Saves
 <2> QED BY <1>2,<2>1,<2>2
<1>4. FlowOK(NoFlow, policies, picked, mishap) BY DEF FlowOK, NoFlow
<1>5. \A g \in Flows : FlowOK(flow'[g], policies, picked, mishap)
 <2>1. \A g \in Flows : FlowOK(flow[g], policies, picked, mishap) BY PageFacts
 <2>2. \A g \in Flows : FlowOK([flow EXCEPT ![f] = NoFlow][g], policies, picked, mishap) BY ONLY <1>1,<1>4,<2>1, FlowKept
 <2> QED BY <1>2,<2>2
<1>6. \A g \in Flows : FlowOK(flow'[g], policies', picked', mishap') BY <1>5 DEF FlowOK
<1>7. ListsDue(flow) => ListsDue(flow')
 <2>1. ListsDue(flow) => ListsDue([flow EXCEPT ![f] = NoFlow]) BY <1>1, DueKept
 <2> QED BY <1>2,<2>1
<1>8. ListingFits' BY <1>7 DEF PageInv, ListingFits, ListsDue
<1>9. VerdictIsOfPicked' BY DEF PageInv, VerdictIsOfPicked
<1> QED BY <1>3,<1>6,<1>8,<1>9, PageFacts, PageStep

LEMMA ServeListsKeeps == ASSUME PageInv, NEW f \in Flows, ServeLists(f) PROVE PageInv'
<1>1. flow \in [Flows -> FlowRows] /\ policies \subseteq Policies BY PageFacts
<1>2. PICK k : k = [flow[f] EXCEPT !.at = "listed", !.lists = policies] OBVIOUS
<1>3. flow[f].at = "lists" /\ flow' = [flow EXCEPT ![f] = k] BY <1>1,<1>2 DEF ServeLists
<1>4. k \in FlowRows /\ k.op = flow[f].op /\ k.at = "listed" /\ k.lists = policies BY <1>1,<1>2 DEF FlowRows
<1>5. FlowOK(k, policies, picked, mishap) BY <1>4 DEF FlowOK
<1>6. flow'[f] = k BY <1>1,<1>3
<1>7. ListingFits' BY <1>4,<1>6 DEF ListingFits, ListsDue
<1>8. VerdictIsOfPicked' BY DEF PageInv, VerdictIsOfPicked, ServeLists
<1> QED BY <1>3,<1>4,<1>5,<1>7,<1>8, PageFacts, PageMoves DEF ServeLists

LEMMA ListsFailKeeps == ASSUME PageInv, NEW f \in Flows, ListsFail(f) PROVE PageInv'
<1>1. flow \in [Flows -> FlowRows] /\ policies \subseteq Policies BY PageFacts
<1>2. PICK k : k = [flow[f] EXCEPT !.at = "loaded"] OBVIOUS
<1>3. flow[f].at = "listed" /\ flow' = [flow EXCEPT ![f] = k] BY <1>1,<1>2 DEF ListsFail, Onward
<1>4. k \in FlowRows /\ k.op = flow[f].op /\ k.at = "loaded" /\ k.lists = flow[f].lists BY <1>1,<1>2 DEF FlowRows
<1>5. FlowOK(k, policies, picked, mishap) BY <1>4, PageFacts DEF FlowOK
<1>7. ListingFits' BY DEF ListingFits, ListsFail
<1>8. VerdictIsOfPicked' BY DEF PageInv, VerdictIsOfPicked, ListsFail
<1>9. ("verdict" \in mishap' <=> "verdict" \in mishap) /\ ("panel" \in mishap' <=> "panel" \in mishap) BY DEF ListsFail
<1> QED BY <1>3,<1>4,<1>5,<1>7,<1>8,<1>9, PageFacts, PageMoves DEF ListsFail

LEMMA GoOnKeeps == ASSUME PageInv, NEW f \in Flows, GoOn(f) PROVE PageInv'
<1>1. CASE flow[f].op = "drain" /\ flow[f].of # 0
 <2>1. flow \in [Flows -> FlowRows] /\ policies \subseteq Policies BY PageFacts
 <2>2. PICK k : k = [flow[f] EXCEPT !.at = "status"] OBVIOUS
 <2>3. flow[f].at = "loaded" /\ flow' = [flow EXCEPT ![f] = k] BY <1>1,<2>1,<2>2 DEF GoOn, Onward
 <2>4. k \in FlowRows /\ k.op = flow[f].op /\ k.at = "status" /\ k.lists = flow[f].lists BY <2>1,<2>2 DEF FlowRows
 <2>5. FlowOK(k, policies, picked, mishap) BY <2>4, PageFacts DEF FlowOK
 <2>6. ListsDue(flow) => ListsDue(flow')
  <3>1. ListsDue(flow) => ListsDue([flow EXCEPT ![f] = k]) BY <2>1,<2>3, DueKept
  <3> QED BY <2>3,<3>1
 <2>7. ListingFits' BY <2>6 DEF PageInv, ListingFits, ListsDue, GoOn
 <2>8. VerdictIsOfPicked' BY DEF PageInv, VerdictIsOfPicked, GoOn
 <2> QED BY <1>1,<2>3,<2>4,<2>5,<2>7,<2>8, PageFacts, PageMoves DEF GoOn
<1>2. CASE ~(flow[f].op = "drain" /\ flow[f].of # 0)
 <2>1. PanelIsOfPicked' BY <1>2 DEF PageInv, PanelIsOfPicked, PanelVisible, GoOn
 <2> QED BY <1>2,<2>1, PageFacts, PageEnds DEF GoOn
<1> QED BY <1>1,<1>2

LEMMA StatusArrivesKeeps == ASSUME PageInv, NEW f \in Flows, NEW ok \in BOOLEAN, StatusArrives(f, ok) PROVE PageInv'
<1>1. ("verdict" \in mishap' <=> "verdict" \in mishap) /\ ("list" \in mishap' <=> "list" \in mishap) BY DEF StatusArrives
<1>2. panel' \in Policies \cup {0}
 <2>1. flow[f].of \in Policies \cup {0} BY PageFacts DEF FlowRows
 <2> QED BY <2>1, PageFacts DEF StatusArrives
<1>3. PanelIsOfPicked' BY DEF StatusArrives, PanelIsOfPicked
<1> QED BY <1>1,<1>2,<1>3, PageEnds DEF StatusArrives

LEMMA WriteAnsweredKeeps == ASSUME PageInv, NEW f \in Flows, NEW ok \in BOOLEAN, WriteAnswered(f, ok) PROVE PageInv'
<1>0. flow \in [Flows -> FlowRows] /\ policies \subseteq Policies /\ flow[f] \in FlowRows BY PageFacts
<1>1. CASE ~ok
 <2>1. PanelIsOfPicked' BY <1>1 DEF PageInv, PanelIsOfPicked, PanelVisible, WriteAnswered
 <2>2. flow[f].at = "write" /\ flow' = Ended(f) /\ Release(f) /\ UNCHANGED <<flows, policies, listing, picked, verdict, panel, panelLoading, mishap>>
   BY <1>1 DEF WriteAnswered
 <2> QED BY <2>1,<2>2, PageFacts, PageEnds
<1>2. CASE ok
 <2> PICK at : at = IF flow[f].op = "rebalance" THEN "status" ELSE "lists" OBVIOUS
 <2> PICK k : k = [flow[f] EXCEPT !.at = at] OBVIOUS
 <2>1. flow[f].at = "write" /\ flow' = [flow EXCEPT ![f] = k] BY <1>0,<1>2 DEF WriteAnswered, Onward
 <2>2. k \in FlowRows /\ k.op = flow[f].op /\ k.at = at /\ at # "write" /\ k.lists = flow[f].lists BY <1>0 DEF FlowRows
 <2>3. (\E n \in 0..NumPolicies : policies' = 1..n) /\ policies \subseteq policies'
  <3>1. CASE flow[f].op = "create" /\ policies # Policies
   <4> PICK n \in 0..NumPolicies : policies = 1..n BY PageFacts
   <4>1. NumPolicies \in Nat BY WanAssumption
   <4>2. Cardinality(policies) = n BY <4>1, FS_Interval
   <4>3. n # NumPolicies BY <3>1 DEF Policies
   <4>4. n + 1 \in 0..NumPolicies /\ policies' = policies \cup {n + 1} BY <1>2,<3>1,<4>1,<4>2,<4>3 DEF WriteAnswered
   <4>5. policies' = 1..(n + 1) BY <4>1,<4>4
   <4> QED BY <4>4,<4>5
  <3>2. CASE ~(flow[f].op = "create" /\ policies # Policies) BY <1>2,<3>2, PageFacts DEF WriteAnswered
  <3> QED BY <3>1,<3>2
 <2>4. FlowOK(k, policies', picked, mishap)
  <3>1. FlowOK(flow[f], policies, picked, mishap) BY PageFacts
  <3> QED BY <2>2,<2>3,<3>1 DEF FlowOK
 <2>5. flow'[f] = k BY <1>0,<2>1
 <2>6. ListingFits'
  <3>1. CASE flow[f].op = "rebalance"
   <4>1. flow[f].at \notin {"lists", "listed"} BY <2>1
   <4>2. ListsDue(flow) => ListsDue([flow EXCEPT ![f] = k]) BY <1>0,<4>1, DueKept
   <4>3. ListsDue(flow) => ListsDue(flow') BY <2>1,<4>2
   <4>4. policies' = policies /\ listing' = listing /\ mishap' = mishap BY <1>2,<3>1 DEF WriteAnswered
   <4> QED BY <4>3,<4>4 DEF PageInv, ListingFits, ListsDue
  <3>2. CASE flow[f].op # "rebalance"
   <4>1. flow'[f].at = "lists" BY <2>2,<2>5,<3>2
   <4> QED BY <4>1 DEF ListingFits, ListsDue
  <3> QED BY <3>1,<3>2
 <2>7. VerdictIsOfPicked'
  <3>1. CASE flow[f].op = "rebalance"
   <4>1. FlowOK(flow[f], policies, picked, mishap) BY PageFacts
   <4>2. verdict' = flow[f].of /\ picked' = picked /\ mishap' = mishap BY <1>2,<3>1 DEF WriteAnswered
   <4> QED BY <2>1,<3>1,<4>1,<4>2 DEF FlowOK, VerdictIsOfPicked
  <3>2. CASE flow[f].op # "rebalance" BY <1>2,<3>2 DEF PageInv, VerdictIsOfPicked, WriteAnswered
  <3> QED BY <3>1,<3>2
 <2>8. panelLoading' \in BOOLEAN /\ (panelLoading => panelLoading') /\ UNCHANGED <<flows, working, saving, listing, picked, panel, mishap>>
   BY <1>2, PageFacts DEF WriteAnswered
 <2> QED BY <2>1,<2>2,<2>3,<2>4,<2>6,<2>7,<2>8, PageMoves
<1> QED BY <1>1,<1>2

\* The effect of a selection, after the request at one place has moved on.
LEMMA Selected ==
  ASSUME PageInv, NEW st, NEW p \in Policies \cup {0}, Select(p, st), FlowsOK(st, flows, working, saving),
      UNCHANGED <<working, saving>>, NEW P, NEW m, \A g \in Flows : FlowOK(st[g], P, p, m)
  PROVE  /\ FlowsOK(flow', flows', working', saving') /\ \A g \in Flows : FlowOK(flow'[g], P, p, m)
         /\ ListsDue(st) => ListsDue(flow')
         /\ picked' = p /\ panel' \in Policies \cup {0} /\ panelLoading' \in BOOLEAN
         /\ PanelIsOfPicked' \/ "panel" \in mishap
<1>1. picked' = p /\ panel' \in Policies \cup {0} /\ panelLoading' \in BOOLEAN BY PageFacts DEF Select
<1>2. PanelIsOfPicked' \/ "panel" \in mishap BY PageFacts DEF PageInv, PanelIsOfPicked, PanelVisible, Select
<1>3. CASE p = picked \/ p = 0
 <2>1. flow' = st /\ flows' = flows BY <1>3 DEF Select
 <2>2. FlowsOK(flow', flows', working', saving') BY <2>1
 <2>3. \A g \in Flows : FlowOK(flow'[g], P, p, m) BY <2>1
 <2> QED BY <1>1,<1>2,<2>1,<2>2,<2>3
<1>4. CASE p # picked /\ p # 0
 <2> PICK k : k = [NoFlow EXCEPT !.op = "load", !.at = "status", !.of = p] OBVIOUS
 <2>1. flows < MaxFlows /\ flows' = flows + 1 /\ flow' = [st EXCEPT ![flows + 1] = k] BY <1>4 DEF Select, Ask
 <2>2. k \in FlowRows /\ ~Works(k) /\ ~Saves(k) BY DEF NoFlow, FlowRows, Works, Saves
 <2>3. working = (working \/ Works(k)) /\ saving = (saving \/ Saves(k)) BY <2>2, PageFacts
 <2>4. flows + 1 \in Flows /\ st[flows + 1] = NoFlow /\ FlowsOK([st EXCEPT ![flows + 1] = k], flows + 1, working, saving)
  <3> HIDE DEF FlowRows, Works, Saves, FlowsOK, Flows, NoFlow
  <3>1. FlowsOK(st, flows, working, saving) OBVIOUS
  <3>2. flows < MaxFlows BY <2>1
  <3> QED BY ONLY <3>1,<3>2,<2>2,<2>3, FlowAsked
 <2>5. FlowsOK(flow', flows', working', saving')
  <3>1. working' = working /\ saving' = saving OBVIOUS
  <3> QED BY <2>1,<2>4,<3>1
 <2>6. FlowOK(k, P, p, m) BY DEF NoFlow, FlowOK
 <2>7. st \in [Flows -> FlowRows] BY DEF FlowsOK
 <2>8. \A g \in Flows : FlowOK(flow'[g], P, p, m)
  <3>1. \A g \in Flows : FlowOK(st[g], P, p, m) OBVIOUS
  <3>2. \A g \in Flows : FlowOK([st EXCEPT ![flows + 1] = k][g], P, p, m) BY ONLY <2>4,<2>6,<2>7,<3>1, FlowKept
  <3> QED BY <2>1,<3>2
 <2>9. ListsDue(st) => ListsDue(flow')
  <3>1. st[flows + 1].at \notin {"lists", "listed"} BY <2>4 DEF NoFlow
  <3>2. ListsDue(st) => ListsDue([st EXCEPT ![flows + 1] = k]) BY <2>4,<2>7,<3>1, DueKept
  <3> QED BY <2>1,<3>2
 <2> QED BY <1>1,<1>2,<2>5,<2>8,<2>9
<1> QED BY <1>3,<1>4

LEMMA PickPolicyKeeps == ASSUME PageInv, NEW p \in Policies \cup {0}, PickPolicy(p) PROVE PageInv'
<1>1. FlowsOK(flow, flows, working, saving) /\ UNCHANGED <<working, saving>> /\ Select(p, flow) BY DEF PageInv, PickPolicy
<1>2. \A g \in Flows : FlowOK(flow[g], policies, p, mishap')
 <2>1. TAKE g \in Flows
 <2>2. FlowOK(flow[g], policies, picked, mishap) BY PageFacts
 <2>3. CASE working
  <3>1. "verdict" \in mishap' BY <2>3 DEF PickPolicy
  <3> QED BY <2>2,<3>1 DEF FlowOK
 <2>4. CASE ~working
  <3>1. ~Works(flow[g]) BY <1>1,<2>4 DEF FlowsOK
  <3> QED BY <2>2,<3>1 DEF FlowOK, Works
 <2> QED BY <2>3,<2>4
<1>3. /\ FlowsOK(flow', flows', working', saving')
      /\ \A g \in Flows : FlowOK(flow'[g], policies, p, mishap')
      /\ ListsDue(flow) => ListsDue(flow')
      /\ picked' = p /\ panel' \in Policies \cup {0} /\ panelLoading' \in BOOLEAN
      /\ PanelIsOfPicked' \/ "panel" \in mishap
 <2> PICK m : m = mishap' OBVIOUS
 <2> QED BY <1>1,<1>2, Selected
<1>4. ("panel" \in mishap' <=> "panel" \in mishap) /\ ("list" \in mishap' <=> "list" \in mishap) BY DEF PickPolicy
<1>5. PanelIsOfPicked' BY <1>3,<1>4 DEF PanelIsOfPicked
<1>6. ListingFits' BY <1>3,<1>4 DEF PageInv, ListingFits, ListsDue, PickPolicy
<1>7. VerdictIsOfPicked' BY DEF PickPolicy, VerdictIsOfPicked
<1>8. policies' = policies /\ listing' = listing /\ p \in listing \cup {0} BY DEF PickPolicy
<1>9. \A g \in Flows : FlowOK(flow'[g], policies', picked', mishap') BY <1>3,<1>8
<1> QED BY <1>3,<1>5,<1>6,<1>7,<1>8,<1>9, PageFacts, PageStep

LEMMA ListsArriveKeeps == ASSUME PageInv, NEW f \in Flows, ListsArrive(f) PROVE PageInv'
<1>0. flow \in [Flows -> FlowRows] /\ flow[f] \in FlowRows BY PageFacts
<1> PICK lists : lists = flow[f].lists OBVIOUS
<1>1. lists \subseteq policies /\ lists \subseteq Policies BY PageFacts DEF FlowOK
<1> PICK k : k = [flow[f] EXCEPT !.at = "loaded"] OBVIOUS
<1> PICK st : st = [flow EXCEPT ![f] = k] OBVIOUS
<1>2. flow[f].at = "listed" /\ st = Onward(f, "loaded") BY <1>0 DEF ListsArrive, Onward
<1>3. k \in FlowRows /\ k.op = flow[f].op /\ k.at = "loaded" /\ k.lists = flow[f].lists BY <1>0 DEF FlowRows
<1>4. \E p \in lists \cup {0} : /\ Select(p, st)
                                /\ picked \in lists => p = picked
 <2>1. CASE picked \in lists BY <1>2,<2>1 DEF ListsArrive
 <2>2. CASE picked \notin lists BY <1>2,<2>2 DEF ListsArrive
 <2> QED BY <2>1,<2>2
<1> PICK p \in lists \cup {0} : /\ Select(p, st)
                                /\ picked \in lists => p = picked BY <1>4
<1>5. FlowsOK(st, flows, working, saving)
 <2>1. FlowsOK(flow, flows, working, saving) BY PageFacts
 <2>2. flow[f].at # "none" BY <1>2
 <2> QED BY ONLY <1>3,<2>1,<2>2, FlowMoved, st = [flow EXCEPT ![f] = k]
<1>6. /\ listing' = lists /\ UNCHANGED <<policies, working, saving, verdict>>
      /\ "panel" \in mishap' <=> "panel" \in mishap
      /\ "list" \in mishap' <=> lists # policies
      /\ "verdict" \in mishap' <=> "verdict" \in mishap \/ (picked # 0 /\ picked \notin lists) BY DEF ListsArrive
<1>7. \A g \in Flows : FlowOK(st[g], policies, p, mishap')
 <2>1. \A g \in Flows : FlowOK(flow[g], policies, p, mishap')
  <3>1. TAKE g \in Flows
  <3>2. FlowOK(flow[g], policies, picked, mishap) BY PageFacts
  <3>3. CASE picked = 0 BY <1>6,<3>2,<3>3 DEF FlowOK
  <3>4. CASE picked # 0 /\ picked \notin lists BY <1>6,<3>2,<3>4 DEF FlowOK
  <3>5. CASE picked \in lists BY <1>6,<3>2,<3>5 DEF FlowOK
  <3> QED BY <3>3,<3>4,<3>5
 <2>2. FlowOK(flow[f], policies, p, mishap') BY <2>1
 <2>3. FlowOK(k, policies, p, mishap') BY <1>3,<2>2 DEF FlowOK
 <2> PICK m : m = mishap' OBVIOUS
 <2>4. FlowOK(k, policies, p, m) /\ \A g \in Flows : FlowOK(flow[g], policies, p, m) BY <2>1,<2>3
 <2>5. \A g \in Flows : FlowOK([flow EXCEPT ![f] = k][g], policies, p, m) BY ONLY <1>0,<2>4, FlowKept
 <2> QED BY <2>5
<1>8. p \in Policies \cup {0} BY <1>1
<1>9. /\ FlowsOK(flow', flows', working', saving')
      /\ \A g \in Flows : FlowOK(flow'[g], policies, p, mishap')
      /\ picked' = p /\ panel' \in Policies \cup {0} /\ panelLoading' \in BOOLEAN
      /\ PanelIsOfPicked' \/ "panel" \in mishap
 <2> PICK m : m = mishap' OBVIOUS
 <2> QED BY <1>5,<1>6,<1>7,<1>8, Selected
<1>10. PanelIsOfPicked' BY <1>6,<1>9 DEF PanelIsOfPicked
<1>11. ListingFits' BY <1>6 DEF ListingFits
<1>12. VerdictIsOfPicked' BY <1>6,<1>9 DEF PageInv, VerdictIsOfPicked
<1>13. listing' \subseteq policies' /\ picked' \in listing' \cup {0} BY <1>1,<1>6,<1>9
<1>14. \A g \in Flows : FlowOK(flow'[g], policies', picked', mishap') BY <1>6,<1>9
<1> QED BY <1>6,<1>9,<1>10,<1>11,<1>12,<1>13,<1>14, PageFacts, PageStep

LEMMA PageStepKeeps == PageInv /\ [PageNext]_pageVars => PageInv'
<1> SUFFICES ASSUME PageInv, [PageNext]_pageVars PROVE PageInv' OBVIOUS
<1>1. CASE UNCHANGED pageVars BY <1>1 DEF pageVars, PageInv, FlowsOK, FlowOK, ListingFits, ListsDue, PanelIsOfPicked, PanelVisible, VerdictIsOfPicked
<1>2. CASE Refresh \/ AskRebalance \/ AskDrain \/ AskCreate BY <1>2, AsksKeep
<1>3. ASSUME NEW p \in Policies \cup {0}, PickPolicy(p) PROVE PageInv' BY <1>3, PickPolicyKeeps
<1>4. ASSUME NEW f \in Flows, ServeLists(f) PROVE PageInv' BY <1>4, ServeListsKeeps
<1>5. ASSUME NEW f \in Flows, ListsArrive(f) PROVE PageInv' BY <1>5, ListsArriveKeeps
<1>6. ASSUME NEW f \in Flows, ListsFail(f) PROVE PageInv' BY <1>6, ListsFailKeeps
<1>7. ASSUME NEW f \in Flows, GoOn(f) PROVE PageInv' BY <1>7, GoOnKeeps
<1>8. ASSUME NEW f \in Flows, NEW ok \in BOOLEAN, WriteAnswered(f, ok) PROVE PageInv' BY <1>8, WriteAnsweredKeeps
<1>9. ASSUME NEW f \in Flows, NEW ok \in BOOLEAN, StatusArrives(f, ok) PROVE PageInv' BY <1>9, StatusArrivesKeeps
<1> QED BY <1>1,<1>2,<1>3,<1>4,<1>5,<1>6,<1>7,<1>8,<1>9 DEF PageNext

LEMMA PageInvHolds == PageInv => WanPageHolds
<1> SUFFICES ASSUME PageInv PROVE WanPageHolds OBVIOUS
<1>1. PageTypeOK
 <2>1. \A f \in Flows : flow[f].lists \subseteq policies /\ flow[f].of \in Policies \cup {0} BY PageFacts DEF FlowOK, FlowRows
 <2> QED BY <2>1, PageFacts DEF PageTypeOK
<1>2. (working <=> \E f \in Flows : flow[f].op \in {"rebalance", "drain"}) /\ (saving <=> \E f \in Flows : flow[f].op = "create")
  BY PageFacts DEF FlowsOK, Works, Saves
<1>3. (\A f \in Flows : flow[f] = NoFlow) => ~ListsDue(flow) BY DEF ListsDue, NoFlow
<1>4. ButtonsComeBack BY <1>2,<1>3 DEF PageInv, ListingFits, ButtonsComeBack
<1> QED BY <1>1,<1>4 DEF PageInv, WanPageHolds

\* For every number of connections and rebalances, with changes, probes and failed
\* requests at any point: routes are not doubled but by rebalances that cross, a plan
\* that was read back is in force, there is one primary rank and a default route; the
\* page shows, rebalances and reports on the policy that is picked (rebalance,
\* applyLoadBalanceDecision, evaluateWanHealth; LoadBalancingPage).
THEOREM RoutesAreKept == WanSpec => WanRoutesHold
<1>1. WanInit /\ PageInit => WanInv /\ PageInv BY WanInitHolds, PageInitHolds
<1> DEFINE WanOrPage == (WanNext /\ UNCHANGED pageVars) \/ (PageNext /\ UNCHANGED wanVars)
<1>2. WanInv /\ PageInv /\ [WanOrPage]_<<wanVars, pageVars>> => (WanInv /\ PageInv)' /\ [WanRecovers]_wan
 <2>1. SUFFICES ASSUME WanInv, PageInv, [WanOrPage]_<<wanVars, pageVars>> PROVE (WanInv /\ PageInv)' /\ [WanRecovers]_wan OBVIOUS
 <2>2. [WanNext]_wanVars /\ [PageNext]_pageVars BY <2>1
 <2> QED BY <2>1,<2>2, WanStepKeeps, PageStepKeeps
<1>3. WanInv /\ PageInv => WanTypeOK /\ RoutesAreNotDoubled /\ AppliedIsInForce /\ OnePrimaryRank /\ NoFaultNoBlackHole /\ WanPageHolds
  BY WanInvHolds, PageInvHolds
<1>4. WanSpec => [](WanInv /\ PageInv) /\ [][WanRecovers]_wan BY <1>1,<1>2, PTL DEF WanSpec
<1>5. [][WanRecovers]_wan => RecoversInSteps BY DEF WanRecovers, RecoversInSteps
<1> QED BY <1>3,<1>4,<1>5, PTL DEF WanRoutesHold
====
