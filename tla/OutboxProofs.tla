---- MODULE OutboxProofs ----
(* What holds of the three outboxes, the payment intake and the scheduler for every number of rows,
   workers, attempts and faults: the inductive invariant of each, that each of its steps keeps it, and that the outboxes implement Delivery. *)
EXTENDS MCOutboxes, FiniteSetTheorems, TLAPS

------------------------
(* SMS. SmsRowMoves says where a row may go, given what the provider accepted; Owing counts the
   attempts that a worker still owes. *)
SmsRows == [status : SmsStatus, attempts : 0..MaxAttempts]
SmsRowsOK == sms \in [Keys -> {NoRow} \cup SmsRows]
SmsJobsOK == job \in [Senders -> {Idle} \cup [key : Keys, at : SmsSteps]] /\ batch \in [Senders -> SUBSET Keys]
SmsKnown == \A w \in Senders : /\ \A k \in batch[w] : sms[k] # NoRow
                               /\ job[w] # Idle => sms[job[w].key] # NoRow
                               /\ job[w].at = "sent" => accepted[job[w].key] > 0
SmsInv == SmsRowsOK /\ SmsJobsOK /\ accepted \in [Keys -> Nat] /\ SmsKnown

\* Moves of one row: where it may go, given what the provider accepted.
SmsRowMoves(k) ==
  \/ sms'[k] = sms[k]
  \/ sms[k] = NoRow /\ sms'[k] \in SmsRows /\ sms'[k].status = "PENDING"
  \/ /\ sms[k] \in SmsRows /\ sms'[k] \in SmsRows
     /\ \/ sms[k].status = "PENDING" /\ sms'[k].status = "PROCESSING"
        \/ sms[k].status = "PROCESSING" /\ sms'[k].status \in {"PENDING", "FAILED"}
        \/ sms[k].status = "PROCESSING" /\ sms'[k].status = "SENT" /\ accepted[k] > 0

LEMMA SmsRowIsReal == NoRow \notin SmsRows /\ Idle \notin [key : Keys, at : SmsSteps] /\ MaxAttempts \in Nat \ {0}
  BY SmsRowAssumption, SmsAssumption DEF SmsRows, Idle, SmsSteps

LEMMA SmsInitOK == SmsInit => SmsInv /\ SmsDelivery!DeliveryInit
  BY DEF SmsInit, SmsInv, SmsRowsOK, SmsJobsOK, SmsKnown, SmsDelivery!DeliveryInit, SmsPlace, Idle

LEMMA SmsMovesImplement == ASSUME SmsRowsOK, SmsRowsOK', \A k \in Keys : SmsRowMoves(k), accepted' = accepted PROVE SmsDelivery!DeliveryNext
<1> SUFFICES ASSUME NEW k \in Keys PROVE SmsDelivery!Step(k) BY DEF SmsDelivery!DeliveryNext
<1>1. SmsRowMoves(k) OBVIOUS
<1> QED BY <1>1, SmsRowIsReal DEF SmsDelivery!Step, SmsDelivery!Moves, SmsRowMoves, SmsPlace, SmsRowsOK, SmsRows, SmsStatus

\* An update that names the status touches rows in PROCESSING alone.
LEMMA SmsUpdates ==
  ASSUME SmsRowsOK, NEW k \in Keys, NEW new \in SmsRows, sms[k] # NoRow, Update(k, new),
      new.status \in {"PENDING", "FAILED"} \/ (new.status = "SENT" /\ accepted[k] > 0)
  PROVE SmsRowsOK' /\ (\A q \in Keys : SmsRowMoves(q)) /\ \A q \in Keys : sms[q] # NoRow => sms'[q] # NoRow
  BY SmsRowIsReal DEF Update, SmsRowMoves, SmsRowsOK

LEMMA SmsStep == SmsInv /\ [SmsNext]_smsVars => SmsInv' /\ SmsDelivery!DeliveryNext
<1> SUFFICES ASSUME SmsInv, [SmsNext]_smsVars PROVE SmsInv' /\ SmsDelivery!DeliveryNext OBVIOUS
<1> USE SmsRowIsReal
<1>0. SmsRowsOK /\ SmsJobsOK /\ accepted \in [Keys -> Nat] /\ SmsKnown BY DEF SmsInv
<1>still. ASSUME UNCHANGED <<sms, accepted>> PROVE SmsDelivery!DeliveryNext
 <2>1. \A k \in Keys : SmsRowMoves(k) BY <1>still DEF SmsRowMoves
 <2>2. SmsRowsOK' BY <1>0,<1>still DEF SmsRowsOK
 <2> QED BY <1>0,<1>still,<2>1,<2>2, SmsMovesImplement
<1>rows. ASSUME SmsRowsOK', \A k \in Keys : SmsRowMoves(k), accepted' = accepted PROVE SmsDelivery!DeliveryNext BY <1>0,<1>rows, SmsMovesImplement
<1>1. CASE UNCHANGED smsVars
 <2>1. SmsInv' BY <1>0,<1>1 DEF smsVars, SmsInv, SmsRowsOK, SmsJobsOK, SmsKnown
 <2> QED BY <1>1,<1>still,<2>1 DEF smsVars
<1>2. ASSUME NEW k \in Direct, NEW p \in Phones, NEW m \in BOOLEAN, EnqueueSms(k, p, m) PROVE SmsInv' /\ SmsDelivery!DeliveryNext
 <2>1. k \in Keys /\ NewRow \in SmsRows BY DEF Keys, NewRow, SmsRows, SmsStatus
 <2>2. SmsRowsOK' /\ \A q \in Keys : SmsRowMoves(q) BY <1>0,<1>2,<2>1 DEF EnqueueSms, SmsRowsOK, SmsRowMoves, NewRow
 <2>3. SmsInv' BY <1>0,<1>2,<2>1,<2>2 DEF EnqueueSms, SmsInv, SmsJobsOK, SmsKnown, SmsRowsOK
 <2> QED BY <1>2,<1>rows,<2>2,<2>3 DEF EnqueueSms
<1>3. ASSUME NEW c \in Campaigns, NEW ps \in SUBSET Phones, NEW m \in BOOLEAN, EnqueueBulkSms(c, ps, m) PROVE SmsInv' /\ SmsDelivery!DeliveryNext
 <2>1. NewRow \in SmsRows BY DEF NewRow, SmsRows, SmsStatus
 <2>2. SmsRowsOK' /\ \A q \in Keys : SmsRowMoves(q) BY <1>0,<1>3,<2>1 DEF EnqueueBulkSms, SmsRowsOK, SmsRowMoves, NewRow
 <2>3. \A q \in Keys : sms[q] # NoRow => sms'[q] # NoRow BY <2>2 DEF SmsRowMoves
 <2>4. SmsInv' BY <1>0,<1>3,<2>2,<2>3 DEF EnqueueBulkSms, SmsInv, SmsJobsOK, SmsKnown
 <2> QED BY <1>3,<1>rows,<2>2,<2>4 DEF EnqueueBulkSms
<1>4. ASSUME NEW p \in Phones, SetConsent(p) PROVE SmsInv' /\ SmsDelivery!DeliveryNext
 <2>1. SmsInv' BY <1>0,<1>4 DEF SetConsent, SmsInv, SmsRowsOK, SmsJobsOK, SmsKnown
 <2> QED BY <1>4,<1>still,<2>1 DEF SetConsent
<1>5. ASSUME NEW ready \in BOOLEAN, SaveProvider(ready) PROVE SmsInv' /\ SmsDelivery!DeliveryNext
 <2>1. SmsInv' BY <1>0,<1>5 DEF SaveProvider, SmsInv, SmsRowsOK, SmsJobsOK, SmsKnown
 <2> QED BY <1>5,<1>still,<2>1 DEF SaveProvider
<1>6. ASSUME NEW w \in Senders, ClaimSms(w) PROVE SmsInv' /\ SmsDelivery!DeliveryNext
 <2> PICK ks \in SUBSET {k \in Keys : Claimable(k)} :
       /\ batch' = [batch EXCEPT ![w] = ks]
       /\ sms' = [k \in Keys |-> IF k \in ks
                    THEN [status |-> "PROCESSING", attempts |-> sms[k].attempts + 1] ELSE sms[k]] BY <1>6 DEF ClaimSms
 <2>1. \A k \in ks : sms[k] \in SmsRows /\ sms[k].status = "PENDING" /\ sms[k].attempts < MaxAttempts BY <1>0 DEF Claimable, SmsRowsOK
 <2>2. \A k \in ks : [status |-> "PROCESSING", attempts |-> sms[k].attempts + 1] \in SmsRows BY <2>1 DEF SmsRows, SmsStatus
 <2>3. SmsRowsOK' /\ \A q \in Keys : SmsRowMoves(q) BY <1>0,<2>1,<2>2 DEF SmsRowsOK, SmsRowMoves
 <2>4. \A q \in Keys : sms[q] # NoRow => sms'[q] # NoRow BY <2>3 DEF SmsRowMoves
 <2>5. \A q \in ks : q \in Keys /\ sms'[q] # NoRow BY <2>2
 <2>6. SmsJobsOK' /\ UNCHANGED <<job, accepted>> BY <1>0,<1>6 DEF ClaimSms, SmsJobsOK
 <2>7. SmsKnown' BY <1>0,<2>4,<2>5,<2>6 DEF SmsKnown, SmsJobsOK
 <2> QED BY <1>0,<1>rows,<2>3,<2>6,<2>7 DEF SmsInv
<1>7. ASSUME NEW w \in Senders, NextRow(w) PROVE SmsInv' /\ SmsDelivery!DeliveryNext
 <2>1. SmsInv' BY <1>0,<1>7 DEF NextRow, SmsInv, SmsRowsOK, SmsJobsOK, SmsKnown, SmsSteps
 <2> QED BY <1>7,<1>still,<2>1 DEF NextRow
<1>8. ASSUME NEW w \in Senders, CheckProvider(w) PROVE SmsInv' /\ SmsDelivery!DeliveryNext
 <2>1. job[w] \in [key : Keys, at : SmsSteps] BY <1>0,<1>8 DEF CheckProvider, At, SmsJobsOK, Idle
 <2>2. SmsInv' BY <1>0,<1>8,<2>1 DEF CheckProvider, Goto, SmsInv, SmsRowsOK, SmsJobsOK, SmsKnown, SmsSteps
 <2> QED BY <1>8,<1>still,<2>2 DEF CheckProvider
<1>9. ASSUME NEW w \in Senders, Send(w) PROVE SmsInv' /\ SmsDelivery!DeliveryNext
 <2>1. job[w] \in [key : Keys, at : SmsSteps] /\ job[w] # Idle BY <1>0,<1>9 DEF Send, At, SmsJobsOK, Idle
 <2> DEFINE k == job[w].key
 <2>2. k \in Keys /\ sms[k] # NoRow BY <1>0,<2>1 DEF SmsKnown
 <2>3. /\ \/ UNCHANGED accepted
          \/ accepted' = [accepted EXCEPT ![k] = @ + 1]
       /\ \E next \in {"sent", "failed", "refused"} :
            /\ job' = [job EXCEPT ![w].at = next]
            /\ next = "sent" => accepted' = [accepted EXCEPT ![k] = @ + 1] BY <1>9 DEF Send, Accepts, Refuses, Unavailable, Goto
 <2>4. accepted' \in [Keys -> Nat] /\ \A q \in Keys : accepted'[q] \in {accepted[q], accepted[q] + 1} BY <1>0,<2>2,<2>3
 <2>5. UNCHANGED <<sms, batch>> BY <1>9 DEF Send
 <2>6. SmsJobsOK' BY <1>0,<2>1,<2>3,<2>5 DEF SmsJobsOK, SmsSteps
 <2>7. SmsKnown'
  <3> SUFFICES ASSUME NEW v \in Senders
    PROVE  /\ \A q \in batch'[v] : sms'[q] # NoRow
           /\ job'[v] # Idle => sms'[job'[v].key] # NoRow
           /\ job'[v].at = "sent" => accepted'[job'[v].key] > 0 BY DEF SmsKnown
  <3>1. \A q \in batch'[v] : sms'[q] # NoRow BY <1>0,<2>5 DEF SmsKnown
  <3>2. CASE v = w
   <4>1. job'[v].key = k BY <2>1,<2>3,<3>2,<1>0 DEF SmsJobsOK
   <4>2. job'[v].at = "sent" => accepted'[k] = accepted[k] + 1 BY <1>0,<2>1,<2>2,<2>3,<3>2 DEF SmsJobsOK
   <4> QED BY <1>0,<2>2,<2>5,<3>1,<4>1,<4>2
  <3>3. CASE v # w
   <4>1. job'[v] = job[v] BY <1>0,<2>3,<3>3 DEF SmsJobsOK
   <4>2. job[v].at = "sent" => job[v].key \in Keys BY <1>0 DEF SmsJobsOK, Idle
   <4> QED BY <1>0,<2>4,<2>5,<3>1,<4>1,<4>2 DEF SmsKnown
  <3> QED BY <3>2,<3>3
 <2>8. SmsInv' BY <1>0,<2>4,<2>5,<2>6,<2>7 DEF SmsInv, SmsRowsOK
 <2>9. ASSUME NEW q \in Keys PROVE SmsDelivery!Step(q)
  <3>1. SmsPlace'[q] = SmsPlace[q] BY <2>5 DEF SmsPlace
  <3>2. accepted'[q] # accepted[q] => q = k BY <1>0,<2>2,<2>3
  <3>3. SmsPlace[k] # "none" BY <1>0,<2>2 DEF SmsPlace, SmsRowsOK, SmsRows, SmsStatus
  <3> QED BY <2>4,<3>1,<3>2,<3>3 DEF SmsDelivery!Step
 <2> QED BY <2>8,<2>9 DEF SmsDelivery!DeliveryNext
<1>update. ASSUME NEW w \in Senders, NEW new \in SmsRows, job[w] # Idle, Update(job[w].key, new), Done(w),
    new.status \in {"PENDING", "FAILED"} \/ (new.status = "SENT" /\ job[w].at = "sent"), UNCHANGED <<batch, accepted>>
  PROVE SmsInv' /\ SmsDelivery!DeliveryNext
 <2>1. job[w].key \in Keys /\ sms[job[w].key] # NoRow BY <1>0,<1>update DEF SmsJobsOK, SmsKnown
 <2>2. new.status = "SENT" => accepted[job[w].key] > 0 BY <1>0,<1>update DEF SmsKnown
 <2>3. SmsRowsOK' /\ (\A q \in Keys : SmsRowMoves(q)) /\ \A q \in Keys : sms[q] # NoRow => sms'[q] # NoRow BY <1>0,<1>update,<2>1,<2>2, SmsUpdates
 <2>4. SmsJobsOK' BY <1>0,<1>update DEF Done, SmsJobsOK
 <2>5. SmsKnown' BY <1>0,<1>update,<2>3 DEF Done, SmsJobsOK, SmsKnown, Idle
 <2> QED BY <1>0,<1>update,<1>rows,<2>3,<2>4,<2>5 DEF SmsInv
<1>row. ASSUME NEW w \in Senders, job[w] # Idle PROVE sms[job[w].key] \in SmsRows BY <1>0,<1>row DEF SmsJobsOK, SmsKnown, SmsRowsOK
<1>back. ASSUME NEW a \in 0..MaxAttempts PROVE GiveBack(a) \in SmsRows /\ GiveBack(a).status \in {"PENDING", "FAILED"}
  BY DEF GiveBack, SmsRows, SmsStatus
<1>10. ASSUME NEW w \in Senders, DeferSms(w) PROVE SmsInv' /\ SmsDelivery!DeliveryNext
 <2>1. job[w] # Idle BY <1>10 DEF DeferSms, At, Idle
 <2> DEFINE a == sms[job[w].key].attempts
            new == [status |-> "PENDING", attempts |-> IF a = 0 THEN 0 ELSE a - 1]
 <2>2. new \in SmsRows /\ new.status = "PENDING" BY <2>1,<1>row DEF SmsRows, SmsStatus
 <2>3. Update(job[w].key, new) /\ Done(w) /\ UNCHANGED <<batch, accepted>> BY <1>10 DEF DeferSms
 <2> HIDE DEF new
 <2> QED BY <2>1,<2>2,<2>3,<1>update
<1>mark. ASSUME NEW w \in Senders, NEW step \in {"sent", "refused"}, NEW status \in {"SENT", "FAILED"}, Mark(w, step, status),
    status = "SENT" => step = "sent"
  PROVE SmsInv' /\ SmsDelivery!DeliveryNext
 <2>1. job[w] # Idle /\ job[w].at = step BY <1>mark DEF Mark, At, Idle
 <2> DEFINE new == [status |-> status, attempts |-> sms[job[w].key].attempts]
 <2>2. new \in SmsRows /\ new.status = status BY <2>1,<1>row DEF SmsRows, SmsStatus
 <2>3. Update(job[w].key, new) /\ Done(w) /\ UNCHANGED <<batch, accepted>> BY <1>mark DEF Mark
 <2> HIDE DEF new
 <2> QED BY <1>mark,<2>1,<2>2,<2>3,<1>update
<1>11. ASSUME NEW w \in Senders, MarkSent(w) \/ MarkPermanentlyFailed(w) PROVE SmsInv' /\ SmsDelivery!DeliveryNext
  BY <1>11,<1>mark DEF MarkSent, MarkPermanentlyFailed
<1>12. ASSUME NEW w \in Senders, MarkFailed(w) PROVE SmsInv' /\ SmsDelivery!DeliveryNext
 <2>1. job[w] # Idle BY <1>12 DEF MarkFailed, At, Idle
 <2>2. sms[job[w].key].attempts \in 0..MaxAttempts BY <2>1,<1>row DEF SmsRows
 <2>3. Update(job[w].key, GiveBack(sms[job[w].key].attempts)) /\ Done(w) /\ UNCHANGED <<batch, accepted>> BY <1>12 DEF MarkFailed
 <2> QED BY <2>1,<2>2,<2>3,<1>back,<1>update
<1>13. ASSUME NEW w \in Senders, StatementFails(w) PROVE SmsInv' /\ SmsDelivery!DeliveryNext
 <2>1. job[w] \in [key : Keys, at : SmsSteps] BY <1>0,<1>13 DEF StatementFails, SmsJobsOK, Idle
 <2>2. UNCHANGED <<sms, accepted>> BY <1>13 DEF StatementFails
 <2>3. SmsJobsOK' BY <1>0,<1>13,<2>1 DEF StatementFails, Goto, Done, SmsJobsOK, SmsSteps
 <2>4. SmsKnown' BY <1>0,<1>13,<2>1,<2>2 DEF StatementFails, Goto, Done, SmsJobsOK, SmsKnown, Idle
 <2> QED BY <1>0,<1>still,<2>2,<2>3,<2>4 DEF SmsInv, SmsRowsOK
<1>14. ASSUME NEW w \in Senders, SenderCrashes(w) PROVE SmsInv' /\ SmsDelivery!DeliveryNext
 <2>1. SmsInv' BY <1>0,<1>14 DEF SenderCrashes, Done, SmsInv, SmsRowsOK, SmsJobsOK, SmsKnown, Idle
 <2> QED BY <1>14,<1>still,<2>1 DEF SenderCrashes
<1>15. CASE RecoverStaleProcessing
 <2> PICK ks \in SUBSET {k \in Keys : sms[k] # NoRow /\ sms[k].status = "PROCESSING"} :
       sms' = [k \in Keys |-> IF k \in ks THEN GiveBack(sms[k].attempts) ELSE sms[k]] BY <1>15 DEF RecoverStaleProcessing
 <2>1. \A k \in ks : sms[k] \in SmsRows /\ sms[k].attempts \in 0..MaxAttempts BY <1>0 DEF SmsRowsOK, SmsRows
 <2>2. SmsRowsOK' /\ \A q \in Keys : SmsRowMoves(q) BY <1>0,<1>back,<2>1 DEF SmsRowsOK, SmsRowMoves
 <2>3. \A q \in Keys : sms[q] # NoRow => sms'[q] # NoRow BY <2>2 DEF SmsRowMoves
 <2>4. UNCHANGED <<batch, job, accepted>> BY <1>15 DEF RecoverStaleProcessing
 <2>5. SmsKnown' BY <1>0,<2>3,<2>4 DEF SmsKnown, SmsJobsOK
 <2> QED BY <1>0,<1>rows,<2>2,<2>4,<2>5 DEF SmsInv, SmsJobsOK
<1> QED BY <1>1,<1>2,<1>3,<1>4,<1>5,<1>6,<1>7,<1>8,<1>9,<1>10,<1>11,<1>12,<1>13,<1>14,<1>15 DEF SmsNext, SenderStep
LEMMA SmsTypesHold == SmsInit => SmsTypeOK BY SmsAssumption DEF SmsInit, SmsTypeOK

\* A campaign counts rows of its own recipients, of which there is one at least.
LEMMA CampaignCount == ASSUME NEW c \in Campaigns, NEW ks, ks \subseteq {c} \X Phones, ks # {} PROVE Cardinality(ks) \in 1..Cardinality(Phones)
<1>1. IsFiniteSet({c}) /\ Cardinality({c}) = 1 /\ IsFiniteSet(Phones) /\ Cardinality(Phones) \in Nat
  BY FS_Singleton, FS_CardinalityType, SmsAssumption
<1>2. IsFiniteSet({c} \X Phones) /\ Cardinality({c} \X Phones) = Cardinality(Phones) BY <1>1, FS_Product
<1>3. IsFiniteSet(ks) /\ Cardinality(ks) <= Cardinality(Phones) BY <1>2, FS_Subset
<1>4. Cardinality(ks) \in Nat /\ Cardinality(ks) # 0 BY <1>3, FS_CardinalityType, FS_EmptySet
<1> QED BY <1>1,<1>3,<1>4

LEMMA SmsTypesStep == ASSUME SmsTypeOK, SmsInv, SmsInv', [SmsNext]_smsVars PROVE SmsTypeOK'
<1>1. /\ sms' \in [Keys -> {NoRow} \cup SmsRows] /\ accepted' \in [Keys -> Nat]
      /\ batch' \in [Senders -> SUBSET Keys] /\ job' \in [Senders -> {Idle} \cup [key : Keys, at : SmsSteps]] BY DEF SmsInv, SmsRowsOK, SmsJobsOK
<1>2. /\ consent' \subseteq Phones /\ provider' \in BOOLEAN
      /\ smsFaults' \in 0..MaxSmsFaults /\ settings' \in 0..MaxSettings
 <2>1. UNCHANGED consent \/ \E p \in Phones : SetConsent(p) BY DEF SmsNext, smsVars, EnqueueSms, EnqueueBulkSms, SaveProvider, ClaimSms, SenderStep,
   NextRow, CheckProvider, Send, DeferSms, MarkSent, MarkPermanentlyFailed, Mark, MarkFailed, StatementFails, SenderCrashes, RecoverStaleProcessing
 <2>2. UNCHANGED provider \/ \E ready \in BOOLEAN : SaveProvider(ready)
   BY DEF SmsNext, smsVars, EnqueueSms, EnqueueBulkSms, SetConsent, ClaimSms, SenderStep, NextRow, CheckProvider, Send, DeferSms, MarkSent,
     MarkPermanentlyFailed, Mark, MarkFailed, StatementFails, SenderCrashes, RecoverStaleProcessing
 <2>3. UNCHANGED smsFaults \/ (smsFaults < MaxSmsFaults /\ smsFaults' = smsFaults + 1)
   BY DEF SmsNext, smsVars, EnqueueSms, EnqueueBulkSms, SetConsent, SaveProvider, ClaimSms, SenderStep, NextRow, CheckProvider, Send, DeferSms,
     MarkSent, MarkPermanentlyFailed, Mark, MarkFailed, StatementFails, SenderCrashes, RecoverStaleProcessing
 <2>4. UNCHANGED settings \/ (settings < MaxSettings /\ settings' = settings + 1)
   BY DEF SmsNext, smsVars, EnqueueSms, EnqueueBulkSms, SetConsent, SaveProvider, ClaimSms, SenderStep, NextRow, CheckProvider, Send, DeferSms,
     MarkSent, MarkPermanentlyFailed, Mark, MarkFailed, StatementFails, SenderCrashes, RecoverStaleProcessing
 <2>5. consent' \subseteq Phones BY <2>1 DEF SmsTypeOK, SetConsent
 <2>6. provider' \in BOOLEAN BY <2>2 DEF SmsTypeOK, SaveProvider
 <2> QED BY <2>3,<2>4,<2>5,<2>6, SmsAssumption DEF SmsTypeOK
<1>4. campaign' \in [Campaigns -> {NoRow} \cup 1..Cardinality(Phones)]
 <2>1. ASSUME NEW c \in Campaigns, NEW ps \in (SUBSET Phones) \ {{}}, NEW m \in BOOLEAN, EnqueueBulkSms(c, ps, m)
   PROVE campaign' \in [Campaigns -> {NoRow} \cup 1..Cardinality(Phones)]
  <3> DEFINE ks == CampaignRows(c)'
  <3>1. PICK p \in ps : <<c, p>> \in Keys /\ <<c, p>> \in {c} \X ps BY DEF Keys
  <3>2. sms' = [k \in Keys |-> IF k \in {c} \X ps /\ sms[k] = NoRow THEN NewRow ELSE sms[k]] BY <2>1 DEF EnqueueBulkSms
  <3>3. NewRow # NoRow BY SmsRowAssumption DEF NewRow, SmsStatus
  <3>4. sms'[<<c, p>>] # NoRow BY <3>1,<3>2,<3>3
  <3>5. ks \subseteq {c} \X Phones /\ <<c, p>> \in ks BY <3>1,<3>4 DEF CampaignRows
  <3>6. campaign' = [campaign EXCEPT ![c] = Cardinality(ks)] BY <2>1 DEF EnqueueBulkSms
  <3> HIDE DEF ks
  <3>7. Cardinality(ks) \in 1..Cardinality(Phones) BY <3>5, CampaignCount
  <3>8. campaign \in [Campaigns -> {NoRow} \cup 1..Cardinality(Phones)] BY DEF SmsTypeOK
  <3> QED BY ONLY <3>6,<3>7,<3>8
 <2>2. UNCHANGED campaign \/ \E c \in Campaigns, ps \in (SUBSET Phones) \ {{}}, m \in BOOLEAN : EnqueueBulkSms(c, ps, m)
   BY DEF SmsNext, smsVars, EnqueueSms, SetConsent, SaveProvider, ClaimSms, SenderStep, NextRow, CheckProvider, Send, DeferSms, MarkSent,
     MarkPermanentlyFailed, Mark, MarkFailed, StatementFails, SenderCrashes, RecoverStaleProcessing
 <2>3. campaign \in [Campaigns -> {NoRow} \cup 1..Cardinality(Phones)] BY DEF SmsTypeOK
 <2> QED BY ONLY <2>1,<2>2,<2>3
<1> QED BY <1>1,<1>2,<1>4 DEF SmsTypeOK, SmsRows

------------------------
\* An attempt that is still owed: its worker has neither asked the provider nor given
\* the attempt back.
Owing(k) == {w \in Senders : k \in batch[w] \/ (job[w].key = k /\ job[w].at \in {"check", "send", "defer"})}
SmsAlone == \A w \in Senders : job[w] # Idle => job[w].key \notin batch[w]
SmsCounts ==
  \A k \in Keys : /\ IsFiniteSet(Owing(k))
                  /\ sms[k] = NoRow => accepted[k] = 0
                  /\ sms[k] # NoRow => accepted[k] + Cardinality(Owing(k)) <= sms[k].attempts
SmsHeld ==
  \A k \in Keys : sms[k] # NoRow /\ sms[k].status = "PROCESSING" /\ smsFaults = 0
                    => \E w \in Senders : k \in batch[w] \/ (job[w] # Idle /\ job[w].key = k)
SmsWork == SmsAlone /\ SmsCounts /\ SmsHeld

LEMMA SmsWorkInit == SmsInit => SmsWork
<1> SUFFICES ASSUME SmsInit PROVE SmsWork OBVIOUS
<1>1. \A k \in Keys : Owing(k) = {} BY DEF SmsInit, Owing, Idle
<1>2. SmsCounts BY <1>1, FS_EmptySet DEF SmsInit, SmsCounts
<1> QED BY <1>2 DEF SmsInit, SmsWork, SmsAlone, SmsHeld

\* Nobody owes more, nothing is accepted and no row loses an attempt.
LEMMA CountsStay ==
  ASSUME SmsInv, SmsInv', SmsCounts, accepted' = accepted,
      \A k \in Keys : /\ Owing(k)' \subseteq Owing(k)
                      /\ sms[k] # NoRow => sms'[k] # NoRow /\ sms'[k].attempts = sms[k].attempts
  PROVE SmsCounts'
<1> SUFFICES ASSUME NEW k \in Keys
  PROVE  /\ IsFiniteSet(Owing(k)') /\ (sms'[k] = NoRow => accepted'[k] = 0)
         /\ sms'[k] # NoRow => accepted'[k] + Cardinality(Owing(k)') <= sms'[k].attempts BY DEF SmsCounts
<1>1. IsFiniteSet(Owing(k)') /\ Cardinality(Owing(k)') <= Cardinality(Owing(k)) BY FS_Subset DEF SmsCounts
<1>2. Cardinality(Owing(k)') \in Nat /\ Cardinality(Owing(k)) \in Nat BY <1>1, FS_CardinalityType DEF SmsCounts
<1>3. accepted[k] \in Nat /\ (sms'[k] # NoRow => sms'[k].attempts \in Nat) BY SmsRowIsReal DEF SmsInv, SmsRowsOK, SmsRows
<1>4. CASE sms[k] # NoRow BY <1>1,<1>2,<1>3,<1>4 DEF SmsCounts
<1>5. CASE sms[k] = NoRow
 <2>1. accepted[k] = 0 BY <1>5 DEF SmsCounts
 <2>3. ASSUME NEW w \in Owing(k) PROVE FALSE
  <3>1. w \in Senders /\ (k \in batch[w] \/ (job[w].key = k /\ job[w] # Idle)) BY <2>3 DEF Owing, Idle
  <3> QED BY <1>5,<3>1 DEF SmsInv, SmsKnown
 <2>2. Cardinality(Owing(k)') = 0 BY <2>3, FS_EmptySet
 <2> QED BY <1>1,<1>3,<2>1,<2>2
<1> QED BY <1>4,<1>5

\* Two ways to stop owing: to be accepted once more, and to give the attempt back.
LEMMA CountsMove ==
  ASSUME SmsInv, SmsInv', SmsCounts, NEW k \in Keys, NEW w \in Owing(k), sms[k] # NoRow, sms'[k] # NoRow,
      Owing(k)' \subseteq Owing(k) \ {w},
      \/ accepted'[k] \in {accepted[k], accepted[k] + 1} /\ sms'[k].attempts = sms[k].attempts
      \/ accepted'[k] = accepted[k] /\ sms'[k].attempts = IF sms[k].attempts = 0 THEN 0 ELSE sms[k].attempts - 1
  PROVE IsFiniteSet(Owing(k)') /\ accepted'[k] + Cardinality(Owing(k)') <= sms'[k].attempts
<1> DEFINE O == Owing(k)
<1>1. IsFiniteSet(O) /\ accepted[k] + Cardinality(O) <= sms[k].attempts BY DEF SmsCounts
<1>2. IsFiniteSet(O \ {w}) /\ Cardinality(O \ {w}) = Cardinality(O) - 1 BY <1>1, FS_RemoveElement
<1>3. IsFiniteSet(Owing(k)') /\ Cardinality(Owing(k)') <= Cardinality(O \ {w}) BY <1>2, FS_Subset
<1>4. Cardinality(O) \in Nat /\ Cardinality(Owing(k)') \in Nat BY <1>1,<1>3, FS_CardinalityType
<1>5. accepted[k] \in Nat /\ sms[k].attempts \in Nat BY SmsRowIsReal DEF SmsInv, SmsRowsOK, SmsRows
<1> HIDE DEF O
<1> QED BY <1>1,<1>2,<1>3,<1>4,<1>5
LEMMA SmsWorkStep == ASSUME SmsTypeOK, SmsInv, SmsInv', SmsWork, [SmsNext]_smsVars PROVE SmsWork'
<1> USE SmsRowIsReal
<1>0. SmsRowsOK /\ SmsJobsOK /\ accepted \in [Keys -> Nat] /\ SmsKnown /\ SmsRowsOK' /\ SmsJobsOK' /\ SmsKnown' /\ SmsAlone /\ SmsCounts /\ SmsHeld
  BY DEF SmsInv, SmsWork
<1>row. ASSUME NEW w \in Senders, job[w] # Idle
  PROVE job[w].key \in Keys /\ sms[job[w].key] \in SmsRows /\ sms[job[w].key] # NoRow /\ job[w].at \in SmsSteps
  BY <1>0,<1>row DEF SmsJobsOK, SmsKnown, SmsRowsOK
\* The workers are not touched, and no row comes to be PROCESSING.
<1>rows. ASSUME UNCHANGED <<job, batch, accepted, smsFaults>>,
    \A k \in Keys : /\ sms[k] # NoRow => sms'[k] # NoRow /\ sms'[k].attempts = sms[k].attempts
                    /\ sms'[k] # NoRow /\ sms'[k].status = "PROCESSING" => sms'[k] = sms[k]
  PROVE SmsWork'
 <2>1. \A k \in Keys : Owing(k)' = Owing(k) BY <1>rows DEF Owing
 <2>2. SmsCounts' BY <1>0,<1>rows,<2>1, CountsStay
 <2>3. SmsAlone' /\ SmsHeld' BY <1>0,<1>rows DEF SmsAlone, SmsHeld
 <2> QED BY <2>2,<2>3 DEF SmsWork
<1>1. CASE UNCHANGED smsVars BY <1>1,<1>rows DEF smsVars
<1>2. ASSUME NEW k \in Direct, NEW p \in Phones, NEW m \in BOOLEAN, EnqueueSms(k, p, m) PROVE SmsWork'
 <2>1. k \in Keys /\ NewRow.status = "PENDING" /\ sms[k] = NoRow BY <1>2 DEF Keys, NewRow, EnqueueSms
 <2>2. \A q \in Keys : IF q = k THEN sms'[q] = NewRow ELSE sms'[q] = sms[q] BY <1>0,<1>2,<2>1 DEF EnqueueSms, SmsRowsOK
 <2> QED BY <1>2,<1>rows,<2>1,<2>2 DEF EnqueueSms
<1>3. ASSUME NEW c \in Campaigns, NEW ps \in SUBSET Phones, NEW m \in BOOLEAN, EnqueueBulkSms(c, ps, m) PROVE SmsWork'
 <2>1. \A q \in Keys : sms'[q] = sms[q] \/ (sms[q] = NoRow /\ sms'[q] = NewRow) BY <1>3 DEF EnqueueBulkSms
 <2>2. NewRow.status = "PENDING" BY DEF NewRow
 <2> QED BY <1>3,<1>rows,<2>1,<2>2 DEF EnqueueBulkSms
<1>4. CASE (\E p \in Phones : SetConsent(p)) \/ \E ready \in BOOLEAN : SaveProvider(ready)
  BY <1>4,<1>rows DEF SetConsent, SaveProvider
<1>5. CASE RecoverStaleProcessing
 <2> PICK ks \in SUBSET {k \in Keys : sms[k] # NoRow /\ sms[k].status = "PROCESSING"} :
       sms' = [k \in Keys |-> IF k \in ks THEN GiveBack(sms[k].attempts) ELSE sms[k]] BY <1>5 DEF RecoverStaleProcessing
 <2>1. \A k \in Keys : GiveBack(sms[k].attempts).status # "PROCESSING" /\ GiveBack(sms[k].attempts).attempts = sms[k].attempts BY DEF GiveBack
 <2>2. \A k \in Keys : sms'[k] # NoRow \/ sms[k] = NoRow BY <1>0,<2>1 DEF SmsRowsOK, SmsRows, GiveBack, SmsStatus
 <2> QED BY <1>5,<1>rows,<2>1,<2>2 DEF RecoverStaleProcessing
<1>6. ASSUME NEW w \in Senders, ClaimSms(w) PROVE SmsWork'
 <2> PICK ks \in SUBSET {k \in Keys : Claimable(k)} :
       /\ batch' = [batch EXCEPT ![w] = ks]
       /\ sms' = [k \in Keys |-> IF k \in ks
                    THEN [status |-> "PROCESSING", attempts |-> sms[k].attempts + 1] ELSE sms[k]] BY <1>6 DEF ClaimSms
 <2>1. job[w] = Idle /\ batch[w] = {} /\ UNCHANGED <<job, accepted, smsFaults>> BY <1>6 DEF ClaimSms
 <2>2. batch'[w] = ks /\ \A u \in Senders \ {w} : batch'[u] = batch[u] BY <1>0 DEF SmsJobsOK
 <2>3. SmsAlone' BY <1>0,<2>1,<2>2 DEF SmsAlone
 <2>4. SmsHeld'
  <3> SUFFICES ASSUME NEW k \in Keys, sms'[k] # NoRow, sms'[k].status = "PROCESSING", smsFaults' = 0
    PROVE \E u \in Senders : k \in batch'[u] \/ (job'[u] # Idle /\ job'[u].key = k) BY DEF SmsHeld
  <3>1. CASE k \in ks BY <2>2,<3>1
  <3>2. CASE k \notin ks
   <4>1. sms'[k] = sms[k] BY <3>2
   <4>2. PICK u \in Senders : k \in batch[u] \/ (job[u] # Idle /\ job[u].key = k) BY <1>0,<2>1,<4>1 DEF SmsHeld
   <4>3. CASE u = w BY <2>1,<4>2,<4>3
   <4> QED BY <2>1,<2>2,<4>2,<4>3
  <3> QED BY <3>1,<3>2
 <2>5. SmsCounts'
  <3> SUFFICES ASSUME NEW k \in Keys
    PROVE  /\ IsFiniteSet(Owing(k)') /\ (sms'[k] = NoRow => accepted'[k] = 0)
           /\ sms'[k] # NoRow => accepted'[k] + Cardinality(Owing(k)') <= sms'[k].attempts BY DEF SmsCounts
  <3> DEFINE O == Owing(k)
  <3>1. IsFiniteSet(O) BY <1>0 DEF SmsCounts
  <3>2. Cardinality(O) \in Nat /\ IsFiniteSet(O \cup {w}) /\ Cardinality(O \cup {w}) <= Cardinality(O) + 1
    BY <3>1, FS_AddElement, FS_CardinalityType
  <3>3. CASE k \in ks
   <4>1. Owing(k)' = O \cup {w} BY <2>1,<2>2,<3>3 DEF Owing
   <4>2. sms[k] # NoRow /\ sms[k] \in SmsRows BY <1>0,<3>3 DEF Claimable, SmsRowsOK
   <4>3. sms'[k].attempts = sms[k].attempts + 1 /\ sms[k].attempts \in Nat /\ accepted[k] \in Nat BY <1>0,<3>3,<4>2 DEF SmsRows
   <4>4. accepted[k] + Cardinality(O) <= sms[k].attempts BY <1>0,<4>2 DEF SmsCounts
   <4>5. sms'[k] # NoRow BY <3>3, SmsRowAssumption, <4>3 DEF SmsStatus
   <4>6. accepted'[k] = accepted[k] BY <2>1
   <4>7. Cardinality(O \cup {w}) \in Nat BY <3>2, FS_CardinalityType
   <4> HIDE DEF O
   <4> QED BY <3>2,<4>1,<4>3,<4>4,<4>5,<4>6,<4>7
  <3>4. CASE k \notin ks
   <4>1. Owing(k)' = Owing(k) BY <2>1,<2>2,<3>4 DEF Owing, Idle
   <4>2. sms'[k] = sms[k] BY <3>4
   <4> QED BY <1>0,<2>1,<4>1,<4>2 DEF SmsCounts
  <3> QED BY <3>3,<3>4
 <2> QED BY <2>3,<2>4,<2>5 DEF SmsWork
\* A worker goes on to another step of its job.
<1>7. ASSUME NEW w \in Senders, NextRow(w) PROVE SmsWork'
 <2> PICK k \in batch[w] : job' = [job EXCEPT ![w] = [key |-> k, at |-> "check"]] /\ batch' = [batch EXCEPT ![w] = @ \ {k}] BY <1>7 DEF NextRow
 <2>1. UNCHANGED <<sms, accepted, smsFaults>> /\ job[w] = Idle BY <1>7 DEF NextRow
 <2>2. /\ job'[w] = [key |-> k, at |-> "check"] /\ batch'[w] = batch[w] \ {k}
       /\ \A u \in Senders \ {w} : job'[u] = job[u] /\ batch'[u] = batch[u] BY <1>0 DEF SmsJobsOK
 <2>3. \A q \in Keys : Owing(q)' \subseteq Owing(q) BY <2>2 DEF Owing
 <2>4. SmsCounts' BY <1>0,<2>1,<2>3, CountsStay
 <2>5. SmsAlone' BY <1>0,<2>2 DEF SmsAlone
 <2>6. SmsHeld'
  <3> SUFFICES ASSUME NEW q \in Keys, sms[q] # NoRow, sms[q].status = "PROCESSING", smsFaults = 0
    PROVE \E u \in Senders : q \in batch'[u] \/ (job'[u] # Idle /\ job'[u].key = q) BY <2>1 DEF SmsHeld
  <3>1. PICK u \in Senders : q \in batch[u] \/ (job[u] # Idle /\ job[u].key = q) BY <1>0 DEF SmsHeld
  <3>2. job'[w] # Idle BY <2>2 DEF Idle
  <3> QED BY <2>1,<2>2,<3>1,<3>2
 <2> QED BY <2>4,<2>5,<2>6 DEF SmsWork
<1>8. ASSUME NEW w \in Senders, CheckProvider(w) PROVE SmsWork'
 <2>1. job[w] # Idle BY <1>8 DEF CheckProvider, At, Idle
 <2>2. /\ job'[w].key = job[w].key /\ job'[w] # Idle /\ \A u \in Senders \ {w} : job'[u] = job[u]
       /\ job[w].at = "check" /\ UNCHANGED <<sms, accepted, batch, smsFaults>>
   BY <1>0,<1>row,<1>8,<2>1 DEF CheckProvider, At, Goto, SmsJobsOK, Idle
 <2>3. \A q \in Keys : Owing(q)' \subseteq Owing(q) BY <2>2 DEF Owing
 <2>4. SmsCounts' BY <1>0,<2>2,<2>3, CountsStay
 <2>5. SmsAlone' /\ SmsHeld' BY <1>0,<2>1,<2>2 DEF SmsAlone, SmsHeld
 <2> QED BY <2>4,<2>5 DEF SmsWork
<1>9. ASSUME NEW w \in Senders, Send(w) PROVE SmsWork'
 <2>1. job[w] # Idle /\ job[w].at = "send" BY <1>9 DEF Send, At, Idle
 <2> PICK k \in Keys : k = job[w].key BY <1>row,<2>1
 <2>2. sms[k] # NoRow BY <1>row,<2>1
 <2>3. \E next \in {"sent", "failed", "refused"} : job' = [job EXCEPT ![w].at = next] BY <1>9 DEF Send, Accepts, Refuses, Unavailable, Goto
 <2>4. /\ job'[w].key = k /\ job'[w].at \in {"sent", "failed", "refused"} /\ job'[w] # Idle
       /\ \A u \in Senders \ {w} : job'[u] = job[u]
       /\ UNCHANGED <<sms, batch, smsFaults>> BY <1>0,<1>9,<2>1,<2>3 DEF Send, SmsJobsOK, Idle
 <2>5. accepted' = accepted \/ accepted' = [accepted EXCEPT ![k] = @ + 1] BY <1>9 DEF Send, Accepts, Refuses, Unavailable
 <2>6. SmsAlone' /\ SmsHeld' BY <1>0,<2>1,<2>4 DEF SmsAlone, SmsHeld
 <2>7. w \in Owing(k) /\ Owing(k)' \subseteq Owing(k) \ {w} BY <1>0,<2>1,<2>4 DEF Owing, SmsAlone
 <2>8. \A q \in Keys \ {k} : Owing(q)' = Owing(q) /\ accepted'[q] = accepted[q] BY <1>0,<2>4,<2>5 DEF Owing
 <2>9. accepted'[k] \in {accepted[k], accepted[k] + 1} BY <1>0,<2>5
 <2>10. IsFiniteSet(Owing(k)') /\ accepted'[k] + Cardinality(Owing(k)') <= sms'[k].attempts BY <1>0,<2>2,<2>4,<2>7,<2>9, CountsMove
 <2>11. SmsCounts' BY <1>0,<2>2,<2>4,<2>8,<2>10 DEF SmsCounts
 <2> QED BY <2>6,<2>11 DEF SmsWork
\* A worker that leaves its job has changed the status of its row, if it was PROCESSING.
<1>leave. ASSUME NEW w \in Senders, job[w] # Idle, job' = [job EXCEPT ![w] = Idle], UNCHANGED <<batch, accepted, smsFaults>>,
    \A q \in Keys \ {job[w].key} : sms'[q] = sms[q], sms'[job[w].key].status # "PROCESSING"
  PROVE SmsAlone' /\ SmsHeld' /\ \A q \in Keys : Owing(q)' \subseteq Owing(q)
 <2>1. job'[w] = Idle /\ (\A u \in Senders \ {w} : job'[u] = job[u]) /\ Idle.at = "idle" BY <1>0,<1>leave DEF SmsJobsOK, Idle
 <2>2. SmsAlone' BY <1>0,<1>leave,<2>1 DEF SmsAlone
 <2>3. \A q \in Keys : Owing(q)' \subseteq Owing(q) BY <1>leave,<2>1 DEF Owing
 <2>4. SmsHeld'
  <3> SUFFICES ASSUME NEW q \in Keys, sms'[q] # NoRow, sms'[q].status = "PROCESSING", smsFaults = 0
    PROVE \E u \in Senders : q \in batch'[u] \/ (job'[u] # Idle /\ job'[u].key = q) BY <1>leave DEF SmsHeld
  <3>1. q # job[w].key /\ sms'[q] = sms[q] BY <1>leave
  <3>2. PICK u \in Senders : q \in batch[u] \/ (job[u] # Idle /\ job[u].key = q) BY <1>0,<3>1 DEF SmsHeld
  <3> QED BY <1>leave,<2>1,<3>1,<3>2
 <2> QED BY <2>2,<2>3,<2>4
<1>update. ASSUME NEW w \in Senders, NEW new \in SmsRows, job[w] # Idle, Update(job[w].key, new), Done(w),
    new.status # "PROCESSING", new.attempts = sms[job[w].key].attempts, UNCHANGED <<batch, accepted, smsFaults>>
  PROVE SmsWork'
 <2> PICK k \in Keys : k = job[w].key BY <1>row,<1>update
 <2>1. sms[k] \in SmsRows /\ sms[k] # NoRow BY <1>row,<1>update
 <2>2. sms' = sms \/ sms' = [sms EXCEPT ![k] = new] BY <1>update DEF Update
 <2>3. (\A q \in Keys \ {k} : sms'[q] = sms[q]) /\ sms'[k].status # "PROCESSING" /\ sms'[k] \in SmsRows
       /\ sms'[k].attempts = sms[k].attempts BY <1>0,<1>update,<2>1,<2>2 DEF Update, SmsRowsOK
 <2>4. SmsAlone' /\ SmsHeld' /\ \A q \in Keys : Owing(q)' \subseteq Owing(q) BY <1>leave,<1>update,<2>3 DEF Done
 <2>5. SmsCounts' BY <1>0,<1>update,<2>1,<2>3,<2>4, CountsStay
 <2> QED BY <2>4,<2>5 DEF SmsWork
<1>10. ASSUME NEW w \in Senders, DeferSms(w) PROVE SmsWork'
 <2>1. job[w] # Idle /\ job[w].at = "defer" BY <1>10 DEF DeferSms, At, Idle
 <2> PICK k \in Keys : k = job[w].key BY <1>row,<2>1
 <2>2. sms[k] \in SmsRows /\ sms[k] # NoRow /\ sms[k].attempts \in Nat BY <1>row,<2>1 DEF SmsRows
 <2>12. (IF sms[k].attempts = 0 THEN 0 ELSE sms[k].attempts - 1) \in 0..MaxAttempts BY <2>2 DEF SmsRows
 <2> PICK new \in SmsRows : new = [status |-> "PENDING", attempts |-> IF sms[k].attempts = 0 THEN 0 ELSE sms[k].attempts - 1]
   BY <2>12 DEF SmsRows, SmsStatus
 <2>3. sms' = IF sms[k].status = "PROCESSING" THEN [sms EXCEPT ![k] = new] ELSE sms BY <1>10 DEF DeferSms, Update
 <2>4. (\A q \in Keys \ {k} : sms'[q] = sms[q]) /\ sms'[k].status # "PROCESSING" /\ sms'[k] \in SmsRows BY <1>0,<2>2,<2>3 DEF SmsRowsOK
 <2>5. sms'[k] = new \/ sms'[k] = sms[k] BY <1>0,<2>3 DEF SmsRowsOK
 <2>6. job' = [job EXCEPT ![w] = Idle] /\ UNCHANGED <<batch, accepted, smsFaults>> BY <1>10 DEF DeferSms, Done
 <2>7. SmsAlone' /\ SmsHeld' /\ \A q \in Keys : Owing(q)' \subseteq Owing(q) BY <1>leave,<2>1,<2>4,<2>6
 <2>8. w \in Owing(k) /\ w \notin Owing(k)' BY <1>0,<2>1,<2>6 DEF Owing, SmsAlone, SmsJobsOK, Idle
 <2>9. IsFiniteSet(Owing(k)') /\ accepted'[k] + Cardinality(Owing(k)') <= sms'[k].attempts
  <3>1. Owing(k)' \subseteq Owing(k) \ {w} BY <2>7,<2>8
  <3> QED BY <1>0,<2>2,<2>4,<2>5,<2>6,<2>8,<3>1, CountsMove
 <2>10. SmsCounts'
  <3> SUFFICES ASSUME NEW q \in Keys
    PROVE  /\ IsFiniteSet(Owing(q)') /\ (sms'[q] = NoRow => accepted'[q] = 0)
           /\ sms'[q] # NoRow => accepted'[q] + Cardinality(Owing(q)') <= sms'[q].attempts BY DEF SmsCounts
  <3>1. CASE q = k BY <2>4,<2>9,<3>1
  <3>2. CASE q # k
   <4>1. Owing(q)' = Owing(q) BY <1>0,<2>6,<3>2 DEF Owing, SmsJobsOK, Idle
   <4> QED BY <1>0,<2>4,<2>6,<3>2,<4>1 DEF SmsCounts
  <3> QED BY <3>1,<3>2
 <2> QED BY <2>7,<2>10 DEF SmsWork
<1>mark. ASSUME NEW w \in Senders, NEW step \in {"sent", "refused"}, NEW status \in {"SENT", "FAILED"}, Mark(w, step, status) PROVE SmsWork'
 <2>1. job[w] # Idle BY <1>mark DEF Mark, At, Idle
 <2> PICK new \in SmsRows : new = [status |-> status, attempts |-> sms[job[w].key].attempts] BY <1>row,<2>1 DEF SmsRows, SmsStatus
 <2>2. Update(job[w].key, new) /\ Done(w) /\ UNCHANGED <<batch, accepted, smsFaults>> BY <1>mark DEF Mark
 <2> QED BY <2>1,<2>2,<1>update
<1>11. ASSUME NEW w \in Senders, MarkSent(w) \/ MarkPermanentlyFailed(w) PROVE SmsWork' BY <1>11,<1>mark DEF MarkSent, MarkPermanentlyFailed
<1>12. ASSUME NEW w \in Senders, MarkFailed(w) PROVE SmsWork'
 <2>1. job[w] # Idle BY <1>12 DEF MarkFailed, At, Idle
 <2> PICK new \in SmsRows : new = GiveBack(sms[job[w].key].attempts) BY <1>row,<2>1 DEF GiveBack, SmsRows, SmsStatus
 <2>2. new.status # "PROCESSING" /\ new.attempts = sms[job[w].key].attempts BY DEF GiveBack
 <2>3. Update(job[w].key, new) /\ Done(w) /\ UNCHANGED <<batch, accepted, smsFaults>> BY <1>12 DEF MarkFailed
 <2> QED BY <2>1,<2>2,<2>3,<1>update
\* After a fault nothing is said of the rows that are PROCESSING.
<1>13. ASSUME NEW w \in Senders, StatementFails(w) \/ SenderCrashes(w) PROVE SmsWork'
 <2>1. UNCHANGED <<sms, accepted>> BY <1>13 DEF StatementFails, SenderCrashes
 <2>2. /\ job'[w] = Idle \/ (job[w] # Idle /\ job'[w].key = job[w].key /\ job'[w].at = "failed")
       /\ \A u \in Senders \ {w} : job'[u] = job[u]
       /\ \A u \in Senders : batch'[u] \subseteq batch[u] BY <1>0,<1>13 DEF StatementFails, SenderCrashes, Goto, Done, SmsJobsOK, Idle
 <2>3. smsFaults' # 0 BY <1>13, SmsAssumption DEF SmsTypeOK, StatementFails, SenderCrashes
 <2>4. \A q \in Keys : Owing(q)' \subseteq Owing(q) BY <2>2 DEF Owing, Idle
 <2>5. SmsCounts' BY <1>0,<2>1,<2>4, CountsStay
 <2>6. SmsAlone' BY <1>0,<2>2 DEF SmsAlone
 <2> QED BY <2>3,<2>5,<2>6 DEF SmsWork, SmsHeld
<1> QED BY <1>1,<1>2,<1>3,<1>4,<1>5,<1>6,<1>7,<1>8,<1>9,<1>10,<1>11,<1>12,<1>13 DEF SmsNext, SenderStep
LEMMA SmsCountsImply == SmsInv /\ SmsWork => AcceptedWithinAttempts /\ OnlyAFaultStrandsSms
<1> SUFFICES ASSUME SmsInv, SmsWork PROVE AcceptedWithinAttempts /\ OnlyAFaultStrandsSms OBVIOUS
<1>1. ASSUME NEW k \in Keys, sms[k] # NoRow PROVE accepted[k] <= sms[k].attempts
 <2>1. Cardinality(Owing(k)) \in Nat /\ accepted[k] + Cardinality(Owing(k)) <= sms[k].attempts BY <1>1, FS_CardinalityType DEF SmsWork, SmsCounts
 <2>2. accepted[k] \in Nat /\ sms[k].attempts \in Nat BY <1>1, SmsRowIsReal DEF SmsInv, SmsRowsOK, SmsRows
 <2> QED BY <2>1,<2>2
<1>2. OnlyAFaultStrandsSms BY DEF SmsWork, SmsHeld, OnlyAFaultStrandsSms
<1> QED BY <1>1,<1>2 DEF AcceptedWithinAttempts

\* The rows of a campaign are finite, so that a count of zero means that there is none.
LEMMA CampaignIsOver ==
  ASSUME SmsInv, NEW c \in Campaigns, ListedStatus(c) \in {"FAILED", "PARTIAL", "COMPLETED"}
  PROVE campaign[c] # NoRow /\ \A k \in CampaignRows(c) : sms[k].status \in {"SENT", "FAILED"}
<1>1. campaign[c] # NoRow /\ ~(RowsIn(c, "PROCESSING") > 0) /\ ~(RowsIn(c, "PENDING") > 0) BY DEF ListedStatus
<1>2. ASSUME NEW status, ~(RowsIn(c, status) > 0) PROVE \A k \in CampaignRows(c) : sms[k].status # status
 <2> DEFINE S == {k \in CampaignRows(c) : sms[k].status = status}
 <2>1. IsFiniteSet({c} \X Phones) BY FS_Singleton, FS_Product, SmsAssumption
 <2>2. S \subseteq {c} \X Phones BY DEF CampaignRows
 <2>3. IsFiniteSet(S) BY <2>1,<2>2, FS_Subset
 <2>4. Cardinality(S) \in Nat /\ ~(Cardinality(S) > 0) BY <1>2,<2>3, FS_CardinalityType DEF RowsIn
 <2>5. Cardinality(S) = 0 BY <2>4
 <2>6. S = {} BY <2>3,<2>5, FS_EmptySet
 <2> QED BY <2>6
<1>3. \A k \in CampaignRows(c) : sms[k].status # "PROCESSING" /\ sms[k].status # "PENDING" BY <1>1,<1>2
<1>4. \A k \in CampaignRows(c) : sms[k] \in SmsRows BY DEF CampaignRows, Keys, SmsInv, SmsRowsOK
<1> QED BY <1>1,<1>3,<1>4 DEF SmsRows, SmsStatus

LEMMA SmsRowsMove ==
  ASSUME SmsInv, [SmsNext]_smsVars, NEW k \in Keys
  PROVE SmsPlace'[k] = SmsPlace[k] \/ <<SmsPlace[k], SmsPlace'[k]>> \in SmsDelivery!Moves BY SmsStep DEF SmsDelivery!DeliveryNext, SmsDelivery!Step

\* The queue of a campaign is filled in one transaction: afterwards no row joins it.
LEMMA CampaignIsClosed ==
  ASSUME SmsInv, [SmsNext]_smsVars, NEW c \in Campaigns, campaign[c] # NoRow, campaign \in [Campaigns -> {NoRow} \cup Nat]
  PROVE campaign'[c] = campaign[c] /\ \A k \in {c} \X Phones : sms[k] = NoRow => sms'[k] = NoRow
<1> DEFINE Closed == campaign'[c] = campaign[c] /\ \A k \in {c} \X Phones : sms[k] = NoRow => sms'[k] = NoRow
<1> SUFFICES Closed OBVIOUS
<1>0. SmsRowsOK /\ SmsJobsOK /\ SmsKnown /\ {c} \X Phones \subseteq Keys BY DEF SmsInv, Keys
<1>row. ASSUME NEW w \in Senders, job[w] # Idle PROVE job[w].key \in Keys /\ sms[job[w].key] # NoRow BY <1>0,<1>row DEF SmsJobsOK, SmsKnown
<1>1. CASE UNCHANGED <<sms, campaign>> BY <1>1
<1>2. ASSUME NEW q \in Direct, NEW p \in Phones, NEW m \in BOOLEAN, EnqueueSms(q, p, m) PROVE Closed
 <2>1. q \notin {c} \X Phones BY SmsAssumption
 <2> QED BY <1>0,<1>2,<2>1 DEF EnqueueSms, SmsRowsOK
<1>3. ASSUME NEW d \in Campaigns, NEW ps \in SUBSET Phones, NEW m \in BOOLEAN, EnqueueBulkSms(d, ps, m) PROVE Closed
 <2>1. d # c BY <1>3 DEF EnqueueBulkSms
 <2>2. campaign'[c] = campaign[c] BY <1>3,<2>1 DEF EnqueueBulkSms
 <2>3. \A k \in {c} \X Phones : k \notin {d} \X ps BY <2>1
 <2> QED BY <1>0,<1>3,<2>2,<2>3 DEF EnqueueBulkSms
<1>4. ASSUME NEW w \in Senders, ClaimSms(w) PROVE Closed BY <1>0,<1>4 DEF ClaimSms, Claimable
<1>5. CASE RecoverStaleProcessing BY <1>0,<1>5 DEF RecoverStaleProcessing
<1>6. ASSUME NEW w \in Senders, NEW new, job[w] # Idle, Update(job[w].key, new), UNCHANGED campaign PROVE Closed
 <2>1. job[w].key \in Keys /\ sms[job[w].key] # NoRow BY <1>row,<1>6
 <2> QED BY <1>0,<1>6,<2>1 DEF Update, SmsRowsOK
<1>7. ASSUME NEW w \in Senders, DeferSms(w) \/ MarkSent(w) \/ MarkPermanentlyFailed(w) \/ MarkFailed(w) PROVE Closed
 <2>1. job[w] # Idle /\ UNCHANGED campaign BY <1>7 DEF DeferSms, MarkSent, MarkPermanentlyFailed, Mark, MarkFailed, At, Idle
 <2>2. \E new : Update(job[w].key, new) BY <1>7 DEF DeferSms, MarkSent, MarkPermanentlyFailed, Mark, MarkFailed
 <2> QED BY <1>6,<2>1,<2>2
<1>8. CASE \/ \E p \in Phones : SetConsent(p)
           \/ \E ready \in BOOLEAN : SaveProvider(ready)
           \/ \E w \in Senders : NextRow(w) \/ CheckProvider(w) \/ Send(w) \/ StatementFails(w) \/ SenderCrashes(w)
  BY <1>1,<1>8 DEF SetConsent, SaveProvider, NextRow, CheckProvider, Send, StatementFails, SenderCrashes
<1> HIDE DEF Closed
<1>9. CASE UNCHANGED smsVars BY <1>1,<1>9 DEF smsVars
<1>10. ASSUME NEW w \in Senders, ClaimSms(w) \/ SenderStep(w) \/ StatementFails(w) \/ SenderCrashes(w) PROVE Closed
  BY <1>4,<1>7,<1>8,<1>10 DEF SenderStep
<1> QED BY <1>2,<1>3,<1>5,<1>8,<1>9,<1>10 DEF SmsNext

LEMMA ListedOutcomeStays ==
  ASSUME SmsInv, SmsTypeOK, [SmsNext]_smsVars, NEW c \in Campaigns, ListedStatus(c) \in {"FAILED", "PARTIAL", "COMPLETED"}
  PROVE ListedStatus(c)' = ListedStatus(c)
<1>1. SmsInv' BY SmsStep
<1>2. campaign[c] # NoRow /\ \A k \in CampaignRows(c) : sms[k].status \in {"SENT", "FAILED"} BY CampaignIsOver
<1>3. Cardinality(Phones) \in Nat BY FS_CardinalityType, SmsAssumption
<1>4. campaign \in [Campaigns -> {NoRow} \cup Nat] BY <1>3 DEF SmsTypeOK
<1>5. campaign'[c] = campaign[c] /\ \A k \in {c} \X Phones : sms[k] = NoRow => sms'[k] = NoRow BY <1>2,<1>4, CampaignIsClosed
<1>6. ASSUME NEW k \in CampaignRows(c) PROVE sms'[k] # NoRow /\ sms'[k].status = sms[k].status
 <2>1. k \in Keys /\ sms[k] # NoRow /\ sms[k].status \in {"SENT", "FAILED"} BY <1>2,<1>6 DEF CampaignRows, Keys
 <2>2. SmsPlace[k] \in {"done", "dead"} /\ (SmsPlace[k] = "done" <=> sms[k].status = "SENT") BY <2>1 DEF SmsPlace
 <2>3. SmsPlace'[k] = SmsPlace[k] BY <2>1,<2>2, SmsRowsMove DEF SmsDelivery!Moves
 <2>4. sms'[k] \in {NoRow} \cup SmsRows BY <1>1,<2>1 DEF SmsInv, SmsRowsOK
 <2> QED BY <2>1,<2>2,<2>3,<2>4 DEF SmsPlace, SmsRows, SmsStatus
<1>7. CampaignRows(c)' = CampaignRows(c) BY <1>5,<1>6 DEF CampaignRows
<1>8. ASSUME NEW status PROVE RowsIn(c, status)' = RowsIn(c, status)
 <2>1. {k \in CampaignRows(c) : sms[k].status = status}' = {k \in CampaignRows(c) : sms[k].status = status} BY <1>6,<1>7
 <2> QED BY <2>1 DEF RowsIn
<1> QED BY <1>5,<1>8 DEF ListedStatus

------------------------
(* Webhooks. A row that is DELIVERING has one courier at most, and what it was acknowledged for is
   with that courier or DELIVERED. *)
HookRows == [status : HookStatus, attempts : 0..HookAttempts]
HookTypes ==
  /\ hook \in [Hooks -> {NoHook} \cup HookRows] /\ load \in [Couriers -> SUBSET Hooks]
  /\ trip \in [Couriers -> {AtRest} \cup [row : Hooks, at : {"post", "delivered", "failed"}]]
  /\ received \in [Hooks -> Nat] /\ acked \in [Hooks -> Nat]
HookHolds ==
  \A w \in Couriers : \A h \in Hooks : Holds(w, h) =>
    /\ hook[h] # NoHook /\ hook[h].status = "DELIVERING"
    /\ h \in load[w] => trip[w].row # h
    /\ h \in load[w] \/ trip[w].at = "post" => received[h] < hook[h].attempts
    /\ h \notin load[w] /\ trip[w].at = "delivered" => acked[h] > 0
    /\ \A u \in Couriers \ {w} : ~Holds(u, h)
HookCounts ==
  \A h \in Hooks :
    /\ hook[h] = NoHook => received[h] = 0 /\ acked[h] = 0
    /\ hook[h] # NoHook => acked[h] <= received[h] /\ received[h] <= hook[h].attempts
    /\ hook[h] # NoHook /\ hook[h].status = "DEAD" => hook[h].attempts = HookAttempts
    /\ hook[h] # NoHook /\ hook[h].status \in {"PENDING", "RETRY"} => hook[h].attempts < HookAttempts
HookInv == HookTypes /\ HookHolds /\ HookCounts

HookRowMoves(h) ==
  \/ hook'[h] = hook[h]
  \/ hook[h] = NoHook /\ hook'[h] \in HookRows /\ hook'[h].status = "PENDING"
  \/ /\ hook[h] \in HookRows /\ hook'[h] \in HookRows
     /\ \/ hook[h].status \in {"PENDING", "RETRY"} /\ hook'[h].status = "DELIVERING"
        \/ hook[h].status = "DELIVERING" /\ hook'[h].status \in {"RETRY", "DEAD"}
        \/ hook[h].status = "DELIVERING" /\ hook'[h].status = "DELIVERED" /\ acked[h] > 0

LEMMA HookRowIsReal ==
  /\ NoHook \notin HookRows /\ HookAttempts \in Nat \ {0} /\ NoHook \notin Hooks
  /\ AtRest \notin [row : Hooks, at : {"post", "delivered", "failed"}] /\ AtRest.at = "idle" /\ AtRest.row \notin Hooks
  BY HookAssumption DEF HookRows, AtRest

LEMMA HookInitOK == WebhookInit => HookInv /\ HookDelivery!DeliveryInit
  BY HookRowIsReal DEF WebhookInit, HookInv, HookTypes, HookHolds, Holds, HookCounts, HookDelivery!DeliveryInit, HookPlace

LEMMA HookMovesImplement == ASSUME HookTypes, HookTypes', \A h \in Hooks : HookRowMoves(h), acked' = acked PROVE HookDelivery!DeliveryNext
<1> SUFFICES ASSUME NEW h \in Hooks PROVE HookDelivery!Step(h) BY DEF HookDelivery!DeliveryNext
<1>1. HookRowMoves(h) OBVIOUS
<1> QED BY <1>1, HookRowIsReal DEF HookDelivery!Step, HookDelivery!Moves, HookRowMoves, HookPlace, HookTypes, HookRows, HookStatus

\* What a courier holds is in one place: a row in its load, or the row of its trip.
LEMMA HookStep == HookInv /\ [WebhookNext]_hookVars => HookInv' /\ HookDelivery!DeliveryNext
<1> SUFFICES ASSUME HookInv, [WebhookNext]_hookVars PROVE HookInv' /\ HookDelivery!DeliveryNext OBVIOUS
<1>0. HookTypes /\ HookHolds /\ HookCounts BY DEF HookInv
<1> USE HookRowIsReal
<1>still. ASSUME UNCHANGED <<hook, acked>>, HookInv' PROVE HookInv' /\ HookDelivery!DeliveryNext
 <2>1. HookPlace' = HookPlace BY <1>still DEF HookPlace
 <2> QED BY <1>0,<1>still,<2>1 DEF HookDelivery!DeliveryNext, HookDelivery!Step, HookTypes
<1>1. CASE UNCHANGED hookVars
 <2>1. HookInv' BY <1>0,<1>1 DEF hookVars, HookInv, HookTypes, HookHolds, Holds, HookCounts
 <2> QED BY <1>1,<1>still,<2>1 DEF hookVars
<1>2. ASSUME NEW v \in Events, Emit(v) PROVE HookInv' /\ HookDelivery!DeliveryNext
 <2> DEFINE new == {h \in Hooks : h[2] = v /\ endpoint[h[1]].enabled /\ hook[h] = NoHook}
            row == [status |-> "PENDING", attempts |-> 0]
 <2>1. /\ hook' = [h \in Hooks |-> IF h \in new THEN row ELSE hook[h]]
       /\ UNCHANGED <<load, trip, received, acked>> BY <1>2 DEF Emit
 <2>2. row \in HookRows /\ row.status = "PENDING" /\ row.attempts = 0 BY DEF HookRows, HookStatus
 <2>3. \A h \in new : h \in Hooks /\ hook[h] = NoHook OBVIOUS
 <2> HIDE DEF new, row
 <2>4. HookTypes' /\ \A h \in Hooks : HookRowMoves(h) BY <1>0,<2>1,<2>2,<2>3 DEF HookTypes, HookRowMoves
 <2>5. HookHolds' BY <1>0,<2>1,<2>3 DEF HookHolds, Holds, HookTypes
 <2>6. HookCounts' BY <1>0,<2>1,<2>2,<2>3 DEF HookCounts
 <2> QED BY <1>0,<2>1,<2>4,<2>5,<2>6, HookMovesImplement DEF HookInv
<1>3. ASSUME NEW e \in Endpoints, DeleteSecret(e) \/ \E b \in BOOLEAN : SetWebhookEnabled(e, b) PROVE HookInv' /\ HookDelivery!DeliveryNext
 <2>1. UNCHANGED <<hook, load, trip, received, acked>> BY <1>3 DEF DeleteSecret, SetWebhookEnabled
 <2>2. HookInv' BY <1>0,<2>1 DEF HookInv, HookTypes, HookHolds, Holds, HookCounts
 <2> QED BY <1>still,<2>1,<2>2
<1>4. ASSUME NEW w \in Couriers, ClaimHooks(w) PROVE HookInv' /\ HookDelivery!DeliveryNext
 <2> DEFINE taken == {h \in DueRows : endpoint[h[1]].secret}
 <2>1. /\ trip[w] = AtRest /\ load[w] = {} /\ load' = [load EXCEPT ![w] = taken]
       /\ hook' = [h \in Hooks |-> IF h \in taken
                     THEN [status |-> "DELIVERING", attempts |-> hook[h].attempts + 1] ELSE hook[h]]
       /\ UNCHANGED <<trip, received, acked>> BY <1>4 DEF ClaimHooks
 <2>2. \A h \in taken : h \in Hooks /\ hook[h] # NoHook /\ hook[h].status \in {"PENDING", "RETRY"} BY DEF DueRows, Due, Queued
 <2> HIDE DEF taken
 <2>3. \A h \in taken : /\ hook[h] \in HookRows /\ received[h] <= hook[h].attempts /\ received[h] \in Nat
                        /\ hook[h].attempts \in Nat
                        /\ [status |-> "DELIVERING", attempts |-> hook[h].attempts + 1] \in HookRows
   BY <1>0,<2>2 DEF HookTypes, HookCounts, HookRows, HookStatus
 <2>4. HookTypes' /\ \A h \in Hooks : HookRowMoves(h) BY <1>0,<2>1,<2>2,<2>3 DEF HookTypes, HookRowMoves
 <2>5. \A u \in Couriers : \A h \in Hooks : Holds(u, h) => h \notin taken BY <1>0,<2>2 DEF HookHolds
 <2>6. /\ \A h \in Hooks : Holds(w, h)' <=> h \in taken
       /\ \A u \in Couriers \ {w} : \A h \in Hooks : Holds(u, h)' <=> Holds(u, h) BY <1>0,<2>1 DEF Holds, HookTypes
 <2>7. HookHolds'
  <3> SUFFICES ASSUME NEW u \in Couriers, NEW h \in Hooks, Holds(u, h)'
    PROVE  /\ hook'[h] # NoHook /\ hook'[h].status = "DELIVERING"
           /\ h \in load'[u] => trip'[u].row # h
           /\ h \in load'[u] \/ trip'[u].at = "post" => received'[h] < hook'[h].attempts
           /\ h \notin load'[u] /\ trip'[u].at = "delivered" => acked'[h] > 0
           /\ \A x \in Couriers \ {u} : ~Holds(x, h)' BY DEF HookHolds
  <3>1. CASE u = w
   <4>1. h \in taken /\ load'[u] = taken /\ trip'[u] = AtRest BY <1>0,<2>1,<2>6,<3>1 DEF HookTypes
   <4>2. hook'[h] = [status |-> "DELIVERING", attempts |-> hook[h].attempts + 1] /\ hook'[h] # NoHook BY <2>1,<2>3,<4>1
   <4>3. received'[h] < hook'[h].attempts BY <2>1,<2>3,<4>1,<4>2
   <4>4. \A x \in Couriers \ {u} : ~Holds(x, h)' BY <2>5,<2>6,<3>1,<4>1
   <4> QED BY <4>1,<4>2,<4>3,<4>4
  <3>2. CASE u # w
   <4>1. Holds(u, h) /\ h \notin taken BY <2>5,<2>6,<3>2
   <4>2. hook'[h] = hook[h] /\ load'[u] = load[u] /\ UNCHANGED <<trip, received, acked>> BY <1>0,<2>1,<3>2,<4>1 DEF HookTypes
   <4>3. \A x \in Couriers \ {u} : ~Holds(x, h)' BY <1>0,<2>6,<4>1 DEF HookHolds
   <4> QED BY <1>0,<4>1,<4>2,<4>3 DEF HookHolds
  <3> QED BY <3>1,<3>2
 <2>8. HookCounts' BY <1>0,<2>1,<2>2,<2>3 DEF HookCounts, HookTypes
 <2> QED BY <1>0,<2>1,<2>4,<2>7,<2>8, HookMovesImplement DEF HookInv
<1>5. ASSUME NEW w \in Couriers, NextHook(w) PROVE HookInv' /\ HookDelivery!DeliveryNext
 <2> PICK k \in load[w] : trip' = [trip EXCEPT ![w] = [row |-> k, at |-> "post"]] /\ load' = [load EXCEPT ![w] = @ \ {k}] BY <1>5 DEF NextHook
 <2>1. k \in Hooks /\ trip[w] = AtRest /\ UNCHANGED <<hook, received, acked>> BY <1>0,<1>5 DEF NextHook, HookTypes
 <2>2. /\ trip'[w] = [row |-> k, at |-> "post"] /\ load'[w] = load[w] \ {k}
       /\ \A u \in Couriers \ {w} : trip'[u] = trip[u] /\ load'[u] = load[u] BY <1>0 DEF HookTypes
 <2>3. HookTypes' BY <1>0,<2>1 DEF HookTypes
 <2>4. \A u \in Couriers : \A h \in Hooks : Holds(u, h)' <=> Holds(u, h) BY <1>0,<2>1,<2>2 DEF Holds
 <2>5. HookHolds'
  <3> SUFFICES ASSUME NEW u \in Couriers, NEW h \in Hooks, Holds(u, h)'
    PROVE  /\ hook'[h] # NoHook /\ hook'[h].status = "DELIVERING"
           /\ h \in load'[u] => trip'[u].row # h
           /\ h \in load'[u] \/ trip'[u].at = "post" => received'[h] < hook'[h].attempts
           /\ h \notin load'[u] /\ trip'[u].at = "delivered" => acked'[h] > 0
           /\ \A x \in Couriers \ {u} : ~Holds(x, h)' BY DEF HookHolds
  <3>1. Holds(u, h) /\ \A x \in Couriers \ {u} : ~Holds(x, h)' BY <1>0,<2>4 DEF HookHolds
  <3>2. CASE u # w BY <1>0,<2>1,<2>2,<3>1,<3>2 DEF HookHolds
  <3>3. CASE u = w
   <4>1. h \in load[w] BY <2>1,<3>1,<3>3 DEF Holds
   <4> QED BY <1>0,<2>1,<2>2,<3>1,<3>3,<4>1 DEF HookHolds
  <3> QED BY <3>2,<3>3
 <2>6. HookCounts' BY <1>0,<2>1 DEF HookCounts
 <2> QED BY <1>still,<2>1,<2>3,<2>5,<2>6 DEF HookInv
<1>6. ASSUME NEW w \in Couriers, Post(w) PROVE HookInv' /\ HookDelivery!DeliveryNext
 <2>0. trip[w] \in [row : Hooks, at : {"post", "delivered", "failed"}] /\ trip[w].at = "post" BY <1>0,<1>6 DEF Post, On, HookTypes
 <2> DEFINE k == trip[w].row
 <2>1. k \in Hooks /\ Holds(w, k) /\ k \notin load[w] BY <1>0,<2>0 DEF Holds, HookHolds
 <2>2. hook[k] # NoHook /\ hook[k].status = "DELIVERING" /\ received[k] < hook[k].attempts BY <1>0,<2>0,<2>1 DEF HookHolds
 <2>3. /\ UNCHANGED <<hook, load>>
       /\ \/ trip' = [trip EXCEPT ![w].at = "failed"] /\ UNCHANGED <<received, acked>>
          \/ trip' = [trip EXCEPT ![w].at = "failed"] /\ received' = [received EXCEPT ![k] = @ + 1] /\ UNCHANGED acked
          \/ trip' = [trip EXCEPT ![w].at = "delivered"] /\ received' = [received EXCEPT ![k] = @ + 1] /\ acked' = [acked EXCEPT ![k] = @ + 1]
   BY <1>6 DEF Post, Turn
 <2>4. /\ trip'[w] \in [row : Hooks, at : {"failed", "delivered"}] /\ trip'[w].row = k
       /\ trip'[w].at = "delivered" => acked'[k] = acked[k] + 1
       /\ \A u \in Couriers \ {w} : trip'[u] = trip[u] BY <1>0,<2>0,<2>1,<2>3 DEF HookTypes
 <2>5. /\ received'[k] \in {received[k], received[k] + 1} /\ acked'[k] \in {acked[k], acked[k] + 1}
       /\ acked'[k] # acked[k] => received'[k] = received[k] + 1
       /\ \A h \in Hooks \ {k} : received'[h] = received[h] /\ acked'[h] = acked[h]
       /\ received' \in [Hooks -> Nat] /\ acked' \in [Hooks -> Nat] BY <1>0,<2>1,<2>3 DEF HookTypes
 <2>6. HookTypes'
  <3>1. trip' \in [Couriers -> {AtRest} \cup [row : Hooks, at : {"post", "delivered", "failed"}]] BY <1>0,<2>0,<2>3 DEF HookTypes
  <3> QED BY <1>0,<2>3,<2>5,<3>1 DEF HookTypes
 <2>7. \A u \in Couriers : \A h \in Hooks : Holds(u, h)' <=> Holds(u, h) BY <1>0,<2>3,<2>4 DEF Holds
 <2>8. HookHolds'
  <3> SUFFICES ASSUME NEW u \in Couriers, NEW h \in Hooks, Holds(u, h)'
    PROVE  /\ hook'[h] # NoHook /\ hook'[h].status = "DELIVERING"
           /\ h \in load'[u] => trip'[u].row # h
           /\ h \in load'[u] \/ trip'[u].at = "post" => received'[h] < hook'[h].attempts
           /\ h \notin load'[u] /\ trip'[u].at = "delivered" => acked'[h] > 0
           /\ \A x \in Couriers \ {u} : ~Holds(x, h)' BY DEF HookHolds
  <3>1. Holds(u, h) /\ \A x \in Couriers \ {u} : ~Holds(x, h)' BY <1>0,<2>7 DEF HookHolds
  <3>2. hook'[h] # NoHook /\ hook'[h].status = "DELIVERING" BY <1>0,<2>3,<3>1 DEF HookHolds
  <3>3. CASE h = k
   <4>1. u = w BY <1>0,<2>1,<3>1,<3>3 DEF HookHolds
   <4>2. trip'[u].at # "post" /\ h \notin load'[u] BY <2>1,<2>3,<2>4,<3>3,<4>1
   <4>3. trip'[u].at = "delivered" => acked'[h] > 0 BY <1>0,<2>1,<2>4,<3>3,<4>1 DEF HookTypes
   <4> QED BY <3>1,<3>2,<4>2,<4>3
  <3>4. CASE h # k
   <4>1. hook'[h] = hook[h] /\ load'[u] = load[u] /\ received'[h] = received[h] /\ acked'[h] = acked[h] BY <2>3,<2>5,<3>4
   <4>2. CASE u # w BY <1>0,<2>4,<3>1,<3>2,<4>1,<4>2 DEF HookHolds
   <4>3. CASE u = w
    <5>1. h \in load[u] /\ trip[u].row # h BY <1>0,<3>1,<3>4,<4>3 DEF Holds, HookHolds
    <5> QED BY <1>0,<2>4,<3>1,<3>2,<3>4,<4>1,<4>3,<5>1 DEF HookHolds
   <4> QED BY <4>2,<4>3
  <3> QED BY <3>3,<3>4
 <2>9. HookCounts'
  <3> SUFFICES ASSUME NEW h \in Hooks
    PROVE  /\ hook[h] = NoHook => received'[h] = 0 /\ acked'[h] = 0
           /\ hook[h] # NoHook => acked'[h] <= received'[h] /\ received'[h] <= hook[h].attempts BY <1>0,<2>3 DEF HookCounts
  <3>1. CASE h = k
   <4>1. hook[k].attempts \in Nat /\ received[k] \in Nat /\ acked[k] \in Nat /\ acked[k] <= received[k]
     BY <1>0,<2>1,<2>2 DEF HookTypes, HookRows, HookCounts
   <4> QED BY <2>2,<2>5,<3>1,<4>1
  <3>2. CASE h # k BY <1>0,<2>5,<3>2 DEF HookCounts
  <3> QED BY <3>1,<3>2
 <2>10. ASSUME NEW h \in Hooks PROVE HookDelivery!Step(h)
  <3>1. HookPlace'[h] = HookPlace[h] BY <2>3 DEF HookPlace
  <3>2. HookPlace[k] # "none" BY <2>1,<2>2 DEF HookPlace
  <3>3. acked'[h] \in {acked[h], acked[h] + 1} /\ (acked'[h] # acked[h] => h = k) BY <2>5
  <3> QED BY <3>1,<3>2,<3>3 DEF HookDelivery!Step
 <2> QED BY <2>6,<2>8,<2>9,<2>10 DEF HookInv, HookDelivery!DeliveryNext
\* A courier writes the row of its trip and comes to rest, or only comes to rest.
<1>mark. ASSUME NEW w \in Couriers, NEW k \in Hooks, NEW new \in HookRows, trip[w] # AtRest, trip[w].row = k,
    hook' = [hook EXCEPT ![k] = new], Rest(w), UNCHANGED <<load, received, acked>>,
    new.attempts = hook[k].attempts,
    \/ new.status = "DELIVERED" /\ trip[w].at = "delivered"
    \/ new.status = "DEAD" /\ new.attempts = HookAttempts
    \/ new.status = "RETRY" /\ new.attempts < HookAttempts
  PROVE HookInv' /\ HookDelivery!DeliveryNext
 <2>1. Holds(w, k) /\ k \notin load[w] BY <1>0,<1>mark DEF Holds, HookHolds
 <2>2. hook[k] \in HookRows /\ hook[k] # NoHook /\ hook[k].status = "DELIVERING" /\ (trip[w].at = "delivered" => acked[k] > 0)
   BY <1>0,<1>mark,<2>1 DEF HookTypes, HookHolds
 <2>3. hook'[k] = new /\ (\A h \in Hooks \ {k} : hook'[h] = hook[h]) /\ new # NoHook BY <1>0,<1>mark DEF HookTypes
 <2>4. trip'[w] = AtRest /\ \A u \in Couriers \ {w} : trip'[u] = trip[u] BY <1>0,<1>mark DEF Rest, HookTypes
 <2>5. HookTypes' BY <1>0,<1>mark DEF Rest, HookTypes
 <2>6. \A h \in Hooks : HookRowMoves(h) BY <1>mark,<2>2,<2>3 DEF HookRowMoves
 <2>7. \A u \in Couriers : \A h \in Hooks : Holds(u, h)' => Holds(u, h) /\ h # k BY <1>0,<1>mark,<2>1,<2>4 DEF Holds, HookHolds
 <2>8. HookHolds'
  <3> SUFFICES ASSUME NEW u \in Couriers, NEW h \in Hooks, Holds(u, h)'
    PROVE  /\ hook'[h] # NoHook /\ hook'[h].status = "DELIVERING"
           /\ h \in load'[u] => trip'[u].row # h
           /\ h \in load'[u] \/ trip'[u].at = "post" => received'[h] < hook'[h].attempts
           /\ h \notin load'[u] /\ trip'[u].at = "delivered" => acked'[h] > 0
           /\ \A x \in Couriers \ {u} : ~Holds(x, h)' BY DEF HookHolds
  <3>1. Holds(u, h) /\ h # k /\ hook'[h] = hook[h] BY <2>3,<2>7
  <3>2. \A x \in Couriers \ {u} : ~Holds(x, h)' BY <1>0,<2>7,<3>1 DEF HookHolds
  <3>3. CASE u # w BY <1>0,<1>mark,<2>4,<3>1,<3>2,<3>3 DEF HookHolds
  <3>4. CASE u = w
   <4>1. h \in load[u] BY <1>mark,<3>1,<3>4 DEF Holds
   <4> QED BY <1>0,<1>mark,<2>4,<3>1,<3>2,<3>4,<4>1 DEF HookHolds
  <3> QED BY <3>3,<3>4
 <2>9. HookCounts' BY <1>0,<1>mark,<2>2,<2>3 DEF HookCounts
 <2> QED BY <1>0,<1>mark,<2>5,<2>6,<2>8,<2>9, HookMovesImplement DEF HookInv
<1>trip. ASSUME NEW w \in Couriers, trip[w].at \in {"delivered", "failed"}
  PROVE trip[w] # AtRest /\ trip[w].row \in Hooks /\ hook[trip[w].row] \in HookRows /\ hook[trip[w].row].status = "DELIVERING"
 <2>1. trip[w] # AtRest /\ trip[w].row \in Hooks BY <1>0,<1>trip DEF HookTypes
 <2> QED BY <1>0,<1>trip,<2>1 DEF HookTypes, HookHolds, Holds
<1>7. ASSUME NEW w \in Couriers, MarkDelivered(w) PROVE HookInv' /\ HookDelivery!DeliveryNext
 <2>1. trip[w].at = "delivered" /\ Rest(w) /\ UNCHANGED <<load, received, acked>> BY <1>7 DEF MarkDelivered, On
 <2> PICK k \in Hooks : k = trip[w].row BY <1>trip,<2>1
 <2> PICK new \in HookRows : new.status = "DELIVERED" /\ new = [hook[k] EXCEPT !.status = "DELIVERED"] BY <1>trip,<2>1 DEF HookRows, HookStatus
 <2>2. new.attempts = hook[k].attempts BY <1>trip,<2>1 DEF HookRows
 <2>3. hook' = [hook EXCEPT ![k] = new] BY <1>0,<1>7 DEF MarkDelivered, HookTypes
 <2> QED BY <1>trip,<2>1,<2>2,<2>3,<1>mark
<1>8. ASSUME NEW w \in Couriers, MarkRetry(w) PROVE HookInv' /\ HookDelivery!DeliveryNext
 <2>1. trip[w].at = "failed" /\ Rest(w) /\ UNCHANGED <<load, received, acked>> BY <1>8 DEF MarkRetry, On
 <2> PICK k \in Hooks : k = trip[w].row BY <1>trip,<2>1
 <2>2. hook[k] \in HookRows /\ hook[k].attempts \in 0..HookAttempts BY <1>trip,<2>1 DEF HookRows
 <2> PICK s \in {"DEAD", "RETRY"} : /\ s = "DEAD" <=> hook[k].attempts >= HookAttempts
                                    /\ hook' = [hook EXCEPT ![k].status = s] BY <1>8 DEF MarkRetry
 <2> PICK new \in HookRows : new.status = s /\ new = [hook[k] EXCEPT !.status = s] BY <2>2 DEF HookRows, HookStatus
 <2>3. new.attempts = hook[k].attempts BY <2>2 DEF HookRows
 <2>4. hook' = [hook EXCEPT ![k] = new] BY <1>0 DEF HookTypes
 <2>5. (new.status = "DEAD" /\ new.attempts = HookAttempts) \/ (new.status = "RETRY" /\ new.attempts < HookAttempts) BY <2>2,<2>3
 <2>6. UNCHANGED <<load, received, acked>> /\ trip[w] # AtRest /\ trip[w].row = k BY <1>trip,<2>1
 <2> QED BY <2>1,<2>3,<2>4,<2>5,<2>6,<1>mark
\* A courier that drops what it holds, or turns its trip to a failure, disturbs nothing.
<1>drop. ASSUME NEW w \in Couriers, UNCHANGED <<hook, received, acked>>, load' \in {load, [load EXCEPT ![w] = {}]},
    \/ trip' = [trip EXCEPT ![w] = AtRest]
    \/ trip[w] # AtRest /\ trip' = [trip EXCEPT ![w].at = "failed"]
  PROVE HookInv' /\ HookDelivery!DeliveryNext
 <2>1. /\ \A u \in Couriers : load'[u] \subseteq load[u]
       /\ \A u \in Couriers \ {w} : trip'[u] = trip[u] /\ load'[u] = load[u]
       /\ trip'[w] = AtRest \/ (trip'[w].row = trip[w].row /\ trip'[w].at = "failed")
       /\ HookTypes' BY <1>0,<1>drop DEF HookTypes
 <2>2. \A u \in Couriers : \A h \in Hooks : Holds(u, h)' => Holds(u, h) BY <2>1 DEF Holds
 <2>3. HookHolds'
  <3> SUFFICES ASSUME NEW u \in Couriers, NEW h \in Hooks, Holds(u, h)'
    PROVE  /\ hook[h] # NoHook /\ hook[h].status = "DELIVERING"
           /\ h \in load'[u] => trip'[u].row # h
           /\ h \in load'[u] \/ trip'[u].at = "post" => received[h] < hook[h].attempts
           /\ h \notin load'[u] /\ trip'[u].at = "delivered" => acked[h] > 0
           /\ \A x \in Couriers \ {u} : ~Holds(x, h)' BY <1>drop DEF HookHolds
  <3>1. Holds(u, h) /\ \A x \in Couriers \ {u} : ~Holds(x, h)' BY <1>0,<2>2 DEF HookHolds
  <3>2. CASE u # w BY <1>0,<2>1,<3>1,<3>2 DEF HookHolds
  <3>3. CASE u = w
   <4>1. trip'[u].at \notin {"post", "delivered"} /\ (h \in load'[u] => h \in load[u]) BY <2>1,<3>3
   <4>2. h \in load[u] => trip'[u].row # h BY <1>0,<2>1,<3>1,<3>3 DEF HookHolds
   <4> QED BY <1>0,<3>1,<4>1,<4>2 DEF HookHolds
  <3> QED BY <3>2,<3>3
 <2>4. HookCounts' BY <1>0,<1>drop DEF HookCounts
 <2> QED BY <1>drop,<1>still,<2>1,<2>3,<2>4 DEF HookInv
<1>9. ASSUME NEW w \in Couriers, UpdateFails(w) PROVE HookInv' /\ HookDelivery!DeliveryNext
 <2>1. UNCHANGED <<hook, received, acked>> BY <1>9 DEF UpdateFails
 <2>2. CASE On(w, "delivered") /\ Turn(w, "failed") /\ UNCHANGED load BY <2>1,<2>2,<1>drop,<1>trip DEF On, Turn
 <2>3. CASE On(w, "failed") /\ Rest(w) /\ load' = [load EXCEPT ![w] = {}] BY <2>1,<2>3,<1>drop DEF Rest
 <2> QED BY <1>9,<2>2,<2>3 DEF UpdateFails
<1>10. ASSUME NEW w \in Couriers, CourierCrashes(w) PROVE HookInv' /\ HookDelivery!DeliveryNext BY <1>10,<1>drop DEF CourierCrashes, Rest
<1> QED BY <1>1,<1>2,<1>3,<1>4,<1>5,<1>6,<1>7,<1>8,<1>9,<1>10 DEF WebhookNext, CourierStep
\* Rows that enter anywhere leave the others as they were, and the order is one still.
LEMMA EnterKeepsOrder ==
  ASSUME NEW new \in SUBSET Hooks, NEW before, new \cap Queued = {}, InOrder(ahead, Queued), EnterQueue(new, before)
  PROVE InOrder(ahead', Queued \cup new)
<1> PICK first \in SUBSET Queued, r \in SUBSET (new \X new) :
      /\ \A f \in first, g \in Queued : <<g, f>> \in ahead => g \in first
      /\ InOrder(r, new)
      /\ ahead' = ahead \cup (first \X new) \cup (new \X (Queued \ first)) \cup r BY DEF EnterQueue
<1>1. ahead \subseteq Queued \X Queued BY DEF InOrder
<1>2. \A g, h \in Queued \cup new : <<g, h>> \in ahead' <=> \/ g \in Queued /\ h \in Queued /\ <<g, h>> \in ahead
                                                            \/ g \in first /\ h \in new
                                                            \/ g \in new /\ h \in Queued /\ h \notin first
                                                            \/ g \in new /\ h \in new /\ <<g, h>> \in r BY <1>1
<1>3. ahead' \subseteq (Queued \cup new) \X (Queued \cup new) BY <1>1
<1>4. \A g, h \in Queued \cup new : IF g = h THEN <<g, h>> \notin ahead' ELSE <<g, h>> \in ahead' <=> <<h, g>> \notin ahead'
 <2> SUFFICES ASSUME NEW g \in Queued \cup new, NEW h \in Queued \cup new
   PROVE IF g = h THEN <<g, h>> \notin ahead' ELSE <<g, h>> \in ahead' <=> <<h, g>> \notin ahead' OBVIOUS
 <2>1. CASE g \in Queued /\ h \in Queued BY <1>2,<2>1 DEF InOrder
 <2>2. CASE g \in new /\ h \in new BY <1>2,<2>2 DEF InOrder
 <2>3. CASE g \in Queued /\ h \in new
  <3>1. g \notin new /\ h \notin Queued /\ g # h BY <2>3
  <3> QED BY <1>2,<2>3,<3>1
 <2>4. CASE g \in new /\ h \in Queued
  <3>1. g \notin Queued /\ h \notin new /\ g # h BY <2>4
  <3> QED BY <1>2,<2>4,<3>1
 <2> QED BY <2>1,<2>2,<2>3,<2>4
<1>5. \A g, h, i \in Queued \cup new : <<g, h>> \in ahead' /\ <<h, i>> \in ahead' => <<g, i>> \in ahead'
 <2> SUFFICES ASSUME NEW g \in Queued \cup new, NEW h \in Queued \cup new, NEW i \in Queued \cup new, <<g, h>> \in ahead', <<h, i>> \in ahead'
   PROVE <<g, i>> \in ahead' OBVIOUS
 <2>1. CASE g \in Queued /\ i \in Queued /\ h \in Queued BY <1>2,<2>1 DEF InOrder
 <2>2. CASE g \in Queued /\ i \in Queued /\ h \in new
  <3>1. g \in first /\ i \notin first BY <1>2,<2>2
  <3>2. g # i /\ <<i, g>> \notin ahead BY <2>2,<3>1
  <3> QED BY <1>2,<2>2,<3>2 DEF InOrder
 <2>3. CASE g \in Queued /\ i \in new BY <1>2,<2>3
 <2>4. CASE g \in new /\ i \in Queued BY <1>2,<2>4
 <2>5. CASE g \in new /\ i \in new /\ h \in Queued BY <1>2,<2>5
 <2>6. CASE g \in new /\ i \in new /\ h \in new BY <1>2,<2>6 DEF InOrder
 <2> QED BY <2>1,<2>2,<2>3,<2>4,<2>5,<2>6
<1> QED BY <1>3,<1>4,<1>5 DEF InOrder

HookOrder == InOrder(ahead, Queued)
HookRest ==
  /\ endpoint \in [Endpoints -> [enabled : BOOLEAN, secret : BOOLEAN]]
  /\ hookFaults \in 0..MaxHookFaults /\ hookChanges \in 0..MaxHookChanges
\* What a courier has not failed at is acknowledged by the courier that holds it.
HookStrands ==
  hookFaults = 0 => \A h \in Hooks :
    /\ hook[h] # NoHook /\ hook[h].status = "DELIVERING" => \E w \in Couriers : Holds(w, h)
    /\ acked[h] > 0 => /\ acked[h] = 1 /\ hook[h].status \in {"DELIVERING", "DELIVERED"}
                       /\ \A w \in Couriers : Holds(w, h) => h \notin load[w] /\ trip[w].at = "delivered"
HookWork == HookOrder /\ HookRest /\ HookStrands

LEMMA HookWorkInit == WebhookInit => HookWork
<1> SUFFICES ASSUME WebhookInit PROVE HookWork OBVIOUS
<1>1. Queued = {} BY DEF WebhookInit, Queued
<1>2. HookOrder BY <1>1 DEF WebhookInit, HookOrder, InOrder
<1>3. endpoint \in [Endpoints -> [enabled : BOOLEAN, secret : BOOLEAN]]
 <2>1. [enabled : BOOLEAN, secret : {TRUE}] \subseteq [enabled : BOOLEAN, secret : BOOLEAN] OBVIOUS
 <2>2. endpoint \in [Endpoints -> [enabled : BOOLEAN, secret : {TRUE}]] BY DEF WebhookInit
 <2> QED BY <2>1,<2>2
<1>4. HookRest BY <1>3, HookAssumption DEF WebhookInit, HookRest
<1>5. HookStrands BY DEF WebhookInit, HookStrands
<1> QED BY <1>2,<1>4,<1>5 DEF HookWork

LEMMA HookOrderStep == ASSUME HookInv, HookInv', HookOrder, [WebhookNext]_hookVars PROVE HookOrder'
<1> USE HookRowIsReal
<1>0. HookTypes /\ HookTypes' /\ HookHolds BY DEF HookInv
<1>still. ASSUME UNCHANGED ahead, Queued' = Queued PROVE HookOrder' BY <1>still DEF HookOrder, InOrder
<1>1. CASE UNCHANGED <<hook, ahead>>
 <2>1. Queued' = Queued BY <1>1 DEF Queued
 <2> QED BY <1>1,<1>still,<2>1
<1>2. ASSUME NEW v \in Events, Emit(v) PROVE HookOrder'
 <2> DEFINE new == {h \in Hooks : h[2] = v /\ endpoint[h[1]].enabled /\ hook[h] = NoHook}
            row == [status |-> "PENDING", attempts |-> 0]
 <2>1. /\ hook' = [h \in Hooks |-> IF h \in new THEN row ELSE hook[h]]
       /\ EnterQueue(new, {h \in Queued : hook[h].status = "PENDING"}) BY <1>2 DEF Emit
 <2>2. row \in HookRows /\ row # NoHook /\ row.status = "PENDING" BY DEF HookRows, HookStatus
 <2>3. \A h \in new : h \in Hooks /\ hook[h] = NoHook OBVIOUS
 <2> HIDE DEF new, row
 <2>4. Queued' = Queued \cup new BY <2>1,<2>2,<2>3 DEF Queued
 <2>5. new \cap Queued = {} /\ new \in SUBSET Hooks BY <2>3 DEF Queued
 <2>6. InOrder(ahead', Queued \cup new) BY <2>1,<2>5, EnterKeepsOrder DEF HookOrder
 <2> QED BY <2>4,<2>6 DEF HookOrder
<1>3. ASSUME NEW w \in Couriers, ClaimHooks(w) PROVE HookOrder'
 <2> DEFINE taken == {h \in DueRows : endpoint[h[1]].secret}
 <2>1. /\ hook' = [h \in Hooks |-> IF h \in taken
                     THEN [status |-> "DELIVERING", attempts |-> hook[h].attempts + 1] ELSE hook[h]]
       /\ ahead' = ahead \cap ((Queued \ taken) \X (Queued \ taken)) BY <1>3 DEF ClaimHooks
 <2> HIDE DEF taken
 <2>2. Queued' = Queued \ taken BY <2>1 DEF Queued
 <2> QED BY <2>1,<2>2 DEF HookOrder, InOrder
<1>4. ASSUME NEW w \in Couriers, MarkDelivered(w) PROVE HookOrder'
 <2> PICK k : k = trip[w].row /\ trip[w].at = "delivered" BY <1>4 DEF MarkDelivered, On
 <2>1. k \in Hooks /\ k \notin Queued BY <1>0 DEF HookTypes, HookHolds, Holds, Queued
 <2>2. hook' = [hook EXCEPT ![k].status = "DELIVERED"] /\ UNCHANGED ahead BY <1>4 DEF MarkDelivered
 <2>3. hook[k] \in HookRows /\ hook'[k].status = "DELIVERED" /\ \A h \in Hooks \ {k} : hook'[h] = hook[h]
   BY <1>0,<2>1,<2>2 DEF HookTypes, HookRows, HookHolds, Holds
 <2>4. Queued' = Queued BY <2>1,<2>3 DEF Queued
 <2> QED BY <1>still,<2>2,<2>4
<1>5. ASSUME NEW w \in Couriers, MarkRetry(w) PROVE HookOrder'
 <2> PICK k : k = trip[w].row /\ trip[w].at = "failed" BY <1>5 DEF MarkRetry, On
 <2>1. k \in Hooks /\ k \notin Queued BY <1>0 DEF HookTypes, HookHolds, Holds, Queued
 <2>2. hook[k] \in HookRows BY <1>0,<2>1 DEF HookTypes, HookHolds, Holds
 <2>3. \/ hook' = [hook EXCEPT ![k].status = "DEAD"] /\ UNCHANGED ahead
       \/ hook' = [hook EXCEPT ![k].status = "RETRY"] /\ EnterQueue({k}, {}) BY <1>5 DEF MarkRetry
 <2>4. CASE hook' = [hook EXCEPT ![k].status = "DEAD"] /\ UNCHANGED ahead
  <3>1. hook'[k].status = "DEAD" /\ \A h \in Hooks \ {k} : hook'[h] = hook[h] BY <1>0,<2>1,<2>2,<2>4 DEF HookTypes, HookRows
  <3>2. Queued' = Queued BY <2>1,<3>1 DEF Queued
  <3> QED BY <1>still,<2>4,<3>2
 <2>5. CASE hook' = [hook EXCEPT ![k].status = "RETRY"] /\ EnterQueue({k}, {})
  <3>1. hook'[k].status = "RETRY" /\ hook'[k] \in HookRows /\ \A h \in Hooks \ {k} : hook'[h] = hook[h]
    BY <1>0,<2>1,<2>2,<2>5 DEF HookTypes, HookRows, HookStatus
  <3>2. Queued' = Queued \cup {k} BY <2>1,<3>1 DEF Queued
  <3>3. InOrder(ahead', Queued \cup {k}) BY <2>1,<2>5, EnterKeepsOrder DEF HookOrder
  <3> QED BY <3>2,<3>3 DEF HookOrder
 <2> QED BY <2>3,<2>4,<2>5
<1>6. CASE \/ UNCHANGED hookVars
           \/ \E e \in Endpoints : DeleteSecret(e) \/ \E b \in BOOLEAN : SetWebhookEnabled(e, b)
           \/ \E w \in Couriers : NextHook(w) \/ Post(w) \/ UpdateFails(w) \/ CourierCrashes(w)
  BY <1>1,<1>6 DEF hookVars, DeleteSecret, SetWebhookEnabled, NextHook, Post, UpdateFails, CourierCrashes
<1> QED BY <1>2,<1>3,<1>4,<1>5,<1>6 DEF WebhookNext, CourierStep
LEMMA HookRestStep == ASSUME HookRest, [WebhookNext]_hookVars PROVE HookRest'
<1>1. hookFaults' = hookFaults \/ (hookFaults < MaxHookFaults /\ hookFaults' = hookFaults + 1)
  BY DEF WebhookNext, hookVars, Emit, DeleteSecret, SetWebhookEnabled, ClaimHooks, CourierStep, NextHook, Post, MarkDelivered, MarkRetry, UpdateFails,
    CourierCrashes
<1>2. hookChanges' = hookChanges \/ (hookChanges < MaxHookChanges /\ hookChanges' = hookChanges + 1)
  BY DEF WebhookNext, hookVars, Emit, DeleteSecret, SetWebhookEnabled, ClaimHooks, CourierStep, NextHook, Post, MarkDelivered, MarkRetry, UpdateFails,
    CourierCrashes
<1>3. \/ UNCHANGED endpoint
      \/ \E e \in Endpoints, b \in BOOLEAN : endpoint' = [endpoint EXCEPT ![e].enabled = b] \/ endpoint' = [endpoint EXCEPT ![e].secret = b]
  BY DEF WebhookNext, hookVars, Emit, DeleteSecret, SetWebhookEnabled, ClaimHooks, CourierStep, NextHook, Post, MarkDelivered, MarkRetry, UpdateFails,
    CourierCrashes
<1>4. endpoint' \in [Endpoints -> [enabled : BOOLEAN, secret : BOOLEAN]] BY <1>3 DEF HookRest
<1> QED BY <1>1,<1>2,<1>4, HookAssumption DEF HookRest

LEMMA HookStrandsStep == ASSUME HookInv, HookInv', HookRest, HookStrands, [WebhookNext]_hookVars PROVE HookStrands'
<1> USE HookRowIsReal
<1>0. /\ HookTypes /\ HookTypes' /\ HookHolds /\ HookCounts /\ hookFaults \in Nat BY HookAssumption DEF HookInv, HookRest
<1>still. ASSUME UNCHANGED <<hook, load, trip, acked, hookFaults>> PROVE HookStrands' BY <1>still DEF HookStrands, Holds
<1>faults. ASSUME hookFaults' = hookFaults + 1 PROVE HookStrands' BY <1>0,<1>faults DEF HookStrands
<1>1. CASE \/ UNCHANGED hookVars
           \/ \E e \in Endpoints : DeleteSecret(e) \/ \E b \in BOOLEAN : SetWebhookEnabled(e, b)
  BY <1>1,<1>still DEF hookVars, DeleteSecret, SetWebhookEnabled
<1>2. ASSUME NEW v \in Events, Emit(v) PROVE HookStrands'
 <2> DEFINE new == {h \in Hooks : h[2] = v /\ endpoint[h[1]].enabled /\ hook[h] = NoHook}
            row == [status |-> "PENDING", attempts |-> 0]
 <2>1. /\ hook' = [h \in Hooks |-> IF h \in new THEN row ELSE hook[h]]
       /\ UNCHANGED <<load, trip, acked, hookFaults>> BY <1>2 DEF Emit
 <2>2. row.status = "PENDING" OBVIOUS
 <2>3. \A h \in new : h \in Hooks /\ acked[h] = 0 BY <1>0 DEF HookCounts
 <2> HIDE DEF new, row
 <2>4. \A h \in Hooks \ new : hook'[h] = hook[h] BY <2>1
 <2>5. \A h \in new : hook'[h].status = "PENDING" BY <2>1,<2>2,<2>3
 <2>6. \A w \in Couriers, h \in Hooks : Holds(w, h)' = Holds(w, h) BY <2>1 DEF Holds
 <2> QED BY <2>1,<2>3,<2>4,<2>5,<2>6 DEF HookStrands
<1>3. ASSUME NEW w \in Couriers, ClaimHooks(w) PROVE HookStrands'
 <2> DEFINE taken == {h \in DueRows : endpoint[h[1]].secret}
 <2>1. /\ trip[w] = AtRest /\ load[w] = {} /\ load' = [load EXCEPT ![w] = taken]
       /\ hook' = [h \in Hooks |-> IF h \in taken
                     THEN [status |-> "DELIVERING", attempts |-> hook[h].attempts + 1] ELSE hook[h]]
       /\ UNCHANGED <<trip, acked, hookFaults>> BY <1>3 DEF ClaimHooks
 <2>2. \A h \in taken : h \in Hooks /\ hook[h] # NoHook /\ hook[h].status \in {"PENDING", "RETRY"} BY DEF DueRows, Due, Queued
 <2> HIDE DEF taken
 <2>3. CASE hookFaults = 0
  <3>1. \A h \in taken : acked[h] = 0 BY <1>0,<2>2,<2>3 DEF HookStrands, HookTypes
  <3>2. load'[w] = taken /\ \A u \in Couriers \ {w} : load'[u] = load[u] BY <1>0,<2>1 DEF HookTypes
  <3>3. \A h \in Hooks \ taken : \A u \in Couriers : Holds(u, h)' <=> Holds(u, h) BY <2>1,<3>2 DEF Holds
  <3>4. \A h \in taken : Holds(w, h)' BY <3>2 DEF Holds
  <3>5. \A h \in Hooks \ taken : hook'[h] = hook[h] /\ \A u \in Couriers : h \in load'[u] <=> h \in load[u] BY <2>1,<3>2
  <3>6. \A h \in taken : \E u \in Couriers : Holds(u, h)' BY <3>4
  <3>7. ASSUME NEW h \in Hooks \ taken
    PROVE  /\ hook'[h] # NoHook /\ hook'[h].status = "DELIVERING" => \E u \in Couriers : Holds(u, h)'
           /\ acked'[h] > 0 => /\ acked'[h] = 1 /\ hook'[h].status \in {"DELIVERING", "DELIVERED"}
                              /\ \A u \in Couriers : Holds(u, h)' => h \notin load'[u] /\ trip'[u].at = "delivered"
    BY <2>1,<2>3,<3>3,<3>5 DEF HookStrands
  <3> QED BY <2>1,<3>1,<3>6,<3>7 DEF HookStrands
 <2>4. CASE hookFaults # 0 BY <2>1,<2>4 DEF HookStrands
 <2> QED BY <2>3,<2>4
<1>4. ASSUME NEW w \in Couriers, NextHook(w) PROVE HookStrands'
 <2> PICK k \in load[w] : trip' = [trip EXCEPT ![w] = [row |-> k, at |-> "post"]] /\ load' = [load EXCEPT ![w] = @ \ {k}] BY <1>4 DEF NextHook
 <2>1. k \in Hooks /\ trip[w] = AtRest /\ UNCHANGED <<hook, acked, hookFaults>> BY <1>0,<1>4 DEF NextHook, HookTypes
 <2>2. /\ trip'[w] = [row |-> k, at |-> "post"] /\ load'[w] = load[w] \ {k}
       /\ \A u \in Couriers \ {w} : trip'[u] = trip[u] /\ load'[u] = load[u] BY <1>0 DEF HookTypes
 <2>3. \A u \in Couriers : \A h \in Hooks : Holds(u, h)' <=> Holds(u, h) BY <1>0,<2>1,<2>2 DEF Holds
 <2>4. hookFaults = 0 => ~(acked[k] > 0) BY <1>0,<2>1 DEF HookStrands, Holds
 <2>5. \A u \in Couriers, h \in Hooks : Holds(u, h) /\ h # k /\ h \notin load[u] /\ trip[u].at = "delivered"
         => h \notin load'[u] /\ trip'[u].at = "delivered" BY <1>0,<2>1,<2>2 DEF Holds
 <2> QED BY <2>1,<2>3,<2>4,<2>5 DEF HookStrands
<1>5. ASSUME NEW w \in Couriers, Post(w) PROVE HookStrands'
 <2> PICK k : k = trip[w].row /\ trip[w].at = "post" BY <1>5 DEF Post, On
 <2>1. k \in Hooks /\ Holds(w, k) /\ trip[w] # AtRest BY <1>0 DEF HookTypes, Holds
 <2>2. UNCHANGED <<hook, load, hookFaults>> BY <1>5 DEF Post
 <2>3. \/ trip' = [trip EXCEPT ![w].at = "failed"] /\ UNCHANGED acked
       \/ trip' = [trip EXCEPT ![w].at = "delivered"] /\ acked' = [acked EXCEPT ![k] = @ + 1] BY <1>5 DEF Post, Turn
 <2>4. trip'[w].row = k /\ \A u \in Couriers \ {w} : trip'[u] = trip[u] BY <1>0,<2>1,<2>3 DEF HookTypes
 <2>5. \A u \in Couriers : \A h \in Hooks : Holds(u, h)' <=> Holds(u, h) BY <2>2,<2>4 DEF Holds
 <2>6. hookFaults = 0 => ~(acked[k] > 0) BY <2>1 DEF HookStrands
 <2>7. \A u \in Couriers \ {w} : ~Holds(u, k) BY <1>0,<2>1 DEF HookHolds
 <2>8. k \notin load[w] /\ \A h \in Hooks : Holds(w, h) /\ h # k => h \in load[w] BY <1>0,<2>1 DEF HookHolds, Holds
 <2>9. CASE trip' = [trip EXCEPT ![w].at = "failed"] /\ UNCHANGED acked
  <3>1. \A u \in Couriers, h \in Hooks : acked[h] > 0 /\ hookFaults = 0 /\ Holds(u, h) => u # w BY <2>6,<2>8 DEF HookStrands
  <3> QED BY <2>2,<2>4,<2>5,<2>9,<3>1 DEF HookStrands
 <2>10. CASE trip' = [trip EXCEPT ![w].at = "delivered"] /\ acked' = [acked EXCEPT ![k] = @ + 1]
  <3>1. trip'[w].at = "delivered" BY <1>0,<2>1,<2>10 DEF HookTypes
  <3>2. (\A h \in Hooks \ {k} : acked'[h] = acked[h]) /\ acked'[k] = acked[k] + 1 /\ acked[k] \in Nat BY <1>0,<2>1,<2>10 DEF HookTypes
  <3>3. hookFaults = 0 => acked'[k] = 1 BY <2>6,<3>2
  <3>4. hook[k].status = "DELIVERING" BY <1>0,<2>1 DEF HookHolds
  <3>5. \A u \in Couriers, h \in Hooks \ {k} : acked[h] > 0 /\ hookFaults = 0 /\ Holds(u, h) => u # w BY <2>8 DEF HookStrands
  <3> QED BY <2>1,<2>2,<2>4,<2>5,<2>7,<2>8,<3>1,<3>2,<3>3,<3>4,<3>5 DEF HookStrands
 <2> QED BY <2>3,<2>9,<2>10
\* A courier that ends its trip has taken the row out of DELIVERING, or leaves nothing behind.
<1>mark. ASSUME NEW w \in Couriers, NEW k \in Hooks, trip[w] # AtRest, trip[w].row = k, Rest(w),
    UNCHANGED <<load, acked, hookFaults>>, \A h \in Hooks \ {k} : hook'[h] = hook[h],
    \/ hook'[k].status = "DELIVERED"
    \/ hook'[k].status # "DELIVERING" /\ trip[w].at = "failed"
  PROVE HookStrands'
 <2>1. Holds(w, k) /\ k \notin load[w] BY <1>0,<1>mark DEF Holds, HookHolds
 <2>2. trip'[w] = AtRest /\ \A u \in Couriers \ {w} : trip'[u] = trip[u] BY <1>0,<1>mark DEF Rest, HookTypes
 <2>3. \A u \in Couriers : \A h \in Hooks \ {k} : Holds(u, h)' <=> Holds(u, h) BY <1>mark,<2>1,<2>2 DEF Holds
 <2>4. \A u \in Couriers : ~Holds(u, k)' BY <1>0,<1>mark,<2>1,<2>2 DEF Holds, HookHolds
 <2>5. \A h \in Hooks \ {k} : Holds(w, h) => h \in load[w] BY <1>mark DEF Holds
 <2>6. hookFaults = 0 /\ acked[k] > 0 => hook'[k].status = "DELIVERED" /\ acked[k] = 1 BY <1>mark,<2>1 DEF HookStrands
 <2> QED BY <1>mark,<2>2,<2>3,<2>4,<2>5,<2>6 DEF HookStrands
<1>6. ASSUME NEW w \in Couriers, MarkDelivered(w) PROVE HookStrands'
 <2> PICK k : k = trip[w].row /\ trip[w].at = "delivered" BY <1>6 DEF MarkDelivered, On
 <2>1. trip[w] # AtRest /\ k \in Hooks BY <1>0 DEF HookTypes
 <2>2. hook[k] \in HookRows BY <1>0,<2>1 DEF HookTypes, HookHolds, Holds
 <2>3. hook' = [hook EXCEPT ![k].status = "DELIVERED"] /\ Rest(w) /\ UNCHANGED <<load, acked, hookFaults>> BY <1>6 DEF MarkDelivered
 <2>4. hook'[k].status = "DELIVERED" /\ \A h \in Hooks \ {k} : hook'[h] = hook[h] BY <1>0,<2>1,<2>2,<2>3 DEF HookTypes, HookRows
 <2> QED BY <1>mark,<2>1,<2>3,<2>4
<1>7. ASSUME NEW w \in Couriers, MarkRetry(w) PROVE HookStrands'
 <2> PICK k : k = trip[w].row /\ trip[w].at = "failed" BY <1>7 DEF MarkRetry, On
 <2>1. trip[w] # AtRest /\ k \in Hooks BY <1>0 DEF HookTypes
 <2>2. hook[k] \in HookRows BY <1>0,<2>1 DEF HookTypes, HookHolds, Holds
 <2> PICK s \in {"DEAD", "RETRY"} : hook' = [hook EXCEPT ![k].status = s] BY <1>7 DEF MarkRetry
 <2>3. Rest(w) /\ UNCHANGED <<load, acked, hookFaults>> BY <1>7 DEF MarkRetry
 <2>4. hook'[k].status = s /\ \A h \in Hooks \ {k} : hook'[h] = hook[h] BY <1>0,<2>1,<2>2 DEF HookTypes, HookRows
 <2> QED BY <1>mark,<2>1,<2>3,<2>4
<1>8. ASSUME NEW w \in Couriers, UpdateFails(w) \/ CourierCrashes(w) PROVE HookStrands' BY <1>8,<1>faults DEF UpdateFails, CourierCrashes
<1> QED BY <1>1,<1>2,<1>3,<1>4,<1>5,<1>6,<1>7,<1>8 DEF WebhookNext, CourierStep

LEMMA HookWorkStep ==
  ASSUME HookInv, HookWork, [WebhookNext]_hookVars PROVE HookWork' BY HookStep, HookOrderStep, HookRestStep, HookStrandsStep DEF HookWork

LEMMA HookInvImplies == HookInv /\ HookWork => WebhookTypeOK /\ DeliveringHasOneHolder /\ DeadAfterAllAttempts /\ OnlyAFaultStrandsHook
<1> SUFFICES ASSUME HookInv, HookWork PROVE WebhookTypeOK /\ DeliveringHasOneHolder /\ DeadAfterAllAttempts /\ OnlyAFaultStrandsHook OBVIOUS
<1>1. WebhookTypeOK BY DEF HookInv, HookTypes, HookRows, HookWork, HookOrder, HookRest, WebhookTypeOK
<1>2. DeliveringHasOneHolder BY DEF HookInv, HookHolds, DeliveringHasOneHolder
<1>3. DeadAfterAllAttempts BY DEF HookInv, HookCounts, DeadAfterAllAttempts
<1>4. OnlyAFaultStrandsHook BY DEF HookWork, HookStrands, OnlyAFaultStrandsHook
<1> QED BY <1>1,<1>2,<1>3,<1>4

------------------------
(* Events, and the intake of payment webhooks that fills their outbox. *)
EvtRows == [status : EventStatus, attempts : 0..EventAttempts]
EvtTypes ==
  /\ evt \in [EventKeys -> {NoEvent} \cup EvtRows]
  /\ claimed \in [Processes -> SUBSET EventKeys] /\ emitted \in [Processes -> SUBSET EventKeys]
  /\ started \in [EventKeys -> Nat]
EvtHeld(p) == claimed[p] \cup emitted[p]
EvtHolds ==
  \A p \in Processes :
    /\ \A k \in EvtHeld(p) : evt[k] # NoEvent /\ evt[k].status = "PROCESSING"
    /\ \A k \in claimed[p] : started[k] < evt[k].attempts /\ k \notin emitted[p]
    /\ \A k \in emitted[p] : started[k] > 0
    /\ \A q \in Processes \ {p} : EvtHeld(p) \cap EvtHeld(q) = {}
EvtCounts ==
  \A k \in EventKeys :
    /\ evt[k] = NoEvent => started[k] = 0
    /\ evt[k] # NoEvent => started[k] <= evt[k].attempts
    /\ evt[k] # NoEvent /\ evt[k].status = "FAILED" => evt[k].attempts = EventAttempts
EvtInv == EvtTypes /\ EvtHolds /\ EvtCounts

EvtRowMoves(k) ==
  \/ evt'[k] = evt[k]
  \/ evt[k] = NoEvent /\ evt'[k] \in EvtRows /\ evt'[k].status = "PENDING"
  \/ /\ evt[k] \in EvtRows /\ evt'[k] \in EvtRows
     /\ \/ evt[k].status = "PENDING" /\ evt'[k].status = "PROCESSING"
        \/ evt[k].status = "PROCESSING" /\ evt'[k].status \in {"PENDING", "FAILED"}
        \/ evt[k].status = "PROCESSING" /\ evt'[k].status = "PROCESSED" /\ started[k] > 0

LEMMA EvtRowIsReal == NoEvent \notin EvtRows /\ EventAttempts \in Nat \ {0} BY EventAssumption DEF EvtRows

LEMMA EvtInitOK == EventInit => EvtInv /\ EventDelivery!DeliveryInit
  BY DEF EventInit, EvtInv, EvtTypes, EvtHeld, EvtHolds, EvtCounts, EventDelivery!DeliveryInit, EventPlace

LEMMA EvtMovesImplement == ASSUME EvtTypes, EvtTypes', \A k \in EventKeys : EvtRowMoves(k), started' = started PROVE EventDelivery!DeliveryNext
<1> SUFFICES ASSUME NEW k \in EventKeys PROVE EventDelivery!Step(k) BY DEF EventDelivery!DeliveryNext
<1>1. EvtRowMoves(k) OBVIOUS
<1> QED BY <1>1, EvtRowIsReal DEF EventDelivery!Step, EventDelivery!Moves, EvtRowMoves, EventPlace, EvtTypes, EvtRows, EventStatus

LEMMA EvtRecovered ==
  ASSUME EvtTypes, NEW k \in EventKeys, evt[k] # NoEvent
  PROVE  /\ Recovered(k) \in EvtRows /\ Recovered(k).status \in {"PENDING", "FAILED"}
         /\ Recovered(k).attempts = evt[k].attempts
         /\ Recovered(k).status = "FAILED" => evt[k].attempts = EventAttempts BY EvtRowIsReal DEF EvtTypes, Recovered, EvtRows, EventStatus

LEMMA EvtEnqueue == ASSUME EvtInv, NEW k, Enqueue(k), UNCHANGED <<claimed, emitted, started>> PROVE EvtInv' /\ EventDelivery!DeliveryNext
<1>1. [status |-> "PENDING", attempts |-> 0] \in EvtRows BY EvtRowIsReal DEF EvtRows, EventStatus
<1>2. EvtTypes' /\ \A q \in EventKeys : EvtRowMoves(q) BY <1>1 DEF EvtInv, EvtTypes, Enqueue, EvtRowMoves
<1>3. \A q \in EventKeys : evt[q] # NoEvent => evt'[q] = evt[q] BY DEF Enqueue, EvtInv, EvtTypes
<1>4. EvtHolds' BY <1>3 DEF EvtInv, EvtTypes, EvtHolds, EvtHeld
<1>5. EvtCounts'
 <2> SUFFICES ASSUME NEW q \in EventKeys, evt'[q] # evt[q]
   PROVE started'[q] = 0 /\ evt'[q] = [status |-> "PENDING", attempts |-> 0] /\ evt'[q] # NoEvent BY EvtRowIsReal DEF EvtCounts, EvtInv
 <2> QED BY <1>1, EvtRowIsReal DEF Enqueue, EvtInv, EvtTypes, EvtCounts
<1> QED BY <1>2,<1>4,<1>5, EvtMovesImplement DEF EvtInv

LEMMA EvtStep == EvtInv /\ [EventNext]_eventVars => EvtInv' /\ EventDelivery!DeliveryNext
<1> SUFFICES ASSUME EvtInv, [EventNext]_eventVars PROVE EvtInv' /\ EventDelivery!DeliveryNext OBVIOUS
<1>0. EvtTypes /\ EvtHolds /\ EvtCounts BY DEF EvtInv
<1>still. ASSUME UNCHANGED <<evt, started>> PROVE EventDelivery!DeliveryNext
 <2>1. EventPlace' = EventPlace BY <1>still DEF EventPlace
 <2> QED BY <1>0,<1>still,<2>1 DEF EventDelivery!DeliveryNext, EventDelivery!Step, EvtTypes
<1>1. CASE UNCHANGED eventVars
 <2>1. EvtInv' BY <1>0,<1>1 DEF eventVars, EvtInv, EvtTypes, EvtHeld, EvtHolds, EvtCounts
 <2> QED BY <1>1,<1>still,<2>1 DEF eventVars
<1>2. ASSUME NEW k \in EventKeys, Enqueue(k), UNCHANGED <<claimed, emitted, started>> PROVE EvtInv' /\ EventDelivery!DeliveryNext BY <1>2, EvtEnqueue
<1>3. CASE RecoverStale
 <2> PICK ks \in SUBSET {k \in EventKeys : Stale(k)} :
       evt' = [k \in EventKeys |-> IF k \in ks THEN Recovered(k) ELSE evt[k]] BY <1>3 DEF RecoverStale
 <2>1. \A k \in ks : /\ k \in EventKeys /\ evt[k] # NoEvent /\ evt[k].status = "PROCESSING"
                     /\ \A p \in Processes : k \notin EvtHeld(p) BY DEF Stale, EvtHeld
 <2>2. UNCHANGED <<claimed, emitted, started>> BY <1>3 DEF RecoverStale
 <2>3. EvtTypes' BY <1>0,<2>1,<2>2, EvtRecovered DEF EvtTypes
 <2>4. \A k \in EventKeys : EvtRowMoves(k) BY <1>0,<2>1, EvtRecovered DEF EvtRowMoves, EvtTypes
 <2>5. EvtHolds' BY <1>0,<2>1,<2>2 DEF EvtHolds, EvtHeld, EvtTypes
 <2>6. EvtCounts' BY <1>0,<2>1,<2>2, EvtRecovered, EvtRowIsReal DEF EvtCounts
 <2> QED BY <1>0,<2>2,<2>3,<2>4,<2>5,<2>6, EvtMovesImplement DEF EvtInv
<1>4. ASSUME NEW p \in Processes, ClaimEvents(p) PROVE EvtInv' /\ EventDelivery!DeliveryNext
 <2> PICK ks \in SUBSET {k \in EventKeys : evt[k] # NoEvent} :
       /\ \A k \in ks : evt[k].status \in {"PENDING", "FAILED"} /\ evt[k].attempts < EventAttempts
       /\ claimed' = [claimed EXCEPT ![p] = ks]
       /\ evt' = [k \in EventKeys |-> IF k \in ks
                    THEN [status |-> "PROCESSING", attempts |-> evt[k].attempts + 1] ELSE evt[k]] BY <1>4 DEF ClaimEvents
 <2>1. \A k \in ks : /\ k \in EventKeys /\ evt[k] \in EvtRows /\ evt[k].status = "PENDING" /\ evt[k].attempts \in Nat
                     /\ [status |-> "PROCESSING", attempts |-> evt[k].attempts + 1] \in EvtRows
   BY <1>0, EvtRowIsReal DEF EvtTypes, EvtCounts, EvtRows, EventStatus
 <2>2. claimed[p] = {} /\ emitted[p] = {} /\ UNCHANGED <<emitted, started>> BY <1>4 DEF ClaimEvents
 <2>3. EvtTypes' /\ \A k \in EventKeys : EvtRowMoves(k) BY <1>0,<2>1,<2>2 DEF EvtTypes, EvtRowMoves
 <2>4. \A q \in Processes : \A k \in EvtHeld(q) : k \notin ks BY <1>0,<2>1 DEF EvtHolds
 <2>5. EvtHolds'
  <3>1. \A k \in ks : evt'[k] # NoEvent /\ evt'[k].status = "PROCESSING" /\ evt'[k].attempts = evt[k].attempts + 1 BY <2>1, EvtRowIsReal
  <3>2. \A k \in ks : started'[k] < evt'[k].attempts BY <1>0,<2>1,<2>2,<3>1, EvtRowIsReal DEF EvtTypes, EvtCounts
  <3>3. \A q \in Processes : \A k \in EvtHeld(q) : evt'[k] = evt[k] BY <1>0,<2>4 DEF EvtTypes, EvtHeld
  <3>4. EvtHeld(p)' = ks /\ claimed'[p] = ks /\ emitted'[p] = {} BY <1>0,<2>2 DEF EvtHeld, EvtTypes
  <3>5. \A q \in Processes \ {p} : EvtHeld(q)' = EvtHeld(q) /\ claimed'[q] = claimed[q] /\ emitted'[q] = emitted[q]
    BY <1>0,<2>2 DEF EvtHeld, EvtTypes
  <3>6. /\ \A k \in EvtHeld(p)' : evt'[k] # NoEvent /\ evt'[k].status = "PROCESSING"
        /\ \A k \in claimed'[p] : started'[k] < evt'[k].attempts /\ k \notin emitted'[p]
        /\ \A k \in emitted'[p] : started'[k] > 0 BY <3>1,<3>2,<3>4
  <3>7. ASSUME NEW q \in Processes \ {p}
    PROVE  /\ \A k \in EvtHeld(q)' : evt'[k] # NoEvent /\ evt'[k].status = "PROCESSING"
           /\ \A k \in claimed'[q] : started'[k] < evt'[k].attempts /\ k \notin emitted'[q]
           /\ \A k \in emitted'[q] : started'[k] > 0
   <4>1. \A k \in EvtHeld(q) : evt'[k] = evt[k] /\ evt[k] # NoEvent /\ evt[k].status = "PROCESSING" BY <1>0,<3>3 DEF EvtHolds
   <4>2. \A k \in claimed[q] : k \in EvtHeld(q) /\ started[k] < evt[k].attempts /\ k \notin emitted[q] BY <1>0 DEF EvtHolds, EvtHeld
   <4>3. \A k \in emitted[q] : started[k] > 0 BY <1>0 DEF EvtHolds
   <4> QED BY <2>2,<3>5,<4>1,<4>2,<4>3
  <3>8. \A q, r \in Processes : q # r => EvtHeld(q)' \cap EvtHeld(r)' = {} BY <1>0,<2>4,<3>4,<3>5 DEF EvtHolds
  <3> QED BY <3>6,<3>7,<3>8 DEF EvtHolds
 <2>6. EvtCounts' BY <1>0,<2>1,<2>2, EvtRowIsReal DEF EvtCounts, EvtTypes, EvtRows
 <2> QED BY <1>0,<2>2,<2>3,<2>5,<2>6, EvtMovesImplement DEF EvtInv
<1>5. ASSUME NEW p \in Processes, EmitClaimed(p) PROVE EvtInv' /\ EventDelivery!DeliveryNext
 <2> PICK k \in claimed[p] : /\ claimed' = [claimed EXCEPT ![p] = @ \ {k}] /\ emitted' = [emitted EXCEPT ![p] = {k}]
                             /\ started' = [started EXCEPT ![k] = @ + 1] BY <1>5 DEF EmitClaimed
 <2>1. evt' = evt /\ emitted[p] = {} BY <1>5 DEF EmitClaimed
 <2>2. k \in EventKeys /\ evt[k] # NoEvent /\ evt[k].status = "PROCESSING" /\ started[k] < evt[k].attempts BY <1>0 DEF EvtTypes, EvtHolds, EvtHeld
 <2>3. EvtTypes' BY <1>0,<2>1,<2>2 DEF EvtTypes
 <2>4. /\ EvtHeld(p)' = EvtHeld(p) /\ claimed'[p] = claimed[p] \ {k} /\ emitted'[p] = {k}
       /\ \A q \in Processes \ {p} : EvtHeld(q)' = EvtHeld(q) /\ claimed'[q] = claimed[q] /\ emitted'[q] = emitted[q]
   BY <1>0,<2>1 DEF EvtHeld, EvtTypes
 <2>5. started'[k] = started[k] + 1 /\ \A q \in EventKeys \ {k} : started'[q] = started[q] BY <1>0,<2>2 DEF EvtTypes
 <2>6. EvtHolds'
  <3>1. \A q \in Processes : \A x \in EvtHeld(q)' : evt'[x] # NoEvent /\ evt'[x].status = "PROCESSING" BY <1>0,<2>1,<2>4 DEF EvtHolds
  <3>2. \A q \in Processes : \A x \in claimed'[q] : x # k /\ x \in claimed[q] /\ x \in EventKeys BY <1>0,<2>4 DEF EvtHolds, EvtHeld, EvtTypes
  <3>3. \A q \in Processes : \A x \in claimed'[q] : started'[x] < evt'[x].attempts /\ x \notin emitted'[q]
    BY <1>0,<2>1,<2>4,<2>5,<3>2 DEF EvtHolds
  <3>4. \A q \in Processes : \A x \in emitted'[q] : started'[x] > 0 BY <1>0,<2>2,<2>4,<2>5 DEF EvtHolds, EvtTypes
  <3>5. \A q, r \in Processes : q # r => EvtHeld(q)' \cap EvtHeld(r)' = {} BY <1>0,<2>4 DEF EvtHolds
  <3> QED BY <3>1,<3>3,<3>4,<3>5 DEF EvtHolds
 <2>7. EvtCounts' BY <1>0,<2>1,<2>2,<2>5, EvtRowIsReal DEF EvtCounts, EvtTypes, EvtRows
 <2>8. ASSUME NEW q \in EventKeys PROVE EventDelivery!Step(q)
  <3>1. EventPlace'[q] = EventPlace[q] BY <2>1 DEF EventPlace
  <3>2. EventPlace[k] # "none" BY <2>2 DEF EventPlace
  <3> QED BY <1>0,<2>2,<2>5,<3>1,<3>2 DEF EventDelivery!Step, EvtTypes
 <2> QED BY <2>3,<2>6,<2>7,<2>8 DEF EvtInv, EventDelivery!DeliveryNext
<1>mark. ASSUME NEW p \in Processes, NEW k \in emitted[p], NEW new \in EvtRows,
    evt' = IF evt[k].status = "PROCESSING" THEN [evt EXCEPT ![k] = new] ELSE evt,
    emitted' = [emitted EXCEPT ![p] = {}], UNCHANGED <<claimed, started>>,
    new.attempts = evt[k].attempts, new.status \in {"PENDING", "FAILED", "PROCESSED"},
    new.status = "FAILED" => new.attempts = EventAttempts
  PROVE EvtInv' /\ EventDelivery!DeliveryNext
 <2>1. k \in EventKeys /\ evt[k] # NoEvent /\ evt[k] \in EvtRows /\ evt[k].status = "PROCESSING" /\ started[k] > 0
   BY <1>0,<1>mark DEF EvtTypes, EvtHolds, EvtHeld
 <2>2. evt'[k] = new /\ \A q \in EventKeys \ {k} : evt'[q] = evt[q] BY <1>0,<1>mark,<2>1 DEF EvtTypes
 <2>3. EvtTypes' BY <1>0,<1>mark,<2>1 DEF EvtTypes
 <2>4. \A q \in EventKeys : EvtRowMoves(q) BY <1>mark,<2>1,<2>2 DEF EvtRowMoves
 <2>5. /\ EvtHeld(p)' = claimed[p] /\ claimed'[p] = claimed[p] /\ emitted'[p] = {}
       /\ \A q \in Processes \ {p} : EvtHeld(q)' = EvtHeld(q) /\ claimed'[q] = claimed[q] /\ emitted'[q] = emitted[q]
   BY <1>0,<1>mark DEF EvtHeld, EvtTypes
 <2>6. \A q \in Processes : \A x \in EvtHeld(q)' : x \in EvtHeld(q) /\ x # k /\ x \in EventKeys
   BY <1>0,<1>mark,<2>5 DEF EvtHolds, EvtHeld, EvtTypes
 <2>7. EvtHolds'
  <3>1. \A q \in Processes : \A x \in EvtHeld(q)' : evt'[x] # NoEvent /\ evt'[x].status = "PROCESSING" BY <1>0,<2>2,<2>6 DEF EvtHolds
  <3>2. \A q \in Processes : \A x \in claimed'[q] : started'[x] < evt'[x].attempts /\ x \notin emitted'[q]
    BY <1>0,<1>mark,<2>2,<2>5,<2>6 DEF EvtHolds, EvtHeld
  <3>3. \A q \in Processes : \A x \in emitted'[q] : started'[x] > 0 BY <1>0,<1>mark,<2>5 DEF EvtHolds
  <3>4. \A q, r \in Processes : q # r => EvtHeld(q)' \cap EvtHeld(r)' = {} BY <1>0,<2>6 DEF EvtHolds
  <3> QED BY <3>1,<3>2,<3>3,<3>4 DEF EvtHolds
 <2>8. EvtCounts' BY <1>0,<1>mark,<2>1,<2>2, EvtRowIsReal DEF EvtCounts
 <2> QED BY <1>0,<1>mark,<2>3,<2>4,<2>7,<2>8, EvtMovesImplement DEF EvtInv
<1>6. ASSUME NEW p \in Processes, MarkProcessed(p) PROVE EvtInv' /\ EventDelivery!DeliveryNext
 <2> PICK k \in emitted[p] : evt' = IF evt[k].status = "PROCESSING"
                                    THEN [evt EXCEPT ![k] = [q \in EventKeys |-> [evt[q] EXCEPT !.status = "PROCESSED"]][k]] ELSE evt
   BY <1>6 DEF MarkProcessed, MarkEvent
 <2> DEFINE new == [evt[k] EXCEPT !.status = "PROCESSED"]
 <2>1. k \in EventKeys /\ evt[k] \in EvtRows BY <1>0 DEF EvtTypes, EvtHolds, EvtHeld
 <2>2. new \in EvtRows /\ new.status = "PROCESSED" /\ new.attempts = evt[k].attempts BY <2>1 DEF EvtRows, EventStatus
 <2>3. evt' = IF evt[k].status = "PROCESSING" THEN [evt EXCEPT ![k] = new] ELSE evt BY <2>1
 <2>4. emitted' = [emitted EXCEPT ![p] = {}] /\ UNCHANGED <<claimed, started>> BY <1>6 DEF MarkProcessed, MarkEvent
 <2> HIDE DEF new
 <2> QED BY <2>2,<2>3,<2>4,<1>mark
<1>7. ASSUME NEW p \in Processes, MarkEventFailed(p) PROVE EvtInv' /\ EventDelivery!DeliveryNext
 <2> PICK k \in emitted[p] : evt' = IF evt[k].status = "PROCESSING"
                                    THEN [evt EXCEPT ![k] = [q \in EventKeys |-> Recovered(q)][k]] ELSE evt BY <1>7 DEF MarkEventFailed, MarkEvent
 <2>1. k \in EventKeys /\ evt[k] # NoEvent BY <1>0 DEF EvtTypes, EvtHolds, EvtHeld
 <2>2. /\ Recovered(k) \in EvtRows /\ Recovered(k).status \in {"PENDING", "FAILED"}
       /\ Recovered(k).attempts = evt[k].attempts
       /\ Recovered(k).status = "FAILED" => Recovered(k).attempts = EventAttempts BY <1>0,<2>1, EvtRecovered
 <2>3. evt' = IF evt[k].status = "PROCESSING" THEN [evt EXCEPT ![k] = Recovered(k)] ELSE evt BY <2>1
 <2>4. emitted' = [emitted EXCEPT ![p] = {}] /\ UNCHANGED <<claimed, started>> BY <1>7 DEF MarkEventFailed, MarkEvent
 <2> QED BY <2>2,<2>3,<2>4,<1>mark
<1>8. ASSUME NEW p \in Processes, NEW k \in EventKeys, Handle(p, k) PROVE EvtInv' /\ EventDelivery!DeliveryNext
 <2>1. UNCHANGED <<evt, claimed, emitted, started>> BY <1>8 DEF Handle
 <2>2. EvtInv' BY <1>0,<2>1 DEF EvtInv, EvtTypes, EvtHeld, EvtHolds, EvtCounts
 <2> QED BY <1>still,<2>1,<2>2
<1>9. ASSUME NEW p \in Processes, ProcessCrashes(p) PROVE EvtInv' /\ EventDelivery!DeliveryNext
 <2>1. claimed' = [claimed EXCEPT ![p] = {}] /\ emitted' = [emitted EXCEPT ![p] = {}] /\ UNCHANGED <<evt, started>> BY <1>9 DEF ProcessCrashes
 <2>2. EvtInv' BY <1>0,<2>1 DEF EvtInv, EvtTypes, EvtHeld, EvtHolds, EvtCounts
 <2> QED BY <1>still,<2>1,<2>2
<1> QED BY <1>1,<1>2,<1>3,<1>4,<1>5,<1>6,<1>7,<1>8,<1>9 DEF EventNext, DrainNext, DrainStep
EvtRest == handlers \subseteq Processes \X EventKeys /\ notified \subseteq EventKeys \X Users /\ eventFaults \in 0..MaxEventFaults
\* While nothing has failed, a handler that was started is at work or has told everybody.
EvtNotices ==
  \A k \in EventKeys :
    /\ evt[k] # NoEvent /\ evt[k].status = "PROCESSED" => started[k] > 0
    /\ started[k] > 0 /\ eventFaults = 0 => \/ \E p \in Processes : <<p, k>> \in handlers
                                            \/ \A u \in Audience : <<k, u>> \in notified
EvtWork == EvtRest /\ EvtNotices

LEMMA EvtWorkInit == EventInit => EvtWork BY EventAssumption DEF EventInit, EvtWork, EvtRest, EvtNotices

LEMMA EvtWorkStep == ASSUME EvtInv, EvtWork, [EventNext]_eventVars PROVE EvtWork'
<1>0. EvtTypes /\ EvtHolds /\ EvtRest /\ EvtNotices /\ EventAttempts \in Nat \ {0} /\ NoEvent \notin EvtRows BY EvtRowIsReal DEF EvtInv, EvtWork
<1>inv. EvtInv' BY EvtStep
<1>rows. ASSUME UNCHANGED <<started, handlers, notified, eventFaults>>,
    \A k \in EventKeys : evt'[k] # NoEvent /\ evt'[k].status = "PROCESSED" => evt'[k] = evt[k] \/ started[k] > 0
  PROVE EvtWork' BY <1>0,<1>rows DEF EvtWork, EvtRest, EvtNotices
<1>1. CASE UNCHANGED eventVars BY <1>1,<1>rows DEF eventVars
<1>2. ASSUME NEW k \in EventKeys, evt[k] = NoEvent, Enqueue(k), UNCHANGED <<started, handlers, notified, eventFaults>> PROVE EvtWork'
 <2>1. \A q \in EventKeys : evt'[q] = evt[q] \/ evt'[q] = [status |-> "PENDING", attempts |-> 0] BY <1>0,<1>2 DEF Enqueue, EvtTypes
 <2> QED BY <1>2,<1>rows,<2>1
<1>3. CASE RecoverStale
 <2> PICK ks \in SUBSET {k \in EventKeys : Stale(k)} :
       evt' = [k \in EventKeys |-> IF k \in ks THEN Recovered(k) ELSE evt[k]] BY <1>3 DEF RecoverStale
 <2>1. \A k \in ks : k \in EventKeys /\ evt[k] # NoEvent BY DEF Stale
 <2>2. \A k \in ks : Recovered(k).status # "PROCESSED" BY <1>0,<2>1, EvtRecovered
 <2> QED BY <1>3,<1>rows,<2>2 DEF RecoverStale
<1>4. ASSUME NEW p \in Processes, ClaimEvents(p) PROVE EvtWork'
 <2>1. \A k \in EventKeys : evt'[k] = evt[k] \/ evt'[k].status = "PROCESSING" BY <1>4 DEF ClaimEvents
 <2> QED BY <1>4,<1>rows,<2>1 DEF ClaimEvents
<1>5. ASSUME NEW p \in Processes, EmitClaimed(p) PROVE EvtWork'
 <2> PICK k \in claimed[p] : started' = [started EXCEPT ![k] = @ + 1] /\ handlers' = handlers \cup {<<p, k>>} BY <1>5 DEF EmitClaimed
 <2>1. k \in EventKeys /\ UNCHANGED <<evt, notified, eventFaults>> BY <1>0,<1>5 DEF EmitClaimed, EvtTypes
 <2>2. started'[k] = started[k] + 1 /\ \A q \in EventKeys \ {k} : started'[q] = started[q] BY <1>0,<2>1 DEF EvtTypes
 <2>3. EvtRest' BY <1>0,<2>1 DEF EvtRest
 <2>4. <<p, k>> \in handlers' /\ handlers \subseteq handlers' /\ Audience' = Audience BY DEF Audience
 <2>5. started[k] \in Nat /\ started'[k] > 0 BY <1>0,<2>1,<2>2 DEF EvtTypes
 <2>6. EvtNotices' BY <1>0,<2>1,<2>2,<2>4,<2>5 DEF EvtNotices
 <2> QED BY <2>3,<2>6 DEF EvtWork
<1>mark. ASSUME NEW p \in Processes, NEW k \in emitted[p], NEW new \in EvtRows,
    evt' = IF evt[k].status = "PROCESSING" THEN [evt EXCEPT ![k] = new] ELSE evt,
    UNCHANGED <<started, handlers, notified>>, eventFaults' \in {eventFaults, eventFaults + 1}, eventFaults' \in 0..MaxEventFaults
  PROVE EvtWork'
 <2>1. k \in EventKeys /\ started[k] > 0 BY <1>0,<1>mark DEF EvtTypes, EvtHolds, EvtHeld
 <2>2. \A q \in EventKeys \ {k} : evt'[q] = evt[q] BY <1>0,<1>mark,<2>1 DEF EvtTypes
 <2>3. eventFaults' = 0 => eventFaults = 0 BY <1>0,<1>mark, EventAssumption DEF EvtRest
 <2> QED BY <1>0,<1>mark,<2>1,<2>2,<2>3 DEF EvtWork, EvtRest, EvtNotices
<1>6. ASSUME NEW p \in Processes, MarkProcessed(p) PROVE EvtWork'
 <2> PICK k \in emitted[p] : evt' = IF evt[k].status = "PROCESSING"
                                    THEN [evt EXCEPT ![k] = [q \in EventKeys |-> [evt[q] EXCEPT !.status = "PROCESSED"]][k]] ELSE evt
   BY <1>6 DEF MarkProcessed, MarkEvent
 <2>1. k \in EventKeys /\ evt[k] \in EvtRows BY <1>0 DEF EvtTypes, EvtHolds, EvtHeld
 <2> PICK new \in EvtRows : new = [evt[k] EXCEPT !.status = "PROCESSED"] BY <2>1 DEF EvtRows, EventStatus
 <2>2. UNCHANGED <<started, handlers, notified, eventFaults>> BY <1>6 DEF MarkProcessed, MarkEvent
 <2> QED BY <1>0,<1>mark,<2>1,<2>2 DEF EvtRest
<1>7. ASSUME NEW p \in Processes, MarkEventFailed(p) PROVE EvtWork'
 <2> PICK k \in emitted[p] : evt' = IF evt[k].status = "PROCESSING"
                                    THEN [evt EXCEPT ![k] = [q \in EventKeys |-> Recovered(q)][k]] ELSE evt BY <1>7 DEF MarkEventFailed, MarkEvent
 <2>1. k \in EventKeys /\ evt[k] # NoEvent BY <1>0 DEF EvtTypes, EvtHolds, EvtHeld
 <2> PICK new \in EvtRows : new = Recovered(k) BY <1>0,<2>1, EvtRecovered
 <2>2. /\ UNCHANGED <<started, handlers, notified>> /\ eventFaults < MaxEventFaults /\ eventFaults' = eventFaults + 1
   BY <1>7 DEF MarkEventFailed, MarkEvent
 <2>3. eventFaults' \in 0..MaxEventFaults BY <1>0,<2>2, EventAssumption DEF EvtRest
 <2> QED BY <1>mark,<2>1,<2>2,<2>3
<1>8. ASSUME NEW p \in Processes, NEW k \in EventKeys, Handle(p, k) PROVE EvtWork'
 <2>1. UNCHANGED <<evt, started, eventFaults>> BY <1>8 DEF Handle
 <2>2. \/ (\E u \in Audience : notified' = notified \cup {<<k, u>>}) /\ UNCHANGED handlers
       \/ (\A u \in Audience : <<k, u>> \in notified) /\ handlers' = handlers \ {<<p, k>>} /\ UNCHANGED notified BY <1>8 DEF Handle
 <2>3. Audience \subseteq Users /\ Audience' = Audience BY DEF Audience
 <2>4. EvtRest' BY <1>0,<2>1,<2>2,<2>3 DEF EvtRest
 <2>5. EvtNotices'
  <3> SUFFICES ASSUME NEW q \in EventKeys, started[q] > 0, eventFaults = 0
    PROVE  \/ \E r \in Processes : <<r, q>> \in handlers'
           \/ \A u \in Audience : <<q, u>> \in notified' BY <1>0,<2>1,<2>3 DEF EvtNotices
  <3>1. (\E r \in Processes : <<r, q>> \in handlers) \/ \A u \in Audience : <<q, u>> \in notified BY <1>0 DEF EvtNotices
  <3>2. CASE q = k BY <2>2,<3>1,<3>2
  <3>3. CASE q # k BY <2>2,<3>1,<3>3
  <3> QED BY <3>2,<3>3
 <2> QED BY <2>4,<2>5 DEF EvtWork
<1>9. ASSUME NEW p \in Processes, ProcessCrashes(p) PROVE EvtWork'
 <2>1. UNCHANGED <<evt, started, notified>> /\ eventFaults' = eventFaults + 1 /\ eventFaults < MaxEventFaults /\ handlers' \subseteq handlers
   BY <1>9 DEF ProcessCrashes
 <2>2. eventFaults' \in 0..MaxEventFaults /\ eventFaults' # 0 BY <1>0,<2>1, EventAssumption DEF EvtRest
 <2> QED BY <1>0,<2>1,<2>2 DEF EvtWork, EvtRest, EvtNotices
<1> QED BY <1>1,<1>2,<1>3,<1>4,<1>5,<1>6,<1>7,<1>8,<1>9 DEF EventNext, DrainNext, DrainStep

LEMMA EvtInvImplies == EvtInv /\ EvtWork => EventTypeOK /\ FailedAfterAllAttempts /\ OnlyAFaultLosesNotices
<1>1. EvtInv /\ EvtWork => EventTypeOK BY DEF EvtInv, EvtTypes, EvtRows, EvtWork, EvtRest, EventTypeOK
<1>2. EvtInv => FailedAfterAllAttempts BY DEF EvtInv, EvtCounts, FailedAfterAllAttempts
<1>3. EvtInv /\ EvtWork => OnlyAFaultLosesNotices BY DEF EvtWork, EvtNotices, OnlyAFaultLosesNotices
<1> QED BY <1>1,<1>2,<1>3

------------------------
(* The intake of payment webhooks. *)
PayWork ==
  /\ \A c, d \in HookCalls : InStep(c, {"inserted", "queued"}) /\ InStep(d, {"inserted", "queued"}) /\ c # d
       => call[c].key # call[d].key
  /\ \A c \in HookCalls : InStep(c, {"inserted", "queued"}) => paymentEvent[call[c].key] = "none"
PayInv == PaymentTypeOK /\ PayWork /\ ReceivedIsQueued

LEMMA PayInit == PaymentInit => PayInv BY DEF PaymentInit, PayInv, PaymentTypeOK, PayWork, ReceivedIsQueued, InStep

LEMMA PayStep == ASSUME PayInv, EvtInv, EvtWork, PaymentNext PROVE PayInv' /\ EvtInv' /\ EvtWork' /\ EventDelivery!DeliveryNext
<1> USE PaymentAssumption
<1>0. PaymentTypeOK /\ PayWork /\ ReceivedIsQueued /\ EvtTypes /\ EvtHolds /\ EvtCounts /\ EvtRest /\ EvtNotices /\ NoEvent \notin EvtRows
  BY EvtRowIsReal DEF PayInv, EvtInv, EvtWork
<1> PICK c \in HookCalls : \/ CallWebhook(c) \/ LockPayment(c) \/ RecordEvent(c)
                          \/ EnqueueReceived(c) \/ CommitReceived(c) \/ RollBack(c) BY DEF PaymentNext
<1>quiet. ASSUME UNCHANGED <<evt, claimed, emitted, handlers, started, notified>>,
    eventFaults' = eventFaults \/ (eventFaults < MaxEventFaults /\ eventFaults' = eventFaults + 1)
  PROVE EvtInv' /\ EvtWork' /\ EventDelivery!DeliveryNext
 <2>1. EvtInv' BY <1>0,<1>quiet DEF EvtInv, EvtTypes, EvtHeld, EvtHolds, EvtCounts
 <2>2. eventFaults' \in 0..MaxEventFaults /\ (eventFaults' = 0 => eventFaults = 0) BY <1>0,<1>quiet, EventAssumption DEF EvtRest
 <2>3. EvtWork' BY <1>0,<1>quiet,<2>2 DEF EvtWork, EvtRest, EvtNotices, Audience
 <2>4. EventPlace' = EventPlace BY <1>quiet DEF EventPlace
 <2>5. EventDelivery!DeliveryNext BY <1>0,<1>quiet,<2>4 DEF EventDelivery!DeliveryNext, EventDelivery!Step, EvtTypes
 <2> QED BY <2>1,<2>3,<2>5
\* A call that moves on, records nothing and commits nothing.
<1>moves. ASSUME NEW new \in Calls, call' = [call EXCEPT ![c] = new], UNCHANGED <<paymentEvent, evt>>,
    new.step \notin {"accepted"}, new.step = "duplicate" => paymentEvent[new.key] = new.type,
    new.step \in {"inserted", "queued"} =>
      /\ paymentEvent[new.key] = "none"
      /\ \A d \in HookCalls \ {c} : InStep(d, {"inserted", "queued"}) => call[d].key # new.key
  PROVE PayInv'
 <2>1. call'[c] = new /\ new # NoCall /\ (\A d \in HookCalls \ {c} : call'[d] = call[d]) BY <1>0,<1>moves DEF PaymentTypeOK
 <2>2. PaymentTypeOK' BY <1>0,<1>moves DEF PaymentTypeOK
 <2>3. PayWork' BY <1>0,<1>moves,<2>1 DEF PayWork, InStep
 <2>4. ReceivedIsQueued' BY <1>0,<1>moves,<2>1 DEF ReceivedIsQueued, InStep
 <2> QED BY <2>2,<2>3,<2>4 DEF PayInv
<1>next. ASSUME NEW step, call[c] # NoCall, Proceed(c, step), step \in {"called", "opened", "inserted", "queued"} \cup Answers
  PROVE  \E new \in Calls : /\ call' = [call EXCEPT ![c] = new] /\ new.step = step
                            /\ new.key = call[c].key /\ new.type = call[c].type
 <2>1. call[c] \in Calls BY <1>0,<1>next DEF PaymentTypeOK
 <2> PICK new \in Calls : new = [call[c] EXCEPT !.step = step] BY <1>next,<2>1 DEF Calls
 <2>2. call' = [call EXCEPT ![c] = new] BY <1>next DEF Proceed
 <2>3. new.step = step /\ new.key = call[c].key /\ new.type = call[c].type BY <2>1 DEF Calls
 <2> QED BY <2>2,<2>3
<1>1. CASE CallWebhook(c)
 <2>1. UNCHANGED <<paymentEvent, eventVars>> BY <1>1 DEF CallWebhook
 <2> PICK k \in ProviderEvents, ty \in PaymentTypes, pay \in {"none", "own", "foreign"}, step \in {"called", "refused"} :
       call' = [call EXCEPT ![c] = [key |-> k, type |-> ty, payment |-> pay, step |-> step]] BY <1>1 DEF CallWebhook
 <2> PICK new \in Calls : new = [key |-> k, type |-> ty, payment |-> pay, step |-> step] BY DEF Calls, Answers
 <2>2. PayInv' BY <2>1,<1>moves DEF eventVars
 <2> QED BY <2>1,<2>2,<1>quiet DEF eventVars
<1>2. CASE LockPayment(c)
 <2>1. UNCHANGED <<paymentEvent, eventVars>> /\ call[c] # NoCall BY <1>2 DEF LockPayment, InStep
 <2>2. PICK step \in {"refused", "opened"} : Proceed(c, step) BY <1>2 DEF LockPayment
 <2> PICK new \in Calls : call' = [call EXCEPT ![c] = new] /\ new.step = step BY <2>1,<2>2,<1>next DEF Answers
 <2>3. PayInv' BY <2>1,<1>moves DEF eventVars
 <2> QED BY <2>1,<2>3,<1>quiet DEF eventVars
<1>3. CASE RecordEvent(c)
 <2>1. /\ UNCHANGED <<paymentEvent, eventVars>> /\ call[c] # NoCall
       /\ \A d \in HookCalls : InStep(d, {"inserted", "queued"}) => call[d].key # call[c].key BY <1>3 DEF RecordEvent, InStep
 <2>2. PICK step \in {"refused", "inserted", "duplicate"} :
         /\ Proceed(c, step) /\ (step = "inserted" => paymentEvent[call[c].key] = "none")
         /\ step = "duplicate" => paymentEvent[call[c].key] = call[c].type BY <1>3,<2>1 DEF RecordEvent
 <2> PICK new \in Calls : /\ call' = [call EXCEPT ![c] = new] /\ new.step = step
                          /\ new.key = call[c].key /\ new.type = call[c].type BY <2>1,<2>2,<1>next DEF Answers
 <2>3. PayInv' BY <2>1,<2>2,<1>moves DEF eventVars
 <2> QED BY <2>1,<2>3,<1>quiet DEF eventVars
<1>4. CASE EnqueueReceived(c)
 <2>1. UNCHANGED <<paymentEvent, eventVars>> /\ call[c] # NoCall /\ InStep(c, {"inserted", "queued"}) /\ Proceed(c, "queued")
   BY <1>4 DEF EnqueueReceived, InStep
 <2> PICK new \in Calls : /\ call' = [call EXCEPT ![c] = new] /\ new.step = "queued" /\ new.key = call[c].key BY <2>1,<1>next DEF Answers
 <2>2. paymentEvent[new.key] = "none" /\ \A d \in HookCalls \ {c} : InStep(d, {"inserted", "queued"}) => call[d].key # new.key
   BY <1>0,<2>1 DEF PayWork
 <2>3. PayInv' BY <2>1,<2>2,<1>moves DEF eventVars
 <2> QED BY <2>1,<2>3,<1>quiet DEF eventVars
<1>5. CASE CommitReceived(c)
 <2>1. /\ call[c] # NoCall /\ InStep(c, {"inserted", "queued"}) /\ Proceed(c, "accepted") /\ Enqueue(call[c].key)
       /\ paymentEvent' = [paymentEvent EXCEPT ![call[c].key] = call[c].type]
       /\ UNCHANGED <<claimed, emitted, handlers, started, notified, eventFaults>> BY <1>5 DEF CommitReceived, InStep
 <2> PICK new \in Calls : /\ call' = [call EXCEPT ![c] = new] /\ new.step = "accepted"
                          /\ new.key = call[c].key /\ new.type = call[c].type BY <2>1,<1>next DEF Answers
 <2> PICK k \in ProviderEvents : k = new.key BY DEF Calls
 <2>2. /\ k = call[c].key /\ new.type \in PaymentTypes /\ new.type # "none" /\ new # NoCall
       /\ call'[c] = new /\ \A d \in HookCalls \ {c} : call'[d] = call[d] BY <1>0 DEF Calls, PaymentTypeOK
 <2>3. /\ paymentEvent[k] = "none" /\ paymentEvent'[k] = new.type
       /\ \A q \in ProviderEvents \ {k} : paymentEvent'[q] = paymentEvent[q] BY <1>0,<2>1,<2>2 DEF PayWork, PaymentTypeOK
 <2>4. \A d \in HookCalls : call[d] # NoCall => call[d].key \in ProviderEvents /\ call[d].type \in PaymentTypes BY <1>0 DEF PaymentTypeOK, Calls
 <2>5. EvtInv' /\ EventDelivery!DeliveryNext BY <1>0,<2>1, EvtEnqueue
 <2>6. evt'[k] # NoEvent /\ \A q \in EventKeys : evt[q] # NoEvent => evt'[q] = evt[q]
   BY <1>0,<2>1,<2>2, EventAssumption DEF Enqueue, EvtTypes, EventStatus
 <2>7. \A q \in EventKeys : evt'[q] = evt[q] \/ evt'[q] = [status |-> "PENDING", attempts |-> 0] BY <1>0,<2>1 DEF Enqueue, EvtTypes
 <2>8. EvtWork' BY <1>0,<2>1,<2>7 DEF EvtWork, EvtRest, EvtNotices, Audience
 <2>9. PaymentTypeOK' BY <1>0,<2>1,<2>2,<2>3 DEF PaymentTypeOK
 <2>10. \A d \in HookCalls \ {c} : InStep(d, {"inserted", "queued"}) => call[d].key # k BY <1>0,<2>1,<2>2 DEF PayWork
 <2>11. PayWork' BY <1>0,<2>2,<2>3,<2>4,<2>10 DEF PayWork, InStep
 <2>12. \A d \in HookCalls \ {c} : InStep(d, {"accepted", "duplicate"}) => call[d].key # k BY <1>0,<2>3,<2>4 DEF ReceivedIsQueued, InStep
 <2>13. ReceivedIsQueued' BY <1>0,<2>2,<2>3,<2>4,<2>6,<2>12 DEF ReceivedIsQueued, InStep
 <2> QED BY <2>5,<2>8,<2>9,<2>11,<2>13 DEF PayInv
<1>6. CASE RollBack(c)
 <2>1. /\ UNCHANGED <<paymentEvent, evt, claimed, emitted, handlers, started, notified>> /\ call[c] # NoCall
       /\ Proceed(c, "failed") /\ eventFaults < MaxEventFaults /\ eventFaults' = eventFaults + 1 BY <1>6 DEF RollBack, InStep
 <2> PICK new \in Calls : call' = [call EXCEPT ![c] = new] /\ new.step = "failed" BY <2>1,<1>next DEF Answers
 <2>2. PayInv' BY <2>1,<1>moves
 <2> QED BY <2>1,<2>2,<1>quiet
<1> QED BY <1>1,<1>2,<1>3,<1>4,<1>5,<1>6

\* The drain takes no row out of the table, whatever becomes of it.
LEMMA PayUntouched == ASSUME PayInv, EvtInv, EvtInv', EventDelivery!DeliveryNext, UNCHANGED payVars PROVE PayInv'
<1>1. \A k \in EventKeys : evt[k] # NoEvent => evt'[k] # NoEvent
 <2> SUFFICES ASSUME NEW k \in EventKeys, evt[k] # NoEvent, evt'[k] = NoEvent PROVE FALSE OBVIOUS
 <2>1. EventPlace'[k] = "none" BY DEF EventPlace
 <2>2. evt[k] \in EvtRows BY DEF EvtInv, EvtTypes
 <2>3. EventPlace[k] # "none" BY <2>2 DEF EventPlace, EvtRows, EventStatus
 <2> QED BY <2>1,<2>3 DEF EventDelivery!DeliveryNext, EventDelivery!Step, EventDelivery!Moves
<1>2. PaymentTypeOK' /\ PayWork' BY DEF PayInv, PaymentTypeOK, PayWork, InStep, payVars
<1>3. ReceivedIsQueued' BY <1>1, PaymentAssumption DEF PayInv, ReceivedIsQueued, InStep, payVars
<1> QED BY <1>2,<1>3 DEF PayInv

------------------------
(* Scheduled messages. *)
AtRow(p) == runner[p].at \in {"send", "sent", "failed"}
\* A row in the hands of a runner is PROCESSING, and in the hands of that one alone.
SchedHolds ==
  \A p \in Runners : AtRow(p) =>
    /\ runner[p].row \in Scheduled /\ sched[runner[p].row] = "PROCESSING"
    /\ runner[p].at = "sent" => runner[p].row \in delivered
    /\ \A q \in Runners \ {p} : AtRow(q) => runner[q].row # runner[p].row
\* What is in the conversation was claimed, and what was marked as sent is there.
SchedSent ==
  \A i \in Scheduled : /\ i \in delivered => sched[i] \in {"PROCESSING", "SENT", "FAILED"}
                       /\ sched[i] = "SENT" => i \in delivered
SchedStrands ==
  \A i \in Scheduled : sched[i] = "PROCESSING" /\ runFaults = 0 => \E p \in Runners : AtRow(p) /\ runner[p].row = i
SchedInv == SchedTypeOK /\ SchedHolds /\ SchedSent /\ SchedStrands

LEMMA SchedInitOK == SchedInit => SchedInv
<1> SUFFICES ASSUME SchedInit PROVE SchedInv OBVIOUS
<1>1. SchedTypeOK BY ScheduleAssumption DEF SchedInit, SchedTypeOK, Sleeping, RunSteps
<1> QED BY <1>1 DEF SchedInit, SchedInv, SchedHolds, SchedSent, SchedStrands, AtRow, Sleeping

\* The cancellation of one message outlives every step of the scheduler.
LEMMA SchedStep ==
  ASSUME SchedInv, [SchedNext]_schedVars
  PROVE SchedInv' /\ \A i \in Scheduled : sched[i] = "CANCELED" => sched'[i] = "CANCELED" /\ i \notin delivered'
<1> DEFINE Kept == \A i \in Scheduled : sched[i] = "CANCELED" => sched'[i] = "CANCELED" /\ i \notin delivered'
<1> SUFFICES SchedInv' /\ Kept OBVIOUS
<1> USE ScheduleAssumption
<1>0. SchedTypeOK /\ SchedHolds /\ SchedSent /\ SchedStrands BY DEF SchedInv
\* No runner moves, and a row goes between statuses that no runner holds.
<1>request. ASSUME UNCHANGED <<delivered, runner, runFaults>>, SchedTypeOK',
    \A i \in Scheduled : \/ sched'[i] = sched[i]
                         \/ sched[i] = "none" /\ sched'[i] = "SCHEDULED"
                         \/ sched[i] = "SCHEDULED" /\ sched'[i] = "CANCELED"
  PROVE SchedInv' /\ Kept
 <2>1. \A i \in Scheduled : i \in delivered => sched[i] \in {"PROCESSING", "SENT", "FAILED"} BY <1>0 DEF SchedSent
 <2>2. SchedHolds' BY <1>0,<1>request DEF SchedHolds, AtRow
 <2>3. SchedSent' BY <1>0,<1>request,<2>1 DEF SchedSent
 <2>4. SchedStrands' BY <1>0,<1>request DEF SchedStrands, AtRow
 <2>5. Kept BY <1>0,<1>request,<2>1
 <2> QED BY <1>request,<2>2,<2>3,<2>4,<2>5 DEF SchedInv
<1>1. CASE UNCHANGED schedVars
 <2>1. SchedTypeOK' BY <1>0,<1>1 DEF schedVars, SchedTypeOK
 <2> QED BY <1>1,<1>request,<2>1 DEF schedVars
<1>2. ASSUME NEW i \in Scheduled, ScheduleMessage(i) \/ CancelScheduledMessage(i) \/ ComesDue(i) PROVE SchedInv' /\ Kept
 <2>1. SchedTypeOK' BY <1>0,<1>2 DEF ScheduleMessage, CancelScheduledMessage, ComesDue, SchedTypeOK
 <2>2. UNCHANGED <<delivered, runner, runFaults>> BY <1>2 DEF ScheduleMessage, CancelScheduledMessage, ComesDue
 <2>3. \A j \in Scheduled : \/ sched'[j] = sched[j]
                            \/ sched[j] = "none" /\ sched'[j] = "SCHEDULED"
                            \/ sched[j] = "SCHEDULED" /\ sched'[j] = "CANCELED"
   BY <1>0,<1>2 DEF ScheduleMessage, CancelScheduledMessage, ComesDue, SchedTypeOK
 <2> QED BY <2>1,<2>2,<2>3,<1>request
<1>3. CASE (\E e \in Happenings : CreateEvent(e)) \/ Tick \/ Move
 <2>1. SchedTypeOK'
  <3>1. CASE \E e \in Happenings : CreateEvent(e) BY <1>0,<3>1 DEF CreateEvent, SchedTypeOK
  <3>2. CASE Tick BY <1>0,<3>2 DEF Tick, SchedTypeOK
  <3>3. CASE Move
   <4>1. moves' \in 0..MaxMoves /\ present' \in BOOLEAN BY <1>0,<3>3 DEF Move, SchedTypeOK
   <4> QED BY <1>0,<3>3,<4>1 DEF Move, SchedTypeOK
  <3> QED BY <1>3,<3>1,<3>2,<3>3
 <2>2. UNCHANGED <<sched, delivered, runner, runFaults>> BY <1>3 DEF CreateEvent, Tick, Move
 <2> QED BY <2>1,<2>2,<1>request
\* A runner that holds no row before and after.
<1>idle. ASSUME NEW p \in Runners, ~AtRow(p), NEW step \in {"sleep", "lock", "select", "next"}, Goes(p, step, NoSched),
    UNCHANGED <<sched, delivered>>, runFaults' \in Nat, runFaults' = 0 => runFaults = 0, SchedTypeOK'
  PROVE SchedInv' /\ Kept
 <2>1. /\ runner'[p] = [at |-> step, row |-> NoSched] /\ \A q \in Runners \ {p} : runner'[q] = runner[q] BY <1>0,<1>idle DEF Goes, SchedTypeOK
 <2>2. ~AtRow(p)' /\ \A q \in Runners \ {p} : AtRow(q)' <=> AtRow(q) BY <2>1 DEF AtRow
 <2>3. SchedHolds' BY <1>0,<1>idle,<2>1,<2>2 DEF SchedHolds
 <2>4. SchedStrands' BY <1>0,<1>idle,<2>1,<2>2 DEF SchedStrands
 <2>5. SchedSent' /\ Kept BY <1>0,<1>idle DEF SchedSent
 <2> QED BY <1>idle,<2>3,<2>4,<2>5 DEF SchedInv
<1>4. ASSUME NEW p \in Runners, ProcessExpired(p) PROVE SchedInv' /\ Kept
 <2>1. ~AtRow(p) BY <1>4 DEF ProcessExpired, RunnerAt, AtRow
 <2>2. \A e \in Happenings : EventNow(e) \in {"none", "SCHEDULED", "LIVE", "ENDED"} BY <1>0 DEF EventNow, SchedTypeOK
 <2>3. SchedTypeOK' BY <1>0,<1>4,<2>2 DEF ProcessExpired, Goes, SchedTypeOK, RunSteps
 <2>4. Goes(p, "lock", NoSched) /\ UNCHANGED <<sched, delivered, runFaults>> BY <1>4 DEF ProcessExpired
 <2> QED BY <1>0,<1>idle,<2>1,<2>3,<2>4 DEF SchedTypeOK
<1>5. ASSUME NEW p \in Runners, TryLock(p) PROVE SchedInv' /\ Kept
 <2>1. ~AtRow(p) BY <1>5 DEF TryLock, RunnerAt, AtRow
 <2>2. SchedTypeOK' BY <1>0,<1>5 DEF TryLock, Goes, SchedTypeOK, RunSteps
 <2>3. \E step \in {"sleep", "select"} : Goes(p, step, NoSched) BY <1>5 DEF TryLock
 <2>4. UNCHANGED <<sched, delivered, runFaults>> BY <1>5 DEF TryLock
 <2> QED BY <1>0,<1>idle,<2>1,<2>2,<2>3,<2>4 DEF SchedTypeOK
<1>6. ASSUME NEW p \in Runners, SelectDue(p) PROVE SchedInv' /\ Kept
 <2>1. ~AtRow(p) BY <1>6 DEF SelectDue, RunnerAt, AtRow
 <2> PICK is \in SUBSET Scheduled : queue' = [queue EXCEPT ![p] = is] BY <1>0,<1>6 DEF SelectDue, SchedTypeOK
 <2>2. Goes(p, "next", NoSched) /\ UNCHANGED <<sched, due, present, delivered, event, clock, lock, runFaults, moves>> BY <1>6 DEF SelectDue
 <2>3. SchedTypeOK' BY <1>0,<2>2 DEF Goes, SchedTypeOK, RunSteps
 <2> QED BY <1>0,<1>idle,<2>1,<2>2,<2>3 DEF SchedTypeOK
<1>7. ASSUME NEW p \in Runners, Claim(p) PROVE SchedInv' /\ Kept
 <2>1. ~AtRow(p) /\ UNCHANGED <<due, present, delivered, event, clock, lock, runFaults, moves>> BY <1>7 DEF Claim, RunnerAt, AtRow
 <2> PICK i \in queue[p] : /\ queue' = [queue EXCEPT ![p] = @ \ {i}]
                           /\ IF sched[i] = "SCHEDULED" THEN sched' = [sched EXCEPT ![i] = "PROCESSING"] /\ Goes(p, "send", i)
                              ELSE UNCHANGED <<sched, runner>> BY <1>7 DEF Claim
 <2>2. i \in Scheduled BY <1>0 DEF SchedTypeOK
 <2>3. CASE sched[i] # "SCHEDULED"
  <3>1. SchedTypeOK' BY <1>0,<2>1,<2>3 DEF SchedTypeOK
  <3> QED BY <2>1,<2>3,<3>1,<1>request
 <2>4. CASE sched[i] = "SCHEDULED"
  <3>1. SchedTypeOK' BY <1>0,<2>1,<2>2,<2>4 DEF Goes, SchedTypeOK, RunSteps
  <3>2. /\ runner'[p] = [at |-> "send", row |-> i] /\ \A q \in Runners \ {p} : runner'[q] = runner[q]
        /\ sched'[i] = "PROCESSING" /\ \A j \in Scheduled \ {i} : sched'[j] = sched[j] BY <1>0,<2>2,<2>4 DEF Goes, SchedTypeOK
  <3>3. AtRow(p)' /\ \A q \in Runners \ {p} : AtRow(q)' <=> AtRow(q) BY <3>2 DEF AtRow
  <3>4. \A q \in Runners : AtRow(q) => runner[q].row # i BY <1>0,<2>4 DEF SchedHolds
  <3>5. SchedHolds' BY <1>0,<2>1,<2>2,<3>2,<3>3,<3>4 DEF SchedHolds
  <3>6. SchedSent' /\ Kept BY <1>0,<2>1,<2>4,<3>2 DEF SchedSent
  <3>7. SchedStrands' BY <1>0,<2>1,<3>2,<3>3 DEF SchedStrands
  <3> QED BY <3>1,<3>5,<3>6,<3>7 DEF SchedInv
 <2> QED BY <2>3,<2>4
\* A runner goes on with its row, which may by now be in the conversation.
<1>on. ASSUME NEW p \in Runners, NEW i \in Scheduled, AtRow(p), runner[p].row = i, NEW step \in {"sent", "failed"}, Goes(p, step, i),
    UNCHANGED sched, delivered' \in {delivered, delivered \cup {i}}, step = "sent" => i \in delivered',
    runFaults' \in Nat, runFaults' = 0 => runFaults = 0, SchedTypeOK'
  PROVE SchedInv' /\ Kept
 <2>1. /\ runner'[p] = [at |-> step, row |-> i] /\ \A q \in Runners \ {p} : runner'[q] = runner[q] BY <1>0,<1>on DEF Goes, SchedTypeOK
 <2>2. AtRow(p)' /\ \A q \in Runners \ {p} : AtRow(q)' <=> AtRow(q) BY <2>1 DEF AtRow
 <2>3. sched[i] = "PROCESSING" BY <1>0,<1>on DEF SchedHolds
 <2>4. SchedHolds' BY <1>0,<1>on,<2>1,<2>2 DEF SchedHolds
 <2>5. SchedStrands' BY <1>0,<1>on,<2>1,<2>2 DEF SchedStrands
 <2>6. SchedSent' /\ Kept BY <1>0,<1>on,<2>3 DEF SchedSent
 <2> QED BY <1>on,<2>4,<2>5,<2>6 DEF SchedInv
<1>8. ASSUME NEW p \in Runners, SendScheduled(p) PROVE SchedInv' /\ Kept
 <2>1. AtRow(p) /\ UNCHANGED <<sched, due, event, clock, lock, queue, runFaults>> BY <1>8 DEF SendScheduled, RunnerAt, AtRow
 <2> PICK i \in Scheduled : i = runner[p].row BY <1>0,<2>1 DEF SchedHolds
 <2>2. /\ \E step \in {"sent", "failed"} : Goes(p, step, i) /\ (step = "sent" => i \in delivered')
       /\ delivered' \in {delivered, delivered \cup {i}} /\ present' \in BOOLEAN
       /\ moves' = moves \/ (moves < MaxMoves /\ moves' = moves + 1) BY <1>0,<1>8 DEF SendScheduled, SchedTypeOK
 <2>3. SchedTypeOK' BY <1>0,<2>1,<2>2 DEF Goes, SchedTypeOK, RunSteps
 <2> QED BY <1>0,<1>on,<2>1,<2>2,<2>3 DEF SchedTypeOK
<1>9. ASSUME NEW p \in Runners, MarkSentRow(p) \/ MarkFailedRow(p) PROVE SchedInv' /\ Kept
 <2> PICK status \in {"SENT", "FAILED"} : /\ sched' = [sched EXCEPT ![runner[p].row] = status]
                                          /\ status = "SENT" => runner[p].at = "sent" BY <1>9 DEF MarkSentRow, MarkFailedRow, MarkRow, RunnerAt
 <2>1. AtRow(p) /\ Goes(p, "next", NoSched) /\ UNCHANGED <<due, present, delivered, event, clock, lock, queue, runFaults, moves>>
   BY <1>9 DEF MarkSentRow, MarkFailedRow, MarkRow, RunnerAt, AtRow
 <2> PICK i \in Scheduled : i = runner[p].row BY <1>0,<2>1 DEF SchedHolds
 <2>2. sched[i] = "PROCESSING" /\ (status = "SENT" => i \in delivered) BY <1>0,<2>1 DEF SchedHolds
 <2>3. /\ runner'[p] = [at |-> "next", row |-> NoSched] /\ \A q \in Runners \ {p} : runner'[q] = runner[q]
       /\ sched'[i] = status /\ \A j \in Scheduled \ {i} : sched'[j] = sched[j] BY <1>0,<2>1 DEF Goes, SchedTypeOK
 <2>4. ~AtRow(p)' /\ \A q \in Runners \ {p} : AtRow(q)' <=> AtRow(q) BY <2>3 DEF AtRow
 <2>5. SchedTypeOK' BY <1>0,<2>1 DEF Goes, SchedTypeOK, RunSteps
 <2>6. SchedHolds' BY <1>0,<2>1,<2>3,<2>4 DEF SchedHolds
 <2>7. SchedStrands' BY <1>0,<2>1,<2>3,<2>4 DEF SchedStrands
 <2>8. SchedSent' /\ Kept BY <1>0,<2>1,<2>2,<2>3 DEF SchedSent
 <2> QED BY <2>5,<2>6,<2>7,<2>8 DEF SchedInv
<1>10. ASSUME NEW p \in Runners, Release(p) PROVE SchedInv' /\ Kept
 <2>1. ~AtRow(p) BY <1>10 DEF Release, RunnerAt, AtRow
 <2>2. SchedTypeOK' BY <1>0,<1>10 DEF Release, Goes, SchedTypeOK, RunSteps
 <2>3. Goes(p, "sleep", NoSched) /\ UNCHANGED <<sched, delivered, runFaults>> BY <1>10 DEF Release
 <2> QED BY <1>0,<1>idle,<2>1,<2>2,<2>3 DEF SchedTypeOK
<1>11. ASSUME NEW p \in Runners, RunFault(p) PROVE SchedInv' /\ Kept
 <2>1. /\ runFaults < MaxRunFaults /\ runFaults' = runFaults + 1 /\ runFaults' # 0 /\ runFaults' \in Nat
       /\ UNCHANGED <<sched, due, present, event, clock, moves>> BY <1>0,<1>11 DEF RunFault, SchedTypeOK
 <2>2. CASE /\ RunnerAt(p, "sleep") /\ Goes(p, "lock", NoSched) /\ UNCHANGED <<delivered, lock, queue>>
  <3>1. ~AtRow(p) BY <2>2 DEF RunnerAt, AtRow
  <3>2. SchedTypeOK' BY <1>0,<2>1,<2>2 DEF Goes, SchedTypeOK, RunSteps
  <3> QED BY <1>idle,<2>1,<2>2,<3>1,<3>2
 <2>3. CASE /\ runner[p].at \in {"send", "sent"} /\ Goes(p, "failed", runner[p].row)
            /\ delivered' \in {delivered, delivered \cup {runner[p].row}} /\ UNCHANGED <<lock, queue>>
  <3>1. AtRow(p) BY <2>3 DEF AtRow
  <3> PICK i \in Scheduled : i = runner[p].row BY <1>0,<3>1 DEF SchedHolds
  <3>2. SchedTypeOK' BY <1>0,<2>1,<2>3 DEF Goes, SchedTypeOK, RunSteps
  <3> QED BY <1>on,<2>1,<2>3,<3>1,<3>2
 <2>4. CASE /\ Goes(p, "sleep", NoSched) /\ lock' \in {lock, NoRunner} /\ queue' = [queue EXCEPT ![p] = {}] /\ UNCHANGED delivered
  <3>1. SchedTypeOK' BY <1>0,<2>1,<2>4 DEF Goes, SchedTypeOK, RunSteps
  <3>2. /\ runner'[p] = [at |-> "sleep", row |-> NoSched] /\ \A q \in Runners \ {p} : runner'[q] = runner[q] BY <1>0,<2>4 DEF Goes, SchedTypeOK
  <3>3. ~AtRow(p)' /\ \A q \in Runners \ {p} : AtRow(q)' <=> AtRow(q) BY <3>2 DEF AtRow
  <3>4. SchedHolds' BY <1>0,<2>1,<2>4,<3>2,<3>3 DEF SchedHolds
  <3>5. SchedSent' /\ SchedStrands' /\ Kept BY <1>0,<2>1,<2>4 DEF SchedSent, SchedStrands
  <3> QED BY <3>1,<3>4,<3>5 DEF SchedInv
 <2> QED BY <1>11,<2>2,<2>3,<2>4 DEF RunFault
<1> QED BY <1>1,<1>2,<1>3,<1>4,<1>5,<1>6,<1>7,<1>8,<1>9,<1>10,<1>11 DEF SchedNext, RunnerStep

LEMMA SchedInvImplies == SchedInv => SentIsDelivered /\ OnlyAFaultStrandsScheduled
  BY DEF SchedInv, SchedSent, SchedStrands, SentIsDelivered, OnlyAFaultStrandsScheduled

------------------------
(* The outboxes together. *)
OutboxInv ==
  SmsTypeOK /\ SmsInv /\ SmsWork /\ HookInv /\ HookWork /\ EvtInv /\ EvtWork /\ PayInv /\ SchedInv

LEMMA OutboxInit == Init => OutboxInv BY SmsTypesHold, SmsInitOK, SmsWorkInit, HookInitOK, HookWorkInit, EvtInitOK, EvtWorkInit, PayInit, SchedInitOK
  DEF Init, OutboxInv

\* A step of the whole is a step of each part, or leaves it alone.
LEMMA StepOfEach ==
  ASSUME [Next]_vars
  PROVE  /\ [SmsNext]_smsVars /\ [WebhookNext]_hookVars /\ [SchedNext]_schedVars
         /\ PaymentNext \/ ([EventNext]_eventVars /\ UNCHANGED payVars)
<1>1. CASE UNCHANGED vars BY <1>1 DEF vars
<1>2. CASE Next BY <1>2 DEF Next
<1> QED BY <1>1,<1>2

LEMMA OutboxStep ==
  ASSUME OutboxInv, [Next]_vars PROVE OutboxInv' /\ SmsDelivery!DeliveryNext /\ HookDelivery!DeliveryNext /\ EventDelivery!DeliveryNext
<1>1. SmsInv' /\ SmsDelivery!DeliveryNext BY StepOfEach, SmsStep DEF OutboxInv
<1>2. SmsTypeOK' /\ SmsWork' BY <1>1, StepOfEach, SmsTypesStep, SmsWorkStep DEF OutboxInv
<1>3. HookInv' /\ HookDelivery!DeliveryNext /\ HookWork' BY StepOfEach, HookStep, HookWorkStep DEF OutboxInv
<1>4. SchedInv' BY StepOfEach, SchedStep DEF OutboxInv
<1>5. CASE PaymentNext
 <2>1. PayInv' /\ EvtInv' /\ EvtWork' /\ EventDelivery!DeliveryNext BY <1>5, PayStep DEF OutboxInv
 <2> QED BY <1>1,<1>2,<1>3,<1>4,<2>1 DEF OutboxInv
<1>6. CASE [EventNext]_eventVars /\ UNCHANGED payVars
 <2>1. EvtInv' /\ EventDelivery!DeliveryNext /\ EvtWork' BY <1>6, EvtStep, EvtWorkStep DEF OutboxInv
 <2>2. PayInv' BY <1>6,<2>1, PayUntouched DEF OutboxInv
 <2> QED BY <1>1,<1>2,<1>3,<1>4,<2>1,<2>2 DEF OutboxInv
<1> QED BY <1>5,<1>6, StepOfEach

\* The strengthened invariant of the three outboxes, the intake and the scheduler.
THEOREM OutboxInvariance == Spec => []OutboxInv
<1>1. Init => OutboxInv BY OutboxInit
<1>2. OutboxInv /\ [Next]_vars => OutboxInv' BY OutboxStep
<1> QED BY <1>1,<1>2, PTL DEF Spec

\* The attempts that the claims count bound what the provider accepts, what an endpoint
\* and a handler see and when a row is given up, and a webhook row has one holder.
THEOREM AttemptsCounted == Spec => []AttemptsAreCounted
<1>1. OutboxInv => AttemptsAreCounted
 <2> SUFFICES ASSUME OutboxInv PROVE AttemptsAreCounted OBVIOUS
 <2>1. SmsTypeOK /\ AcceptedWithinAttempts BY SmsCountsImply DEF OutboxInv
 <2>2. WebhookTypeOK /\ DeliveringHasOneHolder /\ DeadAfterAllAttempts BY HookInvImplies DEF OutboxInv
 <2>3. EventTypeOK /\ FailedAfterAllAttempts /\ PaymentTypeOK BY EvtInvImplies DEF OutboxInv, PayInv
 <2>4. SchedTypeOK BY DEF OutboxInv, SchedInv
 <2> QED BY <2>1,<2>2,<2>3,<2>4 DEF AttemptsAreCounted, OutboxesTypeOK
<1> QED BY <1>1, OutboxInvariance, PTL

\* Interleaving alone strands no row and loses no notice: a crash or a failed statement
\* is behind it; a payment event that was recorded has its row in the outbox.
THEOREM FaultsAloneStrand == Spec => []OnlyAFaultStrands
<1>1. OutboxInv => OnlyAFaultStrands
 <2> SUFFICES ASSUME OutboxInv PROVE OnlyAFaultStrands OBVIOUS
 <2>1. OnlyAFaultStrandsSms /\ OnlyAFaultStrandsHook /\ OnlyAFaultLosesNotices /\ OnlyAFaultStrandsScheduled
   BY SmsCountsImply, HookInvImplies, EvtInvImplies, SchedInvImplies DEF OutboxInv
 <2>2. ReceivedIsQueued BY DEF OutboxInv, PayInv
 <2> QED BY <2>1,<2>2 DEF OnlyAFaultStrands
<1> QED BY <1>1, OutboxInvariance, PTL

\* Each outbox implements Delivery, whoever crashes, recovers rows or enqueues them.
THEOREM OutboxesImplementDelivery == Spec => OutboxesDeliver
<1>1. Init => SmsDelivery!DeliveryInit /\ HookDelivery!DeliveryInit /\ EventDelivery!DeliveryInit BY SmsInitOK, HookInitOK, EvtInitOK DEF Init
<1>2. OutboxInv /\ [Next]_vars => /\ [SmsDelivery!DeliveryNext]_<<SmsPlace, accepted>>
                                  /\ [HookDelivery!DeliveryNext]_<<HookPlace, acked>>
                                  /\ [EventDelivery!DeliveryNext]_<<EventPlace, started>> BY OutboxStep
<1> QED BY <1>1,<1>2, OutboxInvariance, PTL DEF Spec, OutboxesDeliver, SmsDelivers, HooksDeliver, EventsDeliver, SmsDelivery!DeliverySpec,
  HookDelivery!DeliverySpec, EventDelivery!DeliverySpec

\* A campaign's outcome once shown, a cancellation once answered and a message once
\* recorded as sent are never taken back.
THEOREM OutcomesStay == Spec => OutcomesAreFinal
<1>1. OutboxInv => SentIsDelivered BY SchedInvImplies DEF OutboxInv
<1>2. OutboxInv /\ [Next]_vars =>
        [\A c \in Campaigns : ListedStatus(c) \in {"FAILED", "PARTIAL", "COMPLETED"}
                                => ListedStatus(c)' = ListedStatus(c)]_smsVars BY StepOfEach, ListedOutcomeStays DEF OutboxInv
<1>3. OutboxInv /\ [Next]_vars =>
        [\A i \in Scheduled : sched[i] = "CANCELED" => sched'[i] = "CANCELED" /\ i \notin delivered']_schedVars BY StepOfEach, SchedStep DEF OutboxInv
<1> QED BY <1>1,<1>2,<1>3, OutboxInvariance, PTL DEF Spec, OutcomesAreFinal, ListedOutcomeIsFinal, CanceledIsNotSent
====
