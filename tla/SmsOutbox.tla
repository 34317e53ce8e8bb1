---- MODULE SmsOutbox ----
(* The SMS side of notification_outbox: single messages and campaigns, the worker that sends them
   through the tenant's provider, and the operator's recovery of rows whose worker is gone. The
   time at which a row becomes available is left to the scheduler: a row that is not due yet is one
   that no worker claims for a while. *)
EXTENDS Naturals, FiniteSets

CONSTANTS
  Direct,        \* idempotency keys of single messages
  Campaigns,     \* idempotency keys of bulk messages
  Phones,        \* normalised recipients
  Senders,       \* processes that run the worker
  SmsBatch,      \* rows of one claim (20 in the code)
  MaxAttempts,   \* attempts of a row (8 in the code)
  MaxSmsFaults,  \* bound: crashes and database errors
  MaxSettings,   \* bound: changes of consent or the provider, and recoveries
  SmsEnv,        \* what may disturb the worker: "recover", "crash", "error"
  NoRow

SmsStatus == {"PENDING", "PROCESSING", "SENT", "FAILED"}

ASSUME SmsAssumption ==
  /\ MaxAttempts \in Nat \ {0} /\ SmsBatch \in Nat \ {0} /\ IsFiniteSet(Phones)
  /\ MaxSmsFaults \in Nat /\ MaxSettings \in Nat /\ Direct \cap (Campaigns \X Phones) = {}
ASSUME SmsRowAssumption == NoRow \notin [status : SmsStatus, attempts : Nat]

VARIABLES
  sms,         \* the rows by deduplication key
  campaign,    \* sms_campaigns: how many recipients were queued
  consent,     \* phones with recorded marketing consent
  provider,    \* whether the tenant's provider is configured and enabled
  batch,       \* rows claimed by each sender that it has not come to yet
  job,         \* the row each sender is at, and the step
  accepted,    \* how often the provider accepted each message
  smsFaults, settings

smsVars == <<sms, campaign, consent, provider, batch, job, accepted, smsFaults, settings>>

Keys == Direct \cup (Campaigns \X Phones)
SmsSteps == {"check", "defer", "send", "sent", "refused", "failed"}
Idle == [key |-> NoRow, at |-> "idle"]

SmsTypeOK ==
  /\ sms \in [Keys -> {NoRow} \cup [status : SmsStatus, attempts : 0 .. MaxAttempts]]
  /\ campaign \in [Campaigns -> {NoRow} \cup 1 .. Cardinality(Phones)]
  /\ consent \subseteq Phones
  /\ provider \in BOOLEAN
  /\ batch \in [Senders -> SUBSET Keys]
  /\ job \in [Senders -> {Idle} \cup [key : Keys, at : SmsSteps]]
  /\ accepted \in [Keys -> Nat]
  /\ smsFaults \in 0 .. MaxSmsFaults /\ settings \in 0 .. MaxSettings

SmsInit ==
  /\ sms = [k \in Keys |-> NoRow] /\ campaign = [c \in Campaigns |-> NoRow]
  /\ consent \in SUBSET Phones
  /\ provider \in BOOLEAN
  /\ batch = [w \in Senders |-> {}] /\ job = [w \in Senders |-> Idle]
  /\ accepted = [k \in Keys |-> 0]
  /\ smsFaults = 0 /\ settings = 0

------------------------
(* Enqueueing: a key that is known returns its row as it is. *)

NewRow == [status |-> "PENDING", attempts |-> 0]

EnqueueSms(k, p, marketing) ==
  /\ marketing => p \in consent
  /\ sms[k] = NoRow
  /\ sms' = [sms EXCEPT ![k] = NewRow]
  /\ UNCHANGED <<campaign, consent, provider, batch, job, accepted, smsFaults, settings>>

CampaignRows(c) == {k \in {c} \X Phones : sms[k] # NoRow}

EnqueueBulkSms(c, ps, marketing) ==
  /\ marketing => ps \subseteq consent
  /\ campaign[c] = NoRow
  /\ sms' = [k \in Keys |-> IF k \in {c} \X ps /\ sms[k] = NoRow THEN NewRow ELSE sms[k]]
  /\ campaign' = [campaign EXCEPT ![c] = Cardinality(CampaignRows(c)')]
  /\ UNCHANGED <<consent, provider, batch, job, accepted, smsFaults, settings>>

SetConsent(p) ==
  /\ settings < MaxSettings /\ settings' = settings + 1
  /\ consent' = IF p \in consent THEN consent \ {p} ELSE consent \cup {p}
  /\ UNCHANGED <<sms, campaign, provider, batch, job, accepted, smsFaults>>

SaveProvider(ready) ==
  /\ settings < MaxSettings /\ settings' = settings + 1
  /\ provider' = ready
  /\ UNCHANGED <<sms, campaign, consent, batch, job, accepted, smsFaults>>

------------------------
(* The worker: one claim, then the rows of it one after the other. *)

Claimable(k) == sms[k] # NoRow /\ sms[k].status = "PENDING" /\ sms[k].attempts < MaxAttempts

ClaimSms(w) ==
  /\ job[w] = Idle /\ batch[w] = {}
  /\ \E ks \in SUBSET {k \in Keys : Claimable(k)} :
       /\ ks # {} /\ Cardinality(ks) <= SmsBatch
       /\ batch' = [batch EXCEPT ![w] = ks]
       /\ sms' = [k \in Keys |-> IF k \in ks
                    THEN [status |-> "PROCESSING", attempts |-> sms[k].attempts + 1] ELSE sms[k]]
  /\ UNCHANGED <<campaign, consent, provider, job, accepted, smsFaults, settings>>

NextRow(w) ==
  /\ job[w] = Idle
  /\ \E k \in batch[w] : /\ job' = [job EXCEPT ![w] = [key |-> k, at |-> "check"]]
                         /\ batch' = [batch EXCEPT ![w] = @ \ {k}]
  /\ UNCHANGED <<sms, campaign, consent, provider, accepted, smsFaults, settings>>

At(w, step) == job[w].at = step
Goto(w, step) == job' = [job EXCEPT ![w].at = step]
Done(w) == job' = [job EXCEPT ![w] = Idle]

\* Mutant: a message nobody can send counts as sent.
CheckProviderLeniently(w) ==
  /\ At(w, "check") /\ Goto(w, IF provider THEN "send" ELSE "sent")
  /\ UNCHANGED <<sms, campaign, consent, provider, batch, accepted, smsFaults, settings>>
CheckProvider(w) ==
  /\ At(w, "check") /\ Goto(w, IF provider THEN "send" ELSE "defer")
  /\ UNCHANGED <<sms, campaign, consent, provider, batch, accepted, smsFaults, settings>>

(* send: accepted and acknowledged; accepted, but the answer is lost or names no message; refused
   for good; unavailable. A refusal the gateway does not tell from an outage is the last of these:
   any status but success of a custom endpoint, any answer of the global provider. *)
Accepts(w, k) ==
  /\ provider /\ accepted' = [accepted EXCEPT ![k] = @ + 1]
  /\ \E next \in {"sent", "failed", "refused"} : Goto(w, next)

Refuses(w) == provider /\ Goto(w, "refused") /\ UNCHANGED accepted
Unavailable(w) == Goto(w, "failed") /\ UNCHANGED accepted

Send(w) ==
  /\ At(w, "send")
  /\ Accepts(w, job[w].key) \/ Refuses(w) \/ Unavailable(w)
  /\ UNCHANGED <<sms, campaign, consent, provider, batch, smsFaults, settings>>

(* Every update of a claimed row says WHERE status = 'PROCESSING', and not whose claim it was. *)
\* Mutant: the status is not asked for.
UpdateAnyway(k, row) == sms' = [sms EXCEPT ![k] = row]
Update(k, row) ==
  sms' = IF sms[k].status = "PROCESSING" THEN [sms EXCEPT ![k] = row] ELSE sms

GiveBack(a) == [status |-> IF a >= MaxAttempts THEN "FAILED" ELSE "PENDING", attempts |-> a]

DeferSms(w) ==
  /\ At(w, "defer") /\ Done(w)
  /\ LET k == job[w].key a == sms[job[w].key].attempts
     IN Update(k, [status |-> "PENDING", attempts |-> IF a = 0 THEN 0 ELSE a - 1])
  /\ UNCHANGED <<campaign, consent, provider, batch, accepted, smsFaults, settings>>

Mark(w, step, status) ==
  /\ At(w, step) /\ Done(w)
  /\ Update(job[w].key, [status |-> status, attempts |-> sms[job[w].key].attempts])
  /\ UNCHANGED <<campaign, consent, provider, batch, accepted, smsFaults, settings>>

MarkSent(w) == Mark(w, "sent", "SENT")
MarkPermanentlyFailed(w) == Mark(w, "refused", "FAILED")

MarkFailed(w) ==
  /\ At(w, "failed") /\ Done(w)
  /\ Update(job[w].key, GiveBack(sms[job[w].key].attempts))
  /\ UNCHANGED <<campaign, consent, provider, batch, accepted, smsFaults, settings>>

SenderStep(w) ==
  \/ NextRow(w) \/ CheckProvider(w) \/ Send(w) \/ DeferSms(w)
  \/ MarkSent(w) \/ MarkPermanentlyFailed(w) \/ MarkFailed(w)

(* A statement fails: inside the try it becomes a failed attempt; the update of the catch ends the
   cycle, and the rest of the batch stays PROCESSING. *)
StatementFails(w) ==
  /\ "error" \in SmsEnv /\ smsFaults < MaxSmsFaults /\ smsFaults' = smsFaults + 1
  /\ \/ /\ job[w].at \in {"check", "send", "defer", "sent"}
        /\ Goto(w, "failed") /\ UNCHANGED batch
     \/ /\ job[w].at \in {"refused", "failed"}
        /\ Done(w) /\ batch' = [batch EXCEPT ![w] = {}]
  /\ UNCHANGED <<sms, campaign, consent, provider, accepted, settings>>

SenderCrashes(w) ==
  /\ job[w] # Idle \/ batch[w] # {}
  /\ "crash" \in SmsEnv /\ smsFaults < MaxSmsFaults /\ smsFaults' = smsFaults + 1
  /\ Done(w) /\ batch' = [batch EXCEPT ![w] = {}]
  /\ UNCHANGED <<sms, campaign, consent, provider, accepted, settings>>

(* An operator's request: rows locked for a minute or longer, which those of a sender at work may
   be. *)
RecoverStaleProcessing ==
  /\ "recover" \in SmsEnv /\ settings < MaxSettings /\ settings' = settings + 1
  /\ \E ks \in SUBSET {k \in Keys : sms[k] # NoRow /\ sms[k].status = "PROCESSING"} :
       /\ ks # {}
       /\ sms' = [k \in Keys |-> IF k \in ks THEN GiveBack(sms[k].attempts) ELSE sms[k]]
  /\ UNCHANGED <<campaign, consent, provider, batch, job, accepted, smsFaults>>

SmsNext ==
  \/ \E k \in Direct, p \in Phones, m \in BOOLEAN : EnqueueSms(k, p, m)
  \/ \E c \in Campaigns, ps \in (SUBSET Phones) \ {{}}, m \in BOOLEAN : EnqueueBulkSms(c, ps, m)
  \/ \E p \in Phones : SetConsent(p)
  \/ \E ready \in BOOLEAN : SaveProvider(ready)
  \/ \E w \in Senders : ClaimSms(w) \/ SenderStep(w) \/ StatementFails(w) \/ SenderCrashes(w)
  \/ RecoverStaleProcessing

SmsSpec == SmsInit /\ [][SmsNext]_smsVars
SmsFairness == \A w \in Senders : WF_smsVars(ClaimSms(w)) /\ WF_smsVars(SenderStep(w))

------------------------
(* Properties. *)

(* However often workers die, statements fail and operators recover rows in use, the provider
   accepts a message no more often than it was attempted, and no message is attempted more than
   eight times: a deferred attempt gives back only the attempt it took. *)
AcceptedWithinAttempts ==
  \A k \in Keys : sms[k] # NoRow => accepted[k] <= sms[k].attempts

(* A row is left in PROCESSING with nobody at work on it only by a crash or a failed statement:
   recovery by an operator is needed for nothing else. *)
OnlyAFaultStrandsSms ==
  \A k \in Keys : /\ sms[k] # NoRow /\ sms[k].status = "PROCESSING" /\ smsFaults = 0
                  => \E w \in Senders : k \in batch[w] \/ job[w].key = k

(* What the campaign list shows: a campaign that is over stays as it is, which rests on the queue
   being filled in one transaction and on no row coming back from SENT or FAILED. *)
RowsIn(c, status) == Cardinality({k \in CampaignRows(c) : sms[k].status = status})
ListedStatus(c) ==
  IF campaign[c] = NoRow THEN "none"
  ELSE IF RowsIn(c, "PROCESSING") > 0 THEN "PROCESSING"
  ELSE IF RowsIn(c, "PENDING") > 0 THEN "QUEUED"
  ELSE IF RowsIn(c, "FAILED") >= campaign[c] THEN "FAILED"
  ELSE IF RowsIn(c, "FAILED") > 0 /\ RowsIn(c, "SENT") > 0 THEN "PARTIAL"
  ELSE IF RowsIn(c, "SENT") >= campaign[c] THEN "COMPLETED" ELSE "QUEUED"
ListedOutcomeIsFinal ==
  [][\A c \in Campaigns : ListedStatus(c) \in {"FAILED", "PARTIAL", "COMPLETED"}
                            => ListedStatus(c)' = ListedStatus(c)]_smsVars

(* The outbox implements Delivery: SENT only after the provider accepted the message, SENT and
   FAILED for ever. *)
SmsPlace == [k \in Keys |->
  IF sms[k] = NoRow THEN "none"
  ELSE CASE sms[k].status = "PENDING" -> "queued" [] sms[k].status = "PROCESSING" -> "held"
         [] sms[k].status = "SENT" -> "done" [] sms[k].status = "FAILED" -> "dead"]
SmsDelivery == INSTANCE Delivery WITH Rows <- Keys, place <- SmsPlace, effects <- accepted
SmsDelivers == SmsDelivery!DeliverySpec

(* With the provider ready, no fault and no operator in between, the worker brings every message to
   an end. *)
SmsSettles ==
  \A k \in Keys : SmsPlace[k] \in {"queued", "held"}
                    ~> SmsPlace[k] \in {"done", "dead"} \/ smsFaults > 0 \/ ~provider
====
