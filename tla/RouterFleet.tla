---- MODULE RouterFleet ----
(* The rows of the routers (routers.service.ts), the keys their credentials are sealed with
   (secure-network-credentials.ts), and plans put on a router by hand
   (network-enforcement.service.ts). Several processes of the API run at once, and get a new key
   ring one after the other. *)
EXTENDS Integers, FiniteSets

CONSTANTS
  Processes,        \* processes of the API
  Admins,           \* requests to change the router that may be open at once
  HandEnforcers,    \* requests to put a plan on the router, and the command worker
  Plans,
  MaxSecrets,       \* bound on credentials entered
  MaxUpdates,       \* bound on changes of the router
  MaxEnforcements,  \* bound on enforcements and retries
  MaxSpeedChanges,  \* bound on changes of a plan's speed
  MaxFleetFaults    \* bound on steps that fail and processes that end

ASSUME FleetAssumption ==
  /\ MaxSecrets \in Nat /\ MaxUpdates \in Nat /\ MaxSpeedChanges \in Nat
  /\ "idle" \notin Processes /\ "nobody" \notin Processes

Vendors == {"MikroTik", "UniFi"}
NotGiven == "not given"
Vendor == Vendors \union {NotGiven}

VARIABLES
  device,      \* the row of the router
  ringStage,   \* the key ring of each process: the old key, both, or the new one
  update,      \* the locals of each change
  rotation,    \* the rotation that holds the row, or NoRotation
  sealedAnew,  \* a rotation to the new key has committed since the last old process went
  lastSecret, crossed, secrets, updates,
  command,     \* the persisted command of each plan, for the one address
  queue,       \* what the router does
  speed, hand,
  lastAnswer, applications,
  again,       \* plans whose command two were at work on, was lost behind the router, or retried
  enforcements, speedChanges, fleetFaults

deviceVars == <<device, ringStage, update, rotation, sealedAnew, lastSecret, crossed, secrets, updates>>
handVars == <<command, queue, speed, hand, lastAnswer, again, applications, enforcements, speedChanges, fleetFaults>>
fleetVars == <<deviceVars, handVars>>

------------------------
(* Key rings. *)

OldOnly == 1
Both == 2
NewOnly == 3

Ring(p) == IF ringStage[p] = OldOnly THEN {"old"} ELSE IF ringStage[p] = Both THEN {"old", "new"} ELSE {"new"}
ActiveKey(p) == IF ringStage[p] = OldOnly THEN "old" ELSE "new"

NoCredentials == [key |-> "none", secret |-> 0]
Seal(p, secret) == [key |-> ActiveKey(p), secret |-> secret]
Opens(p, sealed) == sealed.key \in Ring(p)

------------------------
(* The row of the router. *)

ResolveProtocol(vendor) == IF vendor = "MikroTik" THEN "MIKROTIK_REST" ELSE "UNIFI_NETWORK_API"
Protocols == {ResolveProtocol(v) : v \in Vendors}

NoUpdate == [at |-> "idle", vendor |-> NotGiven, protocol |-> NotGiven, credentials |-> "keep",
             readVendor |-> NotGiven, readProtocol |-> NotGiven, sealed |-> NoCredentials]
NoRotation == [by |-> "nobody", sealed |-> NoCredentials]

\* A router created by its vendor; networkSettings stands for the site or network id an
\* integration finds in capabilities.
FleetDeviceInit ==
  /\ \E v \in Vendors :
       device = [vendor |-> v, protocol |-> ResolveProtocol(v), catalogue |-> v,
                 networkSettings |-> FALSE, credentials |-> NoCredentials]
  /\ ringStage = [p \in Processes |-> OldOnly]
  /\ update = [a \in Admins |-> NoUpdate] /\ rotation = NoRotation /\ sealedAnew = FALSE
  /\ lastSecret = 0 /\ crossed = FALSE /\ secrets = 0 /\ updates = 0

\* Only a statement in the database writes what capabilities hold beside the catalogue.
SetNetworkSettings ==
  /\ ~device.networkSettings /\ device' = [device EXCEPT !.networkSettings = TRUE]
  /\ UNCHANGED <<ringStage, update, rotation, sealedAnew, lastSecret, crossed, secrets, updates, handVars>>

\* The request reads the row, and seals the credentials it brings with the key of its
\* process.
ReadForUpdate(a, p, vendor, protocol, credentials) ==
  /\ update[a].at = "idle" /\ updates < MaxUpdates /\ updates' = updates + 1
  /\ credentials = "enter" => secrets < MaxSecrets
  /\ secrets' = IF credentials = "enter" THEN secrets + 1 ELSE secrets
  /\ update' = [update EXCEPT ![a] =
       [at |-> p, vendor |-> vendor, protocol |-> protocol, credentials |-> credentials,
        readVendor |-> device.vendor, readProtocol |-> device.protocol,
        sealed |-> IF credentials = "enter" THEN Seal(p, secrets + 1) ELSE NoCredentials]]
  /\ crossed' = (crossed \/ \E b \in Admins \ {a} : update[b].at # "idle")
  /\ UNCHANGED <<device, ringStage, rotation, sealedAnew, lastSecret, handVars>>

NextProtocol(u) == IF u.protocol # NotGiven THEN u.protocol
                   ELSE IF u.vendor # NotGiven THEN ResolveProtocol(u.vendor)
                   ELSE u.readProtocol

\* The statement writes the protocol and the capabilities whatever the request brought.
WriteUpdate(a) ==
  /\ update[a].at # "idle" /\ rotation = NoRotation
  /\ LET u == update[a] IN
     /\ device' = [vendor |-> IF u.vendor # NotGiven THEN u.vendor ELSE device.vendor,
                   protocol |-> NextProtocol(u),
                   catalogue |-> IF u.vendor # NotGiven THEN u.vendor ELSE u.readVendor,
                   networkSettings |-> FALSE,
                   credentials |-> IF u.credentials = "clear" THEN NoCredentials
                                   ELSE IF u.credentials = "enter" THEN u.sealed ELSE device.credentials]
     /\ lastSecret' = IF u.credentials = "clear" THEN 0 ELSE IF u.credentials = "enter" THEN u.sealed.secret ELSE lastSecret
  /\ update' = [update EXCEPT ![a] = NoUpdate]
  /\ UNCHANGED <<ringStage, rotation, sealedAnew, crossed, secrets, updates, handVars>>

\* Rows are locked from the read to the commit; credentials that cannot be opened roll
\* the rotation back.
LockForRotation(p) ==
  /\ rotation = NoRotation /\ device.credentials # NoCredentials /\ Opens(p, device.credentials)
  /\ rotation' = [by |-> p, sealed |-> device.credentials]
  /\ UNCHANGED <<device, ringStage, update, sealedAnew, lastSecret, crossed, secrets, updates, handVars>>

Resealed(sealed, p) == Seal(p, sealed.secret)

CommitRotation ==
  /\ rotation # NoRotation
  /\ device' = [device EXCEPT !.credentials = Resealed(rotation.sealed, rotation.by)]
  /\ rotation' = NoRotation
  /\ sealedAnew' = \A p \in Processes : ringStage[p] # OldOnly
  /\ UNCHANGED <<ringStage, update, lastSecret, crossed, secrets, updates, handVars>>

\* A process starts again with the next ring: its requests are gone.  The old key is
\* taken away when a rotation has run with no process left on it alone.
Redeploy(p) ==
  /\ ringStage[p] # NewOnly /\ rotation.by # p
  /\ ringStage[p] = Both => sealedAnew
  /\ ringStage' = [ringStage EXCEPT ![p] = @ + 1]
  /\ update' = [a \in Admins |-> IF update[a].at = p THEN NoUpdate ELSE update[a]]
  /\ UNCHANGED <<device, rotation, sealedAnew, lastSecret, crossed, secrets, updates, handVars>>

------------------------
(* Plans put on the router by hand, for one client address. *)

NoCommand == [status |-> "ABSENT", speed |-> 0]
NoHand == [at |-> "idle", plan |-> NotGiven, speed |-> 0, worker |-> FALSE]
NoQueue == [plan |-> NotGiven, speed |-> 0]
StillExecutable == {"QUEUED", "SENT", "ACCEPTED", "RETRYING"}

FleetHandInit ==
  /\ command = [p \in Plans |-> NoCommand] /\ queue = NoQueue /\ speed = [p \in Plans |-> 1]
  /\ hand = [h \in HandEnforcers |-> NoHand]
  /\ lastAnswer = [plan |-> NotGiven, answer |-> "none"] /\ again = {}
  /\ applications = [p \in Plans |-> 0] /\ enforcements = 0 /\ speedChanges = 0 /\ fleetFaults = 0

HandTo(h, at) == hand' = [hand EXCEPT ![h].at = at]
Ends(h, answer) ==
  /\ hand' = [hand EXCEPT ![h] = NoHand]
  /\ lastAnswer' = [plan |-> hand[h].plan, answer |-> answer]
TakesUp(p) == again' = IF \E o \in HandEnforcers : hand[o].plan = p /\ hand[o].at \in {"apply", "executed"}
                       THEN again \union {p} ELSE again

ChangeSpeed(p) ==
  /\ speedChanges < MaxSpeedChanges /\ speedChanges' = speedChanges + 1
  /\ speed' = [speed EXCEPT ![p] = @ + 1]
  /\ UNCHANGED <<deviceVars, command, queue, hand, lastAnswer, again, applications, enforcements, fleetFaults>>

\* The router and the plan are read.
AskToEnforce(h, p) ==
  /\ hand[h].at = "idle" /\ enforcements < MaxEnforcements /\ enforcements' = enforcements + 1
  /\ hand' = [hand EXCEPT ![h] = [at |-> "queue", plan |-> p, speed |-> speed[p], worker |-> FALSE]]
  /\ UNCHANGED <<deviceVars, command, queue, speed, lastAnswer, again, applications, speedChanges, fleetFaults>>

\* Mutant: a command that was carried out counts as carried out now.
RefusalVerified(c, s) == IF c.speed # s THEN "failed" ELSE "verified"
Refusal(c, s) == IF c.speed # s THEN "failed" ELSE "already_terminal"

\* The correlation names the router, the address and the plan, never the occasion.
QueueByHand(h) ==
  /\ hand[h].at = "queue"
  /\ LET p == hand[h].plan
         c == command[p] IN
     \/ /\ c = NoCommand
        /\ command' = [command EXCEPT ![p] = [status |-> "QUEUED", speed |-> hand[h].speed]]
        /\ HandTo(h, "apply") /\ TakesUp(p) /\ UNCHANGED lastAnswer
     \/ /\ c # NoCommand /\ c.speed = hand[h].speed /\ c.status \in StillExecutable
        /\ HandTo(h, "apply") /\ TakesUp(p) /\ UNCHANGED <<command, lastAnswer>>
     \/ /\ c # NoCommand /\ (c.speed # hand[h].speed \/ c.status \notin StillExecutable)
        /\ Ends(h, Refusal(c, hand[h].speed)) /\ UNCHANGED <<command, again>>
  /\ UNCHANGED <<deviceVars, queue, speed, applications, enforcements, speedChanges, fleetFaults>>

\* A worker claims what is queued or to be retried, and what was sent long ago: its
\* holder is gone, or slow.  A request leaves its command QUEUED while it is at work.
WorkerTakes(h, p) ==
  /\ hand[h].at = "idle" /\ command[p].status \in {"QUEUED", "RETRYING", "SENT"}
  /\ command' = [command EXCEPT ![p].status = "SENT"]
  /\ hand' = [hand EXCEPT ![h] = [at |-> "apply", plan |-> p, speed |-> command[p].speed, worker |-> TRUE]]
  /\ TakesUp(p)
  /\ UNCHANGED <<deviceVars, queue, speed, lastAnswer, applications, enforcements, speedChanges, fleetFaults>>

\* An operator retries what failed, whatever the router does by now.
RetryPlan(p) ==
  /\ command[p].status = "FAILED" /\ enforcements < MaxEnforcements /\ enforcements' = enforcements + 1
  /\ command' = [command EXCEPT ![p].status = "RETRYING"] /\ again' = again \union {p}
  /\ UNCHANGED <<deviceVars, queue, speed, hand, lastAnswer, applications, speedChanges, fleetFaults>>

ApplyPlan(h) ==
  /\ hand[h].at = "apply"
  /\ queue' = [plan |-> hand[h].plan, speed |-> hand[h].speed]
  /\ applications' = [applications EXCEPT ![hand[h].plan] = @ + 1]
  /\ HandTo(h, "executed")
  /\ UNCHANGED <<deviceVars, command, speed, lastAnswer, again, enforcements, speedChanges, fleetFaults>>

\* The request to the router fails, before or after the router did what it asks.
ApplyPlanFails(h) ==
  /\ hand[h].at = "apply" /\ fleetFaults < MaxFleetFaults /\ fleetFaults' = fleetFaults + 1
  /\ queue' \in {queue, [plan |-> hand[h].plan, speed |-> hand[h].speed]}
  /\ applications' = IF queue' = queue THEN applications ELSE [applications EXCEPT ![hand[h].plan] = @ + 1]
  /\ command' = [command EXCEPT ![hand[h].plan].status = IF @ \in StillExecutable THEN "FAILED" ELSE @]
  /\ Ends(h, "failed")
  /\ UNCHANGED <<deviceVars, speed, again, enforcements, speedChanges>>

MarkPlanExecuted(h) ==
  /\ hand[h].at = "executed" /\ HandTo(h, "verify")
  /\ command' = [command EXCEPT ![hand[h].plan].status = IF @ \in StillExecutable THEN "EXECUTED" ELSE @]
  /\ UNCHANGED <<deviceVars, queue, speed, lastAnswer, again, applications, enforcements, speedChanges, fleetFaults>>

\* The request answers by what it read back; the row takes the first outcome.
VerifyPlan(h) ==
  /\ hand[h].at = "verify"
  /\ LET holds == queue = [plan |-> hand[h].plan, speed |-> hand[h].speed] IN
     /\ Ends(h, IF holds THEN "verified" ELSE "executed_unverified")
     /\ command' = [command EXCEPT ![hand[h].plan].status =
                      IF @ # "EXECUTED" THEN @ ELSE IF holds THEN "VERIFIED" ELSE "FAILED"]
  /\ UNCHANGED <<deviceVars, queue, speed, again, applications, enforcements, speedChanges, fleetFaults>>

\* The mark fails in the worker, or the read-back or its mark in either: the command is
\* failed.
CommandFails(h) ==
  /\ hand[h].at = "verify" \/ (hand[h].at = "executed" /\ hand[h].worker)
  /\ fleetFaults < MaxFleetFaults /\ fleetFaults' = fleetFaults + 1
  /\ LET open == IF hand[h].at = "verify" THEN {"EXECUTED"} ELSE StillExecutable IN
     command' = [command EXCEPT ![hand[h].plan].status = IF @ \in open THEN "FAILED" ELSE @]
  /\ Ends(h, "failed")
  /\ UNCHANGED <<deviceVars, queue, speed, again, applications, enforcements, speedChanges>>

\* The process ends, or a statement fails whose failure is not written down: the command
\* stays as it is, and is claimed again unless it has its outcome.
HandDies(h) ==
  /\ hand[h].at # "idle" /\ hand' = [hand EXCEPT ![h] = NoHand]
  /\ fleetFaults < MaxFleetFaults /\ fleetFaults' = fleetFaults + 1
  /\ again' = IF hand[h].at = "executed" THEN again \union {hand[h].plan} ELSE again
  /\ lastAnswer' = IF hand[h].at \in {"executed", "verify"} THEN [plan |-> hand[h].plan, answer |-> "none"] ELSE lastAnswer
  /\ UNCHANGED <<deviceVars, command, queue, speed, applications, enforcements, speedChanges>>

------------------------
DeviceNext ==
  \/ SetNetworkSettings \/ CommitRotation
  \/ \E a \in Admins : WriteUpdate(a)
  \/ \E a \in Admins, p \in Processes, v \in Vendor, c \in {"keep", "clear", "enter"} :
       \E protocol \in Protocols \union {NotGiven} : ReadForUpdate(a, p, v, protocol, c)
  \/ \E p \in Processes : LockForRotation(p) \/ Redeploy(p)
HandNext ==
  \/ \E p \in Plans : ChangeSpeed(p) \/ RetryPlan(p)
  \/ \E h \in HandEnforcers, p \in Plans : AskToEnforce(h, p) \/ WorkerTakes(h, p)
  \/ \E h \in HandEnforcers :
       QueueByHand(h) \/ ApplyPlan(h) \/ ApplyPlanFails(h) \/ MarkPlanExecuted(h) \/ VerifyPlan(h)
  \/ \E h \in HandEnforcers : CommandFails(h) \/ HandDies(h)

FleetInit == FleetDeviceInit /\ FleetHandInit
FleetNext == DeviceNext \/ HandNext
FleetSpec == FleetInit /\ [][FleetNext]_fleetVars

------------------------
(* Properties. *)

\* The router's row, its key and its command keep their types.
FleetTypeOK ==
  /\ device \in [vendor : Vendors, protocol : Protocols, catalogue : Vendors, networkSettings : BOOLEAN,
                 credentials : [key : {"none", "old", "new"}, secret : 0..MaxSecrets]]
  /\ ringStage \in [Processes -> OldOnly..NewOnly]
  /\ command \in [Plans -> [status : {"ABSENT", "EXECUTED", "VERIFIED", "FAILED"} \union StillExecutable,
                            speed : 0..(1 + MaxSpeedChanges)]]

\* The catalogue entry of a router is that of its vendor, unless two changes crossed: a
\* change writes the entry of the vendor it read before.
CatalogueFitsVendor == ~crossed => device.catalogue = device.vendor

\* The secret of a router is the last one entered: a rotation seals what it read again,
\* and no change comes between its read and its commit.
LastSecretIsKept == device.credentials.secret = lastSecret

\* Whoever may still run can open the credentials: the old key goes when a rotation with
\* no process on the old key alone has committed, and nothing is sealed with it after.
CredentialsCanBeOpened ==
  device.credentials # NoCredentials /\ (\A p \in Processes : ringStage[p] # OldOnly) =>
    \A p \in Processes : Opens(p, device.credentials)

\* What the last request answered is what the router does: once no request is between its
\* change of the router and its answer, "verified" was said of the plan that is there.
VerifiedIsOnTheRouter ==
  lastAnswer.answer = "verified" /\ (\A h \in HandEnforcers : hand[h].at \in {"idle", "queue", "apply"}) =>
    queue.plan = lastAnswer.plan

\* A plan that was replaced does not come back by itself: its command is used up by its
\* first outcome, and carried out once unless two were at work on it at the same time, or
\* whoever had reached the router was gone before that was marked, or an operator retried
\* it.  A request or a worker that ends before the router is reached costs nothing.
PlanIsAppliedOnce == \A p \in Plans \ again : applications[p] <= 1

FleetHolds ==
  /\ FleetTypeOK /\ CatalogueFitsVendor /\ LastSecretIsKept /\ CredentialsCanBeOpened
  /\ VerifiedIsOnTheRouter /\ PlanIsAppliedOnce
====
